SPECIFICATION Spec
CONSTANTS
  Cwes = {w1, w2}
  Techs <- MCTechs
  Frameworks = {d3fend}
  Blank = Blank
  Malformed = Malformed
  Given = Given
  NoId = NoId
  NoTime = NoTime
  Now = Now
  MaxResultRows = 2
  MaxRows = 3
  Deadline = 2
  WorkTicks = 2
  RequestFields = {"cpeName", "cveId", "cweId", "attackId"}
  ErrorDataConforms = {"systems"}
  MaxRetries = 1
  RetryBackoff <- MCRetryBackoff
  MaxBackoff = 1
  AttemptTicks = 1
SYMMETRY CweSymmetry
INVARIANTS
  TypeOK
  StopsAtFirstError
  AskedAboutWhatWasFound
  PlanNeverStarved
  AnswerAccountsForAgents
  OkIsSupported
  OverrunBounded
  TimeoutMeansUnfinished
