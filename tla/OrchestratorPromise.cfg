SPECIFICATION FairSpec
CONSTANTS
  Cwes = {w1}
  Techs <- MCTechs
  Frameworks = {d3fend}
  Blank = Blank
  Malformed = Malformed
  Given = Given
  NoId = NoId
  NoTime = NoTime
  Now = Now
  MaxResultRows = 1
  MaxRows = 2
  Deadline = 1
  WorkTicks = 1
  RequestFields = {"cveId", "cweId", "attackId"}
  ErrorDataConforms = {"systems"}
  MaxRetries = 1
  RetryBackoff <- MCRetryBackoff
  MaxBackoff = 1
  AttemptTicks = 1
PROPERTIES
  EveryRequestAnswered
  ImplementsCompositeAnswer
