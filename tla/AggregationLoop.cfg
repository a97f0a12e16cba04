SPECIFICATION Spec
CONSTANTS
  Cwes = {w1}
  Techs <- MCTechs
  Frameworks = {d3fend}
  Blank = Blank
  Malformed = Malformed
  Given = Given
  NoId = NoId
  NoTime = NoTime
  Now = Now
  Responses <- MCResponses
  MaxResponses = 3
CHECK_DEADLOCK FALSE
INVARIANTS
  LoopsComputeAggregate
  OrderOnlyPicksWinners
  FailureCostsConfidence
PROPERTY MergingOnlyAdds
