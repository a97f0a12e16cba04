CONSTANTS
  None = None
  Anon = Anon
  Bare = Bare
  Ids <- MCIds
  Results <- MCResults
  MaxMixedRows = 1
SPECIFICATION Spec
INVARIANTS
  AnswersTypeOK
  LoopsComputeData
  ProvenanceMatchesData
  ShownIsSourced
