SPECIFICATION Spec
CONSTANTS
  Tokens <- MCTokens
  Canonical <- MCCanonical
  MentionLists <- MCMentionLists
  Banned <- MCBanned
  Cwes = {}
  Techs = {}
  Frameworks = {d3fend}
  Blank = Blank
  Malformed = Malformed
  Given = Given
  NoId = NoId
  NoTime = NoTime
  Now = Now
  MaxResultRows = 1
INVARIANTS
  UnsupportedIsBadRequest
