SPECIFICATION FairSpec
INVARIANTS StrandedOnlyByForce
PROPERTIES BegunQuerySettles
CONSTANTS
  Requests = {c1}
  Streams = {}
  Call = c1
  AskedRows <- MCAskedRows
  PageSizes <- MCPageSizes
  DefaultMaxRows = 1
  MaxResultRows = 1
  RowBound = 2
  TokenSpan = 2
CHECK_DEADLOCK FALSE
