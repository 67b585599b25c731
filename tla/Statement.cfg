SPECIFICATION FairSpec
INVARIANTS StatementInv ResultExact NoStrayStatement HeldRowsBounded ColumnsKnown
PROPERTIES NothingDiscarded KeepsPromise ReadQueryReturns StoppedStatementEndsCall
CONSTANTS
  AskedRows <- MCAskedRows
  PageSizes <- MCPageSizes
  DefaultMaxRows = 2
  MaxResultRows = 3
  RowBound = 5
  TokenSpan = 3
CHECK_DEADLOCK FALSE
