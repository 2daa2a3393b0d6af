CONSTANTS
  Accounts <- MCAccounts
  NoName <- MCNoName
  Ops <- MCOps
  FilterContent = TRUE
  Blacklist = TRUE
  OpsList <- MCOpsList
  StartBlock = 1
  HistoryCountBlocks = 2
  TrackedRanges <- MCNoRanges
  OperationHistoryFirst = TRUE
  MaxBlock = 4
  OpsPerBlock = 2
  QueryBound = 1
SPECIFICATION Spec
CONSTRAINT BlockBound
INVARIANT GetAccountHistoryDefined
