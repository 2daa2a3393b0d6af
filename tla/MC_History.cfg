CONSTANTS
  Accounts <- MCAccounts
  NoName <- MCNoName
  Ops <- MCOps
  FilterContent = TRUE
  Blacklist = TRUE
  OpsList <- MCOpsList
  StartBlock = 0
  HistoryCountBlocks = 2
  TrackedRanges <- MCNoRanges
  OperationHistoryFirst = TRUE
  MaxBlock = 3
  OpsPerBlock = 2
  QueryBound = 1
SPECIFICATION Spec
CONSTRAINT BlockBound
INVARIANT TypeOK HistoryRefsValid SequencesContiguous
