CONSTANTS
  alice = alice
  bob = bob
  p1 = p1
  p2 = p2
  p3 = p3
  Accounts <- MCAccounts
  ProtocolIds <- MCProtocolIds
  Ops <- MCOps
  StoreSize = 2
  MaxBlock = 2
  OpsPerBlock = 2
SPECIFICATION Spec
CONSTRAINT BlockBound
INVARIANT SequenceCountsOperations
