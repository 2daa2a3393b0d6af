CONSTANTS
  alice = alice
  bob = bob
  p1 = p1
  p2 = p2
  p3 = p3
  m1 = m1
  NoReview = NoReview
  Accounts <- MCAccounts
  Props <- MCProps
  Author <- MCAuthor
  Marks <- MCMarks
  Operations <- MCOperations
  MaxDepth = 2
  Lifetime = 2

SPECIFICATION ReplaySpec
CONSTRAINT TimeBound
INVARIANT ReplayAgreement
