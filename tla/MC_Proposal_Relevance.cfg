CONSTANTS
  alice = alice
  bob = bob
  p1 = p1
  p2 = p2
  m1 = m1
  m2 = m2
  NoReview = NoReview
  Accounts <- MCAccounts
  Props <- MCProps
  Author <- MCAuthor
  Marks <- MCMarks
  Operations <- MCOperations
  MaxDepth = 2
  Lifetime = 2


SPECIFICATION Spec
CONSTRAINT TimeBound
INVARIANT AvailableApprovalsRelevant
