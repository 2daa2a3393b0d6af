CONSTANTS
  alice = alice
  bob = bob
  carol = carol
  k1 = k1
  k2 = k2
  u1 = u1
  u2 = u2
  NoAccount = NoAccount
  Accounts <- MCAccounts
  NewNames <- MCNewNames
  InviteKeys <- MCInviteKeys
  Urls <- MCUrls
  Amounts = {1}
  MinBalance = 2
  CreationFee = 1
  InitBalance = 1
  Percents = {10, 50}
  Fee = 1
  PerTime = 1
  MaxRequests = 2
  Voters <- MCAccounts

SPECIFICATION Spec
CONSTRAINT TimeBound
SYMMETRY Symmetry
INVARIANT TypeOK VotesCounted TokensConserved ClaimedByExistingAccount
PROPERTY ClaimIsFinal
