-------------------------------- MODULE Chain --------------------------------
(***************************************************************************)
(* The committee and invite evaluators on one ledger.  Both debit the same *)
(* account_object::balance (the committee request fee after                *)
(* CHAIN_HARDFORK_9, the balance an invite locks), both read the same      *)
(* has_hardfork(CHAIN_HARDFORK_9), and an account an invite registers is an *)
(* account like any other: it may then create committee requests and vote. *)
(* Each step is one transaction of one of the two components; the other's *)
(* objects are untouched.                                                  *)
(***************************************************************************)
EXTENDS Naturals, FiniteSets, Functions

CONSTANTS
  Accounts, NewNames, InviteKeys, Amounts, MinBalance, CreationFee,
  InitBalance, NoAccount,                        \* Invite's parameters
  Urls, Percents, Fee, PerTime, MaxRequests,     \* Committee's parameters
  Voters         \* bound: the accounts whose committee votes are explored

VARIABLES
  requests, votes, committee_requests, committee_fund, now,  \* committee objects
  invites, accounts, vesting,                                \* invite objects
  balance, hf9                                               \* shared

committeeVars == <<requests, votes, committee_requests, committee_fund, now>>
inviteVars    == <<invites, accounts, vesting>>
vars          == <<committeeVars, inviteVars, balance, hf9>>

I == INSTANCE Invite

C == INSTANCE Committee WITH Accounts <- Accounts \cup NewNames

Init == I!Init /\ C!InitRequests

(* A committee transaction.  Its evaluators look the creator or voter up   *)
(* in the account index, so only an existing account, an invited one       *)
(* included, creates, cancels or votes.  CHAIN_HARDFORK_9 is Invite's      *)
(* step, taken once for both.                                              *)
CommitteeStep ==
  \/ \E c \in accounts, url \in Urls : C!CreateRequest(c, url)
  \/ \E c \in accounts, id \in DOMAIN requests : C!CancelRequest(c, id)
  \/ \E v \in accounts \cap Voters, id \in DOMAIN requests, pct \in Percents :
       C!VoteRequest(v, id, pct)
  \/ C!Tick

Next ==
  \/ CommitteeStep /\ UNCHANGED inviteVars
  \/ I!Next /\ UNCHANGED committeeVars

Spec == Init /\ [][Next]_vars

-----------------------------------------------------------------------------
(* Type invariant of both components over the shared ledger. *)
TypeOK == I!TypeOK /\ C!RequestsTypeOK

(* The committee's vote records and counters stay consistent, whichever *)
(* accounts (invited ones included) vote, re-vote and cancel.            *)
VotesCounted == C!VotesCounted

(* Tokens are conserved across both components: liquid balances, vesting, *)
(* the balances held by unclaimed invites and the committee fund always   *)
(* add up to the initial supply, whichever of the two evaluators debited  *)
(* a balance.                                                             *)
TokensConserved ==
  SumFunction(balance) + SumFunction(vesting) + committee_fund +
  SumFunction([k \in DOMAIN invites |-> invites[k].balance])
    = InitBalance * Cardinality(Accounts)

(* Claimed invites went to existing accounts, and a claim is final. *)
ClaimedByExistingAccount == I!ClaimedByExistingAccount
ClaimIsFinal == I!ClaimIsFinal

=============================================================================
