------------------------------- MODULE Invite -------------------------------
(***************************************************************************)
(* Invite-based account bootstrap (invite_evaluator.cpp): create_invite    *)
(* locks part of the creator's balance under a one-time key; the holder of *)
(* the key's secret claims it once, by claim_invite_balance (to an         *)
(* existing account's balance), invite_registration (a new account's      *)
(* vesting) or use_invite_balance (an existing account's vesting, after    *)
(* CHAIN_HARDFORK_9).  Knowing the secret of key k is modelled by naming k; *)
(* the WIF decoding and key derivation are not modelled.                   *)
(***************************************************************************)
EXTENDS Naturals, FiniteSets, Functions, TLC

CONSTANTS
  Accounts,       \* accounts that exist from the start
  NewNames,       \* names an invite_registration may create
  InviteKeys,     \* invite public keys (never the blank key)
  Amounts,        \* invite balances offered
  MinBalance,     \* median_props.create_invite_min_balance (after HF9)
  CreationFee,    \* median_props.account_creation_fee (before HF9)
  InitBalance,    \* every initial account's liquid balance
  NoAccount       \* the receiver of an unclaimed invite

Names == Accounts \cup NewNames

VARIABLES
  invites,    \* invite_index: invite_key -> invite_object
  accounts,   \* the names with an account_object
  balance,    \* account_object::balance
  vesting,    \* tokens moved to vesting by create_vesting (shares not modelled)
  hf9         \* has_hardfork(CHAIN_HARDFORK_9)

vars == <<invites, accounts, balance, vesting, hf9>>

Init ==
  /\ invites = <<>>
  /\ accounts = Accounts
  /\ balance = [n \in Names |-> IF n \in Accounts THEN InitBalance ELSE 0]
  /\ vesting = [n \in Names |-> 0]
  /\ hf9 = FALSE

-----------------------------------------------------------------------------
(* A balance check that always passes. *)
FundedAlways(c, amt) == TRUE

(* creator.balance >= o.balance *)
Funded(c, amt) == balance[c] >= amt

(* create_invite_evaluator::do_apply *)
CreateInvite(c, k, amt) ==
  /\ c \in accounts
  /\ Funded(c, amt)
  /\ IF hf9 THEN amt >= MinBalance ELSE amt >= CreationFee
  /\ k \notin DOMAIN invites
  /\ balance' = [balance EXCEPT ![c] = @ - amt]
  /\ invites' = invites @@ (k :> [creator |-> c, balance |-> amt, status |-> 0,
                                    receiver |-> NoAccount, claimed_balance |-> 0])
  /\ UNCHANGED <<accounts, vesting, hf9>>

(* A claim that records the receiver but leaves the balance in the invite. *)
SettleKeepBalance(inv, st, r) ==
  [inv EXCEPT !.status = st, !.receiver = r, !.claimed_balance = inv.balance]

(* the modify of a claimed invite: terminal status, receiver, the balance  *)
(* moved to claimed_balance                                               *)
Settle(inv, st, r) ==
  [inv EXCEPT !.status = st, !.receiver = r, !.claimed_balance = inv.balance,
              !.balance = 0]

(* A status test that lets a claimed invite be claimed again. *)
UnclaimedAny(inv) == TRUE

(* itr->status == 0, the test every claim path makes *)
Unclaimed(inv) == inv.status = 0

(* claim_invite_balance_evaluator::do_apply *)
ClaimInviteBalance(i, r, k) ==
  /\ i \in accounts /\ r \in accounts
  /\ k \in DOMAIN invites
  /\ Unclaimed(invites[k])
  /\ balance' = [balance EXCEPT ![r] = @ + invites[k].balance]
  /\ invites' = [invites EXCEPT ![k] = Settle(@, 1, r)]
  /\ UNCHANGED <<accounts, vesting, hf9>>

(* An account create that does not enforce the unique name index. *)
NameAvailableAlways(name) == TRUE

(* create<account_object> throws when the by_name index already holds name *)
NameAvailable(name) == name \notin accounts

(* invite_registration_evaluator::do_apply: the new account, its           *)
(* authorities and metadata are created (a taken name makes the create    *)
(* throw), and create_vesting moves the invite balance into vesting; the  *)
(* conversion to shares at the vesting price is not modelled, only the    *)
(* tokens moved                                                           *)
InviteRegistration(i, k, name) ==
  /\ k \in DOMAIN invites
  /\ i \in accounts
  /\ Unclaimed(invites[k])
  /\ NameAvailable(name)
  /\ accounts' = accounts \cup {name}
  /\ vesting' = [vesting EXCEPT ![name] = @ + invites[k].balance]
  /\ invites' = [invites EXCEPT ![k] = Settle(@, 2, name)]
  /\ UNCHANGED <<balance, hf9>>

(* use_invite_balance_evaluator::do_apply *)
UseInviteBalance(i, r, k) ==
  /\ hf9
  /\ i \in accounts /\ r \in accounts
  /\ k \in DOMAIN invites
  /\ Unclaimed(invites[k])
  /\ vesting' = [vesting EXCEPT ![r] = @ + invites[k].balance]
  /\ invites' = [invites EXCEPT ![k] = Settle(@, 3, r)]
  /\ UNCHANGED <<accounts, balance, hf9>>

(* The chain reaches CHAIN_HARDFORK_9; it stays applied. *)
Hardfork9 ==
  /\ ~hf9
  /\ hf9' = TRUE
  /\ UNCHANGED <<invites, accounts, balance, vesting>>

Next ==
  \/ \E c \in Names, k \in InviteKeys, amt \in Amounts : CreateInvite(c, k, amt)
  \/ \E i, r \in Names, k \in InviteKeys : ClaimInviteBalance(i, r, k)
  \/ \E i, n \in Names, k \in InviteKeys : InviteRegistration(i, k, n)
  \/ \E i, r \in Names, k \in InviteKeys : UseInviteBalance(i, r, k)
  \/ Hardfork9

Spec == Init /\ [][Next]_vars

-----------------------------------------------------------------------------
Invite == [creator : Names, balance : Nat, status : 0..3,
           receiver : Names \cup {NoAccount}, claimed_balance : Nat]

(* Type invariant; balances never go negative, which rests on the balance *)
(* check of create_invite.                                                 *)
TypeOK ==
  /\ DOMAIN invites \subseteq InviteKeys /\ \A k \in DOMAIN invites : invites[k] \in Invite
  /\ Accounts \subseteq accounts /\ accounts \subseteq Names
  /\ balance \in [Names -> Nat] /\ vesting \in [Names -> Nat]
  /\ hf9 \in BOOLEAN

(* Tokens are conserved: liquid balances, vesting and the balances held by *)
(* unclaimed invites always add up to the initial supply, whichever claim  *)
(* path each invite takes.                                                 *)
TokensConserved ==
  SumFunction(balance) + SumFunction(vesting) +
  SumFunction([k \in DOMAIN invites |-> invites[k].balance])
    = InitBalance * Cardinality(Accounts)

(* A claimed invite is final: once any of the three claim paths has set a  *)
(* non-zero status, no later step changes the invite (no double claim, no  *)
(* second receiver).                                                       *)
ClaimIsFinal ==
  [][\A k \in DOMAIN invites :
       invites[k].status # 0 => k \in DOMAIN invites' /\ invites'[k] = invites[k]]_vars

(* A claimed invite went to an account that exists, and every registered   *)
(* name was created by exactly one invite.                                 *)
ClaimedByExistingAccount ==
  /\ \A k \in DOMAIN invites : invites[k].status # 0 => invites[k].receiver \in accounts
  /\ \A n \in accounts \ Accounts :
       Cardinality({k \in DOMAIN invites : invites[k].status = 2 /\ invites[k].receiver = n}) = 1

=============================================================================
