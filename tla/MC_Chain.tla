------------------------------ MODULE MC_Chain ------------------------------
(* Committee and invites on one ledger: two accounts with one token each,  *)
(* one name an invite may register, two invite keys, two urls, two        *)
(* percents and a one-block cooldown.  One token is either locked in an   *)
(* invite or paid as a request fee after CHAIN_HARDFORK_9, not both; the  *)
(* invited account may create requests, and the two initial accounts vote. *)
EXTENDS Chain, TLC

CONSTANTS alice, bob, carol, k1, k2, u1, u2

MaxTime == 1

MCAccounts == {alice, bob}
MCNewNames == {carol}
MCInviteKeys == {k1, k2}
MCUrls == {u1, u2}

TimeBound == now <= MaxTime

(* the initial accounts start alike and the keys are only compared *)
Symmetry == Permutations(MCAccounts) \cup Permutations(MCInviteKeys) \cup Permutations(MCUrls)
=============================================================================
