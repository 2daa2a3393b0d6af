----------------------------- MODULE MC_History -----------------------------
(* History plugins with three accounts, the operation shapes of the        *)
(* impacted-accounts visitor, and four blocks.                             *)
EXTENDS History

MCAccounts == 1..3
MCNoName == 0

(* Op(t, a, b, c, apps): an operation of type t naming parties a, b, c *)
Op(t, a, b, c, apps) == [type |-> t, a |-> a, b |-> b, c |-> c, apps |-> apps]

(* a two-party transfer, transfer_to_vesting to oneself and to nobody    *)
(* (one impacted account each), a reply to another author, an operation   *)
(* the blacklist drops, a proxy cleared (the empty proxy is inserted), an  *)
(* escrow of three parties, a proposal_update changing only key approvals *)
(* (no impacted account) and one adding an approval, and two operations   *)
(* validate() rejects: a delegation to oneself and an escrow whose agent   *)
(* is a party                                                             *)
MCOps ==
  { Op("transfer",                1, 2, MCNoName, {}),
    Op("transfer_to_vesting",     2, 2, MCNoName, {}),
    Op("transfer_to_vesting",     1, MCNoName, MCNoName, {}),
    Op("content",                 3, 1, MCNoName, {}),
    Op("account_update",          3, MCNoName, MCNoName, {}),
    Op("account_witness_proxy",   2, MCNoName, MCNoName, {}),
    Op("escrow_transfer",         1, 2, 3, {}),
    Op("proposal_update",         1, MCNoName, MCNoName, {}),
    Op("proposal_update",         1, MCNoName, MCNoName, {3}),
    Op("delegate_vesting_shares", 1, 1, MCNoName, {}),
    Op("escrow_transfer",         1, 2, 2, {}) }

MCOpsList == {"account_update"}

(* track-account-range ["1","3"]: one range covering every account *)
MCTrackedRange == 1 :> 3

(* no track-account-range option: every account is tracked *)
MCNoRanges == <<>>
=============================================================================
