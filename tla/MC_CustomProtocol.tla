------------------------- MODULE MC_CustomProtocol -------------------------
(* Two accounts, three protocol ids, a store of two entries, three blocks *)
(* of two operations.                                                       *)
EXTENDS CustomProtocol

CONSTANTS alice, bob, p1, p2, p3

MCAccounts == {alice, bob}
MCProtocolIds == {p1, p2, p3}

(* each id signed by alice alone, by alice and bob, and by alice named in *)
(* both required_active_auths and required_regular_auths                   *)
MCOps ==
  UNION {{[id |-> p, active |-> {alice}, regular |-> {}],
          [id |-> p, active |-> {alice, bob}, regular |-> {}],
          [id |-> p, active |-> {alice}, regular |-> {alice}]} : p \in MCProtocolIds}
=============================================================================
