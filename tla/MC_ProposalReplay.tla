------------------------- MODULE MC_ProposalReplay -------------------------
(* ProposalReplay with three proposals whose bodies form an approval chain: *)
(* p3 approves p2, p2 approves p1, p1 carries a leaf effect.               *)
EXTENDS ProposalReplay, TLC

CONSTANTS alice, bob, p1, p2, p3, m1

MaxTime == 2

MCAccounts == {alice, bob}
MCProps == {p1, p2, p3}
MCAuthor == (p1 :> alice) @@ (p2 :> bob) @@ (p3 :> alice)
MCMarks == {m1}

Approve(p) == UpdateOp(p, [NoApprovals EXCEPT !.active = {alice}], NoApprovals)
Leaf1 == LeafOp(m1, alice, "active")
Bodies == { <<Leaf1>>, <<Approve(p1)>>, <<Approve(p2)>> }

MCOperations(t) ==
  {CreateOp(p, b, MaxTime, NoReview) : p \in MCProps, b \in Bodies}
  \cup {Approve(p) : p \in MCProps}
  \cup {Leaf1}

TimeBound == now <= MaxTime
=============================================================================
