---------------------------- MODULE MC_Proposal ----------------------------
(* Proposal instantiated for TLC: two accounts, three proposal identities, *)
(* two leaf effects, and the operations a transaction may carry.           *)
EXTENDS Proposal

CONSTANTS alice, bob, p1, p2, m1, m2

MaxTime == 2   \* blocks explored: creation, review start, expiry

MCAccounts == {alice, bob}
MCProps == {p1, p2}
MCAuthor == (p1 :> alice) @@ (p2 :> bob)
MCMarks == {m1, m2}

(* one approval of one kind, added or removed *)
Single(k, x) == [NoApprovals EXCEPT ![k] = {x}]
Changes ==
  { Single("active", alice), Single("master", bob), Single("regular", bob),
    Single("key", <<alice, "active">>) }

(* leaf effects needing alice's active, bob's master or bob's regular     *)
(* authority; Leaf2 and Leaf3 create the same object                      *)
Leaf1 == LeafOp(m1, alice, "active")
Leaf2 == LeafOp(m2, bob, "master")
Leaf3 == LeafOp(m2, bob, "regular")

(* packed proposal bodies: plain effects on each authority path, a mixed  *)
(* regular/active body (refused), a nested approval, a nested delete and  *)
(* a nested create                                                        *)
Bodies ==
  { <<Leaf1>>, <<Leaf3>>, <<Leaf1, Leaf2>>, <<Leaf1, Leaf3>>,
    <<UpdateOp(p1, Single("active", alice), NoApprovals)>>,
    <<DeleteOp(p2, alice)>>,
    <<CreateOp(p2, <<Leaf1>>, MaxTime, NoReview)>> }

(* bob's proposal p2 carries a regular-path effect or approves p1 *)
BodiesOfP2 == { <<Leaf3>>, <<UpdateOp(p1, Single("active", alice), NoApprovals)>> }

(* expiration is absolute so that the creation block does not matter; p1 *)
(* may also be created with a review period starting one block before it *)
(* expires; p1 takes any body, p2 the two that interact with p1          *)
MCOperations(t) ==
  {CreateOp(p1, b, MaxTime, r) : b \in Bodies, r \in {NoReview, MaxTime - 1}}
  \cup {CreateOp(p2, b, MaxTime, NoReview) : b \in BodiesOfP2}
  \cup {UpdateOp(p, c, NoApprovals) : p \in MCProps, c \in Changes}
  \cup {UpdateOp(p, NoApprovals, c) : p \in MCProps, c \in Changes}
  \cup {DeleteOp(p, a) : p \in MCProps, a \in MCAccounts}
  \cup {Leaf1, Leaf2, Leaf3}

TimeBound == now <= MaxTime
=============================================================================
