---------------------------- MODULE CustomProtocol ----------------------------
(***************************************************************************)
(* The custom protocol store of the custom_protocol_api plugin            *)
(* (custom_protocol_api_visitor.cpp, custom_protocol_api.cpp).  On         *)
(* post_apply_operation of a custom_operation, for every account in        *)
(* required_active_auths and then in required_regular_auths, the visitor   *)
(* scans that account's custom_protocol_objects in index order (account,   *)
(* custom_sequence_block_num descending): the entry of the operation's id  *)
(* is bumped and moved to the current block, and on the way every other    *)
(* entry at position >= custom-protocol-store-size is removed; with no     *)
(* such entry a new one is created.  An account's entries are a sequence   *)
(* in index order; among entries of one block, boost's ordered_non_unique  *)
(* puts an inserted or modified element after its equals.                  *)
(***************************************************************************)
EXTENDS Naturals, Sequences, FiniteSets

CONSTANTS
  Accounts,     \* account names
  ProtocolIds,  \* custom_operation ids
  Ops,          \* the custom operations that may be applied
  StoreSize,    \* custom-protocol-store-size (uint8_t, default 10)
  MaxBlock,     \* bound on head_block_num (a state constraint)
  OpsPerBlock   \* bound on the operations of one block

ASSUME StoreSize \in 1..255

VARIABLES
  store,       \* store[a]: a's custom_protocol_objects in index order
  head,        \* head_block_num()
  opsInBlock,  \* operations applied in the block being applied
  uses         \* uses[a][p]: p's operations signed by a since its entry was created

vars == <<store, head, opsInBlock, uses>>

(* a custom_operation: its id and its two sets of required accounts;      *)
(* validate() requires at least one account                                *)
CustomOps ==
  {op \in [id : ProtocolIds, active : SUBSET Accounts, regular : SUBSET Accounts] :
     op.active \cup op.regular # {}}

Init ==
  /\ store = [a \in Accounts |-> <<>>]
  /\ head = 0
  /\ opsInBlock = 0
  /\ uses = [a \in Accounts |-> [p \in ProtocolIds |-> 0]]

-----------------------------------------------------------------------------
Ids(s) == {s[i].id : i \in DOMAIN s}

(* The block number taken as head_block_num() itself. *)
CurrentBlockNumHead(h) == h

(* 1 + head_block_num(): "head_block_num contains previous block num" *)
CurrentBlockNum(h) == 1 + h

(* A scan that keeps one entry more than the store size. *)
RECURSIVE ScanOffByOne(_, _, _)
ScanOffByOne(s, id, k) ==
  IF s = <<>> THEN [found |-> FALSE, hit |-> <<>>, rest |-> <<>>]
  ELSE IF Head(s).id = id THEN [found |-> TRUE, hit |-> Head(s), rest |-> Tail(s)]
  ELSE LET r == ScanOffByOne(Tail(s), id, k + 1)
       IN [r EXCEPT !.rest = IF k > StoreSize THEN @ ELSE <<Head(s)>> \o @]

(* The scan without its match test. *)
RECURSIVE ScanNoMatch(_, _, _)
ScanNoMatch(s, id, k) ==
  IF s = <<>> THEN [found |-> FALSE, hit |-> <<>>, rest |-> <<>>]
  ELSE LET r == ScanNoMatch(Tail(s), id, k + 1)
       IN [r EXCEPT !.rest = IF k >= StoreSize THEN @ ELSE <<Head(s)>> \o @]

(* The visitor's while loop from position k (custom_protocol_counter after *)
(* its increment): stop at the entry of id; remove every other entry at a  *)
(* position >= store size.  rest is the sequence left, the hit taken out.  *)
RECURSIVE Scan(_, _, _)
Scan(s, id, k) ==
  IF s = <<>> THEN [found |-> FALSE, hit |-> <<>>, rest |-> <<>>]
  ELSE IF Head(s).id = id THEN [found |-> TRUE, hit |-> Head(s), rest |-> Tail(s)]
  ELSE LET r == Scan(Tail(s), id, k + 1)
       IN [r EXCEPT !.rest = IF k >= StoreSize THEN @ ELSE <<Head(s)>> \o @]

(* ordered_non_unique insertion: after every entry of a block not older  *)
(* than e's                                                               *)
InsertInOrder(s, e) ==
  LET n == Cardinality({i \in DOMAIN s : s[i].blk >= e.blk})
  IN SubSeq(s, 1, n) \o <<e>> \o SubSeq(s, n + 1, Len(s))

(* One pass of the visitor for account i: bump the entry of id to block   *)
(* blk, or create it with custom_sequence 1.                             *)
Visit(s, id, blk) ==
  LET r == Scan(s, id, 1)
  IN IF r.found
     THEN InsertInOrder(r.rest, [r.hit EXCEPT !.seq = @ + 1, !.blk = blk])
     ELSE InsertInOrder(r.rest, [id |-> id, seq |-> 1, blk |-> blk])

(* How often the accounts vector names a: once per set it is in. *)
Occurrences(op, a) == (IF a \in op.active THEN 1 ELSE 0) + (IF a \in op.regular THEN 1 ELSE 0)

(* operation_visitor::operator()(custom_operation), run on                *)
(* post_apply_operation; the custom_sequence_block_num it writes is       *)
(* head_block_num() + 1.  uses records what was applied.                    *)
ApplyCustomOperation(op) ==
  LET blk == CurrentBlockNum(head)
      Run(s, a) == IF Occurrences(op, a) = 2 THEN Visit(Visit(s, op.id, blk), op.id, blk)
                   ELSE IF Occurrences(op, a) = 1 THEN Visit(s, op.id, blk) ELSE s
      signer(a) == a \in op.active \cup op.regular
  IN /\ opsInBlock < OpsPerBlock
     /\ store' = [a \in Accounts |-> Run(store[a], a)]
     /\ uses' = [a \in Accounts |-> [p \in ProtocolIds |->
                  IF p \notin Ids(store'[a]) THEN 0
                  ELSE uses[a][p] + (IF p = op.id /\ signer(a) THEN 1 ELSE 0)]]
     /\ opsInBlock' = opsInBlock + 1
     /\ UNCHANGED head

(* A block is applied: head_block_num advances. *)
AppliedBlock ==
  /\ head' = head + 1
  /\ opsInBlock' = 0
  /\ UNCHANGED <<store, uses>>

Next ==
  \/ \E op \in Ops \cap CustomOps : ApplyCustomOperation(op)
  \/ AppliedBlock

Spec == Init /\ [][Next]_vars

(* The blocks explored. *)
BlockBound == head <= MaxBlock

-----------------------------------------------------------------------------
Entry == [id : ProtocolIds, seq : Nat \ {0}, blk : Nat]

(* get_account's lookup: the custom_sequence of the first entry of p in   *)
(* a's index range, or 0                                                  *)
CustomSequenceOf(a, p) ==
  LET hits == {i \in DOMAIN store[a] : store[a][i].id = p}
  IN IF hits = {} THEN 0
     ELSE store[a][CHOOSE i \in hits : \A j \in hits : i <= j].seq

(* Type invariant; an account's entries are in index order, newest block   *)
(* first, and carry a block number no later than the block being applied. *)
TypeOK ==
  /\ \A a \in Accounts :
       /\ \A i \in DOMAIN store[a] : store[a][i] \in Entry
       /\ \A i \in DOMAIN store[a] : store[a][i].blk \in 1..head + 1
       /\ \A i, j \in DOMAIN store[a] : i < j => store[a][i].blk >= store[a][j].blk
  /\ head \in Nat /\ opsInBlock \in 0..OpsPerBlock
  /\ uses \in [Accounts -> [ProtocolIds -> Nat]]

(* No account keeps more than custom-protocol-store-size entries, whether *)
(* the scan stopped early at a match or went through every entry.          *)
StoreBounded == \A a \in Accounts : Len(store[a]) <= StoreSize

(* An account has at most one entry per protocol id, so get_account's     *)
(* first match is the only one.                                            *)
ProtocolUnique == \A a \in Accounts : Cardinality(Ids(store[a])) = Len(store[a])

(* The custom_sequence get_account reports for (account, id) is the number *)
(* of custom operations with that id the account signed since its entry   *)
(* was created.                                                            *)
SequenceCountsOperations ==
  \A a \in Accounts, p \in ProtocolIds : CustomSequenceOf(a, p) = uses[a][p]

=============================================================================
