------------------------------- MODULE History -------------------------------
(***************************************************************************)
(* The two history plugins observing block application.                   *)
(*   operation_history/plugin.cpp: on pre_apply_operation, stores the      *)
(*     operation as an operation_object (subject to the white/black list   *)
(*     and history-start-block), sets note.stored_in_db and note.db_id;    *)
(*     on applied_block, purges objects older than history-count-blocks.   *)
(*   account_history/plugin.cpp: on pre_apply_operation, if the note was   *)
(*     stored, appends one account_history_object per impacted (tracked)  *)
(*     account with the next per-account sequence; on applied_block,       *)
(*     purges by block; get_account_history pages an account's entries.    *)
(* Account names are numbers so that the by_account index order and the   *)
(* tracked ranges compare them as the string order does.                   *)
(***************************************************************************)
EXTENDS Naturals, FiniteSets, Functions, TLC

CONSTANTS
  Accounts,              \* account names, ordered
  NoName,                \* the empty account_name_type, below every name
  Ops,                   \* operations that may be applied
  FilterContent,         \* history-whitelist-ops or -blacklist-ops given
  Blacklist,             \* the list given is a blacklist
  OpsList,               \* the operation types in that list
  StartBlock,            \* history-start-block
  HistoryCountBlocks,    \* history-count-blocks
  TrackedRanges,         \* track-account-range: flat_map first -> second
  OperationHistoryFirst, \* operation_history's handler runs before account_history's
  MaxBlock,              \* bound on head_block_num (a state constraint)
  OpsPerBlock,           \* bound on the operations of one block
  QueryBound             \* get_account_history's from and limit range over 0..QueryBound

VARIABLES
  opObjects,       \* operation_index: id -> operation_object
  nextId,          \* the id chainbase gives the next operation_object
  accountHistory,  \* account_history_index: a set of account_history_object
  head,            \* head_block_num()
  opsInBlock       \* operations applied in the block being applied

vars == <<opObjects, nextId, accountHistory, head, opsInBlock>>

Init ==
  /\ opObjects = <<>>
  /\ nextId = 0
  /\ accountHistory = {}
  /\ head = 0
  /\ opsInBlock = 0

-----------------------------------------------------------------------------
(* get_impacted_account_visitor: the accounts an operation touches.  An   *)
(* operation is a record: its type, the parties a, b and c it names (NoName *)
(* when absent) and apps, the approval lists of a proposal_update.  The     *)
(* generic case and the one-party overloads give a alone; the two- and      *)
(* three-party overloads (transfer, vote, witness vote and proxy,           *)
(* delegation, escrow, account sale) insert every party as given, so a      *)
(* proxy-clearing account_witness_proxy inserts the empty name;             *)
(* transfer_to_vesting adds the receiver only when it is given and differs  *)
(* from the sender, content the parent author only when there is one;       *)
(* proposal_update gives the union of its six approval lists, which is      *)
(* empty when it only changes key approvals.                                *)
PairOps   == {"account_create", "vote", "transfer", "account_witness_vote",
              "account_witness_proxy", "fill_vesting_withdraw",
              "content_benefactor_reward", "delegate_vesting_shares",
              "paid_subscription_action", "cancel_paid_subscription",
              "set_account_price", "set_subaccount_price", "buy_account",
              "bid", "outbid"}
TripleOps == {"escrow_transfer", "escrow_approve", "escrow_dispute",
              "escrow_release", "target_account_sale", "account_sale",
              "expire_escrow_ratification"}

ImpactedAccounts(op) ==
  CASE op.type \in PairOps              -> {op.a, op.b}
    [] op.type \in TripleOps            -> {op.a, op.b, op.c}
    [] op.type = "transfer_to_vesting" -> {op.a} \cup ({op.b} \ {NoName, op.a})
    [] op.type = "content"             -> {op.a} \cup ({op.b} \ {NoName})
    [] op.type = "proposal_update"     -> op.apps
    [] OTHER                           -> {op.a}

(* The operations' validate(), over the parties (amounts, assets, memos    *)
(* and permlinks are not modelled): validate_account_name rejects the      *)
(* empty name, so a required party is given; an optional one (the         *)
(* transfer_to_vesting receiver, the parent author, the proxy) may be      *)
(* empty.                                                                   *)
TransferValidate(op)          == op.a # NoName /\ op.b # NoName
TransferToVestingValidate(op) == op.a # NoName
ContentValidate(op)           == op.a # NoName
AccountWitnessProxyValidate(op) == op.a # NoName /\ op.b # op.a
EscrowTransferValidate(op) ==
  /\ NoName \notin {op.a, op.b, op.c}
  /\ op.c \notin {op.a, op.b}
DelegateVestingSharesValidate(op) ==
  /\ NoName \notin {op.a, op.b}
  /\ op.a # op.b

(* operation validation dispatching to the operation's own validate(); the *)
(* others validate their first party's name                               *)
Validate(op) ==
  CASE op.type = "transfer"                -> TransferValidate(op)
    [] op.type = "transfer_to_vesting"     -> TransferToVestingValidate(op)
    [] op.type = "content"                 -> ContentValidate(op)
    [] op.type = "account_witness_proxy"   -> AccountWitnessProxyValidate(op)
    [] op.type = "escrow_transfer"         -> EscrowTransferValidate(op)
    [] op.type = "delegate_vesting_shares" -> DelegateVestingSharesValidate(op)
    [] OTHER                               -> op.a # NoName

(* operation_visitor_filter: a listed type is stored iff the list is a     *)
(* whitelist, an unlisted one iff it is a blacklist                        *)
PassesFilter(op) == ~FilterContent \/ ((op.type \in OpsList) # Blacklist)

(* operation_visitor: start_block <= head_block_num() *)
StoresOperation(op) == PassesFilter(op) /\ StartBlock <= head

(* The account handler ignoring note.stored_in_db. *)
StoredInDbIgnored(stored) == TRUE

(* note.stored_in_db as the account handler sees it: set only if the       *)
(* operation_history handler already ran on this note                      *)
StoredInDb(stored) == stored /\ OperationHistoryFirst

(* the tracked_accounts test: lower_bound(item) is the range with the      *)
(* least first >= item, and the item must lie within that range            *)
IsTracked(item) ==
  \/ DOMAIN TrackedRanges = {}
  \/ \E f \in DOMAIN TrackedRanges :
       /\ f >= item
       /\ \A g \in DOMAIN TrackedRanges : g >= item => f <= g
       /\ f <= item /\ item <= TrackedRanges[f]

EntriesOf(a) == {e \in accountHistory : e.account = a}

(* A sequence taken as the number of the account's entries. *)
NextSequenceCount(a) == Cardinality(EntriesOf(a))

(* lower_bound((account, uint32_t(-1))) on by_account (sequence           *)
(* descending) finds the account's highest sequence; the next is one more, *)
(* or 0 when the account has no entry                                      *)
NextSequence(a) ==
  IF EntriesOf(a) = {} THEN 0
  ELSE 1 + CHOOSE s \in {e.sequence : e \in EntriesOf(a)} :
             \A e \in EntriesOf(a) : e.sequence <= s

(* database::apply_operation's pre_apply_operation signal with both        *)
(* handlers: the operation is applied in block head + 1                     *)
ApplyOperation(op) ==
  LET blk    == head + 1
      stored == StoresOperation(op)
      new    == IF StoredInDb(stored)
                THEN {[account |-> a, block |-> blk, sequence |-> NextSequence(a),
                       op |-> nextId] : a \in {x \in ImpactedAccounts(op) : IsTracked(x)}}
                ELSE {}
  IN /\ opsInBlock < OpsPerBlock
     /\ opObjects' = IF stored THEN opObjects @@ (nextId :> [block |-> blk, op |-> op])
                     ELSE opObjects
     /\ nextId' = IF stored THEN nextId + 1 ELSE nextId
     /\ accountHistory' = accountHistory \cup new
     /\ opsInBlock' = opsInBlock + 1
     /\ UNCHANGED head

(* operation_history::purge_old_history: need_block = head - count *)
OpNeedBlock(h) == h - HistoryCountBlocks

(* The account purge bound with the sign of its + 1 slipped. *)
AccountNeedBlockSignSlip(h) == h - HistoryCountBlocks - 1

(* account_history::purge_old_history: need_block = head - count + 1 *)
AccountNeedBlock(h) == h - HistoryCountBlocks + 1

(* applied_block: the new head, then both purges (when count <= head)     *)
AppliedBlock ==
  LET h == head + 1
      purge == HistoryCountBlocks <= h
  IN /\ head' = h
     /\ opsInBlock' = 0
     /\ opObjects' = IF purge
                     THEN [id \in {i \in DOMAIN opObjects : opObjects[i].block > OpNeedBlock(h)}
                             |-> opObjects[id]]
                     ELSE opObjects
     /\ accountHistory' = IF purge
                          THEN {e \in accountHistory : e.block > AccountNeedBlock(h)}
                          ELSE accountHistory
     /\ UNCHANGED nextId

Next ==
  \/ \E op \in {o \in Ops : Validate(o)} : ApplyOperation(op)
  \/ AppliedBlock

Spec == Init /\ [][Next]_vars

(* The blocks explored: operations of blocks 1..MaxBlock, the last block  *)
(* applied with no operation after it.                                     *)
BlockBound == head < MaxBlock \/ (head = MaxBlock /\ opsInBlock = 0)

-----------------------------------------------------------------------------
(* get_account_history(account, from, limit) over the by_account order     *)
(* (account ascending, sequence descending).  itr is                       *)
(* lower_bound((account, from)), the first entry not before that key; end  *)
(* is upper_bound((account, max(0, itr->sequence - limit))).  The loop     *)
(* copies [itr, end).  The result is undefined when itr is the end of the  *)
(* index (itr->sequence is read) or when end lies before itr (the loop     *)
(* walks off the index).                                                   *)
NotBeforeKey(e, a, s) == e.account > a \/ (e.account = a /\ e.sequence <= s)
AfterKey(e, a, s)     == e.account > a \/ (e.account = a /\ e.sequence < s)
Precedes(x, y) == x.account < y.account \/ (x.account = y.account /\ x.sequence > y.sequence)
FirstOf(S) == CHOOSE x \in S : \A y \in S \ {x} : Precedes(x, y)

GetAccountHistory(a, from, limit) ==
  LET lo == {e \in accountHistory : NotBeforeKey(e, a, from)}
  IN IF lo = {} THEN [defined |-> FALSE, result |-> {}]
     ELSE LET itr  == FirstOf(lo)
              low  == IF itr.sequence > limit THEN itr.sequence - limit ELSE 0
              hi   == {e \in accountHistory : AfterKey(e, a, low)}
              past == hi = {} \/ Precedes(itr, FirstOf(hi)) \/ itr = FirstOf(hi)
          IN IF past
             THEN [defined |-> TRUE,
                   result |-> {e \in accountHistory :
                                 /\ ~Precedes(e, itr)
                                 /\ hi # {} => Precedes(e, FirstOf(hi))}]
             ELSE [defined |-> FALSE, result |-> {}]

-----------------------------------------------------------------------------
Entry == [account : Accounts \cup {NoName}, block : Nat, sequence : Nat, op : Nat]

(* Type invariant. *)
TypeOK ==
  /\ DOMAIN opObjects \subseteq 0..(nextId - 1)
  /\ \A id \in DOMAIN opObjects : opObjects[id].op \in Ops /\ opObjects[id].block \in 1..head + 1
  /\ accountHistory \subseteq Entry /\ \A e \in accountHistory : e.op < nextId
  /\ head \in Nat /\ opsInBlock \in 0..OpsPerBlock

(* Every account_history_object refers, by note.db_id, to an              *)
(* operation_object that is still stored, of the same block, and that      *)
(* impacted that account: database.get(itr->op) in get_account_history     *)
(* finds it.  It rests on the stored_in_db early return, the handler order *)
(* and account history purging no later than operation history.            *)
HistoryRefsValid ==
  \A e \in accountHistory :
    /\ e.op \in DOMAIN opObjects
    /\ opObjects[e.op].block = e.block
    /\ e.account \in ImpactedAccounts(opObjects[e.op].op)

(* An account's stored sequences are unique and contiguous, and follow    *)
(* block order, whatever the purges removed: the by_account index stays    *)
(* unique and paging by sequence sees no gaps.                             *)
SequencesContiguous ==
  \A a \in Accounts \cup {NoName} :
    LET S == {e.sequence : e \in EntriesOf(a)}
    IN /\ Cardinality(S) = Cardinality(EntriesOf(a))
       /\ \A s, t \in S : s <= t => s..t \subseteq S
       /\ \A x, y \in EntriesOf(a) : x.sequence < y.sequence => x.block <= y.block

(* The recent operations are all in account history: every stored         *)
(* operation of the last history-count-blocks - 1 blocks (what account     *)
(* history keeps) is in the history of every account it impacts that       *)
(* Track selects.                                                          *)
CompleteFor(Track(_)) ==
  \A id \in DOMAIN opObjects :
    opObjects[id].block + HistoryCountBlocks > head + 1 =>
      \A a \in {x \in ImpactedAccounts(opObjects[id].op) : Track(x)} :
        \E e \in accountHistory : e.account = a /\ e.op = id

(* track-account-range ["from","to"] tracks every account from..to: every  *)
(* recent stored operation is in the history of each impacted account      *)
(* inside a configured range.                                              *)
InTrackedRange(a) ==
  DOMAIN TrackedRanges = {} \/ \E f \in DOMAIN TrackedRanges : f <= a /\ a <= TrackedRanges[f]

TrackedRangesRecorded == CompleteFor(InTrackedRange)

(* get_account_history on an account that has history, with from >= limit, *)
(* is defined: lower_bound finds an entry and the loop reaches end.        *)
GetAccountHistoryDefined ==
  \A a \in Accounts, from, limit \in 0..QueryBound :
    EntriesOf(a) # {} /\ from >= limit => GetAccountHistory(a, from, limit).defined

=============================================================================
