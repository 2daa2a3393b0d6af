# TLA+ models of the viz-core state-transition core

This directory holds TLA+ specifications of the parts of `src/` that change
ledger state: the proposal (multi-signature deferred transaction) evaluators,
the committee request workflow and the invite workflow. It also models the
plugins that observe or drive the chain (account and operation history, the
custom protocol store, witness block production) and the RocksDB file-deletion
guard used for backups, with the TLC configurations that check them. `PROJECT.json` lists every component, run,
mutant, finding and hazard, and maps every definition to the source lines it
translates.

## 1. The system

### Components, their state and their operations

| Component | Source | State it keeps | Operations |
|---|---|---|---|
| Evaluator dispatch | `chain_evaluator.hpp` | one evaluator per operation; `depth_` on the two proposal evaluators | `do_apply` per operation |
| Proposal lifecycle | `proposal_evaluator.cpp` | `proposal_object` (author/title, body, expiration, optional review time, required and available approval sets), `required_approval_object` edges | `proposal_create`, `proposal_update`, `proposal_delete`; nested execution via `push_proposal`; expiry in `clear_expired_proposals` (outside src) |
| Authority satisfaction | `proposal_evaluator.cpp:21-79` (+ `verify_authority`, outside src) | none (pure) | retry loop over the verify verdicts |
| Committee | `committee_evaluator.cpp` | `committee_request_object`, `committee_vote_object`, `dgp.committee_requests`, `dgp.committee_fund`, balances | create, cancel, vote |
| Invites | `invite_evaluator.cpp` | `invite_object`, accounts, balances, vesting | create, claim, registration, use |
| Chain objects | `chain_objects.hpp` | escrow and other objects and their indexes | (evaluators outside src) |
| Global properties | `global_property_object.hpp` | dynamic global properties | written by evaluators and block processing |
| Validators | `chain_operations.cpp` | none | `validate()` per operation; their party checks filter the operations `History` applies |
| Account / operation history | `plugins/account_history`, `plugins/operation_history` | history objects per account / operation | `on_operation` handlers, purge, `get_account_history` |
| Custom protocol API | `plugins/custom_protocol_api` | per-account custom protocol sequences, trimmed to a store size | visitor on `custom_operation` |
| Witness | `plugins/witness/witness.cpp` | production latch, schedule | production loop, retry with `clear_pending` |
| RocksDB snapshot | `vendor/rocksdb/db/db_filesnapshot.cc` | `disable_delete_obsolete_files_` counter | Disable/EnableFileDeletions, GetLiveFiles |
| Interfaces | p2p, database_api headers, `account_api_object.cpp`, `get_config.cpp`, `compound.hpp` | none | declarations, copies, formatting |

### How they interact

Execution is single-threaded and deterministic. A transaction applies its
operations one after another. A failing `FC_ASSERT` rolls back every change
since the transaction started. The only re-entrancy is logical: an approved
proposal runs its operations through the same evaluators. The nesting depth is
kept in each proposal evaluator's `depth_`, and the cap is enforced only when
`is_producing()`. A nested failure inside `proposal_update` is caught and
logged (line 286). Committee and invite evaluators touch balances, which are
shared with every other evaluator. The history plugins observe operations
through signals, so the order in which their handlers are connected matters.
The witness plugin is the one part with real concurrency: its production loop
runs on a timer thread, while the chain thread pushes other witnesses' blocks
and accepts transactions. The RocksDB guard is shared by backup callers and
background compactions, synchronised by the DB mutex, with the flush and the
purge done outside it.

### What is hard here

- **The authority retry loop.** It drives a verify primitive that fails fast,
  and the verdict it reaches depends on which problem is reported first.
- **Nested execution.** It can approve, create or delete other proposals,
  including one that is being executed.
- **Producer versus replay.** The depth cap is checked only while producing,
  and nested failures are swallowed, so the same operation can succeed
  differently on the producer and on a replaying node.
- **Committee checks.** The cooldown is scanned over all earlier requests; the
  url check looks at requests of every status; the vote count must match the
  vote records.
- **Invites.** Each invite must be claimed once, by one of three paths, with
  tokens conserved.

## 2. Modules

### `Proposal.tla`: proposal lifecycle and authority loop

- **Variables.** `db` is the object store: `props` (proposal id to record),
  `edges` (the `required_approval_object`s) and `marks` (effects of other
  operations). It also has `fault`, which is set when a proposal that is
  already gone is removed. `now` is the head block time.
- **Pure operators.** Each evaluator is a pure operator
  `Apply(db, op, ctx) -> [ok, db]`. A failed assertion returns `ok = FALSE`,
  and the caller keeps its own state, which is how the undo session works.
  `ctx` carries `now`, `is_producing()` and the two `depth_` counters.
  `safe_int_increment` restores the counters on every exit, so passing `ctx`
  down the call is the same as the process-lifetime counter.
- **Translated from the source.**
  - `ProposalCreate`, `ProposalUpdate` and `ProposalDelete` are the three
    `do_apply` methods.
  - `IrrelevanceLoop` is the loop of `assert_irrelevant_proposal_authority`.
  - `RemoveExisting`, `RequiredApprovalEdges` and `ReviewFreezeAllows` are
    the helpers and blocks they use.
- **Modelled from the spec**, because the code is not in `src/`:
  - `VerifyAuthority` has one key per account and tier, and threshold 1. It
    reports the first failure among missing tiers, then unused keys, then
    unused approvals.
  - `PushProposal`, `ApplySeq`, `ClearExpiredProposals`, `RemoveProposal` and
    `RequiredOf` are the other operators in this group.
  - The leaf operation stands for every other evaluator: a one-shot effect
    that needs one account's authority of one tier.
- **Actions.** `ApplyTransaction(op, producing)` applies one transaction and
  keeps it if it succeeds. `NewBlock` advances time and clears expired
  proposals.

### `ProposalReplay.tla`: producer and validator

This module instantiates `Proposal` twice on the same operations. The producer
applies each transaction with `is_producing()` true and keeps it only if it
succeeds. The validator applies the kept ones with `is_producing()` false.

### `Committee.tla`

- **Variables.** `requests`, `votes`, `committee_requests`, `committee_fund`,
  `balance`, `hf9` and `now`.
- **Actions.** `CreateRequest`, `CancelRequest` and `VoteRequest` are the
  three `do_apply` methods. Their guards are the `FC_ASSERT`s, and their
  effects are the creates and modifies.
- **Environment actions.** `Hardfork9` and `Tick` are the chain reaching HF9
  and a new block.

### `Invite.tla`

- **Variables.** `invites`, `accounts`, `balance`, `vesting` and `hf9`.
- **Actions.** `CreateInvite`, `ClaimInviteBalance`, `InviteRegistration` and
  `UseInviteBalance`. A taken account name makes registration fail, as the
  unique name index does.

### `Chain.tla`: committee and invites on one ledger

The two components share `account_object::balance` and
`has_hardfork(CHAIN_HARDFORK_9)`, and an account an invite registers is an
account like any other. `Chain` instantiates both (`I == INSTANCE Invite`,
`C == INSTANCE Committee`), starts from `I!Init` and the committee's
`InitRequests` (the `dynamic_global_property_object` defaults), and takes
one transaction of one component per step, leaving the other's objects
unchanged. `CommitteeStep` draws creators from the current `accounts`
(invited ones included) and voters from `accounts \cap Voters`, a bound;
`Hardfork9` is Invite's step, taken once for both.


### `History.tla`: account and operation history plugins

- **Variables.** `opObjects` (the `operation_index`, id to block and
  operation), `nextId`, `accountHistory` (the `account_history_object`s),
  `head` and `opsInBlock`.
- **Actions.** `ApplyOperation(op)` is the `pre_apply_operation` signal with
  both handlers: the white/black-list filter and `history-start-block` of
  operation history, then, when `note.stored_in_db` is set (only if the
  operation-history handler ran first, `OperationHistoryFirst`), one entry per
  impacted tracked account with the next per-account sequence.
  `AppliedBlock` advances the head and runs both purges; their `need_block`
  differ by one (`OpNeedBlock`, `AccountNeedBlock`).
- **Query.** `GetAccountHistory(a, from, limit)` is the iterator walk of
  `get_account_history` over the `by_account` order, with a `defined` flag
  for the two places where the code dereferences or walks past the index.
- **Operations.** An operation is a record of its type, the parties `a`,
  `b`, `c` it names (`NoName` when absent) and `apps`, the approval lists
  of a `proposal_update`. `ImpactedAccounts` is the whole
  `get_impacted_account_visitor`: one party for the generic and one-party
  overloads, every party for the two- and three-party ones (`PairOps`,
  `TripleOps`), the empty-receiver and empty-parent tests of
  `transfer_to_vesting` and `content`, and the approval union of
  `proposal_update`. Only operations that `Validate` accepts are applied:
  the party checks of `chain_operations.cpp` (`TransferValidate`,
  `AccountWitnessProxyValidate`, `EscrowTransferValidate`, ...), with
  amounts and strings abstracted away.
- Account names are numbers, so the index order and the tracked ranges
  compare as the string order does.

### `CustomProtocol.tla`: custom protocol store

- **Variables.** `store[a]` is account a's `custom_protocol_object`s in index
  order (block number descending), `head`, `opsInBlock`, and `uses`, a ghost
  count of the operations each account signed per id.
- **Actions.** `ApplyCustomOperation(op)` runs the visitor over the accounts
  vector (`required_active_auths` then `required_regular_auths`, duplicates
  kept). `Scan` is the while loop with its early stop at a match and its
  eviction of entries at positions at or beyond the store size; `Visit`
  bumps or creates; `InsertInOrder` is the `ordered_non_unique` placement.
  `AppliedBlock` advances the head.

### `FileDeletions.tla`: RocksDB obsolete-file deletion guard

- **Variables.** `counter` (`disable_delete_obsolete_files_`), the file sets
  `live`, `obsolete` and `deleted`, and per caller `pc`, `snap` (the files
  `GetLiveFiles` listed) and `job` (the `job_context` to purge); `bgJob` is
  what background jobs collected.
- **Actions.** `DisableFileDeletions`, `GetLiveFiles` (with or without a
  flush), `FlushMemTable` (outside the mutex, may fail), `CollectLiveFiles`,
  `EnableFileDeletions` (the `force` reset or decrement, and
  `FindObsoleteFiles` when the counter reaches 0) and `PurgeObsoleteFiles`
  after the mutex is released; the environment's `Compaction` and
  `BackgroundPurge`. Each action is one critical section of the source.

### `DeletionGuard.tla`: what the deletion guard promises

The abstract specification a backup caller relies on, with no counter, mutex
or job context: `List(c)` takes the live files in one step, `Done(c)` ends
the copy, `NewFile` and `Replace` are flushes and compactions, and
`Delete(F)` removes obsolete files that no caller is copying. Its fairness
says every copy ends and every deletable file is deleted. `FileDeletions`
instantiates it as `Guard` with the refinement mapping
`listed <- [c |-> IF pc[c] = "copying" THEN snap[c] ELSE {}]`; the other
variables map to themselves. `GuardSpec`, that is `Guard!Spec`, is checked as
a property of `file_deletions_core`.

### `Witness.tla`: witness block production

- **Variables.** The production thread's NTP `clock` (ms), `pc` ("sleep",
  "check", "gen"), the timer's `wakeAt`, `_production_enabled`,
  `last_block_post_validation_time`, the head's time and the participation
  bits `filled`, a failing pending transaction `pendingBad`, the slot being
  produced and when it was decided, the retry counter, the last
  `block_production_condition`, and `lastBlock`, the last block generated.
- **Actions.** `TimerFires(lat)` is the deadline timer's handler running
  `lat` ms late. `MaybeProduceBlock` is `maybe_produce_block` up to the retry
  loop: the rounded `now`, the stale-production latch, then the early returns
  in the code's order (`not_synced`, `not_time_yet`, `not_my_turn`,
  `no_private_key`, `low_participation`, `lag`). `GenerateBlock(d)` is one
  `generate_block` call taking `d` ms: it fails when the head moved to or past
  the slot or a pending transaction throws, and then `clear_pending` runs and
  the loop tries once more. `Finish` is the tail of `block_production_loop`,
  which reschedules the timer whatever the result. The chain thread's
  `NetworkBlock(t)` pushes another witness's block within `NetDelay` of its
  slot (or never: a lost block), and `AcceptBadTransaction` adds a pending
  transaction that will make `generate_block` throw.
- The database's slot arithmetic (`get_slot_time`, `get_slot_at_time`,
  `get_scheduled_witness`, `witness_participation_rate`) is not in the
  repository and is modelled after its definitions: slots every
  `CHAIN_BLOCK_INTERVAL` after the head, the witness by absolute slot, the
  rate over the last `RecentSlots` slots.
- `MC_Witness.tla` checks the module under a `VIEW` that rebases every time
  on the head's schedule period and folds gaps beyond the point where the
  participation bits saturate; its comment gives the argument that states
  equal in the view have equal futures, which is what makes the unbounded
  clock finite for TLC.

## 3. Runs

| Run | Checks | Result |
|---|---|---|
| `proposal_core` (`MC_Proposal.cfg`) | `TypeOK`, `ProposalIndexConsistent` | pass |
| `proposal_irrelevant_approval` (`MC_Proposal_Relevance.cfg`) | `AvailableApprovalsRelevant` | violation: finding 1 |
| `proposal_replay` (`MC_ProposalReplay.cfg`) | `ReplayAgreement` | violation: finding 2 |
| `proposal_double_remove` (`MC_Proposal_Remove.cfg`) | `ExecutedProposalRemovedOnce` | violation: finding 6 |
| `chain_core` (`MC_Chain.cfg`) | `TypeOK`, `VotesCounted`, `TokensConserved`, `ClaimedByExistingAccount`, `ClaimIsFinal` | pass, about 565k distinct states |
| `history_core` (`MC_History.cfg`) | `TypeOK`, `HistoryRefsValid`, `SequencesContiguous` | pass, about 506k distinct states |
| `history_tracked_ranges` (`MC_History_Tracked.cfg`) | `TrackedRangesRecorded` | violation: finding 3 |
| `history_query_undefined` (`MC_History_Query.cfg`) | `GetAccountHistoryDefined` | violation: finding 4 |
| `file_deletions_core` (`MC_FileDeletions.cfg`) | `TypeOK`, `CounterMatchesHolders`, `SnapshotFilesKept`, `ObsoleteEventuallyDeleted`, `GuardSpec` | pass |
| `custom_protocol_core` (`MC_CustomProtocol.cfg`) | `TypeOK`, `StoreBounded`, `ProtocolUnique` | pass |
| `custom_protocol_double_count` (`MC_CustomProtocol_Count.cfg`) | `SequenceCountsOperations` | violation: finding 5 |
| `witness_core` (`MC_Witness.cfg`) | `TypeOK`, `ProducedBlocksValid`, `ProducesWhenEnabled` | pass, about 14k distinct states |

What the passing runs show, beyond the type invariants:

- **Proposals.** The required sets stay normalised, the
  `required_approval_object` edges match the stored proposals through nested
  creates and deletes.
- **Committee and invites.** On one ledger, no balance goes negative
  whichever of the two evaluators debits it; one vote per voter, counted
  exactly, whoever votes, re-votes and cancels; tokens are conserved across invite locks, the three claim
  paths and committee fees; a claim is final and goes to an existing
  account.
- **History.** Every account-history entry refers to a stored operation of
  its block that impacted the account (this rests on the handler order, the
  `stored_in_db` early return and the purge windows differing the right way);
  per-account sequences stay unique and contiguous across purges. The
  operation purge removes stored operations in this run, so the two purge
  windows are exercised against each other: an account purge that kept one
  block more than operation history (the mutant) leaves dangling entries.
- **File deletions.** The counter equals the callers holding a disable; no
  file a caller listed is deleted while it copies; every obsolete file is
  eventually deleted; and the whole behaviour, liveness included, is a
  behaviour of `DeletionGuard` under the refinement mapping.
- **Custom protocol.** No account keeps more entries than the store size and
  none keeps two entries for one id, whether the scan stops early or evicts.
- **Witness.** Every block the node produces is for a slot of its own keyed
  witness, was decided within 500 ms of the slot time and extends an older
  head, through late wake-ups, slow `generate_block` calls, retries and other
  witnesses' blocks arriving during them. Under fair scheduling, once
  production is enabled the node goes on to produce a block unless it finds
  participation below `--required-participation`. That exception is real:
  when other witnesses' blocks keep being lost, the code refuses to produce
  on what looks like a minority fork, for ever.

Each property of a passing run has a mutant in `PROJECT.json`: a faulty
variant of one mapped definition, defined in the module just before it, under
which TLC finds the property violated.

### Findings

1. **Irrelevant approvals slip through** (`proposal_evaluator.cpp:61-67`).
   A proposal needs alice's active authority. Alice's active key is added,
   then her active account approval, so the key is no longer used. From then
   on every verify reports "irrelevant signature" first; the loop returns
   because that key was not added by the current update, so an update adding
   any unrelated approval is accepted. The spec says an irrelevant approval
   introduced by the caller must propagate.
2. **Producer and validator diverge** (`proposal_evaluator.cpp:214/286`).
   p3 approves p2, p2 approves p1, and p1 has an effect. Approving p3 reaches
   update depth 3. The producer fails the depth check inside p2's execution
   and swallows the failure, so p1 is not executed. The validator executes
   everything. The spec requires identical state on every node.
3. **Tracked ranges track one account** (`account_history/plugin.cpp:105`).
   `lower_bound(item)` finds the range whose first is the least at or above
   the account, and the test then requires first <= account: only a range's
   first account is recorded.
4. **`get_account_history` reads past its range**
   (`account_history/plugin.cpp:124`). After a purge, a `from` below the
   account's oldest kept sequence makes `lower_bound` land on the index end
   or on another account, whose `sequence` is read and whose end iterator
   may lie before the start.
5. **Double count in the custom protocol store**
   (`custom_protocol_api_visitor.cpp:16`). An account in both
   `required_active_auths` and `required_regular_auths` (which `validate()`
   allows) is visited twice, and its `custom_sequence` grows by two for one
   operation.
6. **A proposal removed twice** (`proposal_evaluator.cpp:285`). p1's body
   deletes p2, and p2's body approves p1. Approving p2 executes it; its
   update makes p1 executable, and p1's execution deletes p2. Back in
   `push_proposal(p2)`, the code removes p2 again through its reference to
   an object no longer in the index. The spec says an executed proposal is
   removed from the index, once.

Behaviours met while modelling and recorded as hazards rather than runs: a
cancelled committee url blocking reuse (`committee_evaluator.cpp:22`), the
`required-participation` option without a value meaning 30000
(`witness.cpp:125`), `enable-stale-production` without a value meaning false
(`witness.cpp:124`), and `unknown_hardfork_exception`, which is meant to stop
production (`witness.cpp:229`) but, thrown by `generate_block`, is first
caught by the retry loop's `catch (fc::exception &)` at line 397. In account history, a
proxy-clearing `account_witness_proxy` (an empty proxy passes `validate()`)
makes the visitor insert the empty name (`account_history/plugin.cpp:239`),
so the empty account gets a history; and a `proposal_update` that only
changes key approvals impacts no account (`plugin.cpp:305`), so it is in
operation history but in no account's history.

## 4. Bounds and why they suffice

- **`MC_Proposal`.** 2 accounts, 2 proposal ids, 2 effects and 3 blocks.
  Bodies cover the three authority paths (active, master plus active,
  regular), a mixed body that must be refused, a nested approval, a nested
  delete and a nested create. Approval changes cover a relevant one per
  tier, an irrelevant one and a key. p1 may have a review period starting
  one block before expiry; two blocks reach review start and expiry.
- **`MC_ProposalReplay`.** 3 proposal ids, one effect and a chain of
  approvals three deep: the shortest that reaches depth cap + 1.
- **`MC_Chain`.** 2 accounts with 1 token each, 1 name to register, 2 invite
  keys, 2 urls, 2 percents, at most 2 requests, a one-block cooldown and 2
  blocks. A creator can try a second request in the same block and in the
  next, with the other url; an invite of 1 is allowed before HF9 (fee 1) and
  refused after it (minimum 2); one token is either locked in an invite or
  paid as a request fee, so the insufficient-balance paths of both
  evaluators are reached; two keys let two invites race for one name. Only
  the two initial accounts vote (`Voters`): the invited account's votes
  would add nothing the two voters do not already exercise, and multiply
  the states by five. Symmetry over the initial accounts, keys and urls is
  sound: they start alike and are only compared.
- **`MC_History`.** Blocks 1 to 3 of at most 2 operations each,
  `history-count-blocks` 2 and `history-start-block` 0 (the default): when
  block 3 is applied, operation history purges block 1's stored operations
  and account history purges blocks 1 and 2, so the two purge windows meet
  and sequences continue across purges. The two violation runs use
  `history-start-block` 1, so the first block's operations are not stored. The eleven operations cover every shape of the
  visitor: a proxy-clearing `account_witness_proxy` (the visitor inserts the
  empty name, so the empty account gets a history), a three-party escrow, a
  `proposal_update` with no approval lists (no impacted account), and two
  operations `validate()` rejects.
- **`MC_FileDeletions`.** 2 callers, one snapshot each, 5 file numbers: two
  overlapping disables, a flush and two compactions fit. Deadlock checking is
  off because the callers stop after their snapshot and compactions stop when
  file numbers run out, as a finite workload does.
- **`MC_CustomProtocol`.** 2 accounts, 3 ids, store size 2, 3 blocks of 2
  operations: a third id forces eviction, and two operations per block put
  entries of one block side by side.
- **`MC_Witness`.** A schedule of 3 witnesses, 2 of them configured and 1
  keyed; 4 participation slots, so a lost block or a missed slot moves the
  rate across 33 %; latencies 20 and 700 ms (on time and lagging), generation
  of 100 ms or 3 s (a whole block interval, so another block can arrive
  during it); 2 start times with different sub-second offsets; up to 2 slow
  steps and 1 failing transaction. The clock is unbounded and made finite by
  the view.

## 5. Fairness and liveness

- **`FileDeletions`.** Weak fairness on every step of a caller that has
  disabled deletions (a backup runs its code path to the end) and on
  `BackgroundPurge` (a purge job runs once scheduled). Starting a snapshot and
  compacting are not forced. `DeletionGuard`'s own fairness (weak fairness on
  each `Done(c)` and on deleting some deletable file) is implied by these,
  which the `GuardSpec` check confirms.
- **`Witness`.** Weak fairness on `TimerFires` (the io_service runs a due
  timer), `MaybeProduceBlock` and `GenerateBlock` (the handler runs to its
  end), and strong fairness on the arrival of another witness's block: the
  node is not cut off from the network for ever, although any one block may
  be lost. Late timers and slow generation are bounded by `MaxLate`, so a
  node that always wakes too late or always generates for longer than a
  block interval is excluded: the code makes no promise for such a machine.
  Incoming transactions are not forced.

## 6. Plan and what is left

Next, in order:

1. **Refinement.** An abstract per-account counter store that the custom
   protocol plugin would implement but for the double count of finding 5.
2. **Proposal liveness.** Weak fairness on `NewBlock` and a property that
   every proposal eventually leaves the store, by execution or expiry.
3. **Validators.** Model the `proposal_update` approval-list checks with
   the `Proposal` module's approvals, so that a key-only update is related
   to the accounts whose keys it names.

Guards the modules translate but no property checks: the review-period
freeze (`proposal_evaluator.cpp:224`) and the committee cooldown
(`committee_evaluator.cpp:32`). An invariant over their effect only restates
the guard and holds by the shape of the action, and it cannot pin the
boundary: a stricter comparison also satisfies it. The sequence restart of
account history (`plugin.cpp:55-59`, from 0 once every entry of an account is
purged) is the code's behaviour and `SequencesContiguous` accepts it.

Not modelled, and why:

- Configuration, API objects and interfaces have no state transitions. The
  validators' checks on amounts, assets, memos, permlinks and JSON concern
  data the models abstract away; only their checks on parties are modelled.
- WIF and key derivation are replaced by naming the key.
- The internals of `verify_authority` beyond one key per tier (weights,
  account authorities, proxies) are simplified.
- Escrow: its evaluator is not in the repository and `spec.md` (4.5) leaves
  its transitions undetailed; only `is_approved()` and the validators exist
  to translate.
- The witness plugin's `plugin_shutdown` only cancels the timer, and its
  block post-validation loop signs and broadcasts (I/O); only its update of
  `last_block_post_validation_time` is modelled.
