------------------------------- MODULE Witness -------------------------------
(***************************************************************************)
(* The block production loop of the witness plugin (witness.cpp).  A       *)
(* deadline timer wakes block_production_loop at the next whole second of   *)
(* NTP time (one second later if that is under 50 ms away);                 *)
(* maybe_produce_block checks, in order, that production is enabled, that   *)
(* a slot has arrived, that the slot's witness is configured here and its   *)
(* signing key is held, the participation rate and the lag, then calls      *)
(* generate_block, clearing the pending transactions and trying once more   *)
(* when it throws.  Whatever the result, the loop is scheduled again.        *)
(* The chain thread meanwhile pushes the blocks of other witnesses and      *)
(* accepts transactions.  Times are NTP milliseconds; the slot arithmetic   *)
(* of the database (get_slot_time, get_slot_at_time, get_scheduled_witness, *)
(* witness_participation_rate) is modelled after its definitions.          *)
(***************************************************************************)
EXTENDS Naturals, Sequences, FiniteSets

CONSTANTS
  Schedule,        \* the witness schedule: slot witness by absolute slot
  Mine,            \* _witnesses: the witness names configured on this node
  Keyed,           \* witnesses whose signing key is in _private_keys
  RequiredOption,  \* the value given to required-participation (percent)
  EnableStale,     \* enable-stale-production
  RecentSlots,     \* the slots witness_participation_rate looks back over
  Latencies,       \* how late (ms) the timer's handler may run
  GenDurations,    \* how long (ms) one generate_block call may take
  Starts,          \* the NTP time (ms) at plugin_startup
  NetDelay,        \* another witness's block arrives within this many ms of its slot, or never
  MaxLate,         \* bound on the slow steps: timer firings 500 ms late or more, generate_block calls of an interval or more
  MaxBadTx         \* bound on the failing transactions the chain thread accepts

Interval == 3 * 1000         \* CHAIN_BLOCK_INTERVAL, in ms
Percent100 == 10000          \* CHAIN_100_PERCENT
Percent1 == Percent100 \div 100

ASSUME /\ Mine \subseteq {Schedule[i] : i \in DOMAIN Schedule} /\ Keyed \subseteq Mine
       /\ RecentSlots \in Nat \ {0}

VARIABLES
  clock,         \* NTP time (ms) on the production thread
  pc,            \* "sleep" (timer armed), "check" (in maybe_produce_block), "gen" (retry loop)
  wakeAt,        \* the timer's expiry
  enabled,       \* _production_enabled
  lastValidation,\* last_block_post_validation_time
  headTime,      \* head_block_time(), a multiple of the interval
  filled,        \* recent_slots_filled: 1 per recent slot with a block, newest last
  pendingBad,    \* a pending transaction makes generate_block throw
  badTx,         \* failing transactions accepted so far
  slotTime,      \* scheduled_time of the slot being produced
  checkedAt,     \* now_fine when maybe_produce_block decided to produce it
  retry,         \* the retry counter of the do-while loop
  result,        \* the last block_production_condition
  late,          \* late timer firings so far
  lastBlock      \* the last block this node generated: [time, witness, parent, checked]

vars == <<clock, pc, wakeAt, enabled, lastValidation, headTime, filled,
          pendingBad, badTx, slotTime, checkedAt, retry, result, late, lastBlock>>

-----------------------------------------------------------------------------
(* database::get_slot_time: slot n after the head's slot *)
SlotTime(n) == IF n = 0 THEN 0 ELSE headTime + n * Interval

(* database::get_slot_at_time *)
SlotAtTime(t) == IF t < SlotTime(1) THEN 0 ELSE ((t - SlotTime(1)) \div Interval) + 1

(* database::get_scheduled_witness: by the absolute slot of the time *)
WitnessAt(t) == Schedule[((t \div Interval) % Len(Schedule)) + 1]

(* database::witness_participation_rate *)
ParticipationRate ==
  (Cardinality({i \in DOMAIN filled : filled[i] = 1}) * Percent100) \div RecentSlots

(* The head moves to a block at time t: the slots skipped are empty. *)
Advance(f, t) ==
  LET missed == ((t - headTime) \div Interval) - 1
      bits   == [i \in 1..missed |-> 0] \o <<1>>
      all    == f \o bits
  IN SubSeq(all, Len(all) - RecentSlots + 1, Len(all))

(* plugin_initialize: required-participation times CHAIN_1_PERCENT *)
Required == RequiredOption * Percent1

(* schedule_production_loop: the next whole second, or the one after    *)
(* when it is under 50 ms away                                          *)
NextWake(c) ==
  LET n == 1000 - (c % 1000) IN IF n < 50 THEN n + 1000 ELSE n

(* now_fine taken as a whole second without the 500 ms added. *)
RoundedNowTrunc(c) == (c \div 1000) * 1000

(* fc::time_point_sec(now_fine + 500 ms): rounded down to the second *)
RoundedNow(c) == ((c + 500) \div 1000) * 1000

(* The lag test: more than 500 ms between the slot time and now. *)
Lag(st, now) == st - now > 500 \/ now - st > 500

(* A clear_pending that keeps the failing transaction. *)
ClearPendingKept(p) == p

(* db.clear_pending(): the failing transaction is dropped with the rest. *)
ClearPending(p) == FALSE

(* A retry loop that makes three generate_block calls. *)
MaxRetryThree == 3

(* do { ... } while (retry < 2) *)
MaxRetry == 2

NoBlock == [time |-> 0, witness |-> "none", parent |-> 0, checked |-> 0]

Init ==
  /\ clock \in Starts
  /\ pc = "sleep"
  /\ wakeAt = clock + NextWake(clock)
  /\ enabled = EnableStale
  /\ lastValidation = 0
  /\ headTime = 0
  /\ filled = [i \in 1..RecentSlots |-> 1]
  /\ pendingBad = FALSE
  /\ badTx = 0
  /\ slotTime = 0
  /\ checkedAt = 0
  /\ retry = 0
  /\ result = "none"
  /\ late = 0
  /\ lastBlock = NoBlock

(* block_production_loop after maybe_produce_block returned r at time c: *)
(* schedule_production_loop arms the timer again.                        *)
Finish(r, c) ==
  /\ result' = r
  /\ pc' = "sleep"
  /\ wakeAt' = c + NextWake(c)

(* The deadline timer fires and its handler runs lat ms late. *)
TimerFires(lat) ==
  /\ pc = "sleep"
  /\ lat >= 500 => late < MaxLate
  /\ clock' = wakeAt + lat
  /\ pc' = "check"
  /\ late' = IF lat >= 500 THEN late + 1 ELSE late
  /\ UNCHANGED <<wakeAt, enabled, lastValidation, headTime, filled, pendingBad,
                 badTx, slotTime, checkedAt, retry, result, lastBlock>>

(* maybe_produce_block up to the retry loop, and its early returns *)
MaybeProduceBlock ==
  LET now  == RoundedNow(clock)
      en   == enabled \/ SlotTime(1) >= now
      slot == SlotAtTime(now)
      w    == WitnessAt(SlotTime(slot))
  IN /\ pc = "check"
     /\ enabled' = en
     /\ lastValidation' = IF en /\ lastValidation < clock THEN now ELSE lastValidation
     /\ CASE ~en                          -> Finish("not_synced", clock)
          [] slot = 0                     -> Finish("not_time_yet", clock)
          [] w \notin Mine                -> Finish("not_my_turn", clock)
          [] w \notin Keyed               -> Finish("no_private_key", clock)
          [] ParticipationRate < Required -> Finish("low_participation", clock)
          [] Lag(SlotTime(slot), now)     -> Finish("lag", clock)
          [] OTHER -> /\ pc' = "gen"
                      /\ UNCHANGED <<wakeAt, result>>
     /\ slotTime' = SlotTime(slot)
     /\ checkedAt' = clock
     /\ retry' = 0
     /\ UNCHANGED <<clock, headTime, filled, pendingBad, badTx, late, lastBlock>>

(* One generate_block(scheduled_time, ...) call taking d ms.  It applies   *)
(* the block through the chain's own slot check (the slot must still be   *)
(* after the head) and throws on a failing pending transaction; on a throw *)
(* the pending transactions are cleared and retry counts up to 2.          *)
GenerateBlock(d) ==
  LET c  == clock + d
      ok == slotTime > headTime /\ ~pendingBad
  IN /\ pc = "gen"
     /\ d >= Interval => late < MaxLate
     /\ clock' = c
     /\ late' = IF d >= Interval THEN late + 1 ELSE late
     /\ IF ok
        THEN /\ headTime' = slotTime
             /\ filled' = Advance(filled, slotTime)
             /\ lastBlock' = [time |-> slotTime, witness |-> WitnessAt(slotTime),
                              parent |-> headTime, checked |-> checkedAt]
             /\ Finish("produced", c)
             /\ UNCHANGED <<pendingBad, retry>>
        ELSE /\ pendingBad' = ClearPending(pendingBad)
             /\ retry' = retry + 1
             /\ IF retry + 1 < MaxRetry
                THEN UNCHANGED <<pc, wakeAt, result>>
                ELSE Finish("exception_producing_block", c)
             /\ UNCHANGED <<headTime, filled, lastBlock>>
     /\ UNCHANGED <<enabled, lastValidation, badTx, slotTime, checkedAt>>

(* The chain thread accepts a transaction that generate_block will fail on. *)
AcceptBadTransaction ==
  /\ badTx < MaxBadTx
  /\ pendingBad' = TRUE
  /\ badTx' = badTx + 1
  /\ UNCHANGED <<clock, pc, wakeAt, enabled, lastValidation, headTime, filled,
                 slotTime, checkedAt, retry, result, late, lastBlock>>

(* The chain thread pushes another witness's block for the slot at t. *)
NetworkBlock(t) ==
  /\ t % Interval = 0 /\ headTime < t /\ t <= clock /\ clock < t + NetDelay
  /\ WitnessAt(t) \notin Mine
  /\ headTime' = t
  /\ filled' = Advance(filled, t)
  /\ UNCHANGED <<clock, pc, wakeAt, enabled, lastValidation, pendingBad, badTx,
                 slotTime, checkedAt, retry, result, late, lastBlock>>

(* The slot times a block of another witness may still arrive for *)
Arriving ==
  {t \in {clock - (clock % Interval) - k * Interval : k \in 0..(NetDelay \div Interval)} :
     t > headTime}

Next ==
  \/ \E lat \in Latencies : TimerFires(lat)
  \/ MaybeProduceBlock
  \/ \E d \in GenDurations : GenerateBlock(d)
  \/ AcceptBadTransaction
  \/ \E t \in Arriving : NetworkBlock(t)

(* The io_service thread runs a due timer's handler, and the handler runs  *)
(* maybe_produce_block and generate_block to their end.  The node is not   *)
(* cut off for ever: of the other witnesses' blocks, which may each be     *)
(* lost, one arrives when blocks keep being due.  Incoming transactions    *)
(* are not forced.                                                         *)
Fairness ==
  /\ WF_vars(\E lat \in Latencies : TimerFires(lat))
  /\ WF_vars(MaybeProduceBlock)
  /\ WF_vars(\E d \in GenDurations : GenerateBlock(d))
  /\ SF_vars(\E t \in Arriving : NetworkBlock(t))

Spec == Init /\ [][Next]_vars /\ Fairness

-----------------------------------------------------------------------------
Conditions == {"none", "produced", "not_synced", "not_time_yet", "not_my_turn",
               "no_private_key", "low_participation", "lag", "exception_producing_block"}

(* Type invariant; the retry loop makes at most two generate_block calls. *)
TypeOK ==
  /\ clock \in Nat /\ wakeAt \in Nat /\ headTime \in Nat /\ slotTime \in Nat
  /\ headTime % Interval = 0 /\ (pc = "sleep" => clock < wakeAt)
  /\ pc \in {"sleep", "check", "gen"}
  /\ enabled \in BOOLEAN /\ pendingBad \in BOOLEAN
  /\ filled \in [1..RecentSlots -> {0, 1}]
  /\ badTx \in 0..MaxBadTx /\ late \in 0..MaxLate /\ retry \in 0..2 /\ (pc = "gen" => retry < 2) /\ result \in Conditions

(* The last block this node generated is for a slot of one of its        *)
(* witnesses whose key it holds, was decided within 500 ms of the slot     *)
(* time, and extends an older head.  It rests on the rounding of now, the  *)
(* lag test and the chain re-checking the slot when another witness's      *)
(* block or a failed attempt came between the checks and generate_block.   *)
ProducedBlocksValid ==
  lastBlock # NoBlock =>
    /\ lastBlock.witness \in Keyed /\ WitnessAt(lastBlock.time) = lastBlock.witness
    /\ lastBlock.parent < lastBlock.time
    /\ lastBlock.time - 500 <= lastBlock.checked /\ lastBlock.checked < lastBlock.time + 500

(* Once production is enabled the node goes on to produce a block, unless *)
(* it finds the participation rate below --required-participation (other  *)
(* witnesses' blocks lost): the timer's whole-second schedule meets its    *)
(* witness's slots again after a late wake-up or a slow generate_block,    *)
(* a failing pending transaction is cleared, and the retry loop does not   *)
(* keep failing on a head another block moved.                             *)
ProducesWhenEnabled == enabled ~> result \in {"produced", "low_participation"}

=============================================================================
