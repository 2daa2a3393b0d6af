------------------------------ MODULE MC_Witness ------------------------------
EXTENDS Witness

CONSTANTS w1, w2, w3

MCSchedule == <<w1, w2, w3>>
MCMine == {w1, w3}
MCKeyed == {w1}

(***************************************************************************)
(* Every guard of Witness reads its times through differences, through    *)
(* their remainders modulo 1000 ms and modulo the schedule's period, and   *)
(* through the participation bits, which saturate once RecentSlots slots   *)
(* are missed.  The view rebases every time on the start of the head's     *)
(* period, folds a gap between head and clock beyond Saturated onto one    *)
(* period, keeps of last_block_post_validation_time only whether it is     *)
(* behind the clock, of the slot being produced nothing outside the retry  *)
(* loop, and of the last block generated its times within its own period; *)
(* states equal in the view have equal futures.                           *)
(***************************************************************************)
Period == Len(Schedule) * Interval
Saturated == (RecentSlots + 2) * Interval + NetDelay
Base == headTime - (headTime % Period)
Fold(t) == IF t - headTime < Saturated THEN t - Base
           ELSE headTime - Base + Saturated + ((t - headTime - Saturated) % Period)
BlockView ==
  LET b == lastBlock.time - (lastBlock.time % Period)
  IN [lastBlock EXCEPT !.time = @ - b, !.parent = @ - b, !.checked = @ - b]
View ==
  <<pc, enabled, filled, pendingBad, badTx, retry, result, late,
    headTime - Base, Fold(clock), Fold(wakeAt), IF pc = "gen" THEN <<Fold(slotTime), Fold(checkedAt)>> ELSE <<>>,
    IF lastValidation < clock THEN "behind" ELSE Fold(lastValidation), BlockView>>

=============================================================================
