--------------------------- MODULE ProposalReplay ---------------------------
(***************************************************************************)
(* Two nodes apply the same chain of transactions: the block producer,     *)
(* for which database::is_producing() holds, and a node that validates or  *)
(* replays the produced blocks, for which it does not.  The producer keeps *)
(* a transaction only if it succeeds; the validator applies the kept ones  *)
(* in the same order at the same head block time.  Both run the proposal   *)
(* evaluators of module Proposal.                                          *)
(***************************************************************************)
EXTENDS Proposal

(* db of module Proposal is the producer's object store; now is shared:   *)
(* both nodes are at the same block.                                       *)
VARIABLE
  validatorDb    \* the object store of a node replaying the producer's blocks

replayVars == <<db, validatorDb, now>>

(* A transaction included in the block by the producer, then applied by   *)
(* the validator; a transaction the validator cannot apply leaves its     *)
(* state as it was (it would reject the block).                           *)
IncludeTransaction(op) ==
  LET r == Apply(db, op, Ctx(now, TRUE))
      v == Apply(validatorDb, op, Ctx(now, FALSE))
  IN /\ r.ok
     /\ db' = r.db
     /\ validatorDb' = IF v.ok THEN v.db ELSE validatorDb
     /\ UNCHANGED now

(* End of block on both nodes: clear_expired_proposals at the new time. *)
NextBlock ==
  /\ now' = now + 1
  /\ db' = ClearExpiredProposals(db, Ctx(now + 1, TRUE))
  /\ validatorDb' = ClearExpiredProposals(validatorDb, Ctx(now + 1, FALSE))

ReplayInit ==
  /\ db = EmptyDb
  /\ validatorDb = EmptyDb
  /\ now = 0

ReplayNext ==
  \/ \E op \in Operations(now) : IncludeTransaction(op)
  \/ NextBlock

ReplaySpec == ReplayInit /\ [][ReplayNext]_replayVars

(* Deterministic replay: a node that validates the produced blocks reaches *)
(* the same proposal store and the same effects as the producer.  The      *)
(* depth check of proposal_create/proposal_update runs only while          *)
(* producing, and proposal_update swallows a nested execution failure.     *)
ReplayAgreement == db = validatorDb

=============================================================================
