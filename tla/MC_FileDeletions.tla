------------------------- MODULE MC_FileDeletions -------------------------
(* Two callers taking one snapshot each, and five file numbers.           *)
EXTENDS FileDeletions

CONSTANTS c1, c2

MCCallers == {c1, c2}

(* both callers pass force = false, as BackupEngine and Checkpoint do *)
MCNoForce == [c \in MCCallers |-> FALSE]

(* c2 passes force = true, the default of DB::EnableFileDeletions *)
MCOneForces == [c \in MCCallers |-> c = c2]
=============================================================================
