---------------------------- MODULE DeletionGuard ----------------------------
(***************************************************************************)
(* What the obsolete-file deletion guard of RocksDB promises a backup or   *)
(* checkpoint caller (db/db_filesnapshot.cc), without the counter, the     *)
(* mutex or the job contexts: a caller lists the live files in one step    *)
(* and copies them; files are added by flushes, and compactions replace    *)
(* live files by a new one, making the inputs obsolete; an obsolete file   *)
(* may be deleted only when no caller is copying it.  Under fairness every *)
(* caller finishes its copy and every deletable file is deleted.           *)
(***************************************************************************)
EXTENDS Naturals, FiniteSets

CONSTANTS Callers, MaxFiles

VARIABLES
  live,      \* files of the current versions
  obsolete,  \* files no longer live and not yet deleted
  deleted,   \* files removed from disk
  nextFile,  \* the next file number
  listed     \* listed[c]: the files caller c is copying, {} when it is not

vars == <<live, obsolete, deleted, nextFile, listed>>

Init ==
  /\ live = {1} /\ obsolete = {} /\ deleted = {} /\ nextFile = 2
  /\ listed = [c \in Callers |-> {}]

(* A caller lists the live files and starts copying them. *)
List(c) ==
  /\ listed' = [listed EXCEPT ![c] = live]
  /\ UNCHANGED <<live, obsolete, deleted, nextFile>>

(* A caller is done with its copy. *)
Done(c) ==
  /\ listed[c] # {}
  /\ listed' = [listed EXCEPT ![c] = {}]
  /\ UNCHANGED <<live, obsolete, deleted, nextFile>>

(* A flush adds a live file. *)
NewFile ==
  /\ nextFile <= MaxFiles
  /\ live' = live \cup {nextFile} /\ nextFile' = nextFile + 1
  /\ UNCHANGED <<obsolete, deleted, listed>>

(* A compaction replaces some live files by a new one. *)
Replace(inputs) ==
  /\ inputs # {} /\ inputs \subseteq live /\ nextFile <= MaxFiles
  /\ live' = (live \ inputs) \cup {nextFile} /\ nextFile' = nextFile + 1
  /\ obsolete' = obsolete \cup inputs
  /\ UNCHANGED <<deleted, listed>>

Copying == UNION {listed[c] : c \in Callers}

(* Files are deleted: obsolete ones (or ones already gone, which is a      *)
(* no-op) that no caller is copying.                                       *)
Delete(F) ==
  /\ F \subseteq obsolete \cup deleted /\ F \cap Copying = {}
  /\ deleted' = deleted \cup F /\ obsolete' = obsolete \ F
  /\ UNCHANGED <<live, nextFile, listed>>

Next ==
  \/ \E c \in Callers : List(c) \/ Done(c)
  \/ NewFile
  \/ \E inputs \in SUBSET live : Replace(inputs)
  \/ \E F \in SUBSET (obsolete \cup deleted) : Delete(F)

(* Every copy ends, and an obsolete file nobody copies is deleted. *)
Spec ==
  /\ Init /\ [][Next]_vars
  /\ \A c \in Callers : WF_vars(Done(c))
  /\ WF_vars(\E F \in SUBSET obsolete : F # {} /\ Delete(F))

=============================================================================
