---------------------------- MODULE FileDeletions ----------------------------
(***************************************************************************)
(* RocksDB's obsolete-file deletion guard (db/db_filesnapshot.cc):          *)
(* DisableFileDeletions and EnableFileDeletions keep the counter          *)
(* disable_delete_obsolete_files_ under mutex_; GetLiveFiles lists the     *)
(* live files, optionally after flushing the memtables with the mutex      *)
(* released.  A caller (a backup or checkpoint) disables deletions, lists  *)
(* the live files, copies them and enables deletions again.  Background    *)
(* compactions make files obsolete and, at the end of each job,            *)
(* FindObsoleteFiles collects them when the counter is 0; the collected    *)
(* files are purged after the mutex is released.                           *)
(***************************************************************************)
EXTENDS Naturals, FiniteSets

CONSTANTS
  Callers,     \* threads taking file snapshots
  Force,       \* Force[c]: the force argument caller c passes to EnableFileDeletions
  Rounds,      \* snapshots each caller takes
  MaxFiles     \* file numbers handed out are 1..MaxFiles

VARIABLES
  counter,     \* disable_delete_obsolete_files_
  live,        \* files of the current versions
  obsolete,    \* files no longer live and not yet deleted
  deleted,     \* files removed from disk
  nextFile,    \* the next file number
  pc,          \* pc[c]: where caller c is
  snap,        \* snap[c]: the live files GetLiveFiles returned to c
  job,         \* job[c]: the files c's job_context collected for purging
  bgJob,       \* files collected by background jobs, not yet purged
  rounds       \* rounds[c]: snapshots c has started

vars == <<counter, live, obsolete, deleted, nextFile, pc, snap, job, bgJob, rounds>>

Init ==
  /\ counter = 0
  /\ live = {1}
  /\ obsolete = {}
  /\ deleted = {}
  /\ nextFile = 2
  /\ pc = [c \in Callers |-> "idle"]
  /\ snap = [c \in Callers |-> {}]
  /\ job = [c \in Callers |-> {}]
  /\ bgJob = {}
  /\ rounds = [c \in Callers |-> 0]

-----------------------------------------------------------------------------
(* A counter that only records whether deletions are disabled. *)
DisableCounterFlag(n) == 1

(* ++disable_delete_obsolete_files_ *)
DisableCounter(n) == n + 1

(* DisableFileDeletions *)
DisableFileDeletions(c) ==
  /\ pc[c] = "idle" /\ rounds[c] < Rounds
  /\ counter' = DisableCounter(counter)
  /\ pc' = [pc EXCEPT ![c] = "disabled"]
  /\ rounds' = [rounds EXCEPT ![c] = @ + 1]
  /\ UNCHANGED <<live, obsolete, deleted, nextFile, snap, job, bgJob>>

(* GetLiveFiles: without flush_memtable the live files are listed at once *)
(* under the mutex; with it the mutex is released for FlushMemTable.      *)
GetLiveFiles(c, flushMemtable) ==
  /\ pc[c] = "disabled"
  /\ IF flushMemtable
     THEN /\ pc' = [pc EXCEPT ![c] = "flushing"]
          /\ UNCHANGED snap
     ELSE /\ snap' = [snap EXCEPT ![c] = live]
          /\ pc' = [pc EXCEPT ![c] = "copying"]
  /\ UNCHANGED <<counter, live, obsolete, deleted, nextFile, job, bgJob, rounds>>

(* FlushMemTable, outside the mutex: a new live table file, or a failed  *)
(* status that GetLiveFiles returns to the caller                          *)
FlushMemTable(c, ok) ==
  /\ pc[c] = "flushing"
  /\ IF ok
     THEN /\ nextFile <= MaxFiles
          /\ live' = live \cup {nextFile}
          /\ nextFile' = nextFile + 1
          /\ pc' = [pc EXCEPT ![c] = "flushed"]
     ELSE /\ pc' = [pc EXCEPT ![c] = "failed"]
          /\ UNCHANGED <<live, nextFile>>
  /\ UNCHANGED <<counter, obsolete, deleted, snap, job, bgJob, rounds>>

(* the mutex taken again: the live files of every column family *)
CollectLiveFiles(c) ==
  /\ pc[c] = "flushed"
  /\ snap' = [snap EXCEPT ![c] = live]
  /\ pc' = [pc EXCEPT ![c] = "copying"]
  /\ UNCHANGED <<counter, live, obsolete, deleted, nextFile, job, bgJob, rounds>>

(* A forced enable whatever the caller asked. *)
EnableCounterAlwaysForce(n, force) == 0

(* force resets the counter; otherwise it is decremented if positive *)
EnableCounter(n, force) ==
  IF force THEN 0 ELSE IF n > 0 THEN n - 1 ELSE n

(* Purging only on a forced enable. *)
PurgeOnEnableForcedOnly(n, force) == force

(* should_purge_files: the counter reached 0 *)
PurgeOnEnable(n, force) == n = 0

(* EnableFileDeletions, the part under the mutex: the counter, and when it *)
(* is 0 FindObsoleteFiles(&job_context, true) collects the obsolete files. *)
(* The caller is done with its snapshot (copied, or GetLiveFiles failed). *)
EnableFileDeletions(c) ==
  LET n     == EnableCounter(counter, Force[c])
      purge == PurgeOnEnable(n, Force[c])
  IN /\ pc[c] \in {"copying", "failed"}
     /\ counter' = n
     /\ job' = [job EXCEPT ![c] = IF purge THEN obsolete ELSE {}]
     /\ pc' = [pc EXCEPT ![c] = IF purge THEN "purging" ELSE "idle"]
     /\ snap' = [snap EXCEPT ![c] = {}]
     /\ UNCHANGED <<live, obsolete, deleted, nextFile, bgJob, rounds>>

(* A purge that deletes the files but leaves them listed as obsolete. *)
PurgeObsoleteFilesKeepListed(c) ==
  /\ pc[c] = "purging"
  /\ deleted' = deleted \cup job[c]
  /\ job' = [job EXCEPT ![c] = {}]
  /\ pc' = [pc EXCEPT ![c] = "idle"]
  /\ UNCHANGED <<counter, live, obsolete, nextFile, snap, bgJob, rounds>>

(* PurgeObsoleteFiles(job_context), after the mutex is released *)
PurgeObsoleteFiles(c) ==
  /\ pc[c] = "purging"
  /\ deleted' = deleted \cup job[c]
  /\ obsolete' = obsolete \ job[c]
  /\ job' = [job EXCEPT ![c] = {}]
  /\ pc' = [pc EXCEPT ![c] = "idle"]
  /\ UNCHANGED <<counter, live, nextFile, snap, bgJob, rounds>>

(* A background compaction: some live files replaced by a new one; at the *)
(* end of the job FindObsoleteFiles collects the obsolete files, unless   *)
(* deletions are disabled.                                                *)
Compaction(inputs) ==
  /\ inputs # {} /\ inputs \subseteq live
  /\ nextFile <= MaxFiles
  /\ live' = (live \ inputs) \cup {nextFile}
  /\ nextFile' = nextFile + 1
  /\ obsolete' = obsolete \cup inputs
  /\ bgJob' = IF counter = 0 THEN bgJob \cup obsolete' ELSE bgJob
  /\ UNCHANGED <<counter, deleted, pc, snap, job, rounds>>

(* The background job purges what it collected. *)
BackgroundPurge ==
  /\ bgJob # {}
  /\ deleted' = deleted \cup bgJob
  /\ obsolete' = obsolete \ bgJob
  /\ bgJob' = {}
  /\ UNCHANGED <<counter, live, nextFile, pc, snap, job, rounds>>

CallerStep(c) ==
  \/ DisableFileDeletions(c)
  \/ \E flush \in BOOLEAN : GetLiveFiles(c, flush)
  \/ \E ok \in BOOLEAN : FlushMemTable(c, ok)
  \/ CollectLiveFiles(c)
  \/ EnableFileDeletions(c)
  \/ PurgeObsoleteFiles(c)

Next ==
  \/ \E c \in Callers : CallerStep(c)
  \/ \E inputs \in SUBSET live : Compaction(inputs)
  \/ BackgroundPurge

(* A caller that has disabled deletions runs its code path to the end and *)
(* a background job purges what it collected; starting a snapshot and    *)
(* compacting are never forced.                                            *)
Fairness ==
  /\ \A c \in Callers :
       WF_vars(\/ \E flush \in BOOLEAN : GetLiveFiles(c, flush)
               \/ \E ok \in BOOLEAN : FlushMemTable(c, ok)
               \/ CollectLiveFiles(c) \/ EnableFileDeletions(c) \/ PurgeObsoleteFiles(c))
  /\ WF_vars(BackgroundPurge)

Spec == Init /\ [][Next]_vars /\ Fairness

-----------------------------------------------------------------------------
Holding == {"disabled", "flushing", "flushed", "failed", "copying"}

(* Type invariant; every file handed out is live, obsolete or deleted,    *)
(* and in only one of them.                                               *)
TypeOK ==
  /\ counter \in Nat /\ nextFile \in 2..MaxFiles + 1
  /\ live \cup obsolete \cup deleted = 1..nextFile - 1
  /\ live \cap obsolete = {} /\ live \cap deleted = {} /\ obsolete \cap deleted = {}
  /\ pc \in [Callers -> {"idle", "purging"} \cup Holding]
  /\ snap \in [Callers -> SUBSET (1..MaxFiles)] /\ job \in [Callers -> SUBSET (1..MaxFiles)]
  /\ bgJob \subseteq 1..MaxFiles /\ rounds \in [Callers -> 0..Rounds]

(* The counter counts the callers between their DisableFileDeletions and  *)
(* their EnableFileDeletions, whatever the interleaving of the two calls  *)
(* across callers.                                                         *)
CounterMatchesHolders == counter = Cardinality({c \in Callers : pc[c] \in Holding})

(* No file of a caller's snapshot is deleted while it copies them: the    *)
(* deletions another caller's EnableFileDeletions or a background job     *)
(* makes never touch a file listed by GetLiveFiles under a disable.        *)
SnapshotFilesKept == \A c \in Callers : pc[c] = "copying" => snap[c] \cap deleted = {}

(* Every obsolete file is eventually deleted: when the last caller enables *)
(* deletions again, the files that became obsolete meanwhile are purged.   *)
ObsoleteEventuallyDeleted == \A f \in 1..MaxFiles : f \in obsolete ~> f \in deleted

-----------------------------------------------------------------------------
(* The refinement mapping: a caller copies the files its snapshot lists   *)
(* while it is at "copying"; the counter, the flush and the job contexts   *)
(* are the implementation's and have no abstract counterpart.              *)
Guard == INSTANCE DeletionGuard
           WITH listed <- [c \in Callers |-> IF pc[c] = "copying" THEN snap[c] ELSE {}]

(* The counter, GetLiveFiles, EnableFileDeletions and the purges together  *)
(* implement the deletion guard: every deletion, by a caller's purge after *)
(* its EnableFileDeletions or by a background job, is of obsolete files no *)
(* caller is copying, every copy ends, and every obsolete file no caller   *)
(* copies is eventually deleted.                                           *)
GuardSpec == Guard!Spec

=============================================================================
