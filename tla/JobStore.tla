------------------------------ MODULE JobStore ------------------------------
(***************************************************************************)
(* SingleJobStore of src/primr/mcp_server/job_store.py: one canonical job  *)
(* in memory, the last record known to be on disk, and the journal file.   *)
(* Every mutation runs under the store lock and ends in _save_journal, so  *)
(* a mutation is one action; `saved' is the outcome of that save, chosen   *)
(* by the file system.  The module has no behaviour of its own: the        *)
(* modules that use it say who calls what, and when.                       *)
(*                                                                         *)
(* A save that fails leaves the file as it was (atomic_write_bytes writes  *)
(* a sibling and renames it), puts the persisted record back in memory and *)
(* latches persistence_healthy to false.                                   *)
(***************************************************************************)
EXTENDS ResearchJob

CONSTANT Corrupt  \* a journal file that does not parse

ASSUME JournalAssumption ==
    /\ NoJob \notin Job
    /\ Corrupt \notin Job
    /\ Corrupt # NoJob

VARIABLES
    job,        \* _job
    persisted,  \* _persisted_job
    journal,    \* the file at _journal_path
    healthy     \* _persistence_healthy

storeVars == <<job, persisted, journal, healthy>>

StoreTypeOK ==
    /\ job \in Job \union {NoJob}
    /\ persisted \in Job \union {NoJob}
    /\ journal \in Job \union {NoJob, Corrupt}
    /\ healthy \in BOOLEAN

(* A new SingleJobStore(defer_initial_load=True) reads nothing.            *)
StoreInit ==
    /\ job = NoJob
    /\ persisted = NoJob
    /\ healthy = TRUE

IsActive(j) == j # NoJob /\ ~IsTerminal(j)
Has(i) == job # NoJob /\ job.id = i

(* A failed save that forgets to restore the persisted record.             *)
SaveJournalNoRollback(next, saved) ==
    /\ job' = next
    /\ IF saved THEN persisted' = next /\ journal' = next /\ UNCHANGED healthy
                ELSE healthy' = FALSE /\ UNCHANGED <<persisted, journal>>

(* _save_journal applied to the new canonical record `next'.               *)
SaveJournal(next, saved) ==
    IF saved
      THEN /\ job' = next
           /\ persisted' = next
           /\ journal' = next
           /\ UNCHANGED healthy
      ELSE /\ job' = persisted
           /\ healthy' = FALSE
           /\ UNCHANGED <<persisted, journal>>

(* A load that starts afresh on a damaged file, as the non-strict one does. *)
LoadJournalLenient(readable) ==
    /\ job' = IF readable /\ journal # Corrupt THEN journal ELSE NoJob
    /\ persisted' = job'
    /\ healthy' = (readable /\ journal # Corrupt)
    /\ UNCHANGED journal

(* _load_journal(strict=True): a file that cannot be read or parsed leaves *)
(* memory alone and raises.                                                *)
LoadJournal(readable) ==
    IF readable /\ journal # Corrupt
      THEN /\ job' = journal
           /\ persisted' = journal
           /\ healthy' = TRUE
           /\ UNCHANGED journal
      ELSE /\ healthy' = FALSE
           /\ UNCHANGED <<job, persisted, journal>>

(* create without the check for an active job.                             *)
CreateAnyway(i, o, saved) == SaveJournal(NewJob(i, o), saved)

(* create: refused with JobInProgressError while a job is active.          *)
Create(i, o, saved) ==
    /\ ~IsActive(job)
    /\ SaveJournal(NewJob(i, o), saved)

(* update: a record of another job is ignored.                             *)
Update(j, saved) ==
    IF Has(j.id) THEN SaveJournal(j, saved) ELSE UNCHANGED storeVars

(* apply_worker_snapshot where it returns True.                            *)
ApplyWorkerSnapshot(snapshot, allowTerminal, saved) ==
    /\ job # NoJob
    /\ SnapshotAccepted(job, snapshot, allowTerminal)
    /\ SaveJournal(MergeSnapshot(job, snapshot), saved)

(* get, advance_stage, error_type, update without an await in between:     *)
(* _commit_failure, _commit_cancelled, and the cancel tool's own path.     *)
CommitTerminal(i, s, e, saved) ==
    IF Has(i) /\ ~IsTerminal(job)
      THEN SaveJournal(Terminated(job, s, e), saved)
      ELSE UNCHANGED storeVars

(* _write_terminal_manifest after the manifest file was written.           *)
ListManifest(i, saved) ==
    IF Has(i) /\ job.stage \in Aborts /\ ~job.manifest
      THEN SaveJournal([job EXCEPT !.manifest = TRUE], saved)
      ELSE UNCHANGED storeVars

(* A mark that does not look whether the job has an outcome.               *)
FailPresent(e, saved) ==
    IF job # NoJob
      THEN SaveJournal([job EXCEPT !.stage = "failed", !.error = e,
                                   !.completed = TRUE], saved)
      ELSE UNCHANGED storeVars

FailActive(e, saved) ==
    IF IsActive(job)
      THEN SaveJournal([job EXCEPT !.stage = "failed", !.error = e,
                                   !.completed = TRUE], saved)
      ELSE UNCHANGED storeVars

(* A restart that trusts the active record it finds.                       *)
ReconcileNothing(saved) == UNCHANGED storeVars

ReconcileInterruptedJob(saved) == FailActive("server_restart", saved)
MarkShutdown(saved) == FailActive("server_shutdown", saved)

(* clear: _job = None unlinks the journal.                                 *)
Clear(saved) == SaveJournal(NoJob, saved)

------------------------------------------------------------------------------
(* A step keeps the outcome on disk: only the manifest may be listed, or   *)
(* the record give way to another job's.                                   *)
OutcomeKept ==
    (journal \in Job /\ IsTerminal(journal)) =>
        \/ journal' \notin Job
        \/ journal'.id # journal.id
        \/ [journal' EXCEPT !.manifest = FALSE] = [journal EXCEPT !.manifest = FALSE]
=============================================================================
