---------------------------- MODULE JobController ----------------------------
(***************************************************************************)
(* One controller process and its journal: server.py's controller          *)
(* lifecycle opens the store (reload, then reconcile), the tools and the   *)
(* supervisor mutate it in any order while it is open, shutdown marks what *)
(* is left, and the process may be killed between any two steps.           *)
(*                                                                         *)
(* One controller holds the journal at a time.  What order worker events   *)
(* really come in is JobSupervisor's subject: here a worker may report     *)
(* anything in Snapshots at any time.                                      *)
(*                                                                         *)
(* The A2A request that accepted the latest job keeps the object create    *)
(* returned while it publishes and starts the worker, and writes it back   *)
(* if either fails (prelaunch.py).  The store meanwhile goes on with       *)
(* another object as soon as a snapshot is merged or a failed save is      *)
(* rolled back: from then on the request's object is stale.                *)
(***************************************************************************)
EXTENDS JobStore

CONSTANTS
    Surfaces,      \* subset of {"mcp", "a2a"}: who asks for research
    Snapshots,     \* the records a worker may report
    JournalMayRot  \* whether the file can be damaged while it is closed

ASSUME SurfacesAssumption == Surfaces \subseteq {"mcp", "a2a"}

ASSUME SnapshotsAssumption == Snapshots \subseteq Job

ASSUME JournalMayRotAssumption == JournalMayRot \in BOOLEAN

VARIABLES
    phase,   \* of controller_lifecycle, with its two store calls apart
    used,    \* job ids drawn so far; uuid4 does not repeat
    own,     \* those this process drew itself
    holds,   \* the A2A request's object: none that it could write back,
             \* the store's current one, or a stale one
    stale    \* what the stale object shows

request == <<holds, stale>>

vars == <<job, persisted, journal, healthy, phase, used, own, holds, stale>>

Phases == {"inactive", "loaded", "ready", "failed", "stuck", "stopped"}

TypeOK ==
    /\ StoreTypeOK
    /\ phase \in Phases
    /\ used \subseteq JobIds
    /\ own \subseteq used
    /\ holds \in {"nothing", "current", "stale"}
    /\ stale \in Job \union {NoJob}
    /\ holds = "stale" => stale \in Job

Init ==
    /\ StoreInit
    /\ journal = NoJob
    /\ phase = "inactive"
    /\ used = {}
    /\ own = {}
    /\ holds = "nothing"
    /\ stale = NoJob

------------------------------------------------------------------------------
(* The request returns, or its object shows an outcome: it writes nothing  *)
(* more.                                                                   *)
Released == holds' = "nothing" /\ stale' = NoJob

(* The store's object is replaced and the request keeps the old one.       *)
Detached ==
    IF holds = "current" THEN holds' = "stale" /\ stale' = job
                         ELSE UNCHANGED request

(* An outcome is set in place on the store's object, saved or not.         *)
OutcomeSetInPlace ==
    IF holds = "current" THEN Released ELSE UNCHANGED request

(* An entry that starts afresh on a damaged file.                          *)
ReloadLenient(readable) ==
    /\ phase \in {"inactive", "failed"}
    /\ LoadJournalLenient(readable)
    /\ phase' = "loaded"
    /\ UNCHANGED <<used, own, request>>

(* A failed entry gives its lease back and may be tried again.             *)
Reload(readable) ==
    /\ phase \in {"inactive", "failed"}
    /\ LoadJournal(readable)
    /\ phase' = IF readable /\ journal # Corrupt THEN "loaded" ELSE "failed"
    /\ UNCHANGED <<used, own, request>>

Reconcile(saved) ==
    /\ phase = "loaded"
    /\ ReconcileInterruptedJob(saved)
    /\ phase' = IF saved \/ ~IsActive(job) THEN "ready" ELSE "failed"
    /\ UNCHANGED <<used, own, request>>

(* A new job makes an earlier request's object one of another id, which    *)
(* update ignores; a create that cannot be saved leaves that request be.   *)
Accept(i, o, surface, saved) ==
    /\ phase = "ready"
    /\ i \notin used
    /\ Create(i, o, saved)
    /\ used' = used \union {i}
    /\ own' = own \union {i}
    /\ IF saved
         THEN holds' = (IF surface = "a2a" THEN "current" ELSE "nothing") /\ stale' = NoJob
         ELSE UNCHANGED request
    /\ UNCHANGED phase

(* research_company on MCP records the approval on the job it has just     *)
(* created; on A2A nobody does.                                            *)
RecordAudit(saved) ==
    /\ phase = "ready"
    /\ holds = "nothing"
    /\ IsActive(job)
    /\ job.stage = "accepted"
    /\ Update([job EXCEPT !.audit = TRUE], saved)
    /\ UNCHANGED <<phase, used, own, request>>

WorkerReports(snapshot, allowTerminal, saved) ==
    /\ phase = "ready"
    /\ ApplyWorkerSnapshot(snapshot, allowTerminal, saved)
    /\ Detached
    /\ UNCHANGED <<phase, used, own>>

CommitOutcome(s, e, saved) ==
    /\ phase = "ready"
    /\ IsActive(job)
    /\ CommitTerminal(job.id, s, e, saved)
    /\ OutcomeSetInPlace
    /\ UNCHANGED <<phase, used, own>>

WriteManifest(saved) ==
    /\ phase = "ready"
    /\ job # NoJob
    /\ ListManifest(job.id, saved)
    /\ UNCHANGED <<phase, used, own, request>>

(* record_generated_artifacts rewrites output_paths of whatever job there  *)
(* is; of those paths the model keeps only the manifest's.                 *)
RegisterArtifacts(saved) ==
    /\ phase = "ready"
    /\ job # NoJob
    /\ Update(job, saved)
    /\ IF saved THEN UNCHANGED request ELSE Detached
    /\ UNCHANGED <<phase, used, own>>

(* clear_jobs looks the terminal job up before it clears the store.        *)
ClearJobs(saved) ==
    /\ phase = "ready"
    /\ job # NoJob
    /\ IsTerminal(job)
    /\ Clear(saved)
    /\ IF saved THEN Released ELSE UNCHANGED request
    /\ UNCHANGED <<phase, used, own>>

(* _graceful_shutdown with every worker reaped: a mark that cannot be      *)
(* saved fails the exit, and the lease is kept until the process is gone.  *)
Shutdown(saved) ==
    /\ phase = "ready"
    /\ MarkShutdown(saved)
    /\ phase' = IF saved \/ ~IsActive(job) THEN "stopped" ELSE "stuck"
    /\ IF IsActive(job) THEN OutcomeSetInPlace ELSE UNCHANGED request
    /\ UNCHANGED <<used, own>>

(* terminalize_prelaunch_job: the request could not publish its event or   *)
(* start the worker.  It goes by its own object, and update takes that     *)
(* object whenever the store still has a job of its id, whatever the       *)
(* outcome the store's own object has by then.                             *)
PrelaunchOutcomes ==
    {<<"cancelled", "a2a_request_cancelled_before_worker_start">>,
     <<"failed", "a2a_working_event_failed">>,
     <<"failed", "worker_start_cancelled">>,
     <<"failed", "worker_spawn_failed">>}

HeldObject == IF holds = "stale" THEN stale ELSE job

PrelaunchFails(s, e, saved) ==
    /\ phase \in {"ready", "stuck", "stopped"}
    /\ holds # "nothing"
    /\ Update(Terminated(HeldObject, s, e), saved)
    /\ Released
    /\ UNCHANGED <<phase, used, own>>

(* start() gave the request its task: it does not write the job again.     *)
RequestReturns ==
    /\ holds # "nothing"
    /\ Released
    /\ UNCHANGED <<job, persisted, journal, healthy, phase, used, own>>

(* The process ends at any point; the next one starts from the journal.    *)
Restart ==
    /\ phase' = "inactive"
    /\ job' = NoJob
    /\ persisted' = NoJob
    /\ healthy' = TRUE
    /\ own' = {}
    /\ Released
    /\ UNCHANGED <<journal, used>>

Rot ==
    /\ JournalMayRot
    /\ phase = "inactive"
    /\ journal' = Corrupt
    /\ UNCHANGED <<job, persisted, healthy, phase, used, own, request>>

Repair ==
    /\ phase \in {"inactive", "failed"}
    /\ journal = Corrupt
    /\ journal' = NoJob
    /\ UNCHANGED <<job, persisted, healthy, phase, used, own, request>>

CommitErrors == ErrorTypes \ {"none", "server_restart", "worker_error"}

StoreCall(saved) ==
    \/ Reconcile(saved)
    \/ \E i \in JobIds, o \in Owners, surface \in Surfaces :
           Accept(i, o, surface, saved)
    \/ RecordAudit(saved)
    \/ \E snapshot \in Snapshots, allow \in BOOLEAN :
           WorkerReports(snapshot, allow, saved)
    \/ \E s \in Aborts, e \in CommitErrors : CommitOutcome(s, e, saved)
    \/ WriteManifest(saved)
    \/ RegisterArtifacts(saved)
    \/ ClearJobs(saved)
    \/ Shutdown(saved)
    \/ \E outcome \in PrelaunchOutcomes : PrelaunchFails(outcome[1], outcome[2], saved)

Next ==
    \/ \E readable \in BOOLEAN : Reload(readable)
    \/ \E saved \in BOOLEAN : StoreCall(saved)
    \/ RequestReturns
    \/ Restart
    \/ Rot
    \/ Repair

Spec == Init /\ [][Next]_vars

------------------------------------------------------------------------------
(* While the store is in use, memory, the record kept for rollback and the *)
(* file agree, failed saves included: what status queries answer from is   *)
(* what a restart would find (_save_journal's except branch).              *)
MemoryMatchesJournal ==
    phase \in {"loaded", "ready", "stuck", "stopped"} =>
        /\ job = persisted
        /\ journal = job

(* An active job in a ready controller is one this process accepted: work  *)
(* left by a killed process was failed first (reload before reconcile,     *)
(* reconcile before admission).                                            *)
ActiveJobIsOwn ==
    phase = "ready" /\ IsActive(job) => job.id \in own

(* A record carries a completion time exactly when it has an outcome: no   *)
(* snapshot smuggles one in, no commit path forgets it.                    *)
CompletionIffTerminal ==
    journal \in Job => (journal.completed <=> IsTerminal(journal))

(* The one step that replaces an outcome: the A2A request that accepted    *)
(* the job, still open, writes back the stale object it read before the    *)
(* outcome was committed, as that job's failure or cancellation.           *)
Overturned ==
    /\ holds = "stale"
    /\ ~IsTerminal(stale)
    /\ stale.id = journal.id
    /\ \E outcome \in PrelaunchOutcomes :
           journal' = Terminated(stale, outcome[1], outcome[2])
    /\ holds' = "nothing"

(* advance_stage: "Terminal states are immutable" holds of the object it   *)
(* is called on.  Of the journal: no later commit, late worker report,     *)
(* failed save, shutdown or reconciliation after a crash changes the       *)
(* outcome on disk; only the request that accepted the job may, once,      *)
(* before it returns (prelaunch.py:31-42).                                 *)
OnlyItsRequestOverturns == [][OutcomeKept \/ Overturned]_vars

(* A damaged journal is left for the operator: no controller step writes   *)
(* over it, and none opens the store on it (_load_journal strict).         *)
DamageIsLeftAlone ==
    [][journal = Corrupt /\ ~Repair => journal' = Corrupt /\ phase' # "ready"]_vars

(* The controller implements the promise of JobContract.                   *)
Contract == INSTANCE JobContract WITH
    record <- journal, pending <- (holds # "nothing")
ImplementsContract == Contract!Spec
=============================================================================
