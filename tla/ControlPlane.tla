---------------------------- MODULE ControlPlane -----------------------------
(***************************************************************************)
(* The cloud deployment: the HTTP handlers of                              *)
(* src/deploy/control_plane/api.py with cancellation.py, the reconciler,   *)
(* the job table, the queue, and the executions of CloudRunner.  Up to ten *)
(* replicas serve requests (deploy/azure/container-app.yaml:33), so each   *)
(* access to the job table is a step of its own: a handler works on the    *)
(* copy it read, and writes that copy back whole.                          *)
(*                                                                         *)
(* What takes a message from the queue and starts a container is not in    *)
(* the repository's Python; Start and Report stand for it (external).      *)
(***************************************************************************)
EXTENDS CloudRunner, FiniteSets

CONSTANTS
    Inputs,         \* canonical inputs, told apart by their hash
    Handlers,       \* requests being served, and runs of the reconciler
    NoRecord,       \* a job id without a record
    MaxConcurrent,  \* max_concurrent_jobs of the caller's quota
    MaxSends,       \* bound: messages sent for one job
    EnqueueFails    \* TRUE: the queue may refuse a message

VARIABLES
    rec,      \* job |-> record in the job table
    queue,    \* job |-> messages not yet deleted
    sends,    \* job |-> messages ever sent
    handler,  \* handler |-> what it is doing
    created,  \* job |-> submissions answered with is_existing = False
    accepted, \* <<job, inputs>> of submissions answered with a job
    refused   \* jobs the queue has refused a message for

planeVars == <<rec, queue, sends, handler, created, accepted, refused>>
vars == <<runnerVars, planeVars>>

Terminal == {"SUCCEEDED", "FAILED", "CANCELLED"}
JobStatus == Terminal \union
             {"PENDING_APPROVAL", "QUEUED", "RUNNING", "CANCEL_REQUESTED"}

(* started: timing.started_at is set.  exec: execution_id.                 *)
JobRecords == [status: JobStatus, inputs: Inputs, started: BOOLEAN,
               exec: Runners \union {NoRunner}]

(* The quota admits one job at least.                                      *)
ControlPlaneAssumption ==
    /\ MaxConcurrent \in Nat \ {0}
    /\ MaxSends \in Nat
    /\ EnqueueFails \in BOOLEAN
    /\ NoRecord \notin JobRecords

(* at: the step reached.  copy: the record read.  next: the status to be   *)
(* written.                                                                *)
Idle == [at |-> "idle"]
Working(at, j, copy, next) ==
    [at |-> at, job |-> j, copy |-> copy, next |-> next]
Steps == {"put", "update", "approve", "enqueue", "stop", "manifest"}
HandlerStates ==
    {Idle} \union [at: Steps, job: Jobs, copy: JobRecords, next: JobStatus]

TypeOK ==
    /\ RunnerTypeOK
    /\ rec \in [Jobs -> JobRecords \union {NoRecord}]
    /\ queue \in [Jobs -> 0..MaxSends]
    /\ sends \in [Jobs -> 0..MaxSends]
    /\ handler \in [Handlers -> HandlerStates]
    /\ created \in [Jobs -> Nat]
    /\ accepted \subseteq Jobs \X Inputs
    /\ refused \subseteq Jobs

Init ==
    /\ RunnerInit
    /\ rec = [j \in Jobs |-> NoRecord]
    /\ queue = [j \in Jobs |-> 0]
    /\ sends = [j \in Jobs |-> 0]
    /\ handler = [h \in Handlers |-> Idle]
    /\ created = [j \in Jobs |-> 0]
    /\ accepted = {}
    /\ refused = {}

------------------------------------------------------------------------------
(* Handlers.                                                               *)
Become(h, state) == handler' = [handler EXCEPT ![h] = state]
Done(h) == Become(h, Idle)
At(h, step) == handler[h].at = step

Has(j, statuses) == rec[j] # NoRecord /\ rec[j].status \in statuses

(* get_usage counts every job without an outcome.                          *)
Active == {j \in Jobs : Has(j, JobStatus \ Terminal)}

QuotaAllows == Cardinality(Active) < MaxConcurrent

NewRecord(i, approved) ==
    [status |-> IF approved THEN "QUEUED" ELSE "PENDING_APPROVAL",
     inputs |-> i, started |-> FALSE, exec |-> NoRunner]

(* An existing job is returned when the inputs are the same, else 409.     *)
Existing(j, i) ==
    accepted' = IF rec[j].inputs = i THEN accepted \union {<<j, i>>}
                ELSE accepted

(* submit_job up to its conditional write.                                 *)
Submit(h, j, i, approved) ==
    /\ handler[h] = Idle
    /\ IF rec[j] # NoRecord
       THEN Existing(j, i) /\ UNCHANGED handler
       ELSE /\ QuotaAllows
            /\ LET job == NewRecord(i, approved)
               IN  Become(h, Working("put", j, job, job.status))
            /\ UNCHANGED accepted
    /\ UNCHANGED <<rec, queue, sends, created, refused>>

(* put_if_not_exists; a concurrent creator's job is returned instead.      *)
PutIfNotExists(h) ==
    LET w == handler[h]
    IN  /\ At(h, "put")
        /\ IF rec[w.job] # NoRecord
           THEN /\ Existing(w.job, w.copy.inputs)
                /\ Done(h)
                /\ UNCHANGED <<rec, created>>
           ELSE /\ rec' = [rec EXCEPT ![w.job] = w.copy]
                /\ created' = [created EXCEPT ![w.job] = @ + 1]
                /\ accepted' = accepted \union {<<w.job, w.copy.inputs>>}
                /\ IF w.next = "QUEUED"
                   THEN Become(h, [w EXCEPT !.at = "enqueue"])
                   ELSE Done(h)
        /\ UNCHANGED <<queue, sends, refused>>

(* queue.enqueue, at the end of submit_job and of approve_job.             *)
Enqueue(h) ==
    LET j == handler[h].job
    IN  /\ At(h, "enqueue")
        /\ \/ /\ sends[j] < MaxSends
              /\ queue' = [queue EXCEPT ![j] = @ + 1]
              /\ sends' = [sends EXCEPT ![j] = @ + 1]
              /\ UNCHANGED refused
           \/ /\ EnqueueFails
              /\ refused' = refused \union {j}
              /\ UNCHANGED <<queue, sends>>
        /\ Done(h)
        /\ UNCHANGED <<rec, created, accepted>>

(* approve_job reads, refuses what is not pending, and goes on.            *)
Approve(h, j) ==
    /\ handler[h] = Idle
    /\ Has(j, {"PENDING_APPROVAL"})
    /\ Become(h, Working("approve", j, rec[j], "QUEUED"))
    /\ UNCHANGED <<rec, queue, sends, created, accepted, refused>>

(* job_store.update: the whole copy goes back, with its new status.        *)
Update(w) == rec' = [rec EXCEPT ![w.job] = [w.copy EXCEPT !.status = w.next]]

(* An approval that leaves the message to somebody else.                   *)
ApproveUpdateOnly(h) ==
    /\ At(h, "approve")
    /\ Update(handler[h])
    /\ Done(h)
    /\ UNCHANGED <<queue, sends, created, accepted, refused>>

ApproveUpdate(h) ==
    /\ At(h, "approve")
    /\ Update(handler[h])
    /\ Become(h, [handler[h] EXCEPT !.at = "enqueue"])
    /\ UNCHANGED <<queue, sends, created, accepted, refused>>

(* CancellationService.cancel_job: what it does is decided on the copy.    *)
Cancel(h, j) ==
    /\ handler[h] = Idle
    /\ Has(j, JobStatus \ (Terminal \union {"CANCEL_REQUESTED"}))
    /\ Become(h,
        IF rec[j].status # "RUNNING" THEN Working("update", j, rec[j], "CANCELLED")
        ELSE IF rec[j].exec = NoRunner
             THEN Working("update", j, rec[j], "CANCEL_REQUESTED")
             ELSE Working("stop", j, rec[j], "CANCELLED"))
    /\ UNCHANGED <<rec, queue, sends, created, accepted, refused>>

(* provider.stop_job asks the platform to end the execution.  It answers   *)
(* stopped, pending, or raises; a refusal may come without a signal.       *)
StopJob(h) ==
    LET w == handler[h]
    IN  /\ At(h, "stop")
        /\ \/ Signal(w.copy.exec)
           \/ UNCHANGED runnerVars
        /\ \/ Become(h, [w EXCEPT !.at = "update"])
           \/ Become(h, [w EXCEPT !.at = "update", !.next = "CANCEL_REQUESTED"])
           \/ Done(h)
        /\ UNCHANGED <<rec, queue, sends, created, accepted, refused>>

WriteUpdate(h) ==
    /\ At(h, "update")
    /\ Update(handler[h])
    /\ Done(h)
    /\ UNCHANGED <<queue, sends, created, accepted, refused>>

------------------------------------------------------------------------------
(* A reconciler that looks at running jobs only.                           *)
QueryRunning(h, j) ==
    /\ handler[h] = Idle
    /\ Has(j, {"RUNNING"})
    /\ Become(h, Working("manifest", j, rec[j], "FAILED"))
    /\ UNCHANGED <<rec, queue, sends, created, accepted, refused>>

(* Reconciler.reconcile: a job of the batch it queried.                    *)
Query(h, j) ==
    /\ handler[h] = Idle
    /\ Has(j, {"RUNNING", "CANCEL_REQUESTED"})
    /\ Become(h, Working("manifest", j, rec[j], "FAILED"))
    /\ UNCHANGED <<rec, queue, sends, created, accepted, refused>>

(* A reconciler that closes a job on its age alone.                        *)
ReconcileWithoutManifest(h) ==
    /\ At(h, "manifest")
    /\ \/ Become(h, [handler[h] EXCEPT !.at = "update", !.next = "SUCCEEDED"])
       \/ Done(h)
    /\ UNCHANGED <<rec, queue, sends, created, accepted, refused>>

(* A manifest decides; without one the job fails if it is over its time,   *)
(* which needs a start time; otherwise it is left alone.                   *)
Reconcile(h) ==
    LET w == handler[h]
        m == manifest[w.job]
    IN  /\ At(h, "manifest")
        /\ \/ /\ m # NoManifest
              /\ Become(h, [w EXCEPT !.at = "update", !.next = m.status])
           \/ /\ m = NoManifest /\ w.copy.started
              /\ Become(h, [w EXCEPT !.at = "update"])
           \/ m = NoManifest /\ Done(h)
        /\ UNCHANGED <<rec, queue, sends, created, accepted, refused>>

------------------------------------------------------------------------------
(* External: a message is delivered, at least once, and an execution is    *)
(* started for it; the record then says so.                                *)
Start(r, j, deleted, known) ==
    /\ queue[j] > 0
    /\ Launched(r, j)
    /\ rec' = [rec EXCEPT ![j].status = "RUNNING", ![j].started = TRUE,
                          ![j].exec = IF known THEN r ELSE @]
    /\ queue' = IF deleted THEN [queue EXCEPT ![j] = @ - 1] ELSE queue
    /\ UNCHANGED <<manifest, stored, sends, handler, created, accepted, refused>>

(* External: the exit code of an execution becomes the job's status.       *)
Report(r) ==
    /\ run[r].pc \in {"ended", "refused", "killed"}
    /\ rec' = [rec EXCEPT ![run[r].job].status =
                   IF run[r].pc = "killed" THEN "FAILED"
                   ELSE IF run[r].ret = EXIT_SUCCESS THEN "SUCCEEDED"
                   ELSE IF run[r].ret = EXIT_CANCELLED THEN "CANCELLED"
                   ELSE "FAILED"]
    /\ UNCHANGED <<queue, sends, handler, created, accepted, refused>>

------------------------------------------------------------------------------
Handle(h) ==
    \/ PutIfNotExists(h) \/ Enqueue(h) \/ ApproveUpdate(h) \/ WriteUpdate(h)
    \/ Reconcile(h)

Request(h, j) ==
    \/ \E i \in Inputs, approved \in BOOLEAN : Submit(h, j, i, approved)
    \/ Approve(h, j) \/ Cancel(h, j)

Next ==
    \/ \E h \in Handlers, j \in Jobs :
          (Request(h, j) \/ Query(h, j)) /\ UNCHANGED runnerVars
    \/ \E h \in Handlers : Handle(h) /\ UNCHANGED runnerVars
    \/ \E h \in Handlers : StopJob(h)
    \/ \E r \in Runners, j \in Jobs, deleted, known \in BOOLEAN :
          Start(r, j, deleted, known)
    \/ \E r \in Runners :
          (RunnerStep(r) \/ Signal(r) \/ Kill(r)) /\ UNCHANGED planeVars
    \/ \E r \in Runners : Report(r) /\ UNCHANGED runnerVars

Spec == Init /\ [][Next]_vars

(* A request that was begun is carried on.  A timer runs the reconciler    *)
(* again and again (deploy/azure/functions/reconciler), and a job does not *)
(* stay younger than its maximal duration.                                 *)
CarriesOn(h) == (Handle(h) /\ UNCHANGED runnerVars) \/ StopJob(h)
Closes(h) == Reconcile(h) /\ handler'[h] # Idle /\ UNCHANGED runnerVars
Looks(h, j) == Query(h, j) /\ UNCHANGED runnerVars

FairSpec ==
    /\ Spec
    /\ \A h \in Handlers :
          /\ WF_vars(CarriesOn(h))
          /\ SF_vars(Closes(h))
          /\ \A j \in Jobs : SF_vars(Looks(h, j))

------------------------------------------------------------------------------
(* An idempotency key stands for one job with one set of inputs: however   *)
(* submissions of it race, at most one creates the job, and every one that *)
(* is answered with the job asked for the inputs the job has.              *)
KeyMeansInputs ==
    \A j \in Jobs :
        /\ created[j] <= 1
        /\ \A i \in Inputs : <<j, i>> \in accepted =>
              rec[j] # NoRecord /\ rec[j].inputs = i

(* No stale copy, reconciliation or report makes a job succeed that has no *)
(* committed result.                                                       *)
SuccessIsCommitted ==
    \A j \in Jobs : Has(j, {"SUCCEEDED"}) =>
        manifest[j] # NoManifest /\ manifest[j].status = "SUCCEEDED"

(* What the job table says is so.                                          *)
JobTableSound == TypeOK /\ KeyMeansInputs /\ SuccessIsCommitted

(* A queued job has a message, or a request about to send one, unless the   *)
(* queue refused one: copies written late never leave it queued alone.     *)
QueuedIsServed ==
    \A j \in Jobs : Has(j, {"QUEUED"}) =>
        \/ queue[j] > 0 \/ j \in refused
        \/ \E h \in Handlers : At(h, "enqueue") /\ handler[h].job = j

(* Jobs whose runner died, hung, or was told to stop are closed by the     *)
(* reconciler, although cancellations keep writing back what they read.    *)
(* A second approval of the same job may put it back into the queue, which *)
(* the reconciler does not look at.                                        *)
StuckJobsSettle ==
    \A j \in Jobs : Has(j, {"RUNNING", "CANCEL_REQUESTED"}) ~>
        \/ Has(j, Terminal)
        \/ Has(j, {"QUEUED"}) /\ (sends[j] > 1 \/ j \in refused)

==============================================================================
