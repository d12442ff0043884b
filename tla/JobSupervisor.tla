---------------------------- MODULE JobSupervisor ----------------------------
(***************************************************************************)
(* LocalJobSupervisor of src/primr/mcp_server/job_process.py together with *)
(* everything it runs between: the MCP and A2A handlers that start and     *)
(* cancel jobs, the worker processes (WorkerProcess), the canonical store  *)
(* and its journal (JobStore), and the graceful shutdown of server.py.     *)
(*                                                                         *)
(* All controller code runs on one event loop.  An action is the code one  *)
(* task executes between two suspension points, so tasks interleave        *)
(* exactly where the code awaits.  A bounded wait may time out whenever    *)
(* what it waits for has not happened; time itself is not modelled.        *)
(***************************************************************************)
EXTENDS JobStore, WorkerProcess

CONSTANTS
    Surfaces,         \* subset of {"mcp", "a2a"}: who asks for research
    SaveOutcomes,     \* {TRUE}, or BOOLEAN where a journal save may fail
    CleanupOutcomes   \* {TRUE}, or BOOLEAN where killpg after exit may fail

ASSUME SupervisorAssumption ==
    /\ Surfaces \subseteq {"mcp", "a2a"}
    /\ SaveOutcomes \subseteq BOOLEAN
    /\ CleanupOutcomes \subseteq BOOLEAN

VARIABLES
    call,      \* job |-> the handler that created it and awaits start()
    handle,    \* job |-> its WorkerHandle
    monitor,   \* job |-> _monitor_worker
    stopper,   \* task |-> job |-> the escalation of _cancel_handle, _shutdown_handle
    client,    \* job |-> what a cancelling client asked and was told
    server     \* the progress of _graceful_shutdown

supervisorVars == <<call, handle, monitor, stopper, client, server>>
vars == <<storeVars, processVars, supervisorVars>>

CallPcs ==
    {"none", "publishing", "admitted", "spawning", "withdrawn", "starting",
     "aborting", "abortingLocked", "closed"}

Call ==
    [pc: CallPcs,
     surface: {"mcp", "a2a"},
     live: BOOLEAN,               \* its job object is still the store's own
     stale: Job \union {NoJob},   \* what its job object holds once it is not
     cancelled: BOOLEAN]          \* start() raises CancelledError

Handle ==
    [retained: BOOLEAN,                        \* in _handles
     ready: BOOLEAN,
     terminal: Job \union {NoJob},             \* terminal_snapshot
     reason: {"none", "completed", "failed"} \union ErrorTypes,
     accused: BOOLEAN,                         \* protocol_error is set
     cancelReason: CancelReasons \union {"none"},
     observed: BOOLEAN,                        \* exit_observed
     clean: BOOLEAN,                           \* tree_cleanup_confirmed
     done: BOOLEAN]

NoHandle ==
    [retained |-> FALSE, ready |-> FALSE, terminal |-> NoJob, reason |-> "none",
     accused |-> FALSE, cancelReason |-> "none", observed |-> FALSE,
     clean |-> FALSE, done |-> FALSE]

MonitorPcs == {"none", "reading", "waiting", "retrying", "finished", "crashed"}

Tasks == {"cancel", "shutdown"}

(* A wait for `done' follows the cancel command, one SIGTERM, one SIGKILL. *)
StopperPcs == {"none", "begun", "asking", "terminating", "killing",
               "gaveUp", "crashed", "over"}

Answers ==
    [status: {"none", "completed", "failed", "cancelled", "not_running",
              "cancellation_failed"},
     confirmed: BOOLEAN]         \* worker_exit_confirmed

NoAnswer == [status |-> "none", confirmed |-> FALSE]

Client == [asked: BOOLEAN,       \* a cancellation was accepted
           queued: BOOLEAN,      \* cancel() waits for the start lock
           answer: Answers]

ServerPcs == {"serving", "locking", "stopping", "reaped", "unreaped",
              "marked", "unmarked"}

TypeOK ==
    /\ StoreTypeOK
    /\ ProcessTypeOK
    /\ call \in [JobIds -> Call]
    /\ handle \in [JobIds -> Handle]
    /\ monitor \in [JobIds -> MonitorPcs]
    /\ stopper \in [Tasks -> [JobIds -> StopperPcs]]
    /\ client \in [JobIds -> Client]
    /\ server \in ServerPcs

Init ==
    /\ StoreInit
    /\ journal = NoJob
    /\ ProcessInit
    /\ call = [i \in JobIds |-> [pc |-> "none", surface |-> "mcp", live |-> FALSE,
                                 stale |-> NoJob, cancelled |-> FALSE]]
    /\ handle = [i \in JobIds |-> NoHandle]
    /\ monitor = [i \in JobIds |-> "none"]
    /\ stopper = [t \in Tasks |-> [i \in JobIds |-> "none"]]
    /\ client = [i \in JobIds |-> [asked |-> FALSE, queued |-> FALSE, answer |-> NoAnswer]]
    /\ server = "serving"

------------------------------------------------------------------------------
(* The job object of a caller.  It is the store's own until the store puts *)
(* another object in its place: a worker snapshot, or the rollback of a    *)
(* failed save.  From then on it keeps what it held at that moment.        *)
Ref(i) == IF call[i].live THEN job ELSE call[i].stale

Detached(i, value) ==
    IF call[i].live THEN [call EXCEPT ![i].live = FALSE, ![i].stale = value] ELSE call

(* What create() puts in the store takes the place of every older object.  *)
Displaced ==
    [i \in JobIds |-> IF call[i].live THEN [call[i] EXCEPT !.live = FALSE, !.stale = job]
                      ELSE call[i]]

Closed(calls, i) ==
    [calls EXCEPT ![i].pc = "closed", ![i].live = FALSE, ![i].stale = NoJob]

(* _start_lock: held while a process is spawned and while a start that is  *)
(* abandoned under it waits for its child to go.                           *)
LockHeld == \E i \in JobIds :
    call[i].pc \in {"spawning", "withdrawn", "abortingLocked"}

Closing == server # "serving"

(* protocol_error is set and the process group is force-stopped.           *)
Accused(i) == [handle EXCEPT ![i].accused = TRUE]
Killed(i) == [proc EXCEPT ![i] = Signalled(@, "kill")]

------------------------------------------------------------------------------
(* Starting a job.                                                         *)

(* research_company creates the job and records its approval before it     *)
(* calls start; the A2A executor creates it and publishes a working event. *)
Request(i, o, surface, saved, audited) ==
    /\ ~Closing
    /\ call[i].pc = "none"
    /\ ~IsActive(job)
    /\ IF saved /\ surface = "mcp" /\ audited
         THEN SaveJournal([NewJob(i, o) EXCEPT !.audit = TRUE], TRUE)
         ELSE IF saved /\ surface = "mcp"
           THEN /\ job' = NewJob(i, o)
                /\ persisted' = job'
                /\ journal' = job'
                /\ healthy' = FALSE
           ELSE Create(i, o, saved)
    /\ call' = [Displaced EXCEPT ![i].surface = surface,
                            ![i].live = saved /\ (audited \/ surface = "a2a"),
                            ![i].pc = IF ~saved \/ (surface = "mcp" /\ ~audited) THEN "closed"
                                      ELSE IF surface = "a2a" THEN "publishing"
                                      ELSE "admitted"]
    /\ UNCHANGED <<processVars, handle, monitor, stopper, client, server>>

Published(i) ==
    /\ call[i].pc = "publishing"
    /\ call' = [call EXCEPT ![i].pc = "admitted"]
    /\ UNCHANGED <<storeVars, processVars, handle, monitor, stopper, client, server>>

(* terminalize_prelaunch_job: advances the caller's own job object and     *)
(* puts it in the store; a failing save is logged.                         *)
Terminalize(i, s, e, saved) ==
    IF Ref(i) = NoJob \/ IsTerminal(Ref(i)) THEN UNCHANGED storeVars
    ELSE Update(Terminated(Ref(i), s, e), saved)

(* start() raises: the A2A handler terminalizes the job it holds, the MCP  *)
(* one only reports the failure.                                           *)
StartRaises(i, e, saved) ==
    /\ IF call[i].surface = "a2a" THEN Terminalize(i, "failed", e, saved)
       ELSE UNCHANGED storeVars
    /\ call' = Closed(call, i)

(* A publication failure that is only reported.                            *)
PublishFailsQuietly(i, saved) ==
    /\ call[i].pc = "publishing"
    /\ call' = Closed(call, i)
    /\ UNCHANGED <<storeVars, processVars, handle, monitor, stopper, client, server>>

PublishFails(i, saved) ==
    /\ call[i].pc = "publishing"
    /\ \/ Terminalize(i, "failed", "a2a_working_event_failed", saved)
       \/ Terminalize(i, "cancelled", "a2a_request_cancelled_before_worker_start", saved)
    /\ call' = Closed(call, i)
    /\ UNCHANGED <<processVars, handle, monitor, stopper, client, server>>

(* Before there is a worker the caller's object is the store's own or has  *)
(* an outcome, so what start() commits leaves nothing to terminalize.      *)
StartGivesUp(i, e, saved) ==
    /\ CommitTerminal(i, "failed", e, saved)
    /\ call' = Closed(call, i)
    /\ UNCHANGED <<processVars, handle, monitor, stopper, client, server>>

(* start() with the lock: admission is closed, or a child is spawned.      *)
StartRefused(i, saved) ==
    /\ call[i].pc = "admitted"
    /\ ~LockHeld
    /\ Closing
    /\ StartGivesUp(i, "server_shutdown", saved)

BeginSpawn(i) ==
    /\ call[i].pc = "admitted"
    /\ ~LockHeld
    /\ ~Closing
    /\ call' = [call EXCEPT ![i].pc = "spawning"]
    /\ UNCHANGED <<storeVars, processVars, handle, monitor, stopper, client, server>>

SpawnFails(i, saved) ==
    \/ call[i].pc = "spawning" /\ StartGivesUp(i, "worker_spawn_failed", saved)
    \/ call[i].pc = "withdrawn" /\ StartGivesUp(i, "worker_start_cancelled", saved)

(* A withdrawn start that drops the child it was waiting for.              *)
SpawnDropped(i) ==
    /\ call[i].pc \in {"spawning", "withdrawn"}
    /\ proc' = Spawned(i, call[i].pc = "spawning")
    /\ handle' = [handle EXCEPT ![i].retained = call[i].pc = "spawning"]
    /\ monitor' = [monitor EXCEPT ![i] = IF call[i].pc = "spawning" THEN "reading" ELSE @]
    /\ call' = IF call[i].pc = "spawning" THEN [call EXCEPT ![i].pc = "starting"]
               ELSE Closed(call, i)
    /\ local' = [local EXCEPT ![i] = Ref(i)]
    /\ UNCHANGED <<storeVars, late, events, control, stopper, client, server>>

(* The child exists: its handle is retained and its monitor created before *)
(* anything else may fail.  A start that was withdrawn meanwhile, or that  *)
(* finds the server closing, takes the child down under the lock.          *)
SpawnSucceeds(i) ==
    /\ call[i].pc \in {"spawning", "withdrawn"}
    /\ LET withdrawn == call[i].pc = "withdrawn"
           abort == withdrawn \/ Closing
           born == Spawned(i, ~abort)
       IN  /\ proc' = IF abort THEN [born EXCEPT ![i] = Signalled(@, "kill")] ELSE born
           /\ handle' = [handle EXCEPT
                ![i].retained = TRUE,
                ![i].accused = withdrawn,
                ![i].cancelReason = IF abort /\ ~withdrawn THEN "server_shutdown" ELSE @]
           /\ call' = [call EXCEPT ![i].pc = IF abort THEN "abortingLocked" ELSE "starting"]
    /\ local' = [local EXCEPT ![i] = Ref(i)]
    /\ monitor' = [monitor EXCEPT ![i] = "reading"]
    /\ UNCHANGED <<storeVars, late, events, control, stopper, client, server>>

(* _wait_for_ready.                                                        *)
StartReturns(i) ==
    /\ call[i].pc = "starting"
    /\ handle[i].ready
    /\ call' = Closed(call, i)
    /\ UNCHANGED <<storeVars, processVars, handle, monitor, stopper, client, server>>

StartAborts(i, cancelled) ==
    /\ handle' = Accused(i)
    /\ proc' = Killed(i)
    /\ call' = [call EXCEPT ![i].pc = "aborting", ![i].cancelled = cancelled]
    /\ UNCHANGED <<storeVars, local, late, events, control, monitor, stopper, client, server>>

(* No ready event in time, a closed stdin, or an exit before ready.        *)
StartFails(i) ==
    /\ call[i].pc = "starting"
    /\ ~handle[i].ready
    /\ StartAborts(i, FALSE)

(* The request is cancelled while it awaits start(): with a child, during  *)
(* the spawn, or while another start holds the lock.                       *)
StartCancelled(i, saved) ==
    /\ call[i].pc \in {"starting", "spawning", "admitted"}
    /\ call[i].pc = "admitted" => LockHeld
    /\ CASE call[i].pc = "starting" -> StartAborts(i, TRUE)
         [] call[i].pc = "spawning" ->
              /\ call' = [call EXCEPT ![i].pc = "withdrawn", ![i].cancelled = TRUE]
              /\ UNCHANGED <<storeVars, processVars, handle, monitor, stopper, client, server>>
         [] call[i].pc = "admitted" ->
              /\ StartRaises(i, "worker_start_cancelled", saved)
              /\ UNCHANGED <<processVars, handle, monitor, stopper, client, server>>

(* _abort_startup waits for the monitor, however it ended.                 *)
AbortEnds(i, saved) ==
    /\ call[i].pc \in {"aborting", "abortingLocked"}
    /\ monitor[i] \in {"finished", "crashed"}
    /\ StartRaises(i, IF call[i].cancelled THEN "worker_start_cancelled"
                      ELSE "worker_spawn_failed", saved)
    /\ UNCHANGED <<processVars, handle, monitor, stopper, client, server>>

------------------------------------------------------------------------------
(* The monitor.                                                            *)
MonitorFails(i) ==
    /\ handle' = Accused(i)
    /\ proc' = Killed(i)
    /\ monitor' = [monitor EXCEPT ![i] = "waiting"]

EventIsLegal(i, e) ==
    CASE e.kind = "ready" -> ~handle[i].ready
      [] e.kind \in {"state", "terminal"} -> handle[i].ready /\ handle[i].terminal = NoJob
      [] OTHER -> FALSE

Reported(i) == Has(i) /\ SnapshotAccepted(job, Head(events[i]).state, FALSE)

(* A refused snapshot is a protocol error unless the job already has its   *)
(* outcome; so is a save that fails while one is applied.                  *)
ReadEvent(i, saved) ==
    /\ monitor[i] = "reading"
    /\ events[i] # <<>>
    /\ events' = [events EXCEPT ![i] = Tail(@)]
    /\ LET e == Head(events[i])
       IN  \/ /\ e.kind = "ready"
              /\ EventIsLegal(i, e)
              /\ handle' = [handle EXCEPT ![i].ready = TRUE]
              /\ UNCHANGED <<storeVars, call, proc, monitor>>
           \/ /\ e.kind = "terminal"
              /\ EventIsLegal(i, e)
              /\ handle' = [handle EXCEPT ![i].terminal = e.state, ![i].reason = e.reason]
              /\ UNCHANGED <<storeVars, call, proc, monitor>>
           \/ /\ e.kind = "state"
              /\ EventIsLegal(i, e)
              /\ Reported(i)
              /\ ApplyWorkerSnapshot(e.state, FALSE, saved)
              /\ call' = Detached(i, job)
              /\ IF saved THEN UNCHANGED <<handle, proc, monitor>> ELSE MonitorFails(i)
           \/ /\ e.kind = "state"
              /\ EventIsLegal(i, e)
              /\ ~Reported(i)
              /\ IF Has(i) /\ IsTerminal(job)
                   THEN UNCHANGED <<handle, proc, monitor>> ELSE MonitorFails(i)
              /\ UNCHANGED <<storeVars, call>>
           \/ /\ ~EventIsLegal(i, e)
              /\ MonitorFails(i)
              /\ UNCHANGED <<storeVars, call>>
    /\ UNCHANGED <<local, late, control, stopper, client, server>>

(* _graceful_shutdown cancels the tasks that outlive its patience.         *)
CancelMonitor(i) ==
    /\ server = "unreaped"
    /\ call[i].pc = "closed"
    /\ \/ /\ monitor[i] = "reading"
          /\ MonitorFails(i)
       \/ /\ monitor[i] = "retrying"
          /\ monitor' = [monitor EXCEPT ![i] = "crashed"]
          /\ UNCHANGED <<handle, proc>>
    /\ UNCHANGED <<storeVars, local, late, events, control, call, stopper, client, server>>

------------------------------------------------------------------------------
(* _complete_observed_exit, run by the monitor and retried by every        *)
(* _wait_done: clean the process tree, commit one outcome, list the        *)
(* manifest, let the handle go.  Each part may fail, and stops the rest.   *)

(* _finalize_after_exit, as the record it commits.                         *)
AcceptsOutcome(i) ==
    LET h == handle[i]
    IN  /\ ~h.accused
        /\ h.cancelReason # "server_shutdown"
        /\ h.terminal # NoJob
        /\ TerminalEventIsCompatible(h.terminal, h.reason, proc[i].rc, h.cancelReason)
        /\ SnapshotAccepted(job, h.terminal, TRUE)

FinalRecord(i) ==
    LET h == handle[i]
        cancels == IsCancelReturnCode(proc[i].rc)
    IN  CASE h.accused -> Terminated(job, "failed", "worker_protocol_error")
          [] ~h.accused /\ h.cancelReason = "server_shutdown" ->
               Terminated(job, "failed", "server_shutdown")
          [] AcceptsOutcome(i) -> MergeSnapshot(job, h.terminal)
          [] ~h.accused /\ h.cancelReason = "user_cancelled" /\ h.terminal = NoJob /\ cancels ->
               Terminated(job, "cancelled", "user_cancelled")
          [] ~h.accused /\ h.cancelReason = "none" /\ h.terminal = NoJob ->
               Terminated(job, "failed", "worker_exit")
          [] OTHER -> Terminated(job, "failed", "worker_protocol_error")

NeedsOutcome(i) == Has(i) /\ ~IsTerminal(job)

(* What the caller's job object holds if the commit replaces the store's:  *)
(* an accepted terminal snapshot is a new object, other commits are not.   *)
FinalObject(i) == IF AcceptsOutcome(i) THEN job ELSE FinalRecord(i)

(* A handle let go is read only by waiters, for exit_observed and done.    *)
Released(i) ==
    [handle EXCEPT ![i] = [NoHandle EXCEPT !.ready = handle[i].ready, !.observed = TRUE,
                                           !.clean = TRUE, !.done = TRUE]]
Cleaned(i) == [proc EXCEPT ![i].tree = FALSE]

(* The store after the commit `final', and after the manifest, if it was   *)
(* written and the save of its listing went through.                       *)
CommitsAll(i, final, written) ==
    LET listed == IF written /\ Has(i) /\ final.stage \in Aborts
                    THEN [final EXCEPT !.manifest = TRUE] ELSE final
    IN  IF listed = job THEN UNCHANGED storeVars ELSE SaveJournal(listed, TRUE)

CompleteOk(i) == \E written \in BOOLEAN :
    /\ TRUE \in CleanupOutcomes \/ handle[i].clean
    /\ CommitsAll(i, IF NeedsOutcome(i) THEN FinalRecord(i) ELSE job, written)
    /\ call' = IF NeedsOutcome(i) /\ FinalObject(i) = job THEN Detached(i, job) ELSE call
    /\ handle' = Released(i)
    /\ proc' = Cleaned(i)

CompleteUnclean(i) ==
    /\ FALSE \in CleanupOutcomes
    /\ ~handle[i].clean
    /\ handle' = [Accused(i) EXCEPT ![i].observed = TRUE]
    /\ UNCHANGED <<storeVars, call, proc>>

(* A save that raises leaves the handle retained and the tree clean: the   *)
(* commit of the outcome rolls back, the listing of the manifest does too  *)
(* but keeps the outcome.                                                  *)
CompleteRaises(i) ==
    /\ FALSE \in SaveOutcomes
    /\ TRUE \in CleanupOutcomes \/ handle[i].clean
    /\ handle' = [handle EXCEPT ![i].clean = TRUE, ![i].observed = TRUE]
    /\ proc' = Cleaned(i)
    /\ LET final == IF NeedsOutcome(i) THEN FinalRecord(i) ELSE job
       IN  \/ /\ NeedsOutcome(i)
              /\ SaveJournal(final, FALSE)
              /\ call' = Detached(i, FinalObject(i))
           \/ /\ Has(i)
              /\ final.stage \in Aborts
              /\ ~final.manifest
              /\ job' = final
              /\ persisted' = final
              /\ journal' = final
              /\ healthy' = FALSE
              /\ call' = Detached(i, [final EXCEPT !.manifest = TRUE])

(* The monitor has read everything, or given up reading, and the process   *)
(* is gone; a cleanup that fails is tried again later.                     *)
MonitorCompletes(i) ==
    /\ \/ monitor[i] = "reading" /\ events[i] = <<>> /\ Dead(i)
       \/ monitor[i] = "waiting" /\ Dead(i)
       \/ monitor[i] = "retrying"
    /\ \/ /\ handle[i].done
          /\ monitor' = [monitor EXCEPT ![i] = "finished"]
          /\ UNCHANGED <<storeVars, call, handle, proc>>
       \/ /\ ~handle[i].done
          /\ \/ CompleteOk(i) /\ monitor' = [monitor EXCEPT ![i] = "finished"]
             \/ CompleteUnclean(i) /\ monitor' = [monitor EXCEPT ![i] = "retrying"]
             \/ CompleteRaises(i) /\ monitor' = [monitor EXCEPT ![i] = "crashed"]
    /\ UNCHANGED <<local, late, events, control, stopper, client, server>>

------------------------------------------------------------------------------
(* Cancellation by a client, and the stopping of retained workers, which   *)
(* the cancel tool and the graceful shutdown share: wait, SIGTERM, wait,   *)
(* SIGKILL, wait.                                                          *)

Answered(i, status, confirmed) ==
    [client EXCEPT ![i].queued = FALSE,
                   ![i].answer = [status |-> status, confirmed |-> confirmed]]

(* The status reported once exit is confirmed, from the store as it is.    *)
StatusOf(i, j) ==
    IF j # NoJob /\ j.id = i /\ GetStatus(j) \in {"completed", "cancelled"}
      THEN GetStatus(j) ELSE "failed"

(* cancel() once it has the lock.  Concurrent requests share one           *)
(* escalation; one that failed is started afresh.                          *)
CancelEnters(i) ==
    \/ /\ ~handle[i].retained
       /\ client' = IF Has(i) /\ IsTerminal(job)
                      THEN Answered(i, StatusOf(i, job), TRUE)
                      ELSE Answered(i, "not_running", FALSE)
       /\ UNCHANGED <<handle, control, stopper>>
    \/ /\ handle[i].retained
       /\ stopper["cancel"][i] \in {"none", "gaveUp", "crashed"}
       /\ handle' = [handle EXCEPT ![i].cancelReason = "user_cancelled"]
       /\ control' = Commanded(i, "user_cancelled")
       /\ stopper' = [stopper EXCEPT !["cancel"][i] = "begun"]
       /\ client' = [client EXCEPT ![i].asked = TRUE, ![i].queued = FALSE]
    \/ /\ handle[i].retained
       /\ stopper["cancel"][i] \notin {"none", "gaveUp", "crashed"}
       /\ client' = [client EXCEPT ![i].queued = FALSE]
       /\ UNCHANGED <<handle, control, stopper>>

(* The tool answers for a job with an outcome itself; transports accept    *)
(* nothing more once the controller lifecycle is being left.               *)
CancelRequest(i) ==
    /\ ~Closing
    /\ Has(i)
    /\ ~client[i].queued
    /\ IF IsTerminal(job)
         THEN /\ client' = Answered(i, StatusOf(i, job), job.stage = "cancelled")
              /\ UNCHANGED <<handle, control, stopper>>
         ELSE IF LockHeld
           THEN /\ client' = [client EXCEPT ![i].queued = TRUE]
                /\ UNCHANGED <<handle, control, stopper>>
           ELSE CancelEnters(i)
    /\ UNCHANGED <<storeVars, proc, local, late, events, call, monitor, server>>

CancelResumes(i) ==
    /\ client[i].queued
    /\ ~LockHeld
    /\ CancelEnters(i)
    /\ UNCHANGED <<storeVars, proc, local, late, events, call, monitor, server>>

StopperAt(t, i, pc) == stopper' = [stopper EXCEPT ![t][i] = pc]

(* Exit is confirmed: the cancel task answers from the store.              *)
Confirms(t, i) ==
    /\ StopperAt(t, i, "over")
    /\ client' = IF t = "cancel" THEN Answered(i, StatusOf(i, job'), TRUE) ELSE client

(* _wait_done: confirmed at once, or a wait for the monitor; an exit that  *)
(* was observed and not completed is completed here.                       *)
WaitsDone(t, i, next) ==
    \/ /\ handle[i].done
       /\ UNCHANGED <<storeVars, call, handle, proc>>
       /\ Confirms(t, i)
    \/ /\ ~handle[i].done
       /\ handle[i].observed
       /\ \/ CompleteOk(i) /\ Confirms(t, i)
          \/ CompleteUnclean(i) /\ StopperAt(t, i, next) /\ UNCHANGED client
          \/ CompleteRaises(i) /\ StopperAt(t, i, "crashed") /\ UNCHANGED client

WaitBegins(t, i) ==
    /\ stopper[t][i] = "begun"
    /\ \/ WaitsDone(t, i, "asking")
       \/ /\ ~handle[i].observed
          /\ StopperAt(t, i, "asking")
          /\ UNCHANGED <<storeVars, call, handle, proc, client>>
    /\ UNCHANGED <<local, late, events, control, monitor, server>>

WaitEnds(t, i) ==
    /\ stopper[t][i] \in {"asking", "terminating", "killing"}
    /\ handle[i].done
    /\ UNCHANGED <<storeVars, processVars, call, handle, monitor, server>>
    /\ Confirms(t, i)

(* The wait expires: signal the group, if the process is not known to be   *)
(* gone, and wait again.                                                   *)
Escalates(t, i, from, signal, next) ==
    /\ stopper[t][i] = from
    /\ ~handle[i].done
    /\ \/ WaitsDone(t, i, next)
       \/ /\ ~handle[i].observed
          /\ proc' = [proc EXCEPT ![i] = Signalled(@, signal)]
          /\ StopperAt(t, i, next)
          /\ UNCHANGED <<storeVars, call, handle, client>>
    /\ UNCHANGED <<local, late, events, control, monitor, server>>

Terminates(t, i) == Escalates(t, i, "asking", "term", "terminating")
(* A second SIGTERM in place of SIGKILL.                                   *)
KillsPolitely(t, i) == Escalates(t, i, "terminating", "term", "killing")

Kills(t, i) == Escalates(t, i, "terminating", "kill", "killing")

(* Giving up reported as an observed exit.                                 *)
GivesUpConfirmed(t, i) ==
    /\ stopper[t][i] = "killing"
    /\ ~handle[i].done
    /\ StopperAt(t, i, IF t = "cancel" THEN "gaveUp" ELSE "over")
    /\ client' = IF t = "cancel" THEN Answered(i, "cancelled", TRUE) ELSE client
    /\ UNCHANGED <<storeVars, processVars, call, handle, monitor, server>>

GivesUp(t, i) ==
    /\ stopper[t][i] = "killing"
    /\ ~handle[i].done
    /\ StopperAt(t, i, IF t = "cancel" THEN "gaveUp" ELSE "over")
    /\ client' = IF t = "cancel" THEN Answered(i, "cancellation_failed", FALSE)
                 ELSE client
    /\ UNCHANGED <<storeVars, processVars, call, handle, monitor, server>>

------------------------------------------------------------------------------
(* _graceful_shutdown.                                                     *)
Retained == {i \in JobIds : handle[i].retained}

BeginShutdown ==
    /\ server = "serving"
    /\ server' = "locking"
    /\ UNCHANGED <<storeVars, processVars, call, handle, monitor, stopper, client>>

(* A start that holds the lock for the whole budget.                       *)
LockTimesOut ==
    /\ server = "locking"
    /\ LockHeld
    /\ server' = "unreaped"
    /\ UNCHANGED <<storeVars, processVars, call, handle, monitor, stopper, client>>

(* A shutdown that waits for the research to end by itself.                *)
StopWorkersPatiently ==
    /\ server = "locking"
    /\ ~LockHeld
    /\ Retained = {}
    /\ server' = "reaped"
    /\ UNCHANGED <<storeVars, processVars, call, handle, monitor, stopper, client>>

(* One _shutdown_handle for each retained worker; it overrides the reason  *)
(* of a cancellation that is under way.                                    *)
StopWorkers ==
    /\ server = "locking"
    /\ ~LockHeld
    /\ server' = IF Retained = {} THEN "reaped" ELSE "stopping"
    /\ handle' = [i \in JobIds |->
         IF i \in Retained THEN [handle[i] EXCEPT !.cancelReason = "server_shutdown"]
         ELSE handle[i]]
    /\ control' = [i \in JobIds |->
         IF i \in Retained THEN Commanded(i, "server_shutdown")[i] ELSE control[i]]
    /\ stopper' = [stopper EXCEPT !["shutdown"] =
         [i \in JobIds |-> IF i \in Retained THEN "begun" ELSE "none"]]
    /\ UNCHANGED <<storeVars, proc, local, late, events, call, monitor, client>>

Stopping(i) == stopper["shutdown"][i] \notin {"none", "crashed", "over"}

(* The deadline: one last SIGKILL for what is not confirmed, and the       *)
(* pending tasks are dropped.                                              *)
ShutdownExpires ==
    /\ server = "stopping"
    /\ \E i \in JobIds : Stopping(i)
    /\ proc' = [i \in JobIds |->
         IF stopper["shutdown"][i] # "none" /\ ~handle[i].done
           THEN Signalled(proc[i], "kill") ELSE proc[i]]
    /\ stopper' = [stopper EXCEPT !["shutdown"] =
         [i \in JobIds |-> IF Stopping(i) THEN "over" ELSE @[i]]]
    /\ UNCHANGED <<storeVars, local, late, events, control, call, handle, monitor, client, server>>

WorkersStopped ==
    /\ server = "stopping"
    /\ \A i \in JobIds : ~Stopping(i)
    /\ server' = IF Retained = {} THEN "reaped" ELSE "unreaped"
    /\ UNCHANGED <<storeVars, processVars, call, handle, monitor, stopper, client>>

(* Only with every worker reaped is a job that nobody owns given up; the   *)
(* mark mutates the store's object, which a caller may hold.               *)
MarkAbandoned(saved) ==
    /\ server = "reaped"
    /\ MarkShutdown(saved)
    /\ server' = IF saved \/ ~IsActive(job) THEN "marked" ELSE "unmarked"
    /\ call' = IF IsActive(job) /\ ~saved
                 THEN Detached(job.id, Terminated(job, "failed", "server_shutdown"))
                 ELSE call
    /\ UNCHANGED <<processVars, handle, monitor, stopper, client>>

------------------------------------------------------------------------------
StartStep(i, saved) ==
    \/ Published(i)
    \/ PublishFails(i, saved)
    \/ StartRefused(i, saved)
    \/ BeginSpawn(i)
    \/ SpawnFails(i, saved)
    \/ SpawnSucceeds(i)
    \/ StartReturns(i)
    \/ StartFails(i)
    \/ StartCancelled(i, saved)
    \/ AbortEnds(i, saved)

MonitorStep(i, saved) ==
    \/ ReadEvent(i, saved)
    \/ CancelMonitor(i)
    \/ MonitorCompletes(i)

StopperStep(t, i) ==
    \/ WaitBegins(t, i)
    \/ WaitEnds(t, i)
    \/ Terminates(t, i)
    \/ Kills(t, i)
    \/ GivesUp(t, i)

ServerStep(saved) ==
    \/ BeginShutdown
    \/ LockTimesOut
    \/ StopWorkers
    \/ ShutdownExpires
    \/ WorkersStopped
    \/ MarkAbandoned(saved)

Next ==
    \/ \E i \in JobIds, o \in Owners, surface \in Surfaces, saved, audited \in SaveOutcomes :
           Request(i, o, surface, saved, audited)
    \/ \E i \in JobIds, saved \in SaveOutcomes : StartStep(i, saved)
    \/ \E i \in JobIds, saved \in SaveOutcomes : MonitorStep(i, saved)
    \/ \E i \in JobIds : CancelRequest(i) \/ CancelResumes(i)
    \/ \E t \in Tasks, i \in JobIds : StopperStep(t, i)
    \/ \E saved \in SaveOutcomes : ServerStep(saved)
    \/ \E i \in JobIds : WorkerStep(i) /\ UNCHANGED <<storeVars, supervisorVars>>

Spec == Init /\ [][Next]_vars

(* The loop runs every task that is ready, every bounded wait expires, and *)
(* the kernel delivers SIGKILL.  Nothing is assumed of the clients, of the *)
(* research, or of a worker that is asked or told to terminate.            *)
StartFairness(i, saved) ==
    /\ WF_vars(Published(i) \/ PublishFails(i, saved))
    /\ WF_vars(StartRefused(i, saved) \/ BeginSpawn(i))
    /\ WF_vars(SpawnFails(i, saved) \/ SpawnSucceeds(i))
    /\ WF_vars(StartReturns(i) \/ StartFails(i))
    /\ WF_vars(AbortEnds(i, saved))

StopperFairness(t, i) ==
    WF_vars(WaitBegins(t, i) \/ WaitEnds(t, i) \/ Terminates(t, i) \/ Kills(t, i) \/ GivesUp(t, i))

ServerFairness ==
    /\ WF_vars(LockTimesOut \/ StopWorkers)
    /\ WF_vars(ShutdownExpires \/ WorkersStopped)
    /\ WF_vars(MarkAbandoned(TRUE))

KillTaken(i) ==
    /\ proc[i].signal = "kill"
    /\ TakeSignal(i)
    /\ UNCHANGED <<storeVars, supervisorVars>>

Fairness ==
    /\ \A i \in JobIds :
         /\ StartFairness(i, TRUE)
         /\ WF_vars(ReadEvent(i, TRUE) \/ MonitorCompletes(i))
         /\ WF_vars(CancelResumes(i))
         /\ WF_vars(KillTaken(i))
         /\ \A t \in Tasks : StopperFairness(t, i)
    /\ ServerFairness

FairSpec == Spec /\ Fairness

------------------------------------------------------------------------------
Outcome(i) == journal # NoJob /\ journal.id = i /\ IsTerminal(journal)

(* "Commit terminal state only after parent exit and tree cleanup"         *)
(* (_complete_observed_exit): a job whose outcome is on disk has no worker *)
(* and no descendant of one.                                               *)
TerminalAfterExit ==
    \A i \in JobIds : Outcome(i) => ~Alive(i) /\ ~proc[i].tree

(* The outcome on disk is what happened: "completed" only if the worker    *)
(* itself finished and exited with success, "cancelled" only if it is gone *)
(* and a client asked, or it was withdrawn before there was a worker       *)
(* (_finalize_after_exit, terminal_event_is_compatible).                   *)
(* Nothing is asked of "failed": it is what every other end is recorded    *)
(* as, a worker's that finished but broke the protocol included.           *)
OutcomeTruthful ==
    \A i \in JobIds : Outcome(i) =>
        /\ journal.stage = "completed" =>
             /\ local[i].stage = "completed"
             /\ Dead(i) /\ proc[i].rc = ExitSuccess
        /\ journal.stage = "cancelled" =>
             \/ Dead(i) /\ client[i].asked
             \/ proc[i].state = "absent" /\ call[i].surface = "a2a"

(* A worker is never lost: whatever fails while it starts, runs or stops,  *)
(* its handle stays in _handles until it and its descendants are gone.     *)
NoOrphan == \A i \in JobIds : Alive(i) \/ proc[i].tree => handle[i].retained

(* The supervisor accounts for every process it created.                   *)
WorkersAccounted == TypeOK /\ TerminalAfterExit /\ NoOrphan

(* A client told worker_exit_confirmed was told the truth, and the status  *)
(* it was told stays what the journal says (cancel, handle_cancel_job).    *)
AnswerHonest ==
    \A i \in JobIds : client[i].answer.confirmed =>
        /\ ~Alive(i)
        /\ ~proc[i].tree
        /\ journal # NoJob /\ journal.id = i =>
             IsTerminal(journal) /\ StatusOf(i, journal) = client[i].answer.status

(* A graceful shutdown that reports its workers reaped leaves no process   *)
(* and no job that the next controller would have to reconcile.            *)
CleanStop ==
    server = "marked" => (\A i \in JobIds : ~Alive(i)) /\ ~IsActive(journal)

(* What the supervisor reports, to a client that cancels and to the server *)
(* that shuts down, is so.                                                 *)
ReportsHonest == AnswerHonest /\ CleanStop

(* "Terminal states are immutable" (advance_stage), across every           *)
(* interleaving of start, monitor, cancellation and shutdown.              *)
OutcomeIsFinal == [][OutcomeKept]_vars

(* Admission is not blocked for nothing: an active job has a request that  *)
(* is still starting it or a worker that will be waited for.  It holds of  *)
(* the A2A surface (start_worker_or_terminalize) with a healthy journal.   *)
ActiveIsServed ==
    \A i \in JobIds : Has(i) /\ IsActive(job) =>
        call[i].pc \notin {"none", "closed"} \/ handle[i].retained

(* A cancellation that was accepted ends in an outcome on disk, however    *)
(* the worker behaves: cooperative stop, SIGTERM, SIGKILL (_cancel_handle).*)
CancelTakesEffect == \A i \in JobIds : client[i].asked ~> Outcome(i)

(* start() comes to an end: ready, refused, or its child taken down.       *)
StartSettles == \A i \in JobIds : call[i].pc # "none" ~> call[i].pc = "closed"

(* A graceful shutdown comes to an end, stuck workers and starts included. *)
ShutdownEnds == server = "locking" ~> server \in {"unreaped", "marked", "unmarked"}
=============================================================================
