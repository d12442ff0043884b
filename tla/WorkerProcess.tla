---------------------------- MODULE WorkerProcess ----------------------------
(***************************************************************************)
(* The supervised child process of src/primr/mcp_server/job_worker.py, one *)
(* per job, and the two pipes that join it to the controller: `events' is  *)
(* its protocol stdout, `control' its stdin.  The controller spawns and    *)
(* signals it; nothing else is shared.                                     *)
(*                                                                         *)
(* PipelineRunner.run_research is one nondeterministic walk over           *)
(* WorkStages that ends in success, in an error, or, once cancellation was *)
(* requested, in CancelledError.  A spawned process may also die at any    *)
(* point with one of CrashCodes, or write something the protocol refuses.  *)
(***************************************************************************)
EXTENDS ResearchJob, Sequences

CONSTANTS
    WorkStages,   \* the working stages a run reports
    CrashCodes,   \* return codes of a process that dies without the protocol
    MayGarble,    \* whether a worker can write an event that is refused
    Threaded,     \* whether the pipeline's thread races the worker's loop
    EventBound    \* bound: events not yet read by the controller

ASSUME WorkerAssumption ==
    /\ WorkStages \subseteq WorkingStages
    /\ CrashCodes \subseteq Int
    /\ MayGarble \in BOOLEAN
    /\ Threaded \in BOOLEAN
    /\ EventBound \in Nat

VARIABLES
    proc,     \* the process as the operating system sees it
    local,    \* the worker's own copy of the job
    late,     \* a snapshot the pipeline's thread took and has not written
    events,   \* job |-> events written and not read
    control   \* job |-> the cancel command waiting in stdin, or "none"

processVars == <<proc, local, late, events, control>>

(* In "exiting" the job is settled, the terminal event written, and the    *)
(* process about to end.                                                   *)
ProcessStates == {"absent", "booting", "running", "exiting", "dead"}

Process ==
    [state: ProcessStates,
     start: BOOLEAN,                       \* it was sent the start command
     told: CancelReasons \union {"none"},  \* CancellationController.reason
     signal: {"none", "term", "kill"},     \* sent to the group, not yet taken
     rc: Int,                              \* return code once dead
     tree: BOOLEAN]                        \* descendants may be alive

Event ==
    [kind: {"ready", "state", "terminal", "garbled"},
     state: Job \union {NoJob},
     reason: {"none", "completed", "failed"} \union ErrorTypes]

ProcessTypeOK ==
    /\ proc \in [JobIds -> Process]
    /\ local \in [JobIds -> Job \union {NoJob}]
    /\ late \in [JobIds -> Job \union {NoJob}]
    /\ events \in [JobIds -> Seq(Event)]
    /\ control \in [JobIds -> CancelReasons \union {"none"}]

ProcessInit ==
    /\ proc = [i \in JobIds |-> [state |-> "absent", start |-> FALSE, told |-> "none",
                                 signal |-> "none", rc |-> 0, tree |-> FALSE]]
    /\ local = [i \in JobIds |-> NoJob]
    /\ late = [i \in JobIds |-> NoJob]
    /\ events = [i \in JobIds |-> <<>>]
    /\ control = [i \in JobIds |-> "none"]

Alive(i) == proc[i].state \notin {"absent", "dead"}
Dead(i) == proc[i].state = "dead"

------------------------------------------------------------------------------
(* What the controller does to a process, as the new value of `proc'.      *)
Spawned(i, start) ==
    [proc EXCEPT ![i].state = "booting", ![i].start = start, ![i].tree = TRUE]

(* A group signal; SIGKILL is not undone by a later SIGTERM.               *)
Signalled(p, s) ==
    IF p.state \in {"absent", "dead"} \/ p.signal = "kill" THEN p
    ELSE [p EXCEPT !.signal = s]

(* The worker's reader takes one cancel command; later ones are not read.  *)
Commanded(i, reason) ==
    [control EXCEPT ![i] = IF @ = "none" /\ Alive(i) THEN reason ELSE @]

------------------------------------------------------------------------------
(* Steps of the worker.                                                    *)
HasRoom(i, n) == Len(events[i]) + n <= EventBound

Ready == [kind |-> "ready", state |-> NoJob, reason |-> "none"]
State(j) == [kind |-> "state", state |-> j, reason |-> "none"]
Terminal(j, r) == [kind |-> "terminal", state |-> j, reason |-> r]
Garbled == [kind |-> "garbled", state |-> NoJob, reason |-> "none"]

Emit(i, new) == events' = [events EXCEPT ![i] = @ \o new]

Become(i, s) == proc' = [proc EXCEPT ![i].state = s]

(* main reads the start command; run_worker reports ready and the job.     *)
Boot(i) ==
    /\ proc[i].state = "booting"
    /\ proc[i].start
    /\ HasRoom(i, 2)
    /\ Emit(i, <<Ready, State(local[i])>>)
    /\ Become(i, "running")
    /\ UNCHANGED <<local, late, control>>

(* advance_stage and WorkerJobStore.update inside the pipeline.            *)
Progress(i) == \E s \in WorkStages, p \in 0..MaxProgress :
    /\ proc[i].state = "running"
    /\ late[i] = NoJob
    /\ HasRoom(i, 1)
    /\ CanAdvance(local[i], s)
    /\ local' = [local EXCEPT ![i] = AdvanceStage(@, s, p)]
    /\ Emit(i, <<State(AdvanceStage(local[i], s, p))>>)
    /\ UNCHANGED <<proc, late, control>>

(* on_progress runs in a to_thread worker: WorkerJobStore.update takes its *)
(* snapshot, finds the job not terminal, and only then writes the event.   *)
(* The loop awaits the thread, except that a cancellation leaves it behind *)
(* between the two.                                                        *)
TakeSnapshot(i) ==
    /\ Threaded
    /\ proc[i].state = "running"
    /\ proc[i].told = "none"
    /\ late[i] = NoJob
    /\ late' = [late EXCEPT ![i] = local[i]]
    /\ UNCHANGED <<proc, local, events, control>>

SendSnapshot(i) ==
    /\ proc[i].state \in {"running", "exiting"}
    /\ late[i] # NoJob
    /\ HasRoom(i, 1)
    /\ Emit(i, <<State(late[i])>>)
    /\ late' = [late EXCEPT ![i] = NoJob]
    /\ UNCHANGED <<proc, local, control>>

(* _control_reader hands the first command to the controller object.       *)
TakeCommand(i) ==
    /\ proc[i].state = "running"
    /\ control[i] # "none"
    /\ proc[i].told = "none"
    /\ proc' = [proc EXCEPT ![i].told = control[i]]
    /\ UNCHANGED <<local, late, events, control>>

TerminalReason(j, told) ==
    CASE j.stage = "completed" -> "completed"
      [] j.stage = "cancelled" -> told
      [] OTHER -> FailureReason(j.error)

(* run_worker once research_task has ended: the outcome and, as the last   *)
(* event, the terminal one.                                                *)
Settles(i, s, e) ==
    LET settled == Terminated(local[i], s, e)
    IN  /\ proc[i].state = "running"
        /\ HasRoom(i, 1)
        /\ local' = [local EXCEPT ![i] = settled]
        /\ Emit(i, <<Terminal(settled, TerminalReason(settled, proc[i].told))>>)
        /\ Become(i, "exiting")
        /\ UNCHANGED <<late, control>>

Succeed(i) == late[i] = NoJob /\ Settles(i, "completed", "none")
Fail(i) == late[i] = NoJob /\ Settles(i, "failed", "worker_error")

(* task.cancel() surfaces as CancelledError: always "user_cancelled".      *)
Withdraw(i) ==
    /\ proc[i].told # "none"
    /\ Settles(i, "cancelled", "user_cancelled")

WorkerReturnCode(i) ==
    CASE local[i].stage = "completed" -> ExitSuccess
      [] local[i].stage = "cancelled" -> ExitCancelled
      [] OTHER -> ExitFailure

(* What was written stays in the pipe; what was not is gone with it.       *)
Dies(i, rc) ==
    /\ proc' = [proc EXCEPT ![i].state = "dead", ![i].rc = rc,
                            ![i].told = "none", ![i].signal = "none"]
    /\ late' = [late EXCEPT ![i] = NoJob]
    /\ control' = [control EXCEPT ![i] = "none"]
    /\ UNCHANGED <<local, events>>

Exit(i) ==
    /\ proc[i].state = "exiting"
    /\ Dies(i, WorkerReturnCode(i))

Crash(i) == \E rc \in CrashCodes :
    /\ Alive(i)
    /\ Dies(i, rc)

TakeSignal(i) ==
    /\ Alive(i)
    /\ proc[i].signal # "none"
    /\ Dies(i, IF proc[i].signal = "kill" THEN Sigkill ELSE Sigterm)

Garble(i) ==
    /\ MayGarble
    /\ proc[i].state = "running"
    /\ HasRoom(i, 1)
    /\ Emit(i, <<Garbled>>)
    /\ UNCHANGED <<proc, local, late, control>>

WorkerStep(i) ==
    \/ Boot(i)
    \/ Progress(i)
    \/ TakeSnapshot(i)
    \/ SendSnapshot(i)
    \/ TakeCommand(i)
    \/ Succeed(i)
    \/ Fail(i)
    \/ Withdraw(i)
    \/ Exit(i)
    \/ Crash(i)
    \/ TakeSignal(i)
    \/ Garble(i)
=============================================================================
