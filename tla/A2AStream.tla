------------------------------ MODULE A2AStream -------------------------------
(***************************************************************************)
(* What an A2A client is told of a research task: a2a/executor.py starts   *)
(* the worker and streams its progress, a2a/cancellation.py answers cancel *)
(* requests, and a2a/lifecycle_events.py orders what the two of them send. *)
(* The job store holds one job, and a job that has ended gives way to the  *)
(* next (JobStore); the supervisor (JobSupervisor) is seen from outside:   *)
(* a job ends, its monitor ends, and a cancellation is answered.           *)
(* All of it runs on one event loop: a step is what happens between two    *)
(* awaits.  Every job is a task of its own, and streams only its events.   *)
(***************************************************************************)
EXTENDS Naturals, Sequences

CONSTANTS
    Jobs,        \* A2A research tasks, each with its job
    Cancellers,  \* cancel requests
    None

(* A lock is held by one of them, and by nobody twice.                     *)
StreamAssumption == None \notin Jobs \union Cancellers /\ Jobs \intersect Cancellers = {}

VARIABLES
    slot,     \* the job the store holds, or None
    outcome,  \* job |-> how it stands: what the store has, or had, of it
    worker,   \* job |-> its monitor, research_task
    stream,   \* job |-> where _handle_research and _run_and_stream are
    request,  \* canceller |-> its handle_cancel_request
    verdict,  \* job |-> the supervisor's cancellation task
    pending,  \* _cancel_pending
    emitted,  \* _terminal_emitted
    holder,   \* job |-> who holds its lock: a canceller, the job, or None
    final,    \* job |-> the final events sent, in order
    tardy      \* jobs that sent something after a final event

streamVars == <<slot, outcome, worker, stream, request, verdict, pending, emitted,
          holder, final, tardy>>
deliveries == <<emitted, holder, final, tardy>>

Outcomes == {"completed", "failed", "cancelled"}
CancelAnswers == Outcomes \union {"cancellation_failed", "not_running"}
Streams ==
    {"none", "starting", "sleeping", "progress", "waiting", "report", "start failed",
     "sending", "over"}
Requests == {"idle", "waiting", "joined", "answered", "report", "sending", "over"}

StreamTypeOK ==
    /\ slot \in Jobs \union {None}
    /\ outcome \in [Jobs -> {"none", "active"} \union Outcomes]
    /\ worker \in [Jobs -> {"none", "running", "done"}]
    /\ stream \in [Jobs -> Streams]
    /\ request \in [Cancellers ->
          [at : Requests, job : Jobs \union {None}, answer : CancelAnswers \union {"none"}]]
    /\ verdict \in [Jobs -> {"none", "asked", "ended"}]
    /\ pending \subseteq Jobs
    /\ emitted \subseteq Jobs
    /\ holder \in [Jobs -> Jobs \union Cancellers \union {None}]
    /\ final \in [Jobs -> Seq(Outcomes)]
    /\ tardy \subseteq Jobs

StreamInit ==
    /\ slot = None
    /\ outcome = [j \in Jobs |-> "none"]
    /\ worker = [j \in Jobs |-> "none"]
    /\ stream = [j \in Jobs |-> "none"]
    /\ request = [c \in Cancellers |-> [at |-> "idle", job |-> None, answer |-> "none"]]
    /\ verdict = [j \in Jobs |-> "none"]
    /\ pending = {}
    /\ emitted = {}
    /\ holder = [j \in Jobs |-> None]
    /\ final = [j \in Jobs |-> <<>>]
    /\ tardy = {}

------------------------------------------------------------------------------
Goto(j, at) == stream' = [stream EXCEPT ![j] = at]
Turn(c, at) == request' = [request EXCEPT ![c].at = at]

Sent(j, state) ==
    /\ final' = [final EXCEPT ![j] = Append(@, state)]
    /\ tardy' = IF final[j] = <<>> THEN tardy ELSE tardy \union {j}

SentProgress(j) == tardy' = IF final[j] = <<>> THEN tardy ELSE tardy \union {j}

(* _handle_research: the store accepts the job when it has none or one     *)
(* that has ended, the mapping is registered and "working" is published;   *)
(* then the supervisor starts the worker.                                  *)
Accept(j) ==
    /\ outcome[j] = "none"
    /\ slot # None => outcome[slot] \in Outcomes
    /\ slot' = j
    /\ outcome' = [outcome EXCEPT ![j] = "active"]
    /\ Goto(j, "starting")
    /\ UNCHANGED <<worker, request, verdict, pending, deliveries>>

(* publish_working_status or supervisor.start fails before there is a      *)
(* worker; the job is failed, and the handler says so (after a failed      *)
(* publish it is execute, without the lock, when nobody else can send).    *)
NotLaunched(j) ==
    /\ stream[j] = "starting" /\ worker[j] = "none"
    /\ outcome' = [outcome EXCEPT ![j] = "failed"]
    /\ Goto(j, "start failed")
    /\ UNCHANGED <<slot, worker, request, verdict, pending, deliveries>>

(* The request is cancelled before there is a worker: nobody listens.      *)
Disconnected(j) ==
    /\ stream[j] = "starting" /\ worker[j] = "none"
    /\ \E o \in {"failed", "cancelled"} : outcome' = [outcome EXCEPT ![j] = o]
    /\ Goto(j, "over")
    /\ UNCHANGED <<slot, worker, request, verdict, pending, deliveries>>

Launch(j) ==
    /\ stream[j] = "starting" /\ worker[j] = "none"
    /\ worker' = [worker EXCEPT ![j] = "running"]
    /\ UNCHANGED <<slot, outcome, stream, request, verdict, pending, deliveries>>

(* The worker is ready, or it has exited before.                           *)
WorkerReady(j) ==
    /\ stream[j] = "starting" /\ worker[j] # "none"
    /\ Goto(j, "sleeping")
    /\ UNCHANGED <<slot, outcome, worker, request, verdict, pending, deliveries>>

WorkerNotReady(j) ==
    /\ stream[j] = "starting" /\ worker[j] = "done"
    /\ Goto(j, "start failed")
    /\ UNCHANGED <<slot, outcome, worker, request, verdict, pending, deliveries>>

(* The monitor records the outcome: cancelled only if that was asked for.  *)
Commit(j) ==
    /\ worker[j] = "running" /\ outcome[j] = "active"
    /\ \E o \in Outcomes :
          /\ o = "cancelled" => verdict[j] # "none"
          /\ outcome' = [outcome EXCEPT ![j] = o]
    /\ UNCHANGED <<slot, worker, stream, request, verdict, pending, deliveries>>

MonitorEnds(j) ==
    /\ worker[j] = "running" /\ outcome[j] \in Outcomes
    /\ worker' = [worker EXCEPT ![j] = "done"]
    /\ UNCHANGED <<slot, outcome, stream, request, verdict, pending, deliveries>>

------------------------------------------------------------------------------
(* _run_and_stream wakes and finds the job at work; under the lock         *)
(* enqueue_progress_if_current lets the event pass, and awaits the queue.  *)
SendProgress(j) ==
    /\ stream[j] = "sleeping" /\ worker[j] = "running"
    /\ slot = j /\ outcome[j] = "active"
    /\ holder[j] = None
    /\ j \notin pending \union emitted
    /\ holder' = [holder EXCEPT ![j] = j]
    /\ Goto(j, "progress")
    /\ UNCHANGED <<slot, outcome, worker, request, verdict, pending, emitted, final, tardy>>

ProgressSent(j) ==
    /\ stream[j] = "progress"
    /\ SentProgress(j)
    /\ holder' = [holder EXCEPT ![j] = None]
    /\ Goto(j, "sleeping")
    /\ UNCHANGED <<slot, outcome, worker, request, verdict, pending, emitted, final>>

(* research_task is done; the store says how the job ended, if it still    *)
(* holds it.                                                               *)
Finished(j) ==
    /\ stream[j] = "sleeping" /\ worker[j] = "done"
    /\ Goto(j, IF slot = j /\ outcome[j] \in Outcomes THEN "report" ELSE "over")
    /\ UNCHANGED <<slot, outcome, worker, request, verdict, pending, deliveries>>

(* The final event of the stream: what the store says, or that the worker  *)
(* failed to start.                                                        *)
StreamState(j) == IF stream[j] = "start failed" THEN "failed" ELSE outcome[j]

(* enqueue_terminal_once awaits the queue with the lock held, and only     *)
(* then notes that the event was sent.                                     *)
Report(j) ==
    /\ stream[j] \in {"report", "start failed"}
    /\ holder[j] = None
    /\ IF j \in emitted
       THEN Goto(j, "over") /\ UNCHANGED <<holder, final, tardy>>
       ELSE /\ Sent(j, StreamState(j))
            /\ holder' = [holder EXCEPT ![j] = j]
            /\ Goto(j, "sending")
    /\ UNCHANGED <<slot, outcome, worker, request, verdict, pending, emitted>>

ReportSent(j) ==
    /\ stream[j] = "sending"
    /\ emitted' = emitted \union {j}
    /\ holder' = [holder EXCEPT ![j] = None]
    /\ Goto(j, "over")
    /\ UNCHANGED <<slot, outcome, worker, request, verdict, pending, final, tardy>>

------------------------------------------------------------------------------
(* handle_cancel_request: a job the store no longer holds is not found,    *)
(* one that has ended is said to have, one that is cancelled is reported;  *)
(* otherwise the supervisor is asked.                                      *)
Ask(c) ==
    /\ request[c].at = "idle"
    /\ \E j \in Jobs :
          /\ outcome[j] # "none"
          /\ request' = [request EXCEPT ![c] =
                [job |-> j, answer |-> "none",
                 at |-> CASE slot = j /\ outcome[j] = "cancelled" -> "report"
                          [] slot = j /\ outcome[j] = "active" -> "waiting"
                          [] OTHER -> "over"]]
          /\ pending' = IF slot = j /\ outcome[j] = "active"
                        THEN pending \union {j} ELSE pending
    /\ UNCHANGED <<slot, outcome, worker, stream, verdict, deliveries>>

(* supervisor.cancel: requests share one task that stops the worker, which *)
(* is begun again if it could not confirm the exit; a job without a worker *)
(* is answered from the store.                                             *)
Stop(c) ==
    LET j == request[c].job
    IN  /\ request[c].at = "waiting"
        /\ IF worker[j] = "running"
           THEN /\ Turn(c, "joined")
                /\ verdict' = [verdict EXCEPT ![j] = "asked"]
           ELSE /\ request' = [request EXCEPT ![c].at = "answered",
                      ![c].answer = IF slot = j /\ outcome[j] \in Outcomes
                                    THEN outcome[j] ELSE "not_running"]
                /\ UNCHANGED verdict
    /\ UNCHANGED <<slot, outcome, worker, stream, pending, deliveries>>

(* The shared task ends: the exit could not be confirmed in time, or the   *)
(* job is read; a job that is gone is said to have failed.                 *)
Verdict(j) ==
    /\ verdict[j] = "asked"
    /\ \E a \in CancelAnswers :
          /\ \/ a = "cancellation_failed" /\ worker[j] = "running"
             \/ outcome[j] \in Outcomes /\ a = IF slot = j THEN outcome[j] ELSE "failed"
          /\ verdict' = [verdict EXCEPT ![j] = "ended"]
          /\ request' = [c \in Cancellers |->
                IF request[c].job = j /\ request[c].at = "joined"
                THEN [request[c] EXCEPT !.at = "answered", !.answer = a]
                ELSE request[c]]
    /\ UNCHANGED <<slot, outcome, worker, stream, pending, deliveries>>

CancelAnswered(c) ==
    /\ request[c].at = "answered"
    /\ pending' = pending \ {request[c].job}
    /\ Turn(c, IF request[c].answer = "cancelled" THEN "report" ELSE "over")
    /\ UNCHANGED <<slot, outcome, worker, stream, verdict, deliveries>>

(* The request itself is cancelled while it waits.                         *)
Abandon(c) ==
    /\ request[c].at \in {"waiting", "joined"}
    /\ pending' = pending \ {request[c].job}
    /\ Turn(c, "over")
    /\ UNCHANGED <<slot, outcome, worker, stream, verdict, deliveries>>

(* A final event sent without waiting for the lock.                        *)
ConfirmUnlocked(c) ==
    LET j == request[c].job
    IN  /\ request[c].at = "report"
        /\ IF j \in emitted
           THEN Turn(c, "over") /\ UNCHANGED <<final, tardy>>
           ELSE Sent(j, "cancelled") /\ Turn(c, "sending")
        /\ UNCHANGED <<slot, outcome, worker, stream, verdict, pending, emitted, holder>>

Confirm(c) ==
    LET j == request[c].job
    IN  /\ request[c].at = "report"
        /\ holder[j] = None
        /\ IF j \in emitted
           THEN Turn(c, "over") /\ UNCHANGED <<holder, final, tardy>>
           ELSE /\ Sent(j, "cancelled")
                /\ holder' = [holder EXCEPT ![j] = c]
                /\ Turn(c, "sending")
        /\ UNCHANGED <<slot, outcome, worker, stream, verdict, pending, emitted>>

ConfirmSent(c) ==
    /\ request[c].at = "sending"
    /\ emitted' = emitted \union {request[c].job}
    /\ holder' = [holder EXCEPT ![request[c].job] = None]
    /\ Turn(c, "over")
    /\ UNCHANGED <<slot, outcome, worker, stream, verdict, pending, final, tardy>>

StreamStep(j) == Finished(j) \/ Report(j) \/ ReportSent(j) \/ ProgressSent(j)
RequestStep(c) == CancelAnswered(c) \/ Confirm(c) \/ ConfirmSent(c)

WorkerAnswers(j) == WorkerReady(j) \/ WorkerNotReady(j)

StreamNext ==
    \/ \E j \in Jobs :
          \/ Accept(j) \/ NotLaunched(j) \/ Disconnected(j) \/ Launch(j)
          \/ WorkerAnswers(j) \/ Commit(j) \/ MonitorEnds(j)
          \/ SendProgress(j) \/ Verdict(j) \/ StreamStep(j)
    \/ \E c \in Cancellers : Ask(c) \/ Stop(c) \/ Abandon(c) \/ RequestStep(c)

StreamSpec == StreamInit /\ [][StreamNext]_streamVars

(* The event loop runs what is ready, and a start returns or raises.       *)
StreamFairSpec ==
    /\ StreamSpec
    /\ \A j \in Jobs : SF_streamVars(StreamStep(j)) /\ WF_streamVars(WorkerAnswers(j))
    /\ \A c \in Cancellers : SF_streamVars(RequestStep(c))

------------------------------------------------------------------------------
(* lifecycle_events.py:42: progress comes before exactly one terminal      *)
(* event.  Whoever sends it, the stream or a cancel request, nothing       *)
(* follows a final event.                                                  *)
NothingAfterFinal ==
    /\ tardy = {}
    /\ \A j \in Jobs : Len(final[j]) <= 1

(* A client told that its task completed, or that it was cancelled, was    *)
(* told the truth: a cancel request that loses the race does not announce  *)
(* a cancellation, and the next job's outcome is not taken for this one's. *)
FinalIsTrue ==
    \A j \in Jobs, o \in {"completed", "cancelled"} :
        final[j] = <<o>> => outcome[j] = o

(* A task's client gets at most one final event, the last and a true one.  *)
FinalEventsSound == StreamTypeOK /\ NothingAfterFinal /\ FinalIsTrue

(* Every stream whose job has ended gets its final event.                  *)
FinalIsSent ==
    \A j \in Jobs :
        stream[j] = "sleeping" /\ worker[j] = "done" ~> final[j] # <<>>
==============================================================================
