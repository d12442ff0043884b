------------------------------ MODULE MCJobWaits ------------------------------
(***************************************************************************)
(* Whoever waits for a job, on small instances: the requests that start    *)
(* it, cancel it or shut the server down (JobSupervisor, one job of one    *)
(* A2A client), the callers of the status tool (StatusWait), and the A2A   *)
(* streams and cancel requests (A2AStream).  The last two see of the       *)
(* supervisor what their modules say, so the scenario chosen at the start  *)
(* says which component moves; the others rest as they were created.       *)
(***************************************************************************)
EXTENDS JobSupervisor, StatusWait, A2AStream

CONSTANTS
    First, Other,  \* the A2A tasks
    Second,        \* the other canceller
    Scenarios      \* those that are explored

ASSUME StreamAssumption /\ Jobs = {First, Other} /\ Second \in Cancellers

VARIABLE scenario

mcVars == <<scenario, vars, waitVars, streamVars>>

MCInit == scenario \in Scenarios /\ Init /\ WaitInit /\ StreamInit

(* Two cancellers with one job, and one canceller with two.                *)
OneStream == outcome'[Other] = "none"
TwoStreams == request'[Second].at = "idle"

MCNext ==
    /\ UNCHANGED scenario
    /\ \/ scenario = "supervisor" /\ Next /\ UNCHANGED <<waitVars, streamVars>>
       \/ scenario = "status" /\ WaitNext /\ UNCHANGED <<vars, streamVars>>
       \/ scenario = "stream" /\ StreamNext /\ OneStream /\ UNCHANGED <<vars, waitVars>>
       \/ scenario = "two streams" /\ StreamNext /\ TwoStreams /\ UNCHANGED <<vars, waitVars>>

(* The fairness of each component (of JobSupervisor nothing is enabled     *)
(* that it is fair to while it rests); that of A2AStream where one job has *)
(* the store to itself.                                                    *)
MCSpec ==
    /\ MCInit /\ [][MCNext]_mcVars /\ Fairness
    /\ \A w \in Waiters :
          /\ WF_waitVars(scenario = "status" /\ WaiterStep(w))
          /\ WF_waitVars(scenario = "status" /\ Expire(w))
    /\ SF_streamVars(scenario = "stream" /\ StreamStep(First))
    /\ WF_streamVars(scenario = "stream" /\ WorkerAnswers(First))
    /\ \A c \in Cancellers : SF_streamVars(scenario = "stream" /\ RequestStep(c))

------------------------------------------------------------------------------
(* Whoever waits for the supervisor is answered: StartSettles and           *)
(* ShutdownEnds, stuck workers and abandoned starts included.               *)
WaitsEnd == StartSettles /\ ShutdownEnds

(* Whoever waits for a job hears of its change: ChangeIsAnswered by a      *)
(* long-poll, and FinalIsSent by a stream while no other job takes the     *)
(* place in the store.                                                     *)
ClientsHear == ChangeIsAnswered /\ (scenario = "stream" => FinalIsSent)
===============================================================================
