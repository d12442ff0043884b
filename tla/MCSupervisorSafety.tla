-------------------------- MODULE MCSupervisorSafety --------------------------
(***************************************************************************)
(* JobSupervisor on the MCP surface where things go wrong, on small        *)
(* instances.  A behaviour stays in the scenario it starts in: one job     *)
(* whose journal saves and process-group cleanups may fail; one job whose  *)
(* worker may crash, write an event that is refused and race its own       *)
(* pipeline thread; and two jobs in a row.                                 *)
(***************************************************************************)
EXTENDS JobSupervisor

CONSTANTS
    j1, j2,
    Scenarios   \* those that are explored

ASSUME JobIds = {j1, j2}

(* The interpreter's own failure code and the kernel's SIGKILL.            *)
Crashes == {1, -9}

VARIABLE scenario

mcVars == <<scenario, vars>>

Failing == INSTANCE JobSupervisor WITH
    WorkStages <- {}, CrashCodes <- {}, MayGarble <- FALSE, Threaded <- FALSE

BadWorker == INSTANCE JobSupervisor WITH
    SaveOutcomes <- {TRUE}, CleanupOutcomes <- {TRUE}

TwoJobs == INSTANCE JobSupervisor WITH
    SaveOutcomes <- {TRUE}, CleanupOutcomes <- {TRUE},
    WorkStages <- {}, CrashCodes <- {}, MayGarble <- FALSE, Threaded <- FALSE

MCInit == scenario \in Scenarios /\ Init

OnlyOne == call'[j2].pc = "none"

MCNext ==
    /\ UNCHANGED scenario
    /\ \/ scenario = "failures" /\ Failing!Next /\ OnlyOne
       \/ scenario = "bad worker" /\ BadWorker!Next /\ OnlyOne
       \/ scenario = "two jobs" /\ TwoJobs!Next

MCSpec == MCInit /\ [][MCNext]_mcVars

(* Constraint: with two jobs the server goes on serving, and clients ask   *)
(* to cancel only the second one.                                          *)
TwoInARow ==
    scenario = "two jobs" =>
        /\ server = "serving"
        /\ call[j2].pc # "none" => call[j1].pc # "none"
        /\ ~client[j1].queued
        /\ client[j1].answer = NoAnswer
        /\ stopper["cancel"][j1] = "none"
===============================================================================
