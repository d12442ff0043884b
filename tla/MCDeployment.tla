----------------------------- MODULE MCDeployment -----------------------------
(***************************************************************************)
(* The cloud deployment on small instances: two executions of two jobs, of *)
(* which the store fails one, and the control plane with one job and one   *)
(* execution.  A run explores one scenario after the other; what belongs   *)
(* to another scenario stays as it was at the start.                       *)
(***************************************************************************)
EXTENDS ControlPlane

CONSTANTS
    PlaneJob, PlaneRunner,  \* of the scenarios of the control plane
    Scenarios               \* those that are explored

ASSUME PlaneJob \in Jobs /\ PlaneRunner \in Runners \ Troubled
ASSUME ControlPlaneAssumption

VARIABLE scenario

mcVars == <<scenario, vars>>

(* A queue that may refuse and two inputs for one key; a queue that works. *)
Refusing == INSTANCE ControlPlane WITH
    Jobs <- {PlaneJob}, Runners <- {PlaneRunner}, MaxSends <- 1,
    EnqueueFails <- TRUE, Troubled <- {}
Queueing == INSTANCE ControlPlane WITH
    Jobs <- {PlaneJob}, Runners <- {PlaneRunner}, Inputs <- {"asked"},
    EnqueueFails <- FALSE, Troubled <- {}

MCInit == scenario \in Scenarios /\ Init

MCNext ==
    \/ scenario = "executions" /\ RunnerNext /\ UNCHANGED <<scenario, planeVars>>
    \/ scenario = "refusing" /\ Refusing!Next /\ UNCHANGED scenario
    \/ scenario = "queueing" /\ Queueing!Next /\ UNCHANGED scenario

(* The fairness of ControlPlane, in the scenario that asks for progress.   *)
MCSpec ==
    /\ MCInit /\ [][MCNext]_mcVars
    /\ \A h \in Handlers :
          /\ WF_vars(scenario = "queueing" /\ Queueing!CarriesOn(h))
          /\ SF_vars(scenario = "queueing" /\ Queueing!Closes(h))
          /\ SF_vars(scenario = "queueing" /\ Queueing!Looks(h, PlaneJob))

------------------------------------------------------------------------------
(* ControlPlane!StuckJobsSettle, with a queue that works.                  *)
QueueingSettles == scenario = "queueing" => StuckJobsSettle
===============================================================================
