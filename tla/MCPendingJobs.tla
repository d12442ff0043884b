----------------------------- MODULE MCPendingJobs -----------------------------
(* The files that processes change under file_mutation_lock: the recovery      *)
(* records, with two processes and two jobs, and the usage history, with a     *)
(* server of two threads, a command and an older installation. A behaviour     *)
(* uses one of the two.                                                       *)
EXTENDS PendingJobs, UsageHistory, TLC

CONSTANTS
    t1, t2, t3, server, command, older

MCProcessOf == t1 :> server @@ t2 :> server @@ t3 :> command
MCLegacy == [n \in 0..2 |-> older :> n]
Symmetry == Permutations(Procs) \union Permutations(Jobs)

ASSUME UsageAssumption

VARIABLE scenario   \* which files are used

MCInit ==
    /\ scenario \in {"records", "usage"}
    /\ Init /\ UsageInit

MCNext ==
    /\ UNCHANGED scenario
    /\ \/ scenario = "records" /\ Next /\ UNCHANGED usageVars
       \/ scenario = "usage" /\ UsageNext /\ UNCHANGED vars

MCSpec == MCInit /\ [][MCNext]_<<scenario, vars, usageVars>>
================================================================================
