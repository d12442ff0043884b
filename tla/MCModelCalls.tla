----------------------------- MODULE MCModelCalls -----------------------------
(***************************************************************************)
(* The two mechanisms that decide which provider a call goes to, on small  *)
(* instances.  They share no variable, so one run checks them side by side *)
(* instead of interleaved: the scenario chosen at the start says which one *)
(* moves, and the other stays as it was created.                           *)
(***************************************************************************)
EXTENDS CircuitBreaker, ModelFallback, TLC

CONSTANT Scenarios   \* those that are explored

(* A chain as the real ones are: two models of one provider first, one     *)
(* provider without a key, and a last resort.                              *)
MCProviders == {"xai", "anthropic", "google"}
MCKeyed == {"xai", "google"}
MCChain == <<"grok", "grok43", "sonnet", "flash">>
MCProviderOf ==
    "grok" :> "xai" @@ "grok43" :> "xai" @@ "sonnet" :> "anthropic" @@ "flash" :> "google"

VARIABLE scenario

circuit == <<state, failures, successes, probes, waited, call, streak, trial>>
failover == <<today, mark, run, refused>>
callVars == <<scenario, circuit, failover>>

(* The circuit of the root is asked by check, this one by can_execute,     *)
(* which only Pass tells apart.                                            *)
Legacy == INSTANCE CircuitBreaker WITH Checked <- FALSE

ASSUME BreakerAssumption /\ Legacy!BreakerAssumption /\ FallbackAssumption

CallInit ==
    /\ scenario \in Scenarios
    /\ CircuitInit
    /\ FallbackInit

(* Across midnight each thread makes one call and rests; within a day it   *)
(* makes any number.                                                       *)
AcrossMidnight ==
    \/ Midnight
    \/ \E t \in Threads : (run[t].at = "idle" /\ Begin(t)) \/ Step(t)
    \/ (\A t \in Threads : run[t].at \in Over) /\ UNCHANGED failover

CallNext ==
    \/ scenario = "limited" /\ CircuitNext /\ UNCHANGED <<scenario, failover>>
    \/ scenario = "legacy" /\ Legacy!CircuitNext /\ UNCHANGED <<scenario, failover>>
    \/ scenario = "day" /\ FallbackNext /\ today' = today /\ UNCHANGED <<scenario, circuit>>
    \/ scenario = "midnight" /\ AcrossMidnight /\ UNCHANGED <<scenario, circuit>>

CallSpec == CallInit /\ [][CallNext]_callVars

(* The fairness of CircuitBreaker and ModelFallback, each in its scenarios. *)
OfCircuit == scenario \in {"limited", "legacy"}

CallFairSpec ==
    /\ CallSpec
    /\ WF_circuit(OfCircuit /\ Age)
    /\ \A c \in Callers :
          /\ SF_circuit(\/ scenario = "limited" /\ Pass(c)
                        \/ scenario = "legacy" /\ Legacy!Pass(c))
          /\ WF_circuit(OfCircuit /\ Ends(c))
          /\ SF_circuit(OfCircuit /\ Succeed(c))
    /\ \A t \in Threads : WF_failover(scenario \in {"day", "midnight"} /\ Step(t))

------------------------------------------------------------------------------
(* CircuitBreaker!CircuitSound and ModelFallback!FallbackSound are checked *)
(* as they stand; what is left is that neither mechanism refuses service   *)
(* for ever.                                                               *)

(* Recovers and ExecutionEnds.                                             *)
ServiceGoesOn == Recovers /\ ExecutionEnds
===============================================================================
