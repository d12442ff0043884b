---------------------------- MODULE ModelFallback ----------------------------
(***************************************************************************)
(* Failover between language models (pipeline/model_breaker.py and         *)
(* llm_failover.py): the threads of a run share one table of providers     *)
(* whose daily quota is spent, and every call goes to the first model of a *)
(* chain whose provider is not in it.  The table has no lock; a step here  *)
(* is what a thread does between two points where another can change it.   *)
(* No caller records failures, so the circuits under it stay closed and    *)
(* are left out (CircuitBreaker models one).                               *)
(***************************************************************************)
EXTENDS Integers, Sequences, FiniteSets

CONSTANTS
    Threads,     \* threads that call models
    Providers,
    Chain,       \* the models of the chain, preferred one first
    ProviderOf,  \* model |-> provider
    Keyed,       \* providers with an API key
    MaxDay       \* bound: midnights that pass

(* Every model of the chain has a provider.                                *)
FallbackAssumption ==
    /\ IsFiniteSet(Providers)
    /\ Len(Chain) \in Nat
    /\ ProviderOf \in [{Chain[i] : i \in 1..Len(Chain)} -> Providers]
    /\ Keyed \subseteq Providers
    /\ MaxDay \in Nat

VARIABLES
    today,   \* the date in UTC
    mark,    \* _quota_exhausted: provider |-> the day it was marked, or None
    run,     \* thread |-> its execute_with_fallback
    refused  \* history: thread |-> what was marked when its execution began
             \* and the providers that have refused it since, both of today

fallbackVars == <<today, mark, run, refused>>

None == -1
Days == 0..MaxDay
Models == {Chain[i] : i \in 1..Len(Chain)}
Over == {"done", "failed", "unavailable", "crashed"}
Marked == {p \in Providers : mark[p] # None}

(* at: where the thread is; i: the model of the chain it looks at; day,    *)
(* count: what it knew when it began to scan the table; expired: entries   *)
(* it is about to delete.                                                  *)
Runs ==
    [at : {"idle", "select", "scan", "drop", "call", "mark"} \union Over,
     i : 1..Len(Chain) + 1, tried : SUBSET Models,
     day : Days, count : 0..Cardinality(Providers), expired : SUBSET Providers]

NewRun ==
    [at |-> "idle", i |-> 1, tried |-> {}, day |-> 0, count |-> 0, expired |-> {}]

FallbackTypeOK ==
    /\ today \in Days
    /\ mark \in [Providers -> Days \union {None}]
    /\ run \in [Threads -> Runs]
    /\ refused \in [Threads -> SUBSET Providers]

FallbackInit ==
    /\ today = 0
    /\ mark = [p \in Providers |-> None]
    /\ run = [t \in Threads |-> NewRun]
    /\ refused = [t \in Threads |-> {}]

------------------------------------------------------------------------------
Model(t) == Chain[run[t].i]
Provider(t) == ProviderOf[Model(t)]
Goto(t, at) == run' = [run EXCEPT ![t].at = at]
End(t, at) == run' = [run EXCEPT ![t] = [NewRun EXCEPT !.at = at]]
TryNext(t) == run' = [run EXCEPT ![t].at = "select", ![t].i = @ + 1]

Begin(t) ==
    /\ run[t].at \in {"idle"} \union Over
    /\ run' = [run EXCEPT ![t] = [NewRun EXCEPT !.at = "select"]]
    /\ refused' = [refused EXCEPT ![t] = Marked]
    /\ UNCHANGED <<today, mark>>

(* select_model passes over a provider without a key, and raises at the    *)
(* end of the chain.                                                       *)
PassOver(t) ==
    /\ run[t].at = "select"
    /\ \/ run[t].i > Len(Chain) /\ End(t, "unavailable")
       \/ run[t].i <= Len(Chain) /\ Provider(t) \notin Keyed /\ TryNext(t)
    /\ UNCHANGED <<today, mark, refused>>

(* _reset_daily_quotas takes the time and begins to go through the table.  *)
Scan(t) ==
    /\ run[t].at = "select"
    /\ run[t].i <= Len(Chain)
    /\ Provider(t) \in Keyed
    /\ run' = [run EXCEPT ![t].at = "scan", ![t].day = today,
                          ![t].count = Cardinality(Marked)]
    /\ UNCHANGED <<today, mark, refused>>

(* The list of expired entries is complete; a table that has changed its   *)
(* size since the scan began raises RuntimeError.                          *)
ScanEnds(t) ==
    /\ run[t].at = "scan"
    /\ \/ /\ Cardinality(Marked) = run[t].count
          /\ run' = [run EXCEPT ![t].at = "drop",
                        ![t].day = 0, ![t].count = 0,
                        ![t].expired = {p \in Marked : mark[p] < run[t].day}]
       \/ Cardinality(Marked) # run[t].count /\ End(t, "crashed")
    /\ UNCHANGED <<today, mark, refused>>

(* del of one expired entry: KeyError if another thread was faster.        *)
Drop(t) ==
    /\ run[t].at = "drop"
    /\ \E p \in run[t].expired :
          \/ /\ mark[p] # None
             /\ mark' = [mark EXCEPT ![p] = None]
             /\ run' = [run EXCEPT ![t].expired = @ \ {p}]
          \/ /\ mark[p] = None
             /\ End(t, "crashed")
             /\ UNCHANGED mark
    /\ UNCHANGED <<today, refused>>

(* A selection that goes back to the head of the chain.                    *)
LookFromTop(t) ==
    /\ run[t].at = "drop"
    /\ run[t].expired = {}
    /\ \/ /\ mark[Provider(t)] # None
          /\ run' = [run EXCEPT ![t].at = "select", ![t].i = 1]
       \/ /\ mark[Provider(t)] = None
          /\ run' = [run EXCEPT ![t].at = "call", ![t].tried = @ \union {Model(t)}]
    /\ UNCHANGED <<today, mark, refused>>

(* A model whose provider is marked is passed over; the first other one is *)
(* called, unless this execution has called it before.                     *)
Look(t) ==
    /\ run[t].at = "drop"
    /\ run[t].expired = {}
    /\ \/ mark[Provider(t)] # None /\ TryNext(t)
       \/ /\ mark[Provider(t)] = None
          /\ IF Model(t) \in run[t].tried
             THEN End(t, "unavailable")
             ELSE run' = [run EXCEPT ![t].at = "call", ![t].tried = @ \union {Model(t)}]
    /\ UNCHANGED <<today, mark, refused>>

(* The call returns, raises QuotaExhaustedError, or fails otherwise.       *)
CallEnds(t) ==
    /\ run[t].at = "call"
    /\ \/ /\ \/ End(t, "done")
             \/ End(t, "failed")
          /\ UNCHANGED refused
       \/ /\ Goto(t, "mark")
          /\ refused' = [refused EXCEPT ![t] = @ \union {Provider(t)}]
    /\ UNCHANGED <<today, mark>>

(* A mark that is forgotten.                                               *)
MarkForgets(t) ==
    /\ run[t].at = "mark"
    /\ run' = [run EXCEPT ![t].at = "select", ![t].i = 1]
    /\ UNCHANGED <<today, mark, refused>>

(* mark_quota_exhausted, until the next midnight; then select_model again. *)
Mark(t) ==
    /\ run[t].at = "mark"
    /\ mark' = [mark EXCEPT ![Provider(t)] = today]
    /\ run' = [run EXCEPT ![t].at = "select", ![t].i = 1]
    /\ UNCHANGED <<today, refused>>

Midnight ==
    /\ today < MaxDay
    /\ today' = today + 1
    /\ refused' = [t \in Threads |-> {}]
    /\ UNCHANGED <<mark, run>>

Step(t) ==
    PassOver(t) \/ Scan(t) \/ ScanEnds(t) \/ Drop(t) \/ Look(t) \/ CallEnds(t) \/ Mark(t)

FallbackNext == Midnight \/ \E t \in Threads : Begin(t) \/ Step(t)

FallbackSpec == FallbackInit /\ [][FallbackNext]_fallbackVars

(* Threads run, and a provider's call ends: its client has a timeout.      *)
FallbackFairSpec == FallbackSpec /\ \A t \in Threads : WF_fallbackVars(Step(t))

------------------------------------------------------------------------------
(* model_breaker.py:279: a provider out of quota is left alone until       *)
(* midnight.  No execution calls a provider that somebody had marked       *)
(* before it began, or that has refused it since, whatever other threads   *)
(* do to the table meanwhile.  (One that is selected before another thread *)
(* marks it is called all the same.)  After a midnight both may happen: a  *)
(* thread that is still deleting what it found expired deletes the mark    *)
(* another one has just set anew.                                          *)
RefusedOnce ==
    today = 0 => \A t \in Threads : run[t].at = "call" => Provider(t) \notin refused[t]

(* model_breaker.py:353: RuntimeError is raised when all models of the     *)
(* chain are unavailable, that is, out of quota or without a key, up to    *)
(* the first midnight.                                                     *)
RaisesOnly ==
    \A t \in Threads :
        today = 0 /\ run[t].at # "unavailable" /\ run'[t].at = "unavailable" =>
            \A m \in Models : ProviderOf[m] \in Keyed => mark[ProviderOf[m]] = today

RaisesOnlyWhenUnavailable == [][RaisesOnly]_fallbackVars

(* Every call for a text ends, with a text or with an error, although the  *)
(* chain is started again after each refusal.                              *)
ExecutionEnds ==
    \A t \in Threads : run[t].at = "select" ~> run[t].at \in Over

(* A call goes to a provider, or fails, for a reason: RefusedOnce and      *)
(* RaisesOnlyWhenUnavailable, whatever other threads mark meanwhile.       *)
FallbackSound == [](FallbackTypeOK /\ RefusedOnce) /\ RaisesOnlyWhenUnavailable
==============================================================================
