--------------------------- MODULE StrategyPhase ---------------------------
(***************************************************************************)
(* The strategy stage of a fast run (core/fast_run_strategy.py) under the  *)
(* process-wide cost ceiling (utils/run_budget.py): the entry gate, the    *)
(* serial refresh of vendor news, one worker thread per platform, the      *)
(* serial loop over the YAML strategies, and the outcome the run records   *)
(* and exits with (core/strategy_outcome.py, vendor_refresh_outcome.py,    *)
(* cli_research_result.py).                                                *)
(*                                                                         *)
(* The workers share one number, the spend the budget's hook holds. Each   *)
(* reads the ledger, writes what it read into the hook and compares the    *)
(* hook with the ceiling, in three steps another worker can come between.  *)
(* Money is counted in units; a document costs DocCost when its writing    *)
(* call answers and EnrichCost when it is enriched.                        *)
(***************************************************************************)
EXTENDS Integers, Sequences, FiniteSets

CONSTANTS
  Orders,      \* what a command may ask for: the platforms of the AI strategy
               \* and the YAML strategies, each in order, and the refresh
  PoolSize,    \* workers at a time (three in the code)
  MaxCost,     \* the ceiling of --budget
  BaseSpend,   \* what the stages before this one may have spent
  DocCost, EnrichCost,
  FlatCost,    \* what the run books for a refresh task
  LiteCost     \* what the grounded brief really costs

VARIABLES
  order,     \* what this command asks for
  strategyPhase, \* "enter", "refresh", "pool", "types", "close" or "done"
  next,      \* position in the loop of the phase
  ledger,    \* LLM spend the session counters show
  spent,     \* spend the budget's hook holds
  cache,     \* the vendor news on disk: "fresh", or "stale" or missing
  briefs,    \* vendors whose news this run published
  started,   \* refresh tasks that reached the provider
  refreshed, \* what the refresh tracker holds of each requested vendor
  outcome,   \* what the outcome tracker holds of each target
  saved,     \* targets whose document is on disk
  worker,    \* where each platform's worker is
  observed,  \* the spend each worker observed last
  gate,      \* why the stage was skipped whole, or "open"
  exit       \* the command's exit code, or -1 while it runs

strategyVars == <<order, strategyPhase, next, ledger, spent, cache, briefs, started,
                  refreshed, outcome, saved, worker, observed, gate, exit>>

money == <<ledger, spent>>
news == <<cache, briefs, started, refreshed>>

ElementsOf(s) == {s[i] : i \in 1..Len(s)}
Platforms == order.platforms
Types == order.types
Vendors == ElementsOf(Platforms)
Targets == Vendors \cup ElementsOf(Types)
Requested == IF order.refresh THEN Vendors ELSE {}

ASSUME StrategyAssumption ==
  /\ \A o \in Orders :
        /\ o.platforms \in Seq(ElementsOf(o.platforms))
        /\ o.types \in Seq(ElementsOf(o.types))
        /\ Cardinality(ElementsOf(o.platforms)) = Len(o.platforms)
        /\ Cardinality(ElementsOf(o.types)) = Len(o.types)
        /\ ElementsOf(o.platforms) \cap ElementsOf(o.types) = {}
        /\ o.refresh \in BOOLEAN
  /\ PoolSize \in Nat \ {0} /\ MaxCost \in Nat \ {0}
  /\ BaseSpend \subseteq Nat
  /\ {DocCost, EnrichCost, FlatCost, LiteCost} \subseteq Nat
  /\ LiteCost <= FlatCost

Verdicts == {"none", "completed", "failed", "skipped"}
Observed == ledger + Cardinality(started) * FlatCost
Paid == ledger + Cardinality(started) * LiteCost

SkipRest(f) == [x \in DOMAIN f |-> IF f[x] = "none" THEN "skipped" ELSE f[x]]
MarkCompleted(f, t) == [f EXCEPT ![t] = "completed"]
MarkFailed(f, t) == IF f[t] = "completed" THEN f ELSE [f EXCEPT ![t] = "failed"]
MarkSkipped(f, t) ==
  IF f[t] \in {"completed", "failed"} THEN f ELSE [f EXCEPT ![t] = "skipped"]

(* A snapshot counts what nobody recorded as failed. *)
Snapshot(f) == [x \in DOMAIN f |-> IF f[x] = "none" THEN "failed" ELSE f[x]]
Fulfilled(f) == \A x \in DOMAIN f : Snapshot(f)[x] = "completed"

StrategyInit ==
  /\ order \in Orders
  /\ strategyPhase = "enter" /\ next = 1
  /\ ledger \in BaseSpend /\ spent = 0
  /\ cache \in [Vendors -> {"fresh", "stale"}]
  /\ briefs = {} /\ started = {}
  /\ refreshed = [v \in Requested |-> "none"]
  /\ outcome = [t \in Targets |-> "none"]
  /\ saved = {}
  /\ worker = [v \in Vendors |-> "queued"] /\ observed = [v \in Vendors |-> 0]
  /\ gate = "open" /\ exit = -1

-----------------------------------------------------------------------------
(* The gates before any paid work. *)

SkipStage(why) ==
  /\ strategyPhase' = "close" /\ gate' = why
  /\ outcome' = SkipRest(outcome) /\ refreshed' = SkipRest(refreshed)
  /\ UNCHANGED <<next, ledger, cache, briefs, started, saved, worker, observed, exit>>

EnterStage ==
  /\ strategyPhase = "enter"
  /\ \/ SkipStage("base incomplete") /\ UNCHANGED spent
     \/ /\ spent' = Observed
        /\ Observed >= MaxCost
        /\ SkipStage("ceiling")
     \/ /\ spent' = Observed
        /\ Observed < MaxCost
        /\ \/ SkipStage("no route")
           \/ /\ strategyPhase' = "refresh"
              /\ UNCHANGED <<next, ledger, news, outcome, saved, worker, observed, gate, exit>>

-----------------------------------------------------------------------------
(* The serial loop that settles each platform's vendor news. *)

TooDear == Observed + FlatCost >= MaxCost

(* Every vendor passes here, the news it needs only read when no refresh   *)
(* was asked for. A fresh copy is reused and nothing is told the tracker.  *)
PassVendor(v) ==
  /\ UNCHANGED <<cache, briefs, started>>
  /\ \/ v \notin Requested /\ UNCHANGED <<spent, refreshed>>
     \/ /\ v \in Requested /\ TooDear
        /\ spent' = Observed /\ refreshed' = MarkSkipped(refreshed, v)
     \/ /\ v \in Requested /\ ~TooDear /\ cache[v] = "fresh"
        /\ spent' = Observed /\ UNCHANGED refreshed

(* A task that is not submitted: the preflight fails and says so, or no    *)
(* grounded engine is configured and nothing is said.                      *)
RefuseVendor(v) ==
  /\ v \in Requested /\ ~TooDear /\ cache[v] # "fresh"
  /\ spent' = Observed
  /\ refreshed' \in {refreshed, MarkFailed(refreshed, v)}
  /\ UNCHANGED <<cache, briefs, started>>

(* A submitted task: the call answers with a brief that is published, or   *)
(* it raises, comes back empty or cannot be written.                       *)
RefreshVendor(v) ==
  /\ v \in Requested /\ ~TooDear /\ cache[v] # "fresh"
  /\ spent' = Observed
  /\ started' = started \cup {v}
  /\ \/ /\ cache' = [cache EXCEPT ![v] = "fresh"]
        /\ briefs' = briefs \cup {v}
        /\ refreshed' = MarkCompleted(refreshed, v)
     \/ /\ refreshed' = MarkFailed(refreshed, v)
        /\ UNCHANGED <<cache, briefs>>

SettleVendor ==
  /\ strategyPhase = "refresh" /\ next <= Len(Platforms)
  /\ LET v == Platforms[next]
     IN PassVendor(v) \/ RefuseVendor(v) \/ RefreshVendor(v)
  /\ next' = next + 1
  /\ UNCHANGED <<strategyPhase, ledger, outcome, saved, worker, observed, gate, exit>>

OpenPool ==
  /\ strategyPhase = "refresh" /\ next > Len(Platforms)
  /\ strategyPhase' = "pool" /\ next' = 1
  /\ UNCHANGED <<money, news, outcome, saved, worker, observed, gate, exit>>

-----------------------------------------------------------------------------
(* One worker per platform; one platform runs in the calling thread. *)

Inline == Len(Platforms) = 1
Busy == {v \in Vendors : worker[v] \notin {"queued", "over"}}
PoolSlots == IF Len(Platforms) < PoolSize THEN Len(Platforms) ELSE PoolSize
Earlier(v) == {Platforms[i] : i \in {j \in 1..Len(Platforms) :
                 \E k \in j+1..Len(Platforms) : Platforms[k] = v}}

WorkerAt(v, place) == worker' = [worker EXCEPT ![v] = place]

Observe(v) ==
  /\ strategyPhase = "pool" /\ worker[v] = "queued"
  /\ Cardinality(Busy) < PoolSlots
  /\ \A w \in Earlier(v) : worker[w] # "queued"
  /\ observed' = [observed EXCEPT ![v] = Observed]
  /\ WorkerAt(v, "sync")
  /\ UNCHANGED <<strategyPhase, next, money, news, outcome, saved, gate, exit>>

SyncByAdding(v) ==      \* a reset and a record that another worker splits
  /\ worker[v] = "sync"
  /\ spent' = spent + observed[v]
  /\ WorkerAt(v, "check")
  /\ UNCHANGED <<strategyPhase, next, ledger, news, outcome, saved, observed, gate, exit>>

SyncSpend(v) ==
  /\ worker[v] = "sync"
  /\ spent' = observed[v]
  /\ WorkerAt(v, "check")
  /\ UNCHANGED <<strategyPhase, next, ledger, news, outcome, saved, observed, gate, exit>>

BeginCall(v) ==
  /\ worker[v] = "check" /\ spent < MaxCost
  /\ WorkerAt(v, "call")
  /\ UNCHANGED <<strategyPhase, next, money, news, outcome, saved, observed, gate, exit>>

SkipPlatform(v) ==
  /\ worker[v] = "check" /\ spent >= MaxCost
  /\ outcome' = MarkSkipped(outcome, v)
  /\ WorkerAt(v, "over")
  /\ UNCHANGED <<strategyPhase, next, money, news, saved, observed, gate, exit>>

(* The writing call answers, comes back blank, or fails, paid or not. *)
CallAnswered(v) ==
  /\ worker[v] = "call"
  /\ ledger' = ledger + DocCost
  /\ WorkerAt(v, "enrich")
  /\ UNCHANGED <<strategyPhase, next, spent, news, outcome, saved, observed, gate, exit>>

CallFailed(v) ==
  /\ worker[v] = "call"
  /\ ledger' \in {ledger, ledger + DocCost}
  /\ outcome' = MarkFailed(outcome, v)
  /\ WorkerAt(v, "over")
  /\ UNCHANGED <<strategyPhase, next, spent, news, saved, observed, gate, exit>>

Enrich(v) ==
  /\ worker[v] = "enrich"
  /\ ledger' \in {ledger, ledger + EnrichCost}
  /\ WorkerAt(v, "save")
  /\ UNCHANGED <<strategyPhase, next, spent, news, outcome, saved, observed, gate, exit>>

Save(v) ==
  /\ worker[v] = "save"
  /\ \/ saved' = saved \cup {v} /\ outcome' = MarkCompleted(outcome, v)
     \/ outcome' = MarkFailed(outcome, v) /\ UNCHANGED saved
  /\ WorkerAt(v, "over")
  /\ UNCHANGED <<strategyPhase, next, money, news, observed, gate, exit>>

(* The preparation or the save raises. A pool's future hands that to the   *)
(* loop, which marks the target failed; in the calling thread it ends the  *)
(* run, with the outcome of the strategies never written.                  *)
SaveRaises(v) ==
  /\ worker[v] = "save"
  /\ WorkerAt(v, "over")
  /\ IF Inline
     THEN strategyPhase' = "done" /\ exit' = 1 /\ UNCHANGED outcome
     ELSE outcome' = MarkFailed(outcome, v) /\ UNCHANGED <<strategyPhase, exit>>
  /\ UNCHANGED <<next, money, news, saved, observed, gate>>

Worker(v) ==
  \/ Observe(v) \/ SyncSpend(v) \/ BeginCall(v) \/ SkipPlatform(v)
  \/ CallAnswered(v) \/ CallFailed(v) \/ Enrich(v) \/ Save(v) \/ SaveRaises(v)

OpenTypes ==
  /\ strategyPhase = "pool" /\ \A v \in Vendors : worker[v] = "over"
  /\ strategyPhase' = "types"
  /\ UNCHANGED <<next, money, news, outcome, saved, worker, observed, gate, exit>>

-----------------------------------------------------------------------------
(* The YAML strategies, one after another. *)

StopTypes ==
  /\ spent' = Observed /\ Observed >= MaxCost
  /\ outcome' = SkipRest(outcome)
  /\ next' = Len(Types) + 1
  /\ UNCHANGED <<strategyPhase, ledger, saved, exit>>

WriteType(t) ==
  /\ spent' = Observed /\ Observed < MaxCost
  /\ next' = next + 1
  /\ \/ /\ ledger' \in {ledger, ledger + DocCost, ledger + DocCost + EnrichCost}
        /\ outcome' = MarkFailed(outcome, t)
        /\ UNCHANGED <<strategyPhase, saved, exit>>
     \/ /\ ledger' \in {ledger + DocCost, ledger + DocCost + EnrichCost}
        /\ outcome' = MarkCompleted(outcome, t) /\ saved' = saved \cup {t}
        /\ UNCHANGED <<strategyPhase, exit>>
     \/ /\ ledger' \in {ledger + DocCost, ledger + DocCost + EnrichCost}
        /\ strategyPhase' = "done" /\ exit' = 1
        /\ UNCHANGED <<outcome, saved>>

SettleType ==
  /\ strategyPhase = "types" /\ next <= Len(Types)
  /\ StopTypes \/ WriteType(Types[next])
  /\ UNCHANGED <<news, worker, observed, gate>>

CloseStage ==
  /\ strategyPhase = "types" /\ next > Len(Types)
  /\ strategyPhase' = "close"
  /\ UNCHANGED <<next, money, news, outcome, saved, worker, observed, gate, exit>>

-----------------------------------------------------------------------------
(* The trackers' snapshots are written to the run state, and the command   *)
(* exits with what it reads there.                                         *)
Conclude ==
  /\ strategyPhase = "close"
  /\ strategyPhase' = "done"
  /\ outcome' = Snapshot(outcome) /\ refreshed' = Snapshot(refreshed)
  /\ exit' = IF Fulfilled(outcome) /\ Fulfilled(refreshed) THEN 0 ELSE 1
  /\ UNCHANGED <<next, money, cache, briefs, started, saved, worker, observed, gate>>

(* What was asked for stays. *)
StrategyNext ==
  /\ UNCHANGED order
  /\ \/ EnterStage \/ SettleVendor \/ OpenPool \/ OpenTypes \/ SettleType
     \/ CloseStage \/ Conclude
     \/ \E v \in Vendors : Worker(v)

StrategySpec == StrategyInit /\ [][StrategyNext]_strategyVars

-----------------------------------------------------------------------------
StrategyTypeOK ==
  /\ order \in Orders
  /\ strategyPhase \in {"enter", "refresh", "pool", "types", "close", "done"}
  /\ next \in Nat /\ ledger \in Nat /\ spent \in Nat
  /\ cache \in [Vendors -> {"fresh", "stale"}]
  /\ briefs \subseteq Vendors /\ started \subseteq Requested
  /\ refreshed \in [Requested -> Verdicts] /\ outcome \in [Targets -> Verdicts]
  /\ saved \subseteq Targets
  /\ worker \in [Vendors -> {"queued", "sync", "check", "call", "enrich", "save", "over"}]
  /\ observed \in [Vendors -> Nat]
  /\ gate \in {"open", "base incomplete", "ceiling", "no route"}
  /\ exit \in {-1, 0, 1}

(* What the run records is what it did: a target is completed exactly when  *)
(* its document is on disk, a refresh exactly when this run published the  *)
(* news, a skipped refresh never reached the provider, and the command     *)
(* exits 0 only if all that was asked for is there.                        *)
OutcomeTruthful ==
  /\ \A t \in Targets : (outcome[t] = "completed") <=> (t \in saved)
  /\ \A v \in Requested :
       /\ (refreshed[v] = "completed") <=> (v \in briefs)
       /\ refreshed[v] = "skipped" => v \notin started
  /\ exit = 0 => saved = Targets /\ briefs = Requested

(* No document is skipped for its price while the spend the run observes is *)
(* below the ceiling, whatever order the workers write the shared spend in. *)
SkippedAtObservedCeiling ==
  (gate \in {"open", "ceiling"} /\ \E t \in Targets : outcome[t] = "skipped")
    => Observed >= MaxCost

(* However many refresh tasks run, they do not bring the real spend to the *)
(* ceiling: each gate counts the tasks before it.                          *)
RefreshKeepsBudget == strategyPhase = "refresh" => Paid < MaxCost

(* When the documents are written one at a time, the run oversteps the     *)
(* ceiling by less than one document.                                      *)
OverrunOneDocument ==
  (Len(Platforms) <= 1 /\ gate = "open" /\ strategyPhase # "enter")
    => Observed < MaxCost + DocCost + EnrichCost

(* What the strategy stage reports, and refuses for its price, is so, with  *)
(* a pool of workers and in series.                                         *)
StrategySound ==
  /\ StrategyTypeOK /\ OutcomeTruthful /\ SkippedAtObservedCeiling
  /\ RefreshKeepsBudget /\ OverrunOneDocument
=============================================================================
