---------------------------- MODULE MCCommandLine ----------------------------
(***************************************************************************)
(* What commands on one machine share, on small instances: the lease of a  *)
(* working folder (ResumeLease), the threads of the strategy stage         *)
(* (StrategyPhase) and those that scrape a site (Scraping), the research   *)
(* run of a folder (FastRun), and a batch beside single runs               *)
(* (BatchResearch).  They share no state, so a behaviour stays in the      *)
(* scenario it starts in; a second lease folder has the instances in which *)
(* a pid is used again and in which a process runs two tasks.              *)
(***************************************************************************)
EXTENDS ResumeLease, StrategyPhase, Scraping, FastRun, BatchResearch, TLC

CONSTANTS
    pA, pB, pC, tA, tB, tC,   \* processes and tasks
    here, there,        \* hosts
    onePid, otherPid, thirdPid,
    Scenarios           \* those that are explored

(* Three processes of one host, of which one may die, whichever it is:     *)
(* they differ in nothing.                                                 *)
OneTaskEach == (tA :> pA) @@ (tB :> pB) @@ (tC :> pC)
OneHost == (pA :> here) @@ (pB :> here) @@ (pC :> here)
DistinctPids == (pA :> onePid) @@ (pB :> otherPid) @@ (pC :> thirdPid)

(* Three platforms, two at a time, and a YAML strategy, without a refresh; *)
(* one platform and three strategies, so that all documents are written in *)
(* series; and two platforms whose vendor news is refreshed.               *)
Asking(platforms, types, refresh) ==
    [platforms |-> platforms, types |-> types, refresh |-> refresh]
Pooled == Asking(<<"azure", "aws", "gcp">>, <<"security">>, FALSE)
MCOrders == {Pooled, Asking(<<"azure">>, <<"security", "skills", "fabric">>, TRUE),
             Asking(<<"azure", "aws">>, <<"security">>, TRUE)}

(* A browser and a stealth tier with one window in the budget; a browser   *)
(* with none, and with --browser-headed; two plain tiers under one slot.   *)
SetUp(tiers, slots, cap, asked) ==
    [tiers |-> tiers, slots |-> slots, cap |-> cap, asked |-> asked]
Plain == SetUp(<<"httpx", "requests">>, 1, 0, FALSE)
MCSettings == {SetUp(<<"playwright", "patchright">>, 2, 1, FALSE),
               SetUp(<<"playwright">>, 2, 0, FALSE),
               SetUp(<<"playwright">>, 2, 1, TRUE), Plain}
MCAnswers == [t \in {"playwright", "patchright"} |-> {"blank", "good"}]
          @@ ("httpx" :> {"error", "limited", "good"})
          @@ ("requests" :> {"hard", "poor", "wrong"})

(* A run that may be resumed, with two sources and one section; more       *)
(* sources than its pools accept; a part with more sections than threads.  *)
Scope(urls, parts, quota, weak, times) ==
    [urls |-> urls, parts |-> parts, quota |-> quota, gaps |-> 1, weak |-> weak,
     runs |-> times]
Resumed == Scope({"u", "v"}, <<<<"a">>>>, 2, 0, 2)
MCScopes == {Resumed, Scope({"u", "v", "w"}, <<<<"a">>>>, 1, 0, 1),
             Scope({"u"}, <<<<"a", "b", "c">>, <<"d">>>>, 1, 1, 1)}

(* One company, a report that is not written, and a death; the same beside *)
(* single runs that start before a report is bound, where a run state is   *)
(* not saved; three companies whose platforms are detected, and a run      *)
(* state that is not read or not saved.                                    *)
Alone == [companies |-> <<"a">>, explicit |-> TRUE, detected |-> {"agnostic"},
          overlap |-> FALSE, runs |-> 3, crashes |-> 1, faults |-> 1,
          faulty |-> {"write"}]
MCCommands ==
    {Alone, [Alone EXCEPT !.overlap = TRUE, !.faulty = {"refuse"}],
     [Alone EXCEPT !.companies = <<"a", "b", "c">>, !.explicit = FALSE,
                   !.detected = {"agnostic", "azure"}, !.crashes = 0,
                   !.faulty = {"read", "refuse"}]}

VARIABLES
    scenario,
    life2, lease2, tokens2, pending2, mine2, pc2, kind2, before2, seen2, tries2, ret2,
    minted2, faults2, crashes2, unread2, overtaken2

lease2Vars == <<life2, lease2, tokens2, pending2, mine2, pc2, kind2, before2, seen2,
                tries2, ret2, minted2, faults2, crashes2, unread2, overtaken2>>
mcVars == <<scenario, vars, lease2Vars, strategyVars, batchVars, scrapeVars, runVars>>

(* The instances of the second folder: two processes of one host, and a    *)
(* third with the pid of the first, born when that has died; two tasks of  *)
(* one process and, on another host, a process with its pid; two tasks     *)
(* that claim again.                                                       *)
Shape(processOf, hostOf, pidOf, first, faulty, deaths, claims) ==
    [processOf |-> processOf, hostOf |-> hostOf, pidOf |-> pidOf, first |-> first,
     faulty |-> faulty, deaths |-> deaths, claims |-> claims]
Shapes ==
    "pid reused" :> Shape(OneTaskEach, OneHost,
        (pA :> onePid) @@ (pB :> otherPid) @@ (pC :> onePid), {pA, pB}, {"unlink"}, 1, 1)
    @@ "two tasks" :> Shape((tA :> pA) @@ (tB :> pA) @@ (tC :> pB),
        (pA :> here) @@ (pB :> there), (pA :> onePid) @@ (pB :> onePid), {pA, pB},
        {"read", "unlink"}, 0, 1)
    @@ "claims again" :> Shape((tA :> pA) @@ (tB :> pA), pA :> here, pA :> onePid, {pA},
        {"read", "unlink"}, 0, 2)

Folder(shape) == INSTANCE ResumeLease WITH
    Tasks <- DOMAIN shape.processOf, Processes <- DOMAIN shape.hostOf,
    ProcessOf <- shape.processOf, HostOf <- shape.hostOf, PidOf <- shape.pidOf,
    FirstRunning <- shape.first, Faults <- shape.faulty, MaxFaults <- 1,
    MaxCrashes <- shape.deaths, MaxClaims <- shape.claims,
    life <- life2, lease <- lease2, tokens <- tokens2, pending <- pending2, mine <- mine2,
    pc <- pc2, kind <- kind2, before <- before2, seen <- seen2, tries <- tries2,
    ret <- ret2, minted <- minted2, faults <- faults2, crashes <- crashes2,
    unread <- unread2, overtaken <- overtaken2

(* What a scenario does not use stays at one of its initial values.        *)
MCInit ==
    /\ scenario \in Scenarios
    /\ Init
    /\ \E s \in DOMAIN Shapes :
          s = (IF scenario \in DOMAIN Shapes THEN scenario ELSE "claims again")
          /\ Folder(Shapes[s])!Init
    /\ StrategyInit
    /\ scenario # "strategy" =>
          order = Pooled /\ ledger = 0 /\ \A v \in Vendors : cache[v] = "fresh"
    /\ BatchInit
    /\ scenario # "batch" => command = Alone
    /\ ScrapeInit
    /\ scenario # "scraping" => setting = Plain
    /\ RunInit
    /\ scenario # "report" => scope = Resumed

MCNext ==
    \/ /\ scenario = "deaths" /\ Next /\ \A p \in Processes \ {pA} : life'[p] = "alive"
       /\ UNCHANGED <<scenario, lease2Vars, strategyVars, batchVars, scrapeVars, runVars>>
    \/ /\ \E s \in DOMAIN Shapes : scenario = s /\ Folder(Shapes[s])!Next
       /\ UNCHANGED <<scenario, vars, strategyVars, batchVars, scrapeVars, runVars>>
    \/ /\ scenario = "strategy" /\ StrategyNext
       /\ UNCHANGED <<scenario, vars, lease2Vars, batchVars, scrapeVars, runVars>>
    \/ /\ scenario = "batch" /\ BatchNext
       /\ UNCHANGED <<scenario, vars, lease2Vars, strategyVars, scrapeVars, runVars>>
    \/ /\ scenario = "scraping" /\ ScrapeNext
       /\ UNCHANGED <<scenario, vars, lease2Vars, strategyVars, batchVars, runVars>>
    \/ /\ scenario = "report" /\ RunNext
       /\ UNCHANGED <<scenario, vars, lease2Vars, strategyVars, batchVars, scrapeVars>>

MCSpec == MCInit /\ [][MCNext]_mcVars

------------------------------------------------------------------------------
(* What ResumeLease says of its states and of its steps, of every instance. *)
FolderSound ==
    \A s \in DOMAIN Shapes : scenario = s =>
        Folder(Shapes[s])!NothingLeft /\ Folder(Shapes[s])!ExclusiveUntilOvertaken
FolderSteps ==
    \A s \in DOMAIN Shapes : scenario = s =>
        Folder(Shapes[s])!RefusedForCause /\ Folder(Shapes[s])!RemovedByRight

(* In every instance nobody leaves a lease behind without knowing it, but  *)
(* for a record that could not be read (NothingLeft); a claim is refused   *)
(* for an active owner only for cause, which a dead owner is not, unless   *)
(* its pid is in use again (RefusalsSound); and nobody's lease is removed  *)
(* but by himself or his heir, until a reclaim is overtaken                *)
(* (RemovalsSound).                                                        *)
LeaseSound ==
    /\ [](TypeOK /\ NothingLeft /\ FolderSound)
    /\ RefusalsSound /\ RemovalsSound
    /\ [][FolderSteps]_mcVars
=============================================================================
