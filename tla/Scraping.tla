------------------------------ MODULE Scraping ------------------------------
(***************************************************************************)
(* How one site is scraped: the pages of a run, first a pilot one by one   *)
(* and then by the threads of a pool (data/scrape.py), each page tried     *)
(* tier by tier (data/scraping/orchestrator.py) under the per-host limit   *)
(* of rate_limiter.py, with what is known of the host (models.py) and the  *)
(* budget of visible browser windows (headed_budget.py) shared by all.     *)
(*                                                                         *)
(* Only the semaphore and the budget have a lock. The counters of a tier   *)
(* are read and written in separate steps, and a Playwright tier learns    *)
(* whether to show its window from an environment variable of the process, *)
(* which each call saves, sets and restores around itself.                 *)
(***************************************************************************)
EXTENDS Naturals, Sequences, FiniteSets

CONSTANTS
  Scrapers,     \* threads of the pool (three in the code)
  Settings,    \* how a run may be set up: the tiers, in order, the slots of
               \* a host (per_host_concurrency), PRIMR_MAX_HEADED_POPUPS (cap)
               \* and whether --browser-headed was given (asked)
  Adaptive,    \* those whose window the environment variable decides
  Stealth,     \* those that open a window of their own from the budget
  Pilot,       \* pages scraped one by one
  Pages,       \* pages in all
  Threshold,   \* circuit_breaker_threshold
  MaxSame,     \* max_consecutive_failures
  Answers      \* what each tier may answer

NoTier == "none"
PageOutcomes == {"error", "limited", "hard", "blank", "poor", "wrong", "good"}

ASSUME ScrapingAssumption ==
  /\ IsFiniteSet(Scrapers) /\ Scrapers # {}
  /\ Pages \in Nat /\ Pilot \in 0..Pages
  /\ Adaptive \cap Stealth = {}
  /\ {Threshold, MaxSame} \subseteq Nat \ {0}
  /\ \A s \in Settings :
        /\ Len(s.tiers) \in Nat /\ DOMAIN s.tiers = 1..Len(s.tiers)
        /\ \A i, j \in DOMAIN s.tiers : s.tiers[i] = s.tiers[j] => i = j
        /\ \A i \in DOMAIN s.tiers :
              s.tiers[i] # NoTier /\ Answers[s.tiers[i]] \subseteq PageOutcomes
        /\ s.slots \in Nat \ {0} /\ s.cap \in Nat /\ s.asked \in BOOLEAN

VARIABLES
  setting, \* how this run is set up
  crawl,   \* "pilot", "pool", or "aborted" by the pilot's verdict
  left,    \* pages nobody has begun
  host,    \* HostState, and whether a cooldown of the host is recorded
  free,    \* slots of the host's semaphore
  headed,  \* PRIMR_BROWSER_HEADED is set
  used,    \* windows taken from the budget
  job,     \* what each thread is doing
  windows, \* visible windows that were opened
  hidden,  \* an adaptive tier was launched without one
  failed,  \* how often each tier really failed
  worked,  \* tiers that yielded a page
  dropped  \* tiers that were skipped

Tiers == setting.tiers
TierSet == {Tiers[i] : i \in 1..Len(Tiers)}
Slots == setting.slots
Cap == setting.cap
Asked == setting.asked

shared == <<crawl, left, host, free, headed, used>>
history == <<windows, hidden, failed, worked, dropped>>
scrapeVars == <<setting, shared, job, history>>

JobPlaces == {"idle", "choose", "judge", "want", "enter", "apply", "call", "leave",
           "release", "digest", "budget", "count", "tally", "blame", "charge"}

IdleJob == [pc |-> "idle", best |-> NoTier, i |-> 1, same |-> 0, last |-> NoTier,
         saved |-> FALSE, forced |-> FALSE, got |-> "error", seen |-> 0]

ScrapeTypeOK ==
  /\ setting \in Settings
  /\ crawl \in {"pilot", "pool", "aborted"}
  /\ left \in 0..Pages /\ free \in 0..Slots
  /\ host \in [attempts: [TierSet -> Nat], failures: [TierSet -> Nat],
               best: TierSet \cup {NoTier}, blocked: BOOLEAN, cooling: BOOLEAN,
               retried: SUBSET Adaptive]
  /\ headed \in BOOLEAN /\ used \in Nat
  /\ job \in [Scrapers -> [pc: JobPlaces, best: TierSet \cup {NoTier}, i: Nat, same: Nat,
                          last: PageOutcomes \cup {NoTier}, saved: BOOLEAN,
                          forced: BOOLEAN, got: PageOutcomes, seen: Nat]]
  /\ windows \in Nat /\ hidden \in BOOLEAN /\ failed \in [TierSet -> Nat]
  /\ worked \subseteq TierSet /\ dropped \subseteq TierSet

ScrapeInit ==
  /\ setting \in Settings
  /\ crawl = "pilot" /\ left = Pages /\ free = Slots
  /\ host = [attempts |-> [t \in TierSet |-> 0], failures |-> [t \in TierSet |-> 0],
             best |-> NoTier, blocked |-> FALSE, cooling |-> FALSE, retried |-> {}]
  /\ headed = Asked /\ used = 0
  /\ job = [w \in Scrapers |-> IdleJob]
  /\ windows = 0 /\ hidden = FALSE /\ failed = [t \in TierSet |-> 0]
  /\ worked = {} /\ dropped = {}

-----------------------------------------------------------------------------
AllIdle == \A w \in Scrapers : job[w].pc = "idle"
Doing(w, place) == job[w].pc = place
GoTo(w, place) == job' = [job EXCEPT ![w].pc = place]

(* The tier that worked for the host when the page began goes first.       *)
Rank(tier) == CHOOSE i \in 1..Len(Tiers) : Tiers[i] = tier
Order(first, i) ==
  IF first = NoTier THEN Tiers[i]
  ELSE IF i = 1 THEN first
  ELSE Tiers[IF i <= Rank(first) THEN i - 1 ELSE i]
Tier(w) == Order(job[w].best, job[w].i)

(* A page of a host known to be blocked or to cool off, one with an unsafe *)
(* address and one from the cache end without a request.                   *)
BeginPage(w) ==
  /\ Doing(w, "idle")
  /\ \/ crawl = "pilot" /\ AllIdle /\ left > Pages - Pilot
     \/ crawl = "pool" /\ left > 0
  /\ left' = left - 1
  /\ \/ UNCHANGED job
     \/ /\ ~host.blocked /\ ~host.cooling
        /\ job' = [job EXCEPT ![w] = [IdleJob EXCEPT !.pc = "choose", !.best = host.best]]
  /\ UNCHANGED <<crawl, host, free, headed, used, history>>

(* The verdict on the pilot ends the crawl or hands the rest to the pool.  *)
PilotEnds ==
  /\ crawl = "pilot" /\ AllIdle /\ left = Pages - Pilot
  /\ crawl' \in {"pool", "aborted"}
  /\ UNCHANGED <<left, host, free, headed, used, job, history>>

(* The page's time is over, the tiers are, or the last ones failed alike.  *)
GiveUpPage(w) ==
  /\ Doing(w, "choose")
  /\ job' = [job EXCEPT ![w] = IdleJob]
  /\ UNCHANGED <<shared, history>>

(* should_skip_tier reads the attempts of a tier and then its failures.    *)
ChooseTier(w) ==
  /\ Doing(w, "choose")
  /\ job[w].i <= Len(Tiers) /\ job[w].same < MaxSame
  /\ LET n == host.attempts[Tier(w)]
     IN job' = [job EXCEPT ![w].pc = IF n < Threshold THEN "want" ELSE "judge",
                           ![w].seen = n]
  /\ UNCHANGED <<shared, history>>

JudgeTier(w) ==
  /\ Doing(w, "judge")
  /\ IF host.failures[Tier(w)] >= job[w].seen
     THEN /\ job' = [job EXCEPT ![w].pc = "choose", ![w].i = @ + 1]
          /\ dropped' = dropped \cup {Tier(w)}
     ELSE GoTo(w, "want") /\ UNCHANGED dropped
  /\ UNCHANGED <<shared, windows, hidden, failed, worked>>

TakeSlot(w) ==
  /\ Doing(w, "want") /\ free > 0
  /\ free' = free - 1
  /\ GoTo(w, IF Tier(w) \in Adaptive THEN "enter" ELSE "call")
  /\ UNCHANGED <<crawl, left, host, headed, used, history>>

-----------------------------------------------------------------------------
(* A call of a tier, and the environment around an adaptive one.           *)

EnterCall(w) ==
  /\ Doing(w, "enter")
  /\ job' = [job EXCEPT ![w].pc = "apply", ![w].saved = headed]
  /\ UNCHANGED <<shared, history>>

(* A retry sets the variable; a first try clears it if it was not set.     *)
ApplyCall(w) ==
  /\ Doing(w, "apply")
  /\ headed' = (job[w].forced \/ (job[w].saved /\ headed))
  /\ GoTo(w, "call")
  /\ UNCHANGED <<crawl, left, host, free, used, history>>

OpensShown(visible) ==
  /\ windows' = windows + (IF visible THEN 1 ELSE 0)
  /\ hidden' = (hidden \/ ~visible)

(* A stealth tier that is refused without a window takes one from the      *)
(* budget and tries again with it.                                         *)
OpensOwn(w) ==
  /\ Tier(w) \in Stealth /\ used < Cap
  /\ used' = used + 1 /\ windows' = windows + 1
  /\ UNCHANGED hidden

(* The browser of an adaptive tier is launched as the variable says.       *)
Call(w) ==
  /\ Doing(w, "call")
  /\ \E got \in Answers[Tier(w)] :
       job' = [job EXCEPT ![w].got = got,
                          ![w].pc = IF Tier(w) \in Adaptive THEN "leave" ELSE "release"]
  /\ \/ /\ Tier(w) \in Adaptive
        /\ OpensShown(headed) /\ UNCHANGED used
     \/ /\ Tier(w) \notin Adaptive
        /\ UNCHANGED <<used, windows, hidden>>
     \/ OpensOwn(w)
  /\ UNCHANGED <<crawl, left, host, free, headed, failed, worked, dropped>>

LeaveCall(w) ==
  /\ Doing(w, "leave")
  /\ headed' = job[w].saved
  /\ GoTo(w, "release")
  /\ UNCHANGED <<crawl, left, host, free, used, history>>

FreeSlot(w) ==
  /\ Doing(w, "release")
  /\ free' = free + 1
  /\ GoTo(w, "digest")
  /\ UNCHANGED <<crawl, left, host, headed, used, history>>

-----------------------------------------------------------------------------
(* What the orchestrator makes of the answer.                              *)

Succeeds(w) ==
  /\ host' = [host EXCEPT !.best = Tier(w)]
  /\ worked' = worked \cup {Tier(w)}
  /\ GoTo(w, "count")
  /\ UNCHANGED failed

Fails(w) ==
  /\ failed' = [failed EXCEPT ![Tier(w)] = @ + 1]
  /\ GoTo(w, "count")
  /\ UNCHANGED worked

(* Of a retry only success counts.                                         *)
Retried(w) ==
  /\ job[w].forced
  /\ IF job[w].got = "good" THEN Succeeds(w) ELSE Fails(w) /\ UNCHANGED host

MayRetry(w) == job[w].got = "blank" /\ Tier(w) \in Adaptive \ host.retried

Answered(w) ==
  /\ ~job[w].forced
  /\ \/ job[w].got = "good" /\ Succeeds(w)
     \/ /\ job[w].got = "hard"
        /\ host' = [host EXCEPT !.blocked = TRUE]
        /\ job' = [job EXCEPT ![w] = IdleJob]
        /\ UNCHANGED <<failed, worked>>
     \/ /\ job[w].got = "limited"
        /\ host' = [host EXCEPT !.cooling = TRUE] /\ Fails(w)
     \/ MayRetry(w) /\ GoTo(w, "budget") /\ UNCHANGED <<host, failed, worked>>
     \/ /\ job[w].got \notin {"good", "hard", "limited"} /\ ~MayRetry(w)
        /\ Fails(w) /\ UNCHANGED host

Digest(w) ==
  /\ Doing(w, "digest")
  /\ Retried(w) \/ Answered(w)
  /\ UNCHANGED <<crawl, left, free, headed, used, windows, hidden, dropped>>

(* Mutant: the retry is made without asking the budget. *)
RetryUnpaid(w) ==
  /\ Doing(w, "budget")
  /\ used' = used
  /\ host' = [host EXCEPT !.retried = @ \cup {Tier(w)}]
  /\ job' = [job EXCEPT ![w].pc = "want", ![w].forced = TRUE]
  /\ UNCHANGED <<crawl, left, free, headed, history>>

(* The tier is tried once more with a window, if the budget has one.       *)
Retry(w) ==
  /\ Doing(w, "budget")
  /\ IF used < Cap
     THEN /\ used' = used + 1
          /\ host' = [host EXCEPT !.retried = @ \cup {Tier(w)}]
          /\ job' = [job EXCEPT ![w].pc = "want", ![w].forced = TRUE]
          /\ UNCHANGED failed
     ELSE Fails(w) /\ UNCHANGED <<host, used>>
  /\ UNCHANGED <<crawl, left, free, headed, windows, hidden, worked, dropped>>

(* record_tier_attempt: each counter is read, and written one higher.      *)
Count(w) ==
  /\ Doing(w, "count")
  /\ job' = [job EXCEPT ![w].pc = "tally", ![w].seen = host.attempts[Tier(w)]]
  /\ UNCHANGED <<shared, history>>

Tally(w) ==
  /\ Doing(w, "tally")
  /\ host' = [host EXCEPT !.attempts[Tier(w)] = job[w].seen + 1]
  /\ IF job[w].got = "good" THEN job' = [job EXCEPT ![w] = IdleJob] ELSE GoTo(w, "blame")
  /\ UNCHANGED <<crawl, left, free, headed, used, history>>

Blame(w) ==
  /\ Doing(w, "blame")
  /\ job' = [job EXCEPT ![w].pc = "charge", ![w].seen = host.failures[Tier(w)]]
  /\ UNCHANGED <<shared, history>>

(* The page goes on with the next tier, but not from a page that is        *)
(* another one. Failures of one kind in a row are counted, those after a   *)
(* page that loaded from one.                                              *)
Charge(w) ==
  /\ Doing(w, "charge")
  /\ host' = [host EXCEPT !.failures[Tier(w)] = job[w].seen + 1]
  /\ LET j == job[w]
         kind == IF j.got \in {"poor", "wrong"} THEN j.got
                 ELSE IF j.forced THEN "blank"
                 ELSE IF j.got = "limited" THEN "error"
                 ELSE j.got
     IN job' = [job EXCEPT ![w] =
          IF kind = "wrong" THEN IdleJob
          ELSE [IdleJob EXCEPT
                 !.pc = "choose", !.best = j.best, !.i = j.i + 1, !.last = kind,
                 !.same = IF kind = j.last /\ kind # "poor" THEN j.same + 1 ELSE 1]]
  /\ UNCHANGED <<crawl, left, free, headed, used, history>>

(* The set-up of a run stays. *)
ScrapeNext ==
  /\ UNCHANGED setting
  /\ \/ PilotEnds
     \/ \E w \in Scrapers :
          \/ BeginPage(w) \/ GiveUpPage(w) \/ ChooseTier(w) \/ JudgeTier(w) \/ TakeSlot(w)
          \/ EnterCall(w) \/ ApplyCall(w) \/ Call(w) \/ LeaveCall(w) \/ FreeSlot(w)
          \/ Digest(w) \/ Retry(w) \/ Count(w) \/ Tally(w) \/ Blame(w) \/ Charge(w)

ScrapeSpec == ScrapeInit /\ [][ScrapeNext]_scrapeVars

-----------------------------------------------------------------------------
(* Without a budget and without --browser-headed no window is ever shown,  *)
(* in whatever order threads save, set and restore the variable; while one *)
(* page is scraped at a time, every window shown was taken from the budget.*)
WindowsInvited ==
  /\ used <= Cap
  /\ ~Asked /\ Cap = 0 => windows = 0 /\ ~headed
  /\ ~Asked /\ crawl = "pilot" => windows <= used

(* With --browser-headed no adaptive tier is ever launched without its     *)
(* window, whatever the other threads restore meanwhile.                   *)
AskedIsShown == Asked => headed /\ ~hidden

(* A tier is skipped only after it really failed Threshold times, although *)
(* updates of its counters get lost; and while one page is scraped at a    *)
(* time, only if it never worked.                                          *)
SkippedForCause ==
  /\ \A t \in dropped : failed[t] >= Threshold
  /\ crawl = "pilot" => dropped \cap worked = {}

(* A thread holds one slot of the host for a call and none while it waits  *)
(* for one or digests an answer, the retry of a tier included: so a slot   *)
(* that is waited for comes free.                                          *)
SlotsAccounted ==
  free + Cardinality({w \in Scrapers :
            job[w].pc \in {"enter", "apply", "call", "leave", "release"}}) = Slots

(* The four above, in every state.                                         *)
ScrapingSound ==
  /\ ScrapeTypeOK /\ WindowsInvited /\ AskedIsShown /\ SkippedForCause /\ SlotsAccounted

(* docs/CONFIG.md:207: the budget is the total allowance of windows of a   *)
(* run. A thread that saves the variable while a retry of another thread   *)
(* has it set shows a window nobody paid for, and leaves the variable set. *)
WindowsWithinBudget == ~Asked => windows <= Cap
=============================================================================
