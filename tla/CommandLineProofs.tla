------------------------- MODULE CommandLineProofs -------------------------
(* What commands on one machine promise each other.                          *)
(*   ResumeLease: until a reclaim unlinks another record than the one it     *)
(*     read, one operation at a time works in the folder, for any number of  *)
(*     processes, tasks, hosts and pids, whoever dies, whichever pid is used *)
(*     again and whatever file operations are refused. The run of            *)
(*     MCResumeLease shows that such a reclaim is enough to lose this.       *)
(*   FastRun: the numbers citations are given keep their sources, the report *)
(*     has every section that was written in the order of its plan, and the  *)
(*     gate passes only reports of the run that records it, for any sources, *)
(*     plan, quotas and number of threads.                                   *)
(*   StrategyPhase: what the strategy stage records is what it did, and its  *)
(*     ceiling holds as far as the run observes its spend, for any platforms *)
(*     and strategies asked for, pool and prices.                            *)
(*   Scraping: the threads of a crawl share windows, slots and counters as   *)
(*     they should, for any threads, tiers and pages and every set-up.       *)
(*   BatchResearch: what a batch leaves out was done, what it sums up is so, *)
(*     and given again it pays for nothing twice, for any companies, single  *)
(*     runs beside it, failures, faults and deaths.                          *)
EXTENDS ResumeLease, StrategyPhase, Scraping, FastRun, BatchResearch,
        FiniteSetTheorems, SequenceTheorems, TLAPS

-----------------------------------------------------------------------------
(* Lists, and the members that are picked from them.                         *)

LEMMA ListShape ==
  ASSUME NEW S, NEW list \in Seq(S)
  PROVE  /\ Len(list) \in Nat /\ DOMAIN list = 1..Len(list)
         /\ \A i \in DOMAIN list : list[i] \in S
OBVIOUS

LEMMA PickedInOrder ==
  ASSUME NEW S, NEW list \in Seq(S), NEW positions \in SUBSET DOMAIN list,
         NEW picked \in PickedAt(list, positions)
  PROVE  /\ picked \in Seq(S) /\ Listed(picked) = {list[i] : i \in positions}
         /\ \A i, j \in DOMAIN picked : i < j =>
              \E k, l \in positions : k < l /\ picked[i] = list[k] /\ picked[j] = list[l]
<1>1. DOMAIN list = 1..Len(list) /\ Len(list) \in Nat /\ \A i \in DOMAIN list : list[i] \in S
  BY ListShape
<1>2. PICK kept \in Choices(list) : Listed(kept) = positions /\ picked = Picked(list, kept)
  BY DEF PickedAt
<1>3. PICK n \in 0..Len(list) : /\ kept \in [1..n -> DOMAIN list]
                                /\ \A i, j \in 1..n : i < j => kept[i] < kept[j]
  BY <1>2 DEF Choices
<1>4. n \in Nat /\ picked = [i \in 1..n |-> list[kept[i]]]
  BY <1>1, <1>2, <1>3 DEF Picked
<1>5. \A i \in 1..n : kept[i] \in positions /\ kept[i] \in DOMAIN list /\ list[kept[i]] \in S
  BY <1>1, <1>2, <1>3 DEF Listed
<1>6. picked \in Seq(S) /\ DOMAIN picked = 1..n /\ \A i \in 1..n : picked[i] = list[kept[i]]
  BY <1>4, <1>5
<1>7. \A k \in positions : \E i \in 1..n : k = kept[i]
  BY <1>2, <1>3 DEF Listed
<1>8. Listed(picked) = {list[i] : i \in positions}
  <2>1. ASSUME NEW x \in Listed(picked) PROVE x \in {list[i] : i \in positions}
    BY <1>5, <1>6, <2>1 DEF Listed
  <2>2. ASSUME NEW k \in positions PROVE list[k] \in Listed(picked)
    <3>1. PICK i \in 1..n : k = kept[i]
      BY <1>7
    <3> QED BY <1>6, <3>1 DEF Listed
  <2> QED BY <2>1, <2>2
<1> QED BY <1>3, <1>5, <1>6, <1>8

-----------------------------------------------------------------------------
(* The lists of a run.                                                       *)

Gathering == {"search", "collect", "deepen", "gaps"}
Given(s) == material[s].given

Scoped == scope \in Scopes
Lists ==
  /\ sources \in Seq(Urls) /\ validated \in Seq(Urls)
  /\ cached = <<>> \/ \E list \in Seq(Urls) : cached = <<list>>
Records ==
  /\ DOMAIN writer = Sections /\ DOMAIN material = Pieces
  /\ \A s \in Pieces : DOMAIN material[s] = {"context", "given"}
Distinct == \A i, j \in DOMAIN sources : sources[i] = sources[j] => i = j

(* Nothing is numbered while sources are gathered, but for the cache.      *)
NothingGiven ==
  /\ stage \in Gathering =>
       /\ validated = <<>>
       /\ \A s \in Pieces : Given(s) = <<>>
       /\ \A s \in Sections : writer[s] = "none"
  /\ stage \in {"search", "collect"} => cached = <<>>

(* What the pools have accepted so far.                                    *)
Accepted ==
  /\ gained \in Nat
  /\ stage = "search" => sources = <<>>
  /\ stage = "collect" => Len(sources) <= gained /\ gained <= scope.quota
  /\ stage = "deepen" => Len(sources) <= scope.quota
  /\ stage = "gaps" => Len(sources) <= scope.quota + gained /\ gained <= scope.gaps
  /\ cached # <<>> => Len(cached[1]) <= scope.quota

(* Every list given out is how the list of sources begins.                 *)
Prefixes ==
  /\ cached # <<>> => IsPrefixOf(cached[1], sources)
  /\ IsPrefixOf(validated, sources)
  /\ \A s \in Pieces : IsPrefixOf(Given(s), sources)
OneList == stage = "write" => \A s \in Sections : writer[s] # "none" => Given(s) = sources
WithinQuota == Len(validated) <= scope.quota + scope.gaps

RunInv == /\ Scoped /\ Lists /\ Records /\ Distinct /\ NothingGiven /\ Accepted
        /\ Prefixes /\ OneList /\ WithinQuota

-----------------------------------------------------------------------------
(* Lists of sources.                                                       *)

LEMMA Bounds ==
  ASSUME Scoped
  PROVE  {scope.quota, scope.gaps, scope.runs} \subseteq Nat \ {0} /\ scope.weak \in Nat
BY FastRunAssumption DEF Scoped

(* What a run has before it stays.                                         *)
SameScope ==
  /\ scope' = scope /\ (Scoped => Scoped')
  /\ Urls' = Urls /\ Parts' = Parts /\ Sections' = Sections /\ Pieces' = Pieces

LEMMA ScopeStays == ASSUME scope' = scope PROVE SameScope
BY DEF SameScope, Urls, Parts, Sections, Pieces, Scoped

LEMMA StepsKeepScope == ASSUME [RunNext]_runVars PROVE scope' = scope
BY DEF RunNext, runVars, Validate, Search, TakeCollected, Collected, Deepen, TakeGap, Deepened,
   StartSection, EndSection, EndPart, WriteSummary, EnrichReport, EndReview, Convert, Finalize,
   EndRun, Stop, Resume

LEMMA Itself == ASSUME NEW s PROVE IsPrefixOf(s, s)
BY DEF IsPrefixOf

LEMMA Empty == ASSUME NEW s PROVE IsPrefixOf(<<>>, s)
BY DEF IsPrefixOf

LEMMA Longer ==
  ASSUME NEW s, NEW t, NEW u, IsPrefixOf(s, t), IsPrefixOf(t, u)
  PROVE  IsPrefixOf(s, u)
BY DEF IsPrefixOf

(* A source that is new keeps the sources distinct and the numbers as they  *)
(* are.                                                                    *)
LEMMA Appended ==
  ASSUME Lists, Distinct, NEW u \in Urls, u \notin Listed(sources),
         sources' = Append(sources, u)
  PROVE  /\ sources' \in Seq(Urls) /\ Len(sources') = Len(sources) + 1
         /\ IsPrefixOf(sources, sources') /\ Distinct'
<1>1. /\ sources' \in Seq(Urls) /\ Len(sources') = Len(sources) + 1
      /\ \A i \in 1..Len(sources) : sources'[i] = sources[i]
      /\ sources'[Len(sources) + 1] = u
  BY AppendProperties DEF Lists
<1>2. /\ Len(sources) \in Nat /\ DOMAIN sources = 1..Len(sources)
      /\ DOMAIN sources' = 1..Len(sources) + 1
  BY <1>1, LenProperties DEF Lists
<1>3. IsPrefixOf(sources, sources')
  BY <1>1, <1>2 DEF IsPrefixOf
<1>4. \A i \in DOMAIN sources : sources[i] # u
  BY DEF Listed
<1>5. Distinct'
  BY <1>1, <1>2, <1>4 DEF Distinct
<1> QED BY <1>1, <1>3, <1>5

(* So does what an enrichment has found.                                   *)
LEMMA Enriched ==
  ASSUME Lists, Distinct, NEW found \in NewSources,
         Listed(found) \cap Listed(sources) = {},
         sources' = sources \o found
  PROVE  sources' \in Seq(Urls) /\ IsPrefixOf(sources, sources') /\ Distinct'
<1>1. /\ found \in Seq(Urls) /\ Len(found) \in 1..2 /\ DOMAIN found = 1..Len(found)
      /\ \A i, j \in 1..Len(found) : found[i] = found[j] => i = j
  <2>1. CASE \E u \in Urls : found = <<u>>
    BY <2>1
  <2>2. CASE found \in {pair \in Urls \X Urls : pair[1] # pair[2]}
    <3>1. PICK u \in Urls, v \in Urls : found = <<u, v>> /\ u # v
      BY <2>2
    <3> QED BY <3>1
  <2> QED BY <2>1, <2>2 DEF NewSources
<1>2. Len(sources) \in Nat /\ DOMAIN sources = 1..Len(sources)
  BY LenProperties DEF Lists
<1>3. /\ sources' \in Seq(Urls) /\ Len(sources') = Len(sources) + Len(found)
      /\ \A i \in 1..Len(sources) + Len(found) :
           sources'[i] = IF i <= Len(sources) THEN sources[i] ELSE found[i - Len(sources)]
  BY <1>1, ConcatProperties DEF Lists
<1>4. DOMAIN sources' = 1..Len(sources) + Len(found)
  BY <1>3, LenProperties
<1>5. IsPrefixOf(sources, sources')
  BY <1>1, <1>2, <1>3, <1>4 DEF IsPrefixOf
<1>6. \A i \in DOMAIN sources, j \in DOMAIN found : sources[i] # found[j]
  BY DEF Listed
<1>7. Distinct'
  <2> SUFFICES ASSUME NEW i \in DOMAIN sources', NEW j \in DOMAIN sources',
                      sources'[i] = sources'[j]
               PROVE  i = j
    BY DEF Distinct
  <2>1. CASE i <= Len(sources) /\ j <= Len(sources)
    BY <1>2, <1>3, <1>4, <2>1 DEF Distinct
  <2>2. CASE i > Len(sources) /\ j > Len(sources)
    <3>1. i - Len(sources) \in 1..Len(found) /\ j - Len(sources) \in 1..Len(found)
      BY <1>1, <1>2, <1>4, <2>2
    <3>2. found[i - Len(sources)] = found[j - Len(sources)]
      BY <1>1, <1>2, <1>3, <1>4, <2>2
    <3>3. i - Len(sources) = j - Len(sources)
      BY <1>1, <3>1, <3>2
    <3> QED BY <1>1, <1>2, <1>4, <3>3
  <2>3. CASE i <= Len(sources) /\ j > Len(sources)
    <3>1. i \in DOMAIN sources /\ j - Len(sources) \in DOMAIN found
      BY <1>1, <1>2, <1>4, <2>3
    <3> QED BY <1>1, <1>2, <1>3, <1>4, <1>6, <2>3, <3>1
  <2>4. CASE i > Len(sources) /\ j <= Len(sources)
    <3>1. j \in DOMAIN sources /\ i - Len(sources) \in DOMAIN found
      BY <1>1, <1>2, <1>4, <2>4
    <3> QED BY <1>1, <1>2, <1>3, <1>4, <1>6, <2>4, <3>1
  <2> QED BY <1>1, <1>2, <1>4, <2>1, <2>2, <2>3, <2>4
<1> QED BY <1>3, <1>5, <1>7

(* The relevance filter leaves some of the sources, in their order.        *)
LEMMA Filtered ==
  ASSUME Lists, Distinct, NEW kept \in Choices(sources), sources' = Picked(sources, kept)
  PROVE  sources' \in Seq(Urls) /\ Len(sources') <= Len(sources) /\ Distinct'
<1>0. PICK n \in 0..Len(sources) :
        /\ kept \in [1..n -> DOMAIN sources]
        /\ \A i, j \in 1..n : i < j => kept[i] < kept[j]
        /\ sources' = [i \in 1..n |-> sources[kept[i]]]
  BY DEF Choices, Picked
<1>1. Len(sources) \in Nat /\ DOMAIN sources = 1..Len(sources)
  BY LenProperties DEF Lists
<1>2. n \in Nat /\ \A i \in 1..n : sources[kept[i]] \in Urls
  BY <1>0, <1>1, ElementOfSeq DEF Lists
<1>3. sources' \in Seq(Urls)
  BY <1>0, <1>2
<1>4. Len(sources') = n /\ DOMAIN sources' = 1..n
  BY <1>0, <1>2, <1>3, LenProperties
<1>5. Distinct'
  <2> SUFFICES ASSUME NEW i \in 1..n, NEW j \in 1..n, sources'[i] = sources'[j]
               PROVE  i = j
    BY <1>4 DEF Distinct
  <2>1. kept[i] = kept[j]
    BY <1>0 DEF Distinct
  <2> QED BY <1>0, <1>1, <1>2, <2>1
<1> QED BY <1>1, <1>3, <1>4, <1>5

-----------------------------------------------------------------------------
(* The invariant at the start, and under each action.                      *)

LEMMA FreshLists ==
  ASSUME SameScope, Scoped, Lists, Accepted, NEW first \in {"search", "deepen"},
         Fresh(first), cached' = cached,
         IF cached = <<>> THEN first = "search" /\ sources' = <<>>
                          ELSE first = "deepen" /\ sources' = cached[1],
         Distinct'
  PROVE  RunInv'
<1> USE DEF SameScope
<1>b. scope.quota \in Nat /\ scope.gaps \in Nat
  BY Bounds
<1>1. /\ stage' = first /\ gained' = 0 /\ validated' = <<>> /\ Records'
      /\ \A s \in Sections : writer'[s] = "none"
      /\ \A s \in Pieces : Given(s)' = <<>>
  BY DEF Fresh, Records, Given, Blank
<1>2. Lists'
  <2>1. sources' \in Seq(Urls)
    <3>1. CASE cached = <<>>
      BY <3>1
    <3>2. CASE cached # <<>>
      <4>1. PICK list \in Seq(Urls) : cached = <<list>>
        BY <3>2 DEF Lists
      <4>2. cached[1] = list
        BY <4>1
      <4> QED BY <3>2, <4>2
    <3> QED BY <3>1, <3>2
  <2>2. validated' \in Seq(Urls)
    BY <1>1
  <2> QED BY <2>1, <2>2 DEF Lists
<1>3. NothingGiven' /\ OneList' /\ WithinQuota'
  BY <1>b, <1>1 DEF NothingGiven, OneList, WithinQuota
<1>4. Accepted'
  BY <1>b, <1>1 DEF Accepted
<1>5. Prefixes'
  BY <1>1, Itself, Empty DEF Prefixes
<1> QED BY <1>1, <1>2, <1>3, <1>4, <1>5 DEF RunInv

LEMMA RunInvInit == ASSUME RunInit PROVE RunInv
<1>b. Scoped /\ scope.quota \in Nat /\ scope.gaps \in Nat
  BY Bounds DEF Scoped, RunInit
<1>1. /\ Records /\ \A s \in Sections : writer[s] = "none"
      /\ \A s \in Pieces : Given(s) = <<>>
  BY DEF RunInit, Records, Given, Blank
<1>2. Lists /\ Distinct /\ WithinQuota
  BY <1>b DEF RunInit, Lists, Distinct, WithinQuota
<1>3. NothingGiven /\ OneList /\ Accepted
  BY <1>b, <1>1 DEF RunInit, NothingGiven, OneList, Accepted
<1>4. Prefixes
  BY <1>1, Empty DEF RunInit, Prefixes
<1> QED BY <1>b, <1>1, <1>2, <1>3, <1>4 DEF RunInv

(* A step that touches neither the lists nor the material, and does not     *)
(* enter a stage whose pool or writers need more of them.                  *)
LEMMA Kept ==
  ASSUME SameScope, RunInv, UNCHANGED <<sources, cached, validated, material>>,
         DOMAIN writer' = Sections,
         \A s \in Sections : writer[s] = "none" => writer'[s] = "none",
         stage' = stage \/ stage' \in {"enrich", "ship", "finalize", "recorded", "stopped",
                                          "done"},
         gained' = gained
  PROVE  RunInv'
<1> USE DEF SameScope
<1>1. (Lists /\ Records /\ Distinct /\ WithinQuota)'
  BY DEF RunInv, Lists, Records, Distinct, WithinQuota
<1>2. \A s \in Pieces : Given(s)' = Given(s)
  BY DEF Given
<1>3. NothingGiven'
  BY <1>2 DEF RunInv, NothingGiven, Gathering
<1>3a. Prefixes'
  BY <1>2 DEF RunInv, Prefixes
<1>3b. OneList'
  BY <1>2 DEF RunInv, OneList, Pieces
<1>4. Accepted'
  BY DEF RunInv, Accepted
<1> QED BY <1>1, <1>3, <1>3a, <1>3b, <1>4 DEF RunInv

LEMMA PoolStep ==
  ASSUME SameScope, RunInv,
         Search \/ TakeCollected \/ Collected \/ Deepen \/ TakeGap \/ Deepened
  PROVE  RunInv'
<1> USE DEF SameScope
<1>b. scope.quota \in Nat /\ scope.gaps \in Nat
  BY Bounds DEF RunInv
<1>0. /\ UNCHANGED <<writer, material>>
      /\ \A s \in Pieces : Given(s)' = <<>>
      /\ \A s \in Sections : writer'[s] = "none"
      /\ stage \in Gathering /\ validated = <<>>
      /\ stage' \in Gathering \cup {"write"}
  BY DEF RunInv, NothingGiven, Search, TakeCollected, Collected, Deepen,
     TakeGap, Deepened, writing, Gathering, Given
<1>1. Records' /\ OneList'
  BY <1>0 DEF RunInv, Records, OneList
<1>2. Len(sources) \in Nat
  BY LenProperties DEF RunInv, Lists
<1>3. CASE Search \/ Deepen
  <2>1. /\ UNCHANGED <<sources, cached, validated>> /\ gained' = 0
        /\ \/ stage = "search" /\ stage' = "collect"
           \/ stage = "deepen" /\ stage' = "gaps"
    BY <1>3 DEF Search, Deepen, Submit
  <2>2. (Lists /\ Distinct /\ WithinQuota)'
    BY <1>b, <2>1 DEF RunInv, Lists, Distinct, WithinQuota
  <2>3. NothingGiven' /\ Prefixes'
    BY <1>0, <2>1, Empty DEF RunInv, NothingGiven, Prefixes
  <2>4. Accepted'
    BY <1>b, <1>2, <2>1 DEF RunInv, Accepted
  <2> QED BY <1>1, <2>2, <2>3, <2>4 DEF RunInv
<1>4. CASE TakeCollected \/ TakeGap
  <2>1. /\ UNCHANGED <<stage, cached, validated>>
        /\ \/ stage = "collect" /\ gained < scope.quota
           \/ stage = "gaps" /\ gained < scope.gaps
        /\ \/ UNCHANGED <<sources, gained>>
           \/ /\ gained' = gained + 1
              /\ \E u \in Urls \ Listed(sources) : sources' = Append(sources, u)
    BY <1>4 DEF TakeCollected, TakeGap, Accept, Finished
  <2>2. CASE UNCHANGED <<sources, gained>>
    <3>1. DOMAIN writer' = Sections /\ UNCHANGED <<stage, cached, validated, material>>
      BY <1>0, <2>1 DEF RunInv, Records
    <3> QED BY <1>0, <2>2, <3>1, Kept
  <2>3. CASE /\ gained' = gained + 1
             /\ \E u \in Urls \ Listed(sources) : sources' = Append(sources, u)
    <3>1. /\ sources' \in Seq(Urls) /\ Len(sources') = Len(sources) + 1
          /\ IsPrefixOf(sources, sources') /\ Distinct'
      BY <2>3, Appended DEF RunInv
    <3>2. Lists' /\ WithinQuota'
      BY <1>b, <2>1, <3>1 DEF RunInv, Lists, WithinQuota
    <3>3. NothingGiven' /\ Prefixes'
      BY <1>0, <2>1, <3>1, Empty, Longer DEF RunInv, NothingGiven, Prefixes
    <3>4. Accepted'
      BY <1>b, <1>2, <2>1, <2>3, <3>1 DEF RunInv, Accepted
    <3> QED BY <1>1, <3>1, <3>2, <3>3, <3>4 DEF RunInv
  <2> QED BY <2>1, <2>2, <2>3
<1>5. CASE Collected
  <2>1. /\ stage = "collect" /\ stage' = "deepen" /\ gained' = 0 /\ validated' = <<>>
        /\ cached = <<>> /\ cached' \in {cached, <<sources'>>} /\ Len(sources) <= scope.quota
    BY <1>b, <1>0, <1>2, <1>5 DEF Collected, LoopEnds, Abandon, RunInv,
       NothingGiven, Accepted
  <2>2. PICK kept \in Choices(sources) : sources' = Picked(sources, kept)
    BY <1>5 DEF Collected
  <2>3. sources' \in Seq(Urls) /\ Len(sources') <= Len(sources) /\ Distinct'
    BY <2>2, Filtered DEF RunInv
  <2>4. Lists' /\ WithinQuota'
    BY <1>b, <2>1, <2>3 DEF Lists, WithinQuota
  <2>5. NothingGiven' /\ Prefixes'
    BY <1>0, <2>1, Empty, Itself DEF NothingGiven, Prefixes
  <2>6. Accepted'
    BY <1>b, <1>2, <2>1, <2>3 DEF Accepted
  <2> QED BY <1>1, <2>3, <2>4, <2>5, <2>6 DEF RunInv
<1>6. CASE Deepened
  <2>1. /\ stage = "gaps" /\ stage' = "write" /\ gained' = 0 /\ validated' = sources
        /\ UNCHANGED <<sources, cached>>
    BY <1>6 DEF Deepened, LoopEnds, Abandon
  <2>2. Len(sources) <= scope.quota + scope.gaps
    BY <1>b, <1>2, <2>1 DEF RunInv, Accepted
  <2>3. (Lists /\ Distinct /\ WithinQuota)'
    BY <1>b, <2>1, <2>2 DEF RunInv, Lists, Distinct, WithinQuota
  <2>4. NothingGiven' /\ Accepted'
    BY <1>b, <2>1 DEF RunInv, NothingGiven, Accepted, Gathering
  <2>5. Prefixes'
    BY <1>0, <2>1, Empty, Itself DEF RunInv, Prefixes
  <2> QED BY <1>1, <2>3, <2>4, <2>5 DEF RunInv
<1> QED BY <1>3, <1>4, <1>5, <1>6
(* Each writer sees the list as it is; nothing is added while they write.   *)
LEMMA SectionStep ==
  ASSUME SameScope, RunInv, NEW s \in Sections, StartSection(s) PROVE RunInv'
<1> USE DEF SameScope
<1>1. /\ UNCHANGED <<stage, gained, sources, cached, validated>> /\ stage = "write"
      /\ s \in Pieces
      /\ writer' = [writer EXCEPT ![s] = "first"]
      /\ material' = [material EXCEPT ![s] = [context |-> written, given |-> sources]]
  BY DEF StartSection, pools, Pieces
<1>2. Records' /\ Given(s)' = sources /\ \A t \in Pieces \ {s} : Given(t)' = Given(t)
  BY <1>1 DEF RunInv, Records, Given
<1>3. (Lists /\ Distinct /\ WithinQuota /\ Accepted /\ NothingGiven)'
  BY <1>1 DEF RunInv, Lists, Distinct, WithinQuota, Accepted, NothingGiven, Gathering
<1>4. Prefixes'
  BY <1>1, <1>2, Itself DEF RunInv, Prefixes
<1>5. OneList'
  BY <1>1, <1>2 DEF RunInv, OneList, Records, Pieces
<1> QED BY <1>2, <1>3, <1>4, <1>5 DEF RunInv

LEMMA SummaryStep == ASSUME SameScope, RunInv, WriteSummary PROVE RunInv'
<1> USE DEF SameScope
<1>1. /\ UNCHANGED <<gained, sources, cached, validated, writer>>
      /\ stage' \in {"enrich", "stopped"}
      /\ \/ UNCHANGED material
         \/ material' = [material EXCEPT ![Summary] = [context |-> written, given |-> sources]]
  BY DEF WriteSummary, pools
<1>2. Records' /\ \A s \in Pieces : Given(s)' = Given(s) \/ Given(s)' = sources
  BY <1>1 DEF RunInv, Records, Given
<1>3. (Lists /\ Distinct /\ WithinQuota /\ Accepted /\ NothingGiven /\ OneList)'
  BY <1>1 DEF RunInv, Lists, Distinct, WithinQuota, Accepted, NothingGiven, OneList,
     Gathering
<1>4. Prefixes'
  BY <1>1, <1>2, Itself DEF RunInv, Prefixes
<1> QED BY <1>2, <1>3, <1>4 DEF RunInv

LEMMA EnrichStep == ASSUME SameScope, RunInv, EnrichReport PROVE RunInv'
<1> USE DEF SameScope
<1>1. /\ UNCHANGED <<stage, gained, cached, validated, writer>> /\ stage = "enrich"
      /\ \/ UNCHANGED <<sources, material>>
         \/ \E found \in NewSources :
              /\ Listed(found) \cap Listed(sources) = {}
              /\ sources' = sources \o found
              /\ \/ UNCHANGED material
                 \/ \E s \in Listed(written) :
                      material' = [material EXCEPT ![s].given = sources']
  BY DEF EnrichReport, pools
<1>2. sources' \in Seq(Urls) /\ IsPrefixOf(sources, sources') /\ Distinct'
  BY <1>1, Enriched, Itself DEF RunInv, Lists, Distinct
<1>3. Records' /\ \A s \in Pieces : Given(s)' = Given(s) \/ Given(s)' = sources'
  BY <1>1 DEF RunInv, Records, Given
<1>4. (Lists /\ WithinQuota /\ Accepted /\ NothingGiven /\ OneList)'
  BY <1>1, <1>2 DEF RunInv, Lists, WithinQuota, Accepted, NothingGiven, OneList, Gathering
<1>5. Prefixes'
  BY <1>1, <1>2, <1>3, Itself, Longer DEF RunInv, Prefixes
<1> QED BY <1>2, <1>3, <1>4, <1>5 DEF RunInv

(* A resumed run starts from the cached list, which the old one began with. *)
LEMMA ResumeStep == ASSUME SameScope, RunInv, Resume PROVE RunInv'
<1> USE DEF SameScope
<1>1. cached' = cached
  BY DEF Resume
<1>2. CASE cached = <<>>
  <2>1. Fresh("search") /\ sources' = <<>>
    BY <1>2 DEF Resume
  <2>2. Distinct'
    BY <2>1 DEF Distinct
  <2> QED BY <1>1, <1>2, <2>1, <2>2, FreshLists DEF RunInv
<1>3. CASE cached # <<>>
  <2>1. Fresh("deepen") /\ sources' = cached[1]
    BY <1>3 DEF Resume
  <2>2. Distinct'
    BY <1>3, <2>1 DEF RunInv, Prefixes, IsPrefixOf, Distinct
  <2>3. Scoped /\ Lists /\ Accepted
    BY DEF RunInv
  <2> QED BY <1>1, <1>3, <2>1, <2>2, <2>3, FreshLists
<1> QED BY <1>2, <1>3

LEMMA RunInvStep == ASSUME RunInv, [RunNext]_runVars PROVE RunInv'
<1>0. SameScope
  BY StepsKeepScope, ScopeStays
<1> USE <1>0 DEF SameScope, pools, writing, files
<1>1. ASSUME \/ UNCHANGED runVars \/ EndReview \/ EndRun \/ Convert \/ Finalize \/ Stop \/ EndPart
             \/ \E pool \in Pools, u \in Urls : Validate(pool, u)
      PROVE  RunInv'
  <2>1. /\ UNCHANGED <<sources, cached, validated, material, writer, gained>>
        /\ stage' = stage
           \/ stage' \in {"enrich", "ship", "finalize", "recorded", "stopped", "done"}
    BY <1>1 DEF runVars, EndReview, EndRun, Convert, Finalize, Stop, EndPart,
       Validate
  <2>2. DOMAIN writer' = Sections
    BY <2>1 DEF RunInv, Records
  <2> QED BY <2>1, <2>2, Kept
<1>2. ASSUME NEW s \in Sections, EndSection(s) PROVE RunInv'
  <2>1. /\ UNCHANGED <<stage, sources, cached, validated, material, gained>>
        /\ \E state : writer' = [writer EXCEPT ![s] = state]
        /\ writer[s] # "none"
    BY <1>2 DEF EndSection, Writing
  <2>2. /\ DOMAIN writer' = Sections
        /\ \A t \in Sections : writer[t] = "none" => writer'[t] = "none"
    BY <2>1 DEF RunInv, Records
  <2> QED BY <2>1, <2>2, Kept
<1> QED BY <1>1, <1>2, PoolStep, SectionStep, SummaryStep, EnrichStep, ResumeStep DEF
           RunNext

(* The number under which a source was given to the cache, the strategies   *)
(* or a section keeps that source, whatever threads end late, which         *)
(* sections fail, what enrichment adds and how often the run is resumed.    *)
THEOREM CitationsKeepTheirSource ==
  RunSpec => []CitationsStable
<1>1. RunInit => RunInv
  BY RunInvInit
<1>2. RunInv /\ [RunNext]_runVars => RunInv'
  BY RunInvStep
<1>3. RunInv => CitationsStable
  BY DEF RunInv, Distinct, Prefixes, Given, OneList, WithinQuota, CitationsStable
<1> QED BY <1>1, <1>2, <1>3, PTL DEF RunSpec

-----------------------------------------------------------------------------
(* The gate.                                                               *)

(* A document is shipped at the end of its run, of the sections that run     *)
(* has written, and nothing is written after it.                           *)
GateInv ==
  /\ GateHonest
  /\ shipped => stage \in {"finalize", "recorded", "stopped", "done"}

(* A run whose gate passed has its own complete report on disk as Markdown   *)
(* and as a Word document: neither is left over from an earlier run.        *)
THEOREM GatesAreHonest == RunSpec => []GateHonest
<1>1. RunInit => GateInv
  BY DEF RunInit, GateInv, GateHonest
<1>2. GateInv /\ [RunNext]_runVars => GateInv'
  <2> SUFFICES ASSUME GateInv, [RunNext]_runVars PROVE GateInv'
    OBVIOUS
  <2>0. SameScope
    BY StepsKeepScope, ScopeStays
  <2> USE <2>0 DEF GateInv, GateHonest, writing, files, SameScope
  <2>1. CASE UNCHANGED runVars
    BY <2>1 DEF runVars, Complete
  <2>2. CASE \/ Search \/ TakeCollected \/ Collected \/ Deepen \/ TakeGap \/ Deepened
             \/ EnrichReport \/ EndReview \/ Stop
             \/ \E pool \in Pools, u \in Urls : Validate(pool, u)
             \/ \E s \in Sections : StartSection(s) \/ EndSection(s)
    <3>1. /\ UNCHANGED <<run, written, files>>
          /\ \/ stage' \in {stage, "stopped"}
             \/ /\ stage' \notin {"recorded", "done"}
                /\ stage \notin {"finalize", "recorded", "stopped", "done"}
      BY <2>2 DEF Search, TakeCollected, Collected, Deepen, TakeGap,
         Deepened, EnrichReport, EndReview, Stop, Validate,
         StartSection, EndSection
    <3> QED BY <3>1 DEF Complete
  <2>3. CASE EndPart \/ WriteSummary
    <3>1. ~shipped /\ UNCHANGED files /\ stage' \in {"write", "enrich", "stopped"}
      BY <2>3 DEF EndPart, WriteSummary
    <3> QED BY <3>1
  <2>4. CASE Convert
    BY <2>4 DEF Convert, Complete
  <2>5. CASE Finalize
    BY <2>5 DEF Finalize, Complete
  <2>6. CASE Resume
    BY <2>6 DEF Resume, Fresh
  <2>7. CASE EndRun
    BY <2>7 DEF EndRun, Complete
  <2> QED BY <2>1, <2>2, <2>3, <2>4, <2>5, <2>6, <2>7 DEF RunNext
<1>3. GateInv => GateHonest
  BY DEF GateInv
<1> QED BY <1>1, <1>2, <1>3, PTL DEF RunSpec

-----------------------------------------------------------------------------
(* The order of the report.                                                *)

(* The writers of the parts before this one are done, and those of the      *)
(* parts after it have not begun; the queue of results holds those of this   *)
(* part that have ended, each once.                                        *)
PartsWritten ==
  /\ \A i \in DOMAIN Parts : \A s \in Listed(Parts[i]) :
       /\ i < part => writer[s] \in {"ok", "empty"}
       /\ i > part => writer[s] = "none"
       /\ s \in Listed(ended) <=> i = part /\ writer[s] \in {"ok", "empty"}
  /\ \A i, j \in DOMAIN ended : ended[i] = ended[j] => i = j
NoSummaryYet == stage \in Gathering \cup {"write"} => Summary \notin Listed(written)

(* The writers of a part see the same sections.                            *)
SharedContext ==
  stage = "write" /\ part <= Len(Parts) =>
     \A s \in Listed(Parts[part]) : writer[s] # "none" => material[s].context = written
ReportInv == PartsWritten /\ NoSummaryYet /\ SharedContext /\ ReportInOrder

LEMMA PartShape ==
  ASSUME Scoped
  PROVE  /\ Len(Parts) \in Nat /\ DOMAIN Parts = 1..Len(Parts) /\ Summary \notin Sections
         /\ \A i \in DOMAIN Parts :
              /\ Parts[i] \in Seq(Sections) /\ Len(Parts[i]) \in Nat
              /\ DOMAIN Parts[i] = 1..Len(Parts[i]) /\ Listed(Parts[i]) \subseteq Sections
         /\ \A s \in Sections : \E i \in DOMAIN Parts : s \in Listed(Parts[i])
         /\ \A i, k \in DOMAIN Parts : \A s \in Listed(Parts[i]) : s \in Listed(Parts[k]) => i = k
         /\ \A i \in DOMAIN Parts : \A j, l \in DOMAIN Parts[i] : Parts[i][j] = Parts[i][l] => j = l
<1>1. /\ Parts \in Seq(Seq(Sections)) /\ Summary \notin Sections
      /\ \A i, k \in DOMAIN Parts : \A j \in DOMAIN Parts[i], l \in DOMAIN Parts[k] :
           Parts[i][j] = Parts[k][l] => i = k /\ j = l
  BY FastRunAssumption DEF Scoped, Parts, Sections
<1>2. Len(Parts) \in Nat /\ DOMAIN Parts = 1..Len(Parts)
  BY <1>1, LenProperties
<1>3. ASSUME NEW i \in DOMAIN Parts
      PROVE  /\ Parts[i] \in Seq(Sections) /\ Len(Parts[i]) \in Nat
             /\ DOMAIN Parts[i] = 1..Len(Parts[i]) /\ Listed(Parts[i]) \subseteq Sections
  <2>1. Parts[i] \in Seq(Sections)
    BY <1>1, <1>2, ElementOfSeq
  <2>2. Listed(Parts[i]) \subseteq Sections
    BY DEF Sections, AllOf
  <2> QED BY <2>1, <2>2, LenProperties
<1>4. \A s \in Sections : \E i \in DOMAIN Parts : s \in Listed(Parts[i])
  BY DEF Sections, AllOf
<1>5. \A i, k \in DOMAIN Parts : \A s \in Listed(Parts[i]) : s \in Listed(Parts[k]) => i = k
  BY <1>1 DEF Listed
<1> QED BY <1>1, <1>2, <1>3, <1>4, <1>5

(* A list with one more in front, and with more behind.                    *)
LEMMA Fronted ==
  ASSUME NEW S, NEW a \in S, NEW list \in Seq(S)
  PROVE  /\ Tail(<<a>> \o list) = list /\ Listed(<<a>> \o list) = {a} \cup Listed(list)
         /\ <<a>> \o list \in Seq(S)
<1> DEFINE both == <<a>> \o list
<1>1. <<a>> \in Seq(S) /\ Len(<<a>>) = 1 /\ <<a>>[1] = a
  OBVIOUS
<1>2. /\ both \in Seq(S) /\ Len(both) = 1 + Len(list)
      /\ \A i \in 1..1 + Len(list) : both[i] = IF i <= 1 THEN <<a>>[i] ELSE list[i - 1]
  BY <1>1, ConcatProperties
<1>3. Len(list) \in Nat /\ DOMAIN list = 1..Len(list) /\ DOMAIN both = 1..1 + Len(list)
  BY <1>2, LenProperties
<1>4. both[1] = a /\ \A i \in 1..Len(list) : both[i + 1] = list[i]
  BY <1>1, <1>2, <1>3
<1> HIDE DEF both
<1>5. both # <<>>
  BY <1>2, <1>3
<1>6. Tail(both) = list
  <2>1. /\ Tail(both) \in Seq(S) /\ Len(Tail(both)) = Len(both) - 1
        /\ \A i \in 1..Len(Tail(both)) : Tail(both)[i] = both[i + 1]
    BY <1>2, <1>5, HeadTailProperties
  <2>2. Len(Tail(both)) = Len(list) /\ \A i \in 1..Len(Tail(both)) : Tail(both)[i] = list[i]
    BY <1>2, <1>3, <1>4, <2>1
  <2> QED BY <2>1, <2>2, SeqEqual
<1>7. Listed(both) = {a} \cup Listed(list)
  <2>1. \A i \in DOMAIN both : i # 1 => i - 1 \in DOMAIN list /\ both[i] = list[i - 1]
    BY <1>1, <1>2, <1>3
  <2> QED BY SMTT(30), <1>3, <1>4, <2>1 DEF Listed
<1> QED BY <1>2, <1>6, <1>7 DEF both

LEMMA Joined ==
  ASSUME NEW S, NEW w \in Seq(S), NEW list \in Seq(S)
  PROVE  /\ w \o list \in Seq(S) /\ Len(w) \in Nat /\ Len(list) \in Nat
         /\ DOMAIN w = 1..Len(w) /\ DOMAIN list = 1..Len(list)
         /\ DOMAIN (w \o list) = 1..Len(w) + Len(list)
         /\ \A i \in 1..Len(w) : (w \o list)[i] = w[i]
         /\ \A i \in 1..Len(w) + Len(list) :
              i > Len(w) => i - Len(w) \in 1..Len(list) /\ (w \o list)[i] = list[i - Len(w)]
         /\ IsPrefixOf(w, w \o list) /\ Listed(w \o list) = Listed(w) \cup Listed(list)
<1> DEFINE both == w \o list
<1>1. /\ both \in Seq(S) /\ Len(both) = Len(w) + Len(list)
      /\ \A i \in 1..Len(w) + Len(list) : both[i] = IF i <= Len(w) THEN w[i] ELSE list[i - Len(w)]
  BY ConcatProperties
<1>2. /\ Len(w) \in Nat /\ Len(list) \in Nat /\ DOMAIN w = 1..Len(w)
      /\ DOMAIN list = 1..Len(list) /\ DOMAIN both = 1..Len(w) + Len(list)
  BY <1>1, LenProperties
<1> HIDE DEF both
<1>3. /\ \A i \in 1..Len(w) : both[i] = w[i]
      /\ \A i \in 1..Len(w) + Len(list) :
           i > Len(w) => i - Len(w) \in 1..Len(list) /\ both[i] = list[i - Len(w)]
  BY <1>1, <1>2
<1>4. IsPrefixOf(w, both)
  BY <1>2, <1>3 DEF IsPrefixOf
<1>5. Listed(both) = Listed(w) \cup Listed(list)
  <2>1. \A i \in 1..Len(list) : i + Len(w) \in 1..Len(w) + Len(list) /\ both[i + Len(w)] = list[i]
    BY <1>1, <1>2
  <2>2. ASSUME NEW x \in Listed(both) PROVE x \in Listed(w) \cup Listed(list)
    <3>1. PICK i \in 1..Len(w) + Len(list) : x = both[i]
      BY <1>2, <2>2 DEF Listed
    <3>2. CASE i <= Len(w)
      <4>1. i \in DOMAIN w /\ x = w[i]
        BY <1>2, <1>3, <3>1, <3>2
      <4> QED BY <4>1 DEF Listed
    <3>3. CASE i > Len(w)
      <4>1. i - Len(w) \in DOMAIN list /\ x = list[i - Len(w)]
        BY <1>2, <1>3, <3>1, <3>3
      <4> QED BY <4>1 DEF Listed
    <3> QED BY <1>2, <3>2, <3>3
  <2>3. ASSUME NEW x \in Listed(w) PROVE x \in Listed(both)
    <3>1. PICK i \in 1..Len(w) : x = w[i]
      BY <1>2, <2>3 DEF Listed
    <3>2. i \in DOMAIN both /\ x = both[i]
      BY <1>2, <1>3, <3>1
    <3> QED BY <3>2 DEF Listed
  <2>4. ASSUME NEW x \in Listed(list) PROVE x \in Listed(both)
    <3>1. PICK i \in 1..Len(list) : x = list[i]
      BY <1>2, <2>4 DEF Listed
    <3>2. i + Len(w) \in DOMAIN both /\ x = both[i + Len(w)]
      BY <1>2, <2>1, <3>1
    <3> QED BY <3>2 DEF Listed
  <2> QED BY <2>2, <2>3, <2>4
<1> QED BY <1>1, <1>2, <1>3, <1>4, <1>5 DEF both

LEMMA Queued ==
  ASSUME NEW S, NEW list \in Seq(S), NEW a \in S
  PROVE  /\ Len(list) \in Nat /\ DOMAIN list = 1..Len(list)
         /\ Append(list, a) \in Seq(S) /\ DOMAIN Append(list, a) = 1..Len(list) + 1
         /\ \A i \in 1..Len(list) : Append(list, a)[i] = list[i]
         /\ Append(list, a)[Len(list) + 1] = a
         /\ Listed(Append(list, a)) = Listed(list) \cup {a}
<1> DEFINE both == Append(list, a)
<1>1. /\ both \in Seq(S) /\ Len(both) = Len(list) + 1 /\ both[Len(list) + 1] = a
      /\ \A i \in 1..Len(list) : both[i] = list[i]
  BY AppendProperties
<1>2. /\ Len(list) \in Nat /\ DOMAIN list = 1..Len(list)
      /\ DOMAIN both = 1..Len(list) + 1
  BY <1>1, LenProperties
<1> HIDE DEF both
<1>3. Listed(both) = Listed(list) \cup {a}
  <2>1. \A i \in DOMAIN both : i = Len(list) + 1 \/ i \in DOMAIN list
    BY <1>2
  <2>2. DOMAIN list \subseteq DOMAIN both /\ Len(list) + 1 \in DOMAIN both
    BY <1>2
  <2> QED BY <1>1, <1>2, <2>1, <2>2 DEF Listed
<1> QED BY <1>1, <1>2, <1>3 DEF both

LEMMA PartHere ==
  ASSUME Scoped, RunTypeOK
  PROVE  /\ part \in Nat /\ 1 <= part /\ part <= Len(Parts) + 1
         /\ part <= Len(Parts) => part \in DOMAIN Parts /\ Listed(Parts[part]) \subseteq Sections
<1>1. part \in 1..Len(Parts) + 1 /\ Len(Parts) \in Nat /\ DOMAIN Parts = 1..Len(Parts)
  BY PartShape DEF RunTypeOK
<1>2. part <= Len(Parts) => part \in DOMAIN Parts
  BY <1>1
<1> QED BY <1>1, <1>2, PartShape

LEMMA NoSummaryIn ==
  ASSUME Scoped, RunTypeOK, Summary \notin Listed(written)
  PROVE  written \in Seq(Sections) /\ Body = written /\ Listed(written) \subseteq Sections
<1>1. written \in Seq(Pieces) /\ DOMAIN written = 1..Len(written) /\ Len(written) \in Nat
  BY LenProperties DEF RunTypeOK
<1>2. \A i \in 1..Len(written) : written[i] \in Sections
  BY <1>1, ElementOfSeq DEF Listed, Pieces
<1> QED BY <1>1, <1>2, LenProperties DEF Body, Listed

(* What leaves the sections and their contexts alone keeps the order.       *)
LEMMA ReportKept ==
  ASSUME SameScope, RunTypeOK, RunInv, ReportInv, UNCHANGED <<part, writer, ended, written>>,
         \A s \in Pieces : (material'[s]).context = material[s].context,
         stage' = stage \/ stage' \notin Gathering \cup {"write"} \/ stage \in Gathering
  PROVE  ReportInv'
<1> USE DEF SameScope
<1>1. PartsWritten'
  BY DEF ReportInv, PartsWritten
<1>2. NoSummaryYet'
  BY DEF ReportInv, NoSummaryYet
<1>3. SharedContext'
  <2>1. CASE stage \in Gathering
    <3>1. \A s \in Sections : writer'[s] = "none"
      BY <2>1 DEF RunInv, NothingGiven
    <3>2. part' <= Len(Parts') => Listed(Parts'[part']) \subseteq Sections
      BY PartHere DEF RunInv
    <3> QED BY <3>1, <3>2 DEF SharedContext
  <2>2. CASE stage \notin Gathering
    <3>1. part <= Len(Parts) => Listed(Parts[part]) \subseteq Pieces
      BY PartHere DEF RunInv, Pieces
    <3>2. stage' = "write" => stage = "write"
      BY <2>2
    <3> QED BY <3>1, <3>2 DEF ReportInv, SharedContext
  <2> QED BY <2>1, <2>2
<1>4. ReportInOrder'
  <2>1. Body' = Body
    BY DEF Body
  <2>2. Listed(written) \subseteq Pieces
    BY LenProperties, ElementOfSeq DEF RunTypeOK, Listed
  <2> QED BY <2>1, <2>2 DEF ReportInv, ReportInOrder
<1> QED BY <1>1, <1>2, <1>3, <1>4 DEF ReportInv

(* A section that is begun is not in the report yet.                        *)
LEMMA ReportStarts ==
  ASSUME SameScope, RunTypeOK, RunInv, ReportInv, NEW s \in Sections, StartSection(s)
  PROVE  ReportInv'
<1> USE DEF SameScope
<1>0. /\ stage = "write" /\ stage' = stage /\ part \in DOMAIN Parts /\ s \in Listed(Parts[part])
      /\ writer[s] = "none" /\ UNCHANGED <<part, ended, written>>
      /\ writer' = [writer EXCEPT ![s] = "first"]
      /\ material' = [material EXCEPT ![s] = [context |-> written, given |-> sources]]
  BY PartShape DEF StartSection, Current, RunTypeOK, RunInv
<1>1. /\ writer'[s] = "first" /\ \A t \in Sections \ {s} : writer'[t] = writer[t]
      /\ (material'[s]).context = written /\ \A t \in Pieces \ {s} : material'[t] = material[t]
  BY <1>0 DEF RunTypeOK, Pieces
<1>2. written \in Seq(Sections) /\ Body = written /\ Body' = written
      /\ Listed(written) \subseteq Sections
  BY <1>0, NoSummaryIn DEF RunInv, ReportInv, NoSummaryYet, Body
<1>3. PartsWritten'
  BY <1>0, <1>1, PartShape DEF ReportInv, PartsWritten, RunInv
<1>4. NoSummaryYet'
  BY <1>0 DEF ReportInv, NoSummaryYet
<1>5. SharedContext'
  <2> SUFFICES ASSUME NEW t \in Listed(Parts[part]), writer'[t] # "none"
               PROVE  (material'[t]).context = written
    BY <1>0 DEF SharedContext
  <2>1. t \in Sections /\ t \in Pieces
    BY <1>0, PartShape DEF RunInv, Pieces
  <2>2. CASE t = s
    BY <1>1, <2>2
  <2>3. CASE t # s
    BY <1>0, <1>1, <2>1, <2>3, PartShape DEF ReportInv, SharedContext, RunInv
  <2> QED BY <2>2, <2>3
<1>6. ReportInOrder'
  <2>1. s \notin Listed(written)
    BY <1>0, <1>2 DEF ReportInv, ReportInOrder
  <2>2. \A t \in Listed(written) : material'[t] = material[t]
    BY <1>1, <1>2, <2>1 DEF Pieces
  <2>3. \A i \in DOMAIN Parts : \A t \in Listed(Parts[i]) : writer'[t] = "ok" <=> writer[t] = "ok"
    BY <1>0, <1>1, PartShape DEF RunInv
  <2> QED BY <1>0, <1>2, <2>2, <2>3 DEF ReportInv, ReportInOrder
<1> QED BY <1>3, <1>4, <1>5, <1>6 DEF ReportInv

(* One that ends is of this part, hence not in the report either.           *)
LEMMA ReportEnds ==
  ASSUME SameScope, RunTypeOK, RunInv, ReportInv, NEW s \in Sections, EndSection(s)
  PROVE  ReportInv'
<1> USE DEF SameScope
<1>0. /\ writer[s] \in {"first", "second"} /\ UNCHANGED <<stage, part, material, written>>
      /\ \E state \in {"ok", "second", "empty"} :
           /\ writer' = [writer EXCEPT ![s] = state]
           /\ ended' = IF state = "second" THEN ended ELSE Append(ended, s)
  BY DEF EndSection, Writing
<1>1. PICK state \in {"ok", "second", "empty"} :
        /\ writer'[s] = state /\ \A t \in Sections \ {s} : writer'[t] = writer[t]
        /\ ended' = IF state = "second" THEN ended ELSE Append(ended, s)
  BY <1>0 DEF RunTypeOK
<1>2. part \in DOMAIN Parts /\ s \in Listed(Parts[part])
  <2>1. PICK i \in DOMAIN Parts : s \in Listed(Parts[i])
    BY PartShape DEF RunInv
  <2>2. ~(i < part) /\ ~(i > part)
    BY <1>0, <2>1 DEF ReportInv, PartsWritten
  <2>3. i = part
    BY <2>2, PartShape DEF RunInv, RunTypeOK
  <2> QED BY <2>1, <2>3
<1>3. s \notin Listed(ended) /\ ended \in Seq(Sections)
  BY <1>0, <1>2 DEF ReportInv, PartsWritten, RunTypeOK
<1>4. PartsWritten'
  <2>1. CASE state = "second"
    BY <1>0, <1>1, <1>2, <1>3, <2>1, PartShape DEF ReportInv, PartsWritten, RunInv
  <2>2. CASE state # "second"
    <3>2. /\ Listed(ended') = Listed(ended) \cup {s} /\ Len(ended) \in Nat
          /\ DOMAIN ended = 1..Len(ended) /\ DOMAIN ended' = 1..Len(ended) + 1
          /\ \A i \in 1..Len(ended) : ended'[i] = ended[i]
          /\ ended'[Len(ended) + 1] = s
      BY <1>1, <1>3, <2>2, Queued
    <3>3. \A i, j \in DOMAIN ended' : ended'[i] = ended'[j] => i = j
      <4>1. \A i \in 1..Len(ended) : ended[i] # s
        BY <1>3, <3>2 DEF Listed
      <4>2. \A i, j \in 1..Len(ended) : ended[i] = ended[j] => i = j
        BY <3>2 DEF ReportInv, PartsWritten
      <4> QED BY <3>2, <4>1, <4>2
    <3>4. ASSUME NEW i \in DOMAIN Parts, NEW t \in Listed(Parts[i])
          PROVE  /\ i < part => writer'[t] \in {"ok", "empty"}
                 /\ i > part => writer'[t] = "none"
                 /\ t \in Listed(ended') <=> i = part /\ writer'[t] \in {"ok", "empty"}
      <4>1. t \in Sections /\ (t = s => i = part)
        BY <1>2, <3>4, PartShape DEF RunInv
      <4>2. CASE t = s
        BY <1>1, <1>2, <2>2, <3>2, <4>1, <4>2, PartHere DEF RunInv
      <4>3. CASE t # s
        BY <1>1, <3>2, <3>4, <4>1, <4>3 DEF ReportInv, PartsWritten
      <4> QED BY <4>2, <4>3
    <3> QED BY <1>0, <3>3, <3>4 DEF PartsWritten
  <2> QED BY <2>1, <2>2
<1>5. NoSummaryYet'
  BY <1>0 DEF ReportInv, NoSummaryYet
<1>6. SharedContext'
  <2> SUFFICES ASSUME stage = "write", NEW t \in Listed(Parts[part]), writer'[t] # "none"
               PROVE  material[t].context = written
    BY <1>0 DEF SharedContext
  <2>1. t \in Sections /\ part <= Len(Parts)
    BY <1>2, PartShape DEF RunInv, RunTypeOK
  <2>2. writer[t] # "none"
    BY <1>0, <1>1, <2>1
  <2> QED BY <2>1, <2>2 DEF ReportInv, SharedContext
<1>7. ReportInOrder'
  <2>1. Body' = Body
    BY <1>0 DEF Body
  <2>2. \A i \in DOMAIN Parts : \A t \in Listed(Parts[i]) :
          i < part /\ writer'[t] = "ok" <=> i < part /\ writer[t] = "ok"
    BY SMTT(30), <1>0, <1>1, <1>2, PartShape DEF RunInv, RunTypeOK
  <2> QED BY <1>0, <2>1, <2>2 DEF ReportInv, ReportInOrder
<1> QED BY <1>4, <1>5, <1>6, <1>7 DEF ReportInv

(* As many results as sections are the results of all of them.             *)
LEMMA AllEnded ==
  ASSUME Scoped, RunTypeOK, ReportInv, part \in DOMAIN Parts, Len(ended) = Len(Parts[part])
  PROVE  \A s \in Listed(Parts[part]) : writer[s] \in {"ok", "empty"}
<1> DEFINE n == Len(Parts[part])
<1> DEFINE PositionOf(i) == CHOOSE j \in 1..n : ended[i] = Parts[part][j]
<1> DEFINE where == [i \in 1..n |-> PositionOf(i)]
<1>1. /\ n \in Nat /\ DOMAIN Parts[part] = 1..n /\ DOMAIN ended = 1..n
      /\ ended \in Seq(Sections)
  BY PartShape, LenProperties DEF RunTypeOK
<1>2. \A i \in 1..n : ended[i] \in Sections /\ ended[i] \in Listed(ended)
  BY <1>1, ElementOfSeq DEF Listed
<1>3. \A i \in 1..n : ended[i] \in Listed(Parts[part])
  <2> TAKE i \in 1..n
  <2>1. PICK k \in DOMAIN Parts : ended[i] \in Listed(Parts[k])
    BY <1>2, PartShape
  <2>2. k = part
    BY <1>2, <2>1 DEF ReportInv, PartsWritten
  <2> QED BY <2>1, <2>2
<1>4. \A i \in 1..n : where[i] \in 1..n /\ ended[i] = Parts[part][where[i]]
  <2>1. \A i \in 1..n : \E j \in 1..n : ended[i] = Parts[part][j]
    BY <1>1, <1>3 DEF Listed
  <2> QED BY <2>1
<1> HIDE DEF where
<1>5. where \in [1..n -> 1..n]
  BY <1>4 DEF where
<1>6. where \in Injection(1..n, 1..n)
  <2>1. \A i, j \in 1..n : where[i] = where[j] => i = j
    BY <1>1, <1>4 DEF ReportInv, PartsWritten
  <2> QED BY <1>5, <2>1 DEF Injection, IsInjective
<1>7. where \in Surjection(1..n, 1..n)
  BY <1>1, <1>6, FS_Interval, FS_Injection
<1>8. \A j \in 1..n : \E i \in 1..n : ended[i] = Parts[part][j]
  BY <1>4, <1>7 DEF Surjection
<1> SUFFICES ASSUME NEW s \in Listed(Parts[part]) PROVE writer[s] \in {"ok", "empty"}
  OBVIOUS
<1>9. PICK j \in 1..n : s = Parts[part][j]
  BY <1>1 DEF Listed
<1>10. s \in Listed(ended)
  BY <1>1, <1>8, <1>9 DEF Listed
<1> QED BY <1>10 DEF ReportInv, PartsWritten

(* The sections a part adds are those of it that were written, in order.    *)
LEMMA Accounted ==
  ASSUME Scoped, RunTypeOK, part \in DOMAIN Parts, NEW list \in InCanonicalOrder(Parts[part])
  PROVE  /\ list \in Seq(Sections)
         /\ \A s \in Listed(Parts[part]) : s \in Listed(list) <=> writer[s] = "ok"
         /\ Listed(list) \subseteq Listed(Parts[part])
         /\ \A i, j \in DOMAIN list : i < j => Precedes(Parts, list[i], list[j])
<1> DEFINE P == Parts[part]
<1>1. P \in Seq(Sections) /\ DOMAIN P = 1..Len(P) /\ Len(P) \in Nat /\ Listed(P) \subseteq Sections
  BY PartShape
<1>2. PICK kept \in Choices(P) :
        Listed(kept) = {i \in DOMAIN P : writer[P[i]] = "ok"} /\ list = Picked(P, kept)
  BY DEF InCanonicalOrder, WrittenOf, PickedAt
<1>3. PICK n \in 0..Len(P) : /\ kept \in [1..n -> DOMAIN P]
                             /\ \A i, j \in 1..n : i < j => kept[i] < kept[j]
  BY <1>2 DEF Choices
<1>4. n \in Nat /\ list = [i \in 1..n |-> P[kept[i]]]
  BY <1>1, <1>2, <1>3 DEF Picked
<1>5. \A i \in 1..n : kept[i] \in DOMAIN P /\ P[kept[i]] \in Sections
  BY <1>1, <1>3 DEF Listed
<1>6. list \in Seq(Sections) /\ DOMAIN list = 1..n /\ \A i \in 1..n : list[i] = P[kept[i]]
  BY <1>4, <1>5
<1>7. \A s \in Listed(P) : s \in Listed(list) <=> writer[s] = "ok"
  <2> TAKE s \in Listed(P)
  <2>1. PICK j \in DOMAIN P : s = P[j]
    BY DEF Listed
  <2>2. ASSUME writer[s] = "ok" PROVE s \in Listed(list)
    <3>1. j \in Listed(kept)
      BY <1>2, <2>1, <2>2
    <3>2. PICK i \in 1..n : j = kept[i]
      BY <1>3, <3>1 DEF Listed
    <3> QED BY <1>6, <2>1, <3>2 DEF Listed
  <2>3. ASSUME s \in Listed(list) PROVE writer[s] = "ok"
    <3>1. PICK i \in 1..n : s = P[kept[i]]
      BY <1>6, <2>3 DEF Listed
    <3>2. kept[i] \in Listed(kept)
      BY <1>3 DEF Listed
    <3> QED BY <1>2, <3>1, <3>2
  <2> QED BY <2>2, <2>3
<1>8. Listed(list) \subseteq Listed(P)
  BY <1>5, <1>6 DEF Listed
<1>9. \A i, j \in DOMAIN list : i < j => Precedes(Parts, list[i], list[j])
  BY <1>3, <1>5, <1>6 DEF Precedes
<1> HIDE DEF P
<1> QED BY <1>6, <1>7, <1>8, <1>9 DEF P

LEMMA PartEnds ==
  ASSUME SameScope, RunTypeOK, RunInv, ReportInv, EndPart PROVE ReportInv'
<1> USE DEF SameScope
<1>0. /\ stage = "write" /\ stage' = stage /\ part \in DOMAIN Parts /\ part' = part + 1
      /\ ended' = <<>> /\ Len(ended) = Len(Parts[part]) /\ UNCHANGED <<writer, material>>
  BY PartHere DEF EndPart, RunInv
<1>1. PICK list \in InCanonicalOrder(Parts[part]) : written' = written \o list
  BY DEF EndPart
<1>2. /\ list \in Seq(Sections) /\ Listed(list) \subseteq Listed(Parts[part])
      /\ \A s \in Listed(Parts[part]) : s \in Listed(list) <=> writer[s] = "ok"
      /\ \A i, j \in DOMAIN list : i < j => Precedes(Parts, list[i], list[j])
  BY <1>0, Accounted DEF RunInv
<1>3. /\ written \in Seq(Sections) /\ Body = written /\ Listed(written) \subseteq Sections
      /\ Summary \notin Listed(written)
  BY <1>0, NoSummaryIn DEF RunInv, ReportInv, NoSummaryYet
<1>4. /\ Len(written) \in Nat /\ Len(list) \in Nat
      /\ DOMAIN written = 1..Len(written) /\ DOMAIN list = 1..Len(list)
      /\ DOMAIN written' = 1..Len(written) + Len(list)
      /\ \A i \in 1..Len(written) : written'[i] = written[i]
      /\ \A i \in 1..Len(written) + Len(list) :
           i > Len(written) => /\ i - Len(written) \in 1..Len(list)
                               /\ written'[i] = list[i - Len(written)]
      /\ IsPrefixOf(written, written') /\ Listed(written') = Listed(written) \cup Listed(list)
  BY <1>1, <1>2, <1>3, Joined
<1>5. Summary \notin Listed(written') /\ Body' = written'
  BY <1>0, <1>2, <1>3, <1>4, PartShape DEF Body, RunInv
<1>6. part \in Nat /\ \A i \in DOMAIN Parts : i \in Nat
  BY PartHere, PartShape DEF RunInv
<1>7. PartsWritten'
  <2>1. \A s \in Listed(Parts[part]) : writer[s] \in {"ok", "empty"}
    BY <1>0, AllEnded DEF RunInv
  <2>2. DOMAIN ended' = {} /\ Listed(ended') = {}
    BY <1>0 DEF Listed
  <2>3. ASSUME NEW i \in DOMAIN Parts, NEW s \in Listed(Parts[i])
        PROVE  /\ i < part + 1 => writer[s] \in {"ok", "empty"}
               /\ i > part + 1 => writer[s] = "none"
               /\ ~(i = part + 1 /\ writer[s] \in {"ok", "empty"})
    <3>1. /\ i < part => writer[s] \in {"ok", "empty"}
          /\ i > part => writer[s] = "none"
      BY <2>3 DEF ReportInv, PartsWritten
    <3> QED BY <1>6, <2>1, <2>3, <3>1
  <2> QED BY <1>0, <2>2, <2>3 DEF PartsWritten
<1>8. NoSummaryYet'
  BY <1>5 DEF NoSummaryYet
<1>9. SharedContext'
  <2> SUFFICES ASSUME part + 1 <= Len(Parts), NEW s \in Listed(Parts[part + 1])
               PROVE  writer[s] = "none"
    BY <1>0 DEF SharedContext
  <2>1. part + 1 \in DOMAIN Parts /\ part + 1 > part
    BY <1>6, PartShape DEF RunInv
  <2> QED BY <2>1 DEF ReportInv, PartsWritten
(* Where the sections of the old report and of the list come from.         *)
<1>10. ASSUME NEW s \in Listed(written)
       PROVE  \E k \in DOMAIN Parts : k < part /\ s \in Listed(Parts[k])
  <2>1. PICK k \in DOMAIN Parts : s \in Listed(Parts[k])
    BY <1>3, <1>10, PartShape DEF RunInv
  <2> QED BY <1>3, <1>10, <2>1 DEF ReportInv, ReportInOrder
<1>11. \A i \in DOMAIN Parts : \A s \in Listed(Parts[i]) :
         s \in Listed(written') <=> i < part + 1 /\ writer[s] = "ok"
  <2> TAKE i \in DOMAIN Parts
  <2> TAKE s \in Listed(Parts[i])
  <2>1. s \in Listed(written) <=> i < part /\ writer[s] = "ok"
    BY <1>3 DEF ReportInv, ReportInOrder
  <2>2. s \in Listed(list) <=> i = part /\ writer[s] = "ok"
    BY <1>0, <1>2, PartShape DEF RunInv
  <2> QED BY <1>4, <1>6, <2>1, <2>2
<1>12. \A i, j \in DOMAIN written' : i < j => Precedes(Parts, written'[i], written'[j])
  <2> SUFFICES ASSUME NEW i \in DOMAIN written', NEW j \in DOMAIN written', i < j
               PROVE  Precedes(Parts, written'[i], written'[j])
    OBVIOUS
  <2>0. i \in Nat /\ j \in Nat /\ i \in 1..Len(written) + Len(list)
        /\ j \in 1..Len(written) + Len(list)
    BY <1>4
  <2>1. CASE j <= Len(written)
    <3>1. i \in DOMAIN written /\ j \in DOMAIN written
      BY <1>4, <2>0, <2>1
    <3> QED BY <1>3, <1>4, <3>1 DEF ReportInv, ReportInOrder
  <2>2. CASE i > Len(written)
    <3>1. /\ i - Len(written) \in DOMAIN list /\ j - Len(written) \in DOMAIN list
          /\ i - Len(written) < j - Len(written)
          /\ written'[i] = list[i - Len(written)] /\ written'[j] = list[j - Len(written)]
      BY <1>4, <2>0, <2>2
    <3> QED BY <1>2, <3>1
  <2>3. CASE i <= Len(written) /\ j > Len(written)
    <3>1. /\ i \in DOMAIN written /\ j - Len(written) \in DOMAIN list
          /\ written'[i] = written[i] /\ written'[j] = list[j - Len(written)]
      BY <1>4, <2>0, <2>3
    <3>2. written'[j] \in Listed(Parts[part]) /\ written'[i] \in Listed(written)
      BY <1>2, <3>1 DEF Listed
    <3> QED BY <1>0, <1>10, <3>2 DEF Precedes, InEarlierPart
  <2> QED BY <1>4, <2>0, <2>1, <2>2, <2>3
<1>13. ASSUME NEW s \in Listed(written')
       PROVE  /\ IsPrefixOf(material[s].context, written')
              /\ \A i \in DOMAIN written' : i \in DOMAIN material[s].context
                   <=> s = Summary \/ InEarlierPart(Parts, written'[i], s)
  <2>0. s # Summary
    BY <1>5
  <2>1. CASE s \in Listed(written)
    <3>1. /\ IsPrefixOf(material[s].context, written)
          /\ \A i \in DOMAIN written : i \in DOMAIN material[s].context
               <=> InEarlierPart(Parts, written[i], s)
      BY <1>3, <2>0, <2>1 DEF ReportInv, ReportInOrder
    <3>2. IsPrefixOf(material[s].context, written')
      BY <1>4, <3>1, Longer
    <3>3. ASSUME NEW i \in DOMAIN written', i > Len(written)
          PROVE  i \notin DOMAIN material[s].context /\ ~InEarlierPart(Parts, written'[i], s)
      <4>1. i \notin DOMAIN written
        BY <1>4, <3>3
      <4>2. written'[i] \in Listed(Parts[part])
        BY <1>2, <1>4, <3>3 DEF Listed
      <4>3. PICK k \in DOMAIN Parts : k < part /\ s \in Listed(Parts[k])
        BY <1>10, <2>1
      <4>4. ~InEarlierPart(Parts, written'[i], s)
        BY <1>0, <1>6, <4>2, <4>3, PartShape DEF InEarlierPart, RunInv
      <4> QED BY <3>1, <4>1, <4>4 DEF IsPrefixOf
    <3>4. \A i \in DOMAIN written' : i \in DOMAIN material[s].context
            <=> InEarlierPart(Parts, written'[i], s)
      <4> TAKE i \in DOMAIN written'
      <4>1. CASE i > Len(written)
        BY <3>3, <4>1
      <4>2. CASE ~(i > Len(written))
        <5>1. i \in DOMAIN written /\ written'[i] = written[i]
          BY <1>4, <4>2
        <5> QED BY <3>1, <5>1
      <4> QED BY <4>1, <4>2
    <3> QED BY <2>0, <3>2, <3>4
  <2>2. CASE s \in Listed(list)
    <3>1. s \in Listed(Parts[part]) /\ writer[s] = "ok" /\ part <= Len(Parts)
      BY <1>0, <1>2, <2>2, PartShape DEF RunInv
    <3>2. material[s].context = written
      BY <1>0, <3>1 DEF ReportInv, SharedContext
    <3>3. ASSUME NEW i \in DOMAIN written'
          PROVE  i \in DOMAIN written <=> InEarlierPart(Parts, written'[i], s)
      <4>1. CASE i > Len(written)
        <5>0. i \notin DOMAIN written
          BY <1>4, <4>1
        <5>1. written'[i] \in Listed(Parts[part])
          BY <1>2, <1>4, <3>3, <4>1 DEF Listed
        <5>2. ~InEarlierPart(Parts, written'[i], s)
          BY <1>0, <1>6, <3>1, <5>1, PartShape DEF InEarlierPart, RunInv
        <5> QED BY <5>0, <5>2
      <4>2. CASE ~(i > Len(written))
        <5>1. i \in DOMAIN written /\ written'[i] \in Listed(written)
          BY <1>4, <3>3, <4>2 DEF Listed
        <5>2. InEarlierPart(Parts, written'[i], s)
          BY <1>0, <1>10, <3>1, <5>1 DEF InEarlierPart
        <5> QED BY <5>1, <5>2
      <4> QED BY <4>1, <4>2
    <3> QED BY <1>4, <2>0, <3>2, <3>3
  <2> QED BY <1>4, <1>13, <2>1, <2>2
<1>14. ReportInOrder'
  BY <1>0, <1>5, <1>11, <1>12, <1>13 DEF ReportInOrder
<1> QED BY <1>7, <1>8, <1>9, <1>14 DEF ReportInv

(* The summary comes before all sections, and was written from them.        *)
LEMMA SummaryInFront ==
  ASSUME SameScope, RunTypeOK, RunInv, ReportInv, WriteSummary, stage' = "enrich",
         material' = [material EXCEPT ![Summary] = [context |-> written, given |-> sources]],
         written' = <<Summary>> \o written
  PROVE  ReportInv'
<1> USE DEF SameScope
<1>0. stage = "write" /\ UNCHANGED <<part, writer, ended>>
  BY DEF WriteSummary
<1>1. /\ written \in Seq(Sections) /\ written \in Seq(Pieces) /\ Body = written
      /\ Listed(written) \subseteq Sections /\ Summary \notin Sections
  BY <1>0, NoSummaryIn, PartShape DEF RunInv, ReportInv, NoSummaryYet, RunTypeOK
<1>2. /\ Tail(written') = written /\ Listed(written') = {Summary} \cup Listed(written)
  <2>1. Summary \in Pieces
    BY DEF Pieces
  <2>2. /\ Tail(<<Summary>> \o written) = written
        /\ Listed(<<Summary>> \o written) = {Summary} \cup Listed(written)
    BY <1>1, <2>1, Fronted
  <2> QED BY <2>2
<1>3. Body' = written
  BY <1>2 DEF Body
<1>4. /\ (material'[Summary]).context = written
      /\ \A s \in Sections : material'[s] = material[s]
  BY <1>1 DEF RunTypeOK, Pieces
<1>5. PartsWritten' /\ NoSummaryYet' /\ SharedContext'
  BY <1>0 DEF ReportInv, PartsWritten, NoSummaryYet, SharedContext, Gathering
<1>6. ASSUME NEW s \in Listed(written')
      PROVE  /\ IsPrefixOf((material'[s]).context, written)
             /\ \A i \in DOMAIN written : i \in DOMAIN (material'[s]).context
                  <=> s = Summary \/ InEarlierPart(Parts, written[i], s)
  <2>1. CASE s = Summary
    BY <1>4, <2>1, Itself
  <2>2. CASE s # Summary
    <3>1. s \in Listed(written) /\ material'[s] = material[s]
      BY <1>1, <1>2, <1>4, <1>6, <2>2
    <3> QED BY <1>1, <3>1 DEF ReportInv, ReportInOrder
  <2> QED BY <2>1, <2>2
<1>7. /\ \A i \in DOMAIN Parts : \A s \in Listed(Parts[i]) :
           s \in Listed(written) <=> i < part /\ writer[s] = "ok"
      /\ \A i, j \in DOMAIN written : i < j => Precedes(Parts, written[i], written[j])
  BY <1>1 DEF ReportInv, ReportInOrder
<1>8. ReportInOrder'
  BY <1>0, <1>3, <1>6, <1>7 DEF ReportInOrder
<1> QED BY <1>5, <1>8 DEF ReportInv

(* A run that begins has no section yet.                                   *)
Unwritten ==
  /\ part = 1 /\ ended = <<>> /\ written = <<>> /\ \A s \in Sections : writer[s] = "none"

LEMMA NothingWritten == Scoped /\ Unwritten => ReportInv
<1> SUFFICES ASSUME Scoped, Unwritten PROVE ReportInv
  OBVIOUS
<1> USE DEF Unwritten
<1>1. Listed(ended) = {} /\ Listed(written) = {} /\ DOMAIN ended = {} /\ Body = <<>>
  BY DEF Listed, Body
<1>2. \A i \in DOMAIN Parts : i \in Nat /\ i >= 1 /\ Listed(Parts[i]) \subseteq Sections
  BY PartShape
<1>3. PartsWritten
  BY <1>1, <1>2 DEF PartsWritten
<1>4. NoSummaryYet
  BY <1>1 DEF NoSummaryYet
<1>5. SharedContext
  <2>1. part <= Len(Parts) => part \in DOMAIN Parts
    BY PartShape
  <2> QED BY <1>2, <2>1 DEF SharedContext
<1>6. ReportInOrder
  <2>1. DOMAIN Body = {} /\ Listed(Body) = {} /\ written = Body
    BY <1>1 DEF Listed
  <2>2. \A i \in DOMAIN Parts : \A s \in Listed(Parts[i]) : ~(i < part /\ writer[s] = "ok")
    BY <1>2
  <2> QED BY <1>1, <2>1, <2>2 DEF ReportInOrder
<1> QED BY <1>3, <1>4, <1>5, <1>6 DEF ReportInv

LEMMA ReportStep ==
  ASSUME RunTypeOK, RunInv, ReportInv, [RunNext]_runVars PROVE ReportInv'
<1>0. SameScope
  BY StepsKeepScope, ScopeStays
<1> USE DEF pools, writing, files
<1>1. CASE \/ UNCHANGED runVars \/ Search \/ TakeCollected \/ Collected \/ Deepen \/ TakeGap
           \/ Deepened \/ EndReview \/ EndRun \/ Convert \/ Finalize \/ Stop
           \/ \E pool \in Pools, u \in Urls : Validate(pool, u)
  <2>1. /\ UNCHANGED <<part, writer, ended, written, material>>
        /\ stage' = stage \/ stage' \notin Gathering \cup {"write"} \/ stage \in Gathering
    BY <1>1 DEF runVars, Search, TakeCollected, Collected, Deepen, TakeGap, Deepened, EndReview,
       EndRun, Convert, Finalize, Stop, Validate, Gathering
  <2> QED BY <1>0, <2>1, ReportKept
<1>2. CASE \E s \in Sections : StartSection(s) \/ EndSection(s)
  BY <1>0, <1>2, ReportStarts, ReportEnds
<1>3. CASE EndPart
  BY <1>0, <1>3, PartEnds
<1>4. CASE WriteSummary
  <2>1. CASE /\ material' = [material EXCEPT ![Summary] = [context |-> written, given |-> sources]]
             /\ written' = <<Summary>> \o written /\ stage' = "enrich"
    BY <1>0, <1>4, <2>1, SummaryInFront
  <2>2. CASE UNCHANGED <<material, written>> /\ stage' \in {"stopped", "enrich"}
    <3>1. UNCHANGED <<part, writer, ended, written>> /\ stage' \notin Gathering \cup {"write"}
      BY <1>4, <2>2 DEF WriteSummary, Gathering
    <3> QED BY <1>0, <2>2, <3>1, ReportKept
  <2> QED BY <1>4, <2>1, <2>2 DEF WriteSummary
<1>5. CASE EnrichReport
  <2>1. UNCHANGED <<stage, part, writer, ended, written>>
    BY <1>5 DEF EnrichReport
  <2>2. \A s \in Pieces : (material'[s]).context = material[s].context
    BY <1>5 DEF EnrichReport, RunInv, Records
  <2> QED BY <1>0, <2>1, <2>2, ReportKept
<1>6. CASE Resume
  <2>1. /\ part' = 1 /\ ended' = <<>> /\ written' = <<>>
        /\ writer' = [s \in Sections |-> "none"]
    BY <1>6 DEF Resume, Fresh
  <2>2. Scoped' /\ Unwritten'
    BY <1>0, <2>1 DEF SameScope, RunInv, Unwritten
  <2>3. Scoped' /\ Unwritten' => ReportInv'
    BY NothingWritten, PTL
  <2> QED BY <2>1, <2>2, <2>3
<1> QED BY <1>1, <1>2, <1>3, <1>4, <1>5, <1>6 DEF RunNext

-----------------------------------------------------------------------------
(* The types.                                                              *)

LEMMA RunTypesInit == RunInit => RunTypeOK
<1> SUFFICES ASSUME RunInit PROVE RunTypeOK
  OBVIOUS
<1>1. Scoped /\ Len(Parts) \in Nat /\ scope.weak \in Nat /\ scope.runs \in Nat \ {0}
  BY Bounds, PartShape DEF RunInit, Scoped
<1>2. /\ validation \in [Pools -> [Urls -> {"none", "queued", "running"} \cup Judgements]]
      /\ writer \in [Sections -> {"none", "first", "second", "ok", "empty"}]
  BY DEF RunInit, Idle
<1>2a. /\ sources \in Seq(Urls) /\ validated \in Seq(Urls) /\ ended \in Seq(Sections)
       /\ written \in Seq(Pieces)
  BY DEF RunInit
<1>2b. /\ taken \subseteq Urls /\ gained \in Nat /\ stage = "search"
       /\ markdown \in 0..run /\ document \in 0..run
  BY DEF RunInit
<1>2c. shipped \in BOOLEAN /\ passed \in BOOLEAN
  <2>1. shipped = FALSE /\ passed = FALSE
    BY DEF RunInit
  <2> QED BY <2>1
<1>3. part \in 1..Len(Parts) + 1 /\ looked \in 0..scope.weak /\ run \in 1..scope.runs
  BY <1>1 DEF RunInit
<1>4. material \in [Pieces -> [context: Seq(Sections), given: Seq(Urls)]]
  BY DEF RunInit, Blank
<1> QED BY <1>2, <1>2a, <1>2b, <1>2c, <1>3, <1>4 DEF RunTypeOK

LEMMA RunTypesStep ==
  ASSUME RunTypeOK, RunInv, ReportInv, [RunNext]_runVars PROVE RunTypeOK'
<1>0. SameScope
  BY StepsKeepScope, ScopeStays
<1> USE <1>0 DEF pools, writing, files, SameScope
<1>1. RunInv' /\ Scoped
  BY RunInvStep DEF RunInv
<1>2. sources' \in Seq(Urls) /\ validated' \in Seq(Urls) /\ gained' \in Nat
  BY <1>1 DEF RunInv, Lists, Accepted
<1>3. stage' \in {"search", "collect", "deepen", "gaps", "write", "enrich", "ship",
                  "finalize", "recorded", "stopped", "done"}
  BY DEF RunTypeOK, RunNext, runVars, Validate, Search, TakeCollected, Collected, Deepen,
     TakeGap, Deepened, StartSection, EndSection, EndPart, WriteSummary, EnrichReport,
     EndReview, EndRun, Convert, Finalize, Stop, Resume, Fresh
<1>4. /\ taken' \subseteq Urls
      /\ validation' \in [Pools -> [Urls -> {"none", "queued", "running"} \cup Judgements]]
  <2>0. /\ taken \subseteq Urls
        /\ validation \in [Pools -> [Urls -> {"none", "queued", "running"} \cup Judgements]]
    BY DEF RunTypeOK
  <2>1. CASE \E pool \in Pools, u \in Urls : Validate(pool, u)
    <3>1. /\ taken' = taken
          /\ \E pool \in Pools, u \in Urls, answer \in {"none", "running"} \cup Judgements :
               validation' = [validation EXCEPT ![pool][u] = answer]
      BY <2>1 DEF Validate
    <3> QED BY <2>0, <3>1
  <2>2. CASE Search \/ Deepen
    <3>1. /\ taken' = {}
          /\ \E pool \in Pools, found \in SUBSET Urls : validation' = [validation EXCEPT ![pool] =
               [u \in Urls |-> IF u \in found THEN "queued" ELSE "none"]]
      BY <2>2 DEF Search, Deepen, Submit, Pools
    <3> QED BY <2>0, <3>1
  <2>3. CASE TakeCollected \/ TakeGap
    BY <2>0, <2>3 DEF TakeCollected, TakeGap, Accept, Finished
  <2>4. CASE Collected \/ Deepened
    <3>1. PICK pool \in Pools : Abandon(pool)
      BY <2>4 DEF Collected, Deepened, LoopEnds, Pools
    <3> QED BY <2>0, <3>1 DEF Abandon
  <2>5. CASE Resume
    BY <2>5 DEF Resume, Fresh, Idle
  <2>6. CASE UNCHANGED <<validation, taken>>
    BY <2>6 DEF RunTypeOK
  <2>7. \/ UNCHANGED runVars \/ EndReview \/ EndRun \/ Convert \/ Finalize \/ Stop \/ EnrichReport
        \/ EndPart \/ WriteSummary \/ \E s \in Sections : StartSection(s) \/ EndSection(s)
        => UNCHANGED <<validation, taken>>
    BY DEF runVars, EndReview, EndRun, Convert, Finalize, Stop, EnrichReport, EndPart, WriteSummary,
       StartSection, EndSection
  <2> QED BY <2>1, <2>2, <2>3, <2>4, <2>5, <2>6, <2>7 DEF RunNext
<1>5. /\ part' \in 1..Len(Parts) + 1 /\ ended' \in Seq(Sections) /\ written' \in Seq(Pieces)
      /\ writer' \in [Sections -> {"none", "first", "second", "ok", "empty"}]
  <2>0. /\ part \in Nat /\ 1 <= part /\ part <= Len(Parts) + 1 /\ Len(Parts) \in Nat
        /\ ended \in Seq(Sections) /\ written \in Seq(Pieces)
        /\ writer \in [Sections -> {"none", "first", "second", "ok", "empty"}]
    BY <1>1, PartHere, PartShape DEF RunTypeOK
  <2>1. CASE \E s \in Sections : StartSection(s)
    BY <2>0, <2>1 DEF StartSection
  <2>2. CASE \E s \in Sections : EndSection(s)
    <3>1. PICK s \in Sections : EndSection(s)
      BY <2>2
    <3>2. /\ UNCHANGED <<part, written>>
          /\ ended' \in {ended, Append(ended, s)}
          /\ \E state \in {"ok", "second", "empty"} : writer' = [writer EXCEPT ![s] = state]
      BY <3>1 DEF EndSection
    <3>3. ended' \in Seq(Sections)
      <4>1. Append(ended, s) \in Seq(Sections)
        BY <2>0, Queued
      <4> QED BY <2>0, <3>2, <4>1
    <3>4. writer' \in [Sections -> {"none", "first", "second", "ok", "empty"}]
      BY <2>0, <3>2
    <3> QED BY <2>0, <3>2, <3>3, <3>4
  <2>3. CASE EndPart
    <3>1. part \in DOMAIN Parts /\ part' = part + 1 /\ ended' = <<>> /\ writer' = writer
          /\ part <= Len(Parts)
          /\ \E list \in InCanonicalOrder(Parts[part]) : written' = written \o list
      BY <1>1, <2>3, PartHere DEF EndPart
    <3>2. PICK list \in InCanonicalOrder(Parts[part]) : written' = written \o list
      BY <3>1
    <3>3. list \in Seq(Sections)
      BY <1>1, <3>1, Accounted
    <3>4. list \in Seq(Pieces)
      BY <3>3 DEF Pieces
    <3>5. written' \in Seq(Pieces)
      BY <2>0, <3>2, <3>4, ConcatProperties
    <3> QED BY <2>0, <3>1, <3>5
  <2>4. CASE WriteSummary
    <3>1. UNCHANGED <<part, ended, writer>> /\ written' \in {written, <<Summary>> \o written}
      BY <2>4 DEF WriteSummary
    <3>2. <<Summary>> \o written \in Seq(Pieces)
      BY <2>0, Fronted DEF Pieces
    <3>3. written' \in Seq(Pieces)
      <4>1. CASE written' = written
        BY <2>0, <4>1
      <4>2. CASE written' = <<Summary>> \o written
        BY <3>2, <4>2, Zenon
      <4> QED BY <3>1, <4>1, <4>2, Zenon
    <3>4. /\ part' \in 1..Len(Parts) + 1 /\ ended' \in Seq(Sections)
          /\ writer' \in [Sections -> {"none", "first", "second", "ok", "empty"}]
      BY <2>0, <3>1
    <3> QED BY <3>3, <3>4
  <2>5. CASE Resume
    <3>1. /\ part' = 1 /\ ended' = <<>> /\ written' = <<>>
          /\ writer' = [s \in Sections |-> "none"]
      BY <2>5 DEF Resume, Fresh
    <3>2. 1 \in 1..Len(Parts) + 1
      BY <2>0
    <3> QED BY <3>1, <3>2
  <2>6. CASE UNCHANGED <<part, ended, written, writer>>
    BY <2>0, <2>6
  <2>7. \/ UNCHANGED runVars \/ Search \/ TakeCollected \/ Collected \/ Deepen \/ TakeGap
        \/ Deepened \/ EndReview \/ EndRun \/ Convert \/ Finalize \/ Stop \/ EnrichReport
        \/ \E pool \in Pools, u \in Urls : Validate(pool, u)
        => UNCHANGED <<part, ended, written, writer>>
    BY DEF runVars, Search, TakeCollected, Collected, Deepen, TakeGap, Deepened, EndReview, EndRun,
       Convert, Finalize, Stop, EnrichReport, Validate
  <2> QED BY <2>1, <2>2, <2>3, <2>4, <2>5, <2>6, <2>7 DEF RunNext
<1>6. material' \in [Pieces -> [context: Seq(Sections), given: Seq(Urls)]]
  <2>0. material \in [Pieces -> [context: Seq(Sections), given: Seq(Urls)]]
        /\ sources \in Seq(Urls)
    BY DEF RunTypeOK
  <2>1. CASE \E s \in Sections : StartSection(s)
    <3>1. PICK s \in Sections : StartSection(s)
      BY <2>1
    <3>2. stage = "write"
          /\ material' = [material EXCEPT ![s] = [context |-> written, given |-> sources]]
      BY <3>1 DEF StartSection
    <3>3. written \in Seq(Sections)
      BY <1>1, <3>2, NoSummaryIn DEF ReportInv, NoSummaryYet
    <3> QED BY <2>0, <3>2, <3>3
  <2>2. CASE WriteSummary
    <3>1. /\ stage = "write"
          /\ \/ material' = material
             \/ material' = [material EXCEPT ![Summary] = [context |-> written, given |-> sources]]
      BY <2>2 DEF WriteSummary
    <3>2. Summary \in Pieces
      BY DEF Pieces
    <3>3. written \in Seq(Sections)
      BY <1>1, <3>1, NoSummaryIn DEF ReportInv, NoSummaryYet
    <3>4. [context |-> written, given |-> sources] \in [context: Seq(Sections), given: Seq(Urls)]
      BY <2>0, <3>3
    <3> QED BY <2>0, <3>1, <3>2, <3>4
  <2>3. CASE EnrichReport
    <3>1. material' = material \/ \E s : material' = [material EXCEPT ![s].given = sources']
      BY <2>3 DEF EnrichReport
    <3> QED BY <1>2, <2>0, <3>1
  <2>4. CASE Resume
    <3>1. material' = [s \in Pieces |-> [context |-> <<>>, given |-> <<>>]]
      BY <2>4 DEF Resume, Fresh, Blank
    <3> QED BY <3>1
  <2>5. CASE UNCHANGED material
    BY <2>0, <2>5
  <2>6. \/ UNCHANGED runVars \/ Search \/ TakeCollected \/ Collected \/ Deepen \/ TakeGap
        \/ Deepened \/ EndReview \/ EndRun \/ Convert \/ Finalize \/ Stop \/ EndPart
        \/ \E s \in Sections : EndSection(s)
        \/ \E pool \in Pools, u \in Urls : Validate(pool, u)
        => UNCHANGED material
    BY DEF runVars, Search, TakeCollected, Collected, Deepen, TakeGap, Deepened, EndReview, EndRun,
       Convert, Finalize, Stop, EndPart, EndSection, Validate
  <2> QED BY <2>1, <2>2, <2>3, <2>4, <2>5, <2>6 DEF RunNext
<1>7. /\ looked' \in 0..scope.weak /\ run' \in 1..scope.runs
      /\ {markdown', document'} \subseteq 0..run' /\ shipped' \in BOOLEAN /\ passed' \in BOOLEAN
  <2>0. /\ looked \in 0..scope.weak /\ run \in 1..scope.runs
        /\ {markdown, document} \subseteq 0..run /\ shipped \in BOOLEAN /\ passed \in BOOLEAN
        /\ scope.weak \in Nat /\ scope.runs \in Nat
    BY <1>1, Bounds DEF RunTypeOK
  <2>1. CASE EnrichReport
    <3>1. /\ looked < scope.weak /\ looked' = looked + 1
          /\ UNCHANGED <<run, markdown, document, shipped, passed>>
      BY <2>1 DEF EnrichReport
    <3> QED BY <2>0, <3>1
  <2>2. CASE Convert
    <3>1. /\ UNCHANGED <<run, looked, passed>>
          /\ markdown' \in {markdown, run} /\ document' \in {document, 0, run}
          /\ shipped' = shipped \/ shipped' = TRUE
      BY <2>2 DEF Convert
    <3>2. shipped' \in BOOLEAN /\ passed' \in BOOLEAN
      BY <2>0, <3>1
    <3>3. markdown' \in 0..run /\ document' \in 0..run
      BY <2>0, <3>1
    <3> QED BY <2>0, <3>1, <3>2, <3>3
  <2>3. CASE Finalize
    <3>1. /\ UNCHANGED <<run, looked, markdown, document, shipped>>
          /\ passed' \in {FALSE, shipped /\ Complete}
      BY <2>3 DEF Finalize
    <3>2. passed' \in BOOLEAN
      BY <3>1
    <3> QED BY <2>0, <3>1, <3>2
  <2>4. CASE Resume
    <3>1. /\ run < scope.runs /\ run' = run + 1 /\ UNCHANGED <<markdown, document>>
          /\ looked' = 0 /\ shipped' = FALSE /\ passed' = passed
      BY <2>4 DEF Resume, Fresh
    <3>2. shipped' \in BOOLEAN /\ passed' \in BOOLEAN
      BY <2>0, <3>1
    <3>3. run' \in 1..scope.runs /\ markdown' \in 0..run' /\ document' \in 0..run'
      BY <2>0, <3>1
    <3> QED BY <2>0, <3>1, <3>2, <3>3
  <2>5. CASE UNCHANGED <<looked, run, markdown, document, shipped, passed>>
    BY <2>0, <2>5
  <2>6. \/ UNCHANGED runVars \/ Search \/ TakeCollected \/ Collected \/ Deepen \/ TakeGap
        \/ Deepened \/ EndReview \/ EndRun \/ Stop \/ EndPart \/ WriteSummary
        \/ \E s \in Sections : StartSection(s) \/ EndSection(s)
        \/ \E pool \in Pools, u \in Urls : Validate(pool, u)
        => UNCHANGED <<looked, run, markdown, document, shipped, passed>>
    BY DEF runVars, Search, TakeCollected, Collected, Deepen, TakeGap, Deepened, EndReview, EndRun,
       Stop, EndPart, WriteSummary, StartSection, EndSection, Validate
  <2> QED BY <2>1, <2>2, <2>3, <2>4, <2>5, <2>6 DEF RunNext
<1> QED BY <1>2, <1>3, <1>4, <1>5, <1>6, <1>7 DEF RunTypeOK

(* A research run keeps its types, its citation numbers, the order and the  *)
(* completeness of its report and an honest gate, for any sources, plan,    *)
(* quotas and number of threads, whatever threads end late, which sections  *)
(* fail and how often it is resumed.                                       *)
THEOREM ReportsAreSound == RunSpec => []ReportSound
<1>1. RunInit => RunTypeOK /\ RunInv /\ ReportInv
  <2>1. RunInit => ReportInv
    BY NothingWritten DEF RunInit, Scoped, Unwritten
  <2> QED BY <2>1, RunTypesInit, RunInvInit
<1>2. RunTypeOK /\ RunInv /\ ReportInv /\ [RunNext]_runVars => (RunTypeOK /\ RunInv /\ ReportInv)'
  BY RunTypesStep, RunInvStep, ReportStep
<1>3. ReportInv => ReportInOrder
  BY DEF ReportInv
<1> QED BY <1>1, <1>2, <1>3, CitationsKeepTheirSource, GatesAreHonest, PTL
        DEF RunSpec, ReportSound

-----------------------------------------------------------------------------
(* The lease of a folder.                                                    *)

(* Who is in an operation lives, and who has left a lease has lived.         *)
Living ==
    /\ \A t \in Tasks : pc[t] # "idle" => life[Me(t)] = "alive"
    /\ lease # NoToken => life[lease.process] # "unborn"

TokensOwn == \A p \in Processes : tokens[p] # NoToken => tokens[p].process = p

(* A try that found the name taken is not the last one yet.                  *)
Trying ==
    \A t \in Tasks :
        \/ pc[t] \in {"read", "judge", "clear", "cleared", "reclaim"}
        \/ pc[t] \in Releasing /\ ret[t] = "cleared"
        => tries[t] < 3

(* Two tasks of a process are not both inside a call.                        *)
OneCall ==
    \A t, u \in Tasks : t # u /\ Me(t) = Me(u) => ~Blocks(t) \/ ~Blocks(u)

(* Who has linked or works holds the lease that is on disk.                  *)
Holders ==
    \A t \in Tasks :
        /\ pc[t] = "note" => lease = seen[t] /\ lease # NoToken /\ lease.process = Me(t)
        /\ pc[t] = "working" => /\ lease = tokens[Me(t)] /\ lease # NoToken
                                /\ Me(t) \in mine /\ Me(t) \notin pending

(* What was read is of a process that has lived, and what is about to be     *)
(* reclaimed of one that is dead.                                            *)
Judged ==
    \A t \in Tasks :
        /\ pc[t] = "judge" => seen[t] # NoToken /\ life[seen[t].process] # "unborn"
        /\ pc[t] = "reclaim" => seen[t] # NoToken /\ life[seen[t].process] = "dead"

Releasers ==
    \A t \in Tasks :
        /\ pc[t] \in {"compare", "unlink", "forget"} =>
              seen[t] = tokens[Me(t)] /\ seen[t] # NoToken
        /\ pc[t] = "unlink" => lease = seen[t]

GuardsOnly == \A t \in Tasks : pc[t] \in {"body", "guard"} => kind[t] = "guarded"

(* What another task of the process may be at while one works, and what a    *)
(* guard that begins then notes.                                             *)
Beside == {"idle", "body", "link", "read", "judge", "active", "refused", "finish",
           "guard", "end"}
Workers ==
    \A t, u \in Tasks :
        t # u /\ Me(t) = Me(u) /\ pc[u] = "working" =>
            /\ pc[t] \in Beside
            /\ pc[t] = "judge" => seen[t] = tokens[Me(t)]
            /\ kind[t] = "guarded" /\ pc[t] # "idle" => before[t] = tokens[Me(t)]

(* All of this until a reclaim overtakes another.                            *)
Rest ==
    /\ Living /\ TokensOwn /\ OneCall
    /\ Holders /\ Judged /\ Releasers /\ GuardsOnly /\ Workers
Inv == TypeOK /\ Trying /\ (~overtaken => Rest)

USE ShapeAssumption, BoundsAssumption, NoTokenAssumption DEF Me

----------------------------------------------------------------------------

LEMMA InitInv == Init => Inv
<1> SUFFICES ASSUME Init PROVE Inv
    OBVIOUS
<1>1. TypeOK /\ Trying
  <2>1. overtaken \in BOOLEAN BY ONLY Init DEF Init
  <2> QED BY <2>1 DEF Init, TypeOK, Trying, Claiming, Releasing, Returns
<1>2. Living /\ TokensOwn
    BY DEF Init, Living, TokensOwn
<1>3. OneCall
    BY DEF Init, OneCall, Blocks, Claiming, Releasing
<1>4. Holders /\ Judged /\ Releasers /\ GuardsOnly /\ Workers
    BY DEF Init, Holders, Judged, Releasers, GuardsOnly, Workers
<1> QED BY <1>1, <1>2, <1>3, <1>4 DEF Inv, Rest

LEMMA TaskTypes ==
    TypeOK /\ Trying /\ (\E t \in Tasks : Acquire(t) \/ Releases(t) \/ Operation(t))
    => TypeOK' /\ Trying'
<1> SUFFICES ASSUME TypeOK, Trying, NEW t \in Tasks, Acquire(t) \/ Releases(t) \/ Operation(t)
             PROVE TypeOK' /\ Trying'
    OBVIOUS
<1> USE DEF TypeOK, Trying, Claiming, Releasing, Returns, At, Goto, Refuses, memory, world,
       leaseHistory
<1>1. CASE Link(t)
  <2>1. [process |-> Me(t), n |-> minted[Me(t)] + 1] \in Tokens BY DEF Tokens
  <2>2. minted[Me(t)] + 1 \in Nat OBVIOUS
  <2> QED BY <1>1, <2>1, <2>2 DEF Link
<1>2. CASE GiveUp(t) BY <1>2 DEF GiveUp
<1>3. CASE Note(t) BY <1>3 DEF Note, Tokens
<1>4. CASE Read(t) BY <1>4 DEF Read
<1>5. CASE Judge(t) BY <1>5 DEF Judge
<1>6. CASE Clear(t) BY <1>6 DEF Clear
<1>7. CASE Cleared(t) BY <1>7 DEF Cleared
<1>8. CASE Reclaim(t)
  <2>1. overtaken' \in BOOLEAN
    <3>1. \/ overtaken' = (overtaken \/ lease \notin {seen[t], NoToken})
          \/ overtaken' = overtaken
      BY ONLY <1>8 DEF Reclaim
    <3>2. (overtaken \/ lease \notin {seen[t], NoToken}) \in BOOLEAN BY ONLY Zenon
    <3> QED BY <3>1, <3>2
  <2> QED BY <1>8, <2>1 DEF Reclaim
<1>9. CASE Expect(t) BY <1>9 DEF Expect
<1>10. CASE Compare(t) BY <1>10 DEF Compare, Forgotten
<1>11. CASE Unlink(t) BY <1>11 DEF Unlink
<1>12. CASE Forget(t) BY <1>12 DEF Forget, Forgotten
<1>13. CASE BeginGuarded(t) BY <1>13 DEF BeginGuarded
<1>14. CASE BeginScoped(t) BY <1>14 DEF BeginScoped
<1>15. CASE Claim(t) BY <1>15 DEF Claim
<1>16. CASE Elsewhere(t) BY <1>16 DEF Elsewhere
<1>17. CASE Release(t) BY <1>17 DEF Release
<1>18. CASE LeaveToGuard(t) BY <1>18 DEF LeaveToGuard
<1>19. CASE Finish(t) BY <1>19 DEF Finish
<1>20. CASE Guard(t) BY <1>20 DEF Guard
<1>21. CASE End(t) BY <1>21 DEF End
<1> QED BY <1>1, <1>2, <1>3, <1>4, <1>5, <1>6, <1>7, <1>8, <1>9, <1>10, <1>11, <1>12,
           <1>13, <1>14, <1>15, <1>16, <1>17, <1>18, <1>19, <1>20, <1>21 DEF Acquire,
           Releases, Operation

(* The types hold whatever fails and whoever dies.                           *)
THEOREM LeaseTypeCorrect == Spec => []TypeOK
<1>1. Init => TypeOK /\ Trying BY InitInv DEF Inv
<1>2. TypeOK /\ Trying /\ [Next]_vars => TypeOK' /\ Trying'
  <2> SUFFICES ASSUME TypeOK, Trying, [Next]_vars PROVE TypeOK' /\ Trying'
      OBVIOUS
  <2> USE DEF TypeOK, Trying, Claiming, Releasing, memory, leaseHistory
  <2>1. CASE \E t \in Tasks : Acquire(t) \/ Releases(t) \/ Operation(t) BY <2>1, TaskTypes
  <2>2. ASSUME NEW p \in Processes, Crash(p) PROVE TypeOK' /\ Trying' BY <2>2 DEF Crash
  <2>3. ASSUME NEW p \in Processes, Start(p) PROVE TypeOK' /\ Trying' BY <2>3 DEF Start
  <2>4. CASE UNCHANGED vars BY <2>4 DEF vars
  <2> QED BY <2>1, <2>2, <2>3, <2>4 DEF Next
<1> QED BY <1>1, <1>2, PTL DEF Spec

LEMMA TaskSteps ==
    ASSUME TypeOK, Rest, TypeOK', ~overtaken, ~overtaken', NEW t \in Tasks
    PROVE Acquire(t) \/ Releases(t) \/ Operation(t) => Rest'
<1> USE DEF TypeOK, Living, TokensOwn, OneCall, Holders, Judged, Releasers,
       GuardsOnly, Workers, Beside, Rest, Blocks, Claiming, Releasing, At, Goto, memory,
       world, leaseHistory
<1>1. ASSUME Link(t) PROVE Rest'
  <2>1. CASE lease # NoToken BY <1>1, <2>1 DEF Link
  <2>2. CASE lease = NoToken
    <3>1. /\ lease' = [process |-> Me(t), n |-> minted[Me(t)] + 1]
          /\ lease' \in Tokens /\ lease'.process = Me(t) /\ seen'[t] = lease'
          /\ life'[Me(t)] = "alive"
      BY <1>1, <2>2 DEF Link, Tokens
    <3>2. \A v \in Tasks : pc[v] \notin {"note", "working", "unlink"} BY <2>2
    <3>3. Living' /\ TokensOwn' /\ Judged' /\ GuardsOnly' BY <1>1, <2>2, <3>1 DEF Link
    <3>4. OneCall' BY <1>1, <2>2 DEF Link
    <3>5. Holders' BY <1>1, <2>2, <3>1, <3>2 DEF Link
    <3>6. Releasers' /\ Workers' BY <1>1, <2>2, <3>2 DEF Link
    <3> QED BY <3>3, <3>4, <3>5, <3>6
  <2> QED BY <2>1, <2>2
<1>2. ASSUME GiveUp(t) PROVE Rest' BY SMTT(30), <1>2 DEF GiveUp
<1>3. ASSUME Note(t) PROVE Rest'
  <2>1. ASSUME NEW v \in Tasks, pc[v] = "working" PROVE FALSE
    <3>1. lease = tokens[Me(v)] /\ lease = seen[t] /\ lease # NoToken /\ lease.process = Me(t)
      BY <1>3, <2>1 DEF Note
    <3>2. Me(v) = Me(t)
      <4>1. Me(v) \in Processes OBVIOUS
      <4>2. \A p \in Processes : tokens[p] # NoToken => tokens[p].process = p OBVIOUS
      <4>3. tokens[Me(v)] # NoToken BY ONLY <3>1
      <4>4. tokens[Me(v)].process = Me(v) BY ONLY <4>1, <4>2, <4>3
      <4> QED BY ONLY <3>1, <4>4
    <3>3. pc[t] = "note" BY <1>3 DEF Note
    <3>4. t # v BY <2>1, <3>3
    <3>5. \A x, y \in Tasks : x # y /\ Me(x) = Me(y) /\ pc[y] = "working" => pc[x] \in Beside
      OBVIOUS
    <3>6. pc[t] \in Beside BY ONLY <2>1, <3>2, <3>4, <3>5
    <3> QED BY ONLY <3>3, <3>6 DEF Beside
  <2>2. Living' /\ TokensOwn' /\ Judged' /\ GuardsOnly' BY <1>3 DEF Note
  <2>3. OneCall' BY <1>3 DEF Note
  <2>4. Holders' BY <1>3, <2>1 DEF Note
  <2>5. Releasers' BY <1>3 DEF Note
  <2>6. Workers' BY <1>3, <2>1 DEF Note
  <2> QED BY <2>2, <2>3, <2>4, <2>5, <2>6
<1>4. ASSUME Read(t) PROVE Rest' BY SMTT(30), <1>4 DEF Read
<1>5. ASSUME Judge(t) PROVE Rest'
  <2>1. seen[t] # NoToken /\ seen[t].process \in Processes /\ life[seen[t].process] # "unborn"
    BY <1>5 DEF Judge, Tokens
  <2>2. life[seen[t].process] = "alive" => Running(HostOf[seen[t].process], PidOf[seen[t].process])
    BY <2>1 DEF Running
  <2>3. /\ pc'[t] \in {"clear", "refused", "active", "reclaim"}
        /\ pc'[t] = "clear" => Me(t) \in pending
        /\ pc'[t] = "reclaim" => life[seen[t].process] = "dead"
    BY <1>5, <2>1, <2>2 DEF Judge
  <2>4. Living' /\ TokensOwn' /\ GuardsOnly' BY <1>5, <2>3 DEF Judge
  <2>5. OneCall' BY <1>5, <2>3 DEF Judge
  <2>6. Holders' BY <1>5, <2>3 DEF Judge
  <2>7. Judged'
    <3>1. life' = life /\ seen' = seen BY <1>5 DEF Judge
    <3>2. \A v \in Tasks : v # t => pc'[v] = pc[v] BY <1>5 DEF Judge
    <3> QED BY <2>3, <2>1, <3>1, <3>2
  <2>9. Releasers' BY <1>5, <2>3 DEF Judge
  <2>8. Workers'
    <3>1. ASSUME NEW u \in Tasks, u # t, Me(u) = Me(t), pc[u] = "working"
          PROVE  pc'[t] \notin {"clear", "reclaim"}
      <4>1. pc[t] = "judge" /\ life[Me(t)] = "alive" BY <1>5 DEF Judge
      <4>2. seen[t] = tokens[Me(t)] /\ tokens[Me(t)] # NoToken /\ Me(t) \notin pending
        BY <3>1, <4>1
      <4>3. seen[t].process = Me(t) BY <4>2
      <4> QED BY <2>3, <4>1, <4>2, <4>3
    <3> QED BY <1>5, <2>3, <3>1 DEF Judge
  <2> QED BY <2>4, <2>5, <2>6, <2>7, <2>8, <2>9
<1>6. ASSUME Clear(t) PROVE Rest' BY SMTT(30), <1>6 DEF Clear
<1>7. ASSUME Cleared(t) PROVE Rest' BY SMTT(30), <1>7 DEF Cleared
<1>8. ASSUME Reclaim(t) PROVE Rest'
  <2>1. seen[t] # NoToken /\ seen[t].process \in Processes /\ life[seen[t].process] = "dead"
    BY <1>8 DEF Reclaim, Tokens
  <2>2. lease' = lease \/ (lease' = NoToken /\ lease \in {seen[t], NoToken})
    BY <1>8 DEF Reclaim
  <2>3. ASSUME NEW v \in Tasks, lease # NoToken, lease.process = Me(v), pc[v] # "idle"
        PROVE  lease' = lease
    BY <2>1, <2>2, <2>3
  <2>4. \A v \in Tasks : pc[v] \in {"note", "working", "unlink"} =>
              lease # NoToken /\ lease.process = Me(v)
    OBVIOUS
  <2>5. \A v \in Tasks : pc[v] \in {"note", "working", "unlink"} => lease' = lease
    BY <2>3, <2>4
  <2>6. Living' /\ TokensOwn' /\ Judged' /\ GuardsOnly' BY <1>8, <2>2 DEF Reclaim
  <2>7. OneCall' BY <1>8 DEF Reclaim
  <2>8. Holders' BY <1>8, <2>5 DEF Reclaim
  <2>9. Releasers' BY <1>8, <2>5 DEF Reclaim
  <2>10. Workers' BY <1>8 DEF Reclaim
  <2> QED BY <2>6, <2>7, <2>8, <2>9, <2>10
<1>9. ASSUME Expect(t) PROVE Rest' BY SMTT(30), <1>9 DEF Expect, Returns
<1>10. ASSUME Compare(t) PROVE Rest' BY SMTT(60), <1>10 DEF Compare, Forgotten, Returns
<1>11. ASSUME Unlink(t) PROVE Rest' BY SMTT(30), <1>11 DEF Unlink, Returns
<1>12. ASSUME Forget(t) PROVE Rest' BY SMTT(30), <1>12 DEF Forget, Forgotten, Returns
<1>13. ASSUME BeginGuarded(t) PROVE Rest' BY SMTT(30), <1>13 DEF BeginGuarded
<1>14. ASSUME BeginScoped(t) PROVE Rest' BY SMTT(30), <1>14 DEF BeginScoped
<1>15. ASSUME Claim(t) PROVE Rest' BY SMTT(30), <1>15 DEF Claim
<1>16. ASSUME Elsewhere(t) PROVE Rest' BY SMTT(30), <1>16 DEF Elsewhere
<1>17. ASSUME Release(t) PROVE Rest' BY SMTT(30), <1>17 DEF Release
<1>18. ASSUME LeaveToGuard(t) PROVE Rest' BY SMTT(30), <1>18 DEF LeaveToGuard
<1>19. ASSUME Finish(t) PROVE Rest' BY SMTT(30), <1>19 DEF Finish
<1>20. ASSUME Guard(t) PROVE Rest' BY SMTT(30), <1>20 DEF Guard
<1>21. ASSUME End(t) PROVE Rest' BY SMTT(30), <1>21 DEF End
<1> QED BY <1>1, <1>2, <1>3, <1>4, <1>5, <1>6, <1>7, <1>8, <1>9, <1>10, <1>11, <1>12,
           <1>13, <1>14, <1>15, <1>16, <1>17, <1>18, <1>19, <1>20, <1>21 DEF Acquire,
           Releases, Operation

LEMMA ProcessSteps ==
    ASSUME TypeOK, Trying, NEW p \in Processes, Crash(p) \/ Start(p)
    PROVE TypeOK' /\ Trying' /\ (Rest => Rest')
<1> USE DEF TypeOK, Trying, memory, leaseHistory, Claiming, Releasing, Living, TokensOwn,
       OneCall, Holders,
       Judged, Releasers, GuardsOnly, Workers, Beside, Rest, Blocks
<1>1. CASE Crash(p)
  <2>1. TypeOK' /\ Trying' BY <1>1 DEF Crash
  <2> SUFFICES ASSUME Rest PROVE Rest' BY <2>1
  <2>2. \A t \in Tasks : Me(t) # p => Me(t) \in Processes /\ tokens'[Me(t)] = tokens[Me(t)]
              /\ pc'[t] = pc[t] /\ life'[Me(t)] = life[Me(t)]
    BY <1>1 DEF Crash
  <2>3. \A t \in Tasks : Me(t) = p => pc'[t] = "idle" BY <1>1 DEF Crash
  <2>4. /\ \A q \in Processes : life[q] # "unborn" => life'[q] # "unborn"
        /\ \A q \in Processes : life[q] = "dead" => life'[q] = "dead"
    BY <1>1 DEF Crash
  <2>5. \A x \in Tokens : x.process \in Processes BY DEF Tokens
  <2>6. Living' BY <1>1, <2>2, <2>3, <2>4, <2>5 DEF Crash
  <2>7. TokensOwn' /\ GuardsOnly' BY <1>1 DEF Crash
  <2>8. OneCall' BY <1>1 DEF Crash
  <2>9. Holders' BY <1>1, <2>2, <2>3 DEF Crash
  <2>10. Judged' BY <1>1, <2>2, <2>3, <2>4, <2>5 DEF Crash
  <2>11. Releasers' BY <1>1, <2>2, <2>3 DEF Crash
  <2>12. Workers' BY <1>1, <2>2, <2>3 DEF Crash
  <2> QED BY <2>6, <2>7, <2>8, <2>9, <2>10, <2>11, <2>12
<1>2. CASE Start(p)
  <2>1. TypeOK' /\ Trying' BY <1>2 DEF Start
  <2> SUFFICES ASSUME Rest PROVE Rest' BY <2>1
  <2>2. \A x \in Tokens : x.process \in Processes BY DEF Tokens
  <2>3. Living' /\ TokensOwn' /\ OneCall' /\ GuardsOnly' BY <1>2, <2>2 DEF Start
  <2>4. Holders' /\ Releasers' /\ Workers' BY <1>2 DEF Start
  <2>5. Judged' BY <1>2, <2>2 DEF Start
  <2> QED BY <2>3, <2>4, <2>5
<1> QED BY <1>1, <1>2

(* What has been overtaken stays so.                                         *)
LEMMA OvertakenStays == TypeOK /\ [Next]_vars => (overtaken => overtaken')
<1> SUFFICES ASSUME TypeOK, [Next]_vars, overtaken PROVE overtaken'
    OBVIOUS
<1> USE DEF world, leaseHistory
<1>1. ASSUME NEW t \in Tasks, Acquire(t) PROVE overtaken'
    BY <1>1 DEF Acquire, Link, GiveUp, Note, Read, Judge, Clear, Cleared, Reclaim
<1>2. ASSUME NEW t \in Tasks, Releases(t) PROVE overtaken'
    BY <1>2 DEF Releases, Expect, Compare, Unlink, Forget
<1>3. ASSUME NEW t \in Tasks, Operation(t) PROVE overtaken'
    BY <1>3 DEF Operation, BeginGuarded, BeginScoped, Claim, Elsewhere, Release,
       LeaveToGuard, Finish, Guard, End
<1>4. ASSUME NEW p \in Processes, Crash(p) \/ Start(p) PROVE overtaken'
    BY <1>4 DEF Crash, Start
<1>5. CASE UNCHANGED vars BY <1>5 DEF vars
<1> QED BY <1>1, <1>2, <1>3, <1>4, <1>5 DEF Next

LEMMA InvStep == Inv /\ [Next]_vars => Inv'
<1> SUFFICES ASSUME Inv, [Next]_vars PROVE Inv'
    OBVIOUS
<1>0. TypeOK /\ Trying /\ (~overtaken' => ~overtaken /\ Rest) BY OvertakenStays DEF Inv, TypeOK
<1>1. ASSUME NEW t \in Tasks, Acquire(t) \/ Releases(t) \/ Operation(t) PROVE Inv'
  <2>1. TypeOK' /\ Trying' BY <1>0, <1>1, TaskTypes
  <2>2. ~overtaken' => Rest' BY <1>0, <1>1, <2>1, TaskSteps
  <2> QED BY <2>1, <2>2 DEF Inv
<1>2. ASSUME NEW p \in Processes, Crash(p) \/ Start(p) PROVE Inv'
    BY <1>0, <1>2, ProcessSteps DEF Inv
<1>3. ASSUME UNCHANGED vars PROVE Inv'
    BY <1>3 DEF vars, Inv, TypeOK, Trying, Rest, Living, TokensOwn, OneCall, Holders,
       Judged, Releasers, GuardsOnly, Workers, Blocks, Tokens
<1> QED BY <1>1, <1>2, <1>3 DEF Next

----------------------------------------------------------------------------
(* Publication is exclusive and an owner keeps its record, for any processes *)
(* and tasks, whoever dies, whichever pid is used again and whatever is      *)
(* refused, until a reclaim unlinks another record than the one it read      *)
(* (workspace.py:309 to 340): there is no other way to two owners.           *)
THEOREM OwnersExcludeEachOther == Spec => []ExclusiveUntilOvertaken
<1>1. Inv /\ ~overtaken => OwnerHasLease
    BY DEF Inv, Rest, Holders, OwnerHasLease, Owners
<1>2. Inv /\ ~overtaken => OneOwner
  <2> SUFFICES ASSUME Inv, ~overtaken PROVE Cardinality(Owners) <= 1
      BY DEF OneOwner
  <2>1. ASSUME NEW t \in Owners, NEW u \in Owners PROVE t = u
    <3>1. lease = tokens[Me(t)] /\ lease = tokens[Me(u)] /\ lease # NoToken
        BY <2>1 DEF Inv, Rest, Holders, Owners
    <3>2. Me(t) = Me(u) BY <3>1, <2>1 DEF Inv, Rest, TokensOwn, Owners
    <3> QED BY <2>1, <3>2 DEF Inv, Rest, Workers, Beside, Owners
  <2>2. CASE Owners = {} BY <2>2, FS_EmptySet
  <2>3. CASE Owners # {}
    <3>1. PICK t \in Owners : TRUE BY <2>3
    <3>2. Owners = {t} BY <2>1, <3>1
    <3>3. Cardinality({t}) = 1 BY FS_Singleton
    <3> QED BY <3>2, <3>3
  <2> QED BY <2>2, <2>3
<1>3. Inv => ExclusiveUntilOvertaken
    BY <1>1, <1>2 DEF ExclusiveUntilOvertaken
<1> QED BY InitInv, InvStep, <1>3, PTL DEF Spec

-----------------------------------------------------------------------------
(* The strategy stage.                                                       *)

(* What a command asks for is a finite number of vendors and of strategies.  *)
LEMMA OrderShape ==
  ASSUME order \in Orders
  PROVE  /\ Len(Platforms) \in Nat /\ Len(Types) \in Nat
         /\ \A i \in 1..Len(Platforms) : Platforms[i] \in Vendors
         /\ \A i \in 1..Len(Types) : Types[i] \in Targets
         /\ Vendors \subseteq Targets /\ Requested \subseteq Vendors
         /\ IsFiniteSet(Vendors) /\ IsFiniteSet(Requested)
         /\ Len(Platforms) <= 1 => \A v, w \in Vendors : v = w
<1>. DEFINE s == Platforms
<1>1. s \in Seq(Vendors) /\ Types \in Seq(ElementsOf(Types))
  BY StrategyAssumption DEF Platforms, Types, Vendors
<1>2. Len(s) \in Nat /\ Len(Types) \in Nat /\ DOMAIN s = 1..Len(s)
  BY <1>1
<1>3. Vendors = {s[i] : i \in 1..Len(s)}
  BY DEF Vendors, ElementsOf
<1>4. s \in Surjection(1..Len(s), Vendors)
  <2>1. s \in [1..Len(s) -> Vendors]
    BY <1>1
  <2>2. \A v \in Vendors : \E i \in 1..Len(s) : s[i] = v
    BY <1>3
  <2>. QED  BY <2>1, <2>2 DEF Surjection
<1>5. IsFiniteSet(1..Len(s))
  BY <1>2, FS_Interval
<1>6. IsFiniteSet(Vendors)
  BY <1>4, <1>5, FS_Surjection
<1>7. Requested \subseteq Vendors
  BY DEF Requested
<1>8. IsFiniteSet(Requested)
  BY <1>6, <1>7, FS_Subset
<1>9. Len(s) <= 1 => \A v, w \in Vendors : v = w
  BY <1>2, <1>3
<1>10. \A i \in 1..Len(Types) : Types[i] \in Targets
  BY DEF Targets, ElementsOf
<1>. QED  BY <1>2, <1>3, <1>6, <1>7, <1>8, <1>9, <1>10 DEF Targets

(* The refresh tasks that reached the provider: more or as many after one.   *)
LEMMA TasksCounted ==
  ASSUME order \in Orders, started \subseteq Requested, NEW v \in Requested
  PROVE  /\ Cardinality(started) \in Nat
         /\ Cardinality(started \cup {v}) \in {Cardinality(started), Cardinality(started) + 1}
<1>1. IsFiniteSet(started)
  BY OrderShape, FS_Subset
<1>. QED  BY <1>1, FS_CardinalityType, FS_AddElement

LEMMA TasksANumber ==
  ASSUME order \in Orders, started \subseteq Requested
  PROVE  Cardinality(started) \in Nat
BY OrderShape, FS_Subset, FS_CardinalityType

LEMMA CostsGrow ==
  ASSUME NEW n \in Nat, NEW a \in Nat, NEW b \in Nat, a <= b
  PROVE  n * a <= n * b /\ n * a \in Nat /\ (n + 1) * a = n * a + a
<1>1. PICK d \in Nat : b = a + d
  <2>. b - a \in Nat /\ b = a + (b - a)
    OBVIOUS
  <2>. QED  OBVIOUS
<1>2. n * (a + d) = n * a + n * d /\ n * d \in Nat /\ n * a \in Nat
  OBVIOUS
<1>. QED  BY <1>1, <1>2

(* The money of the session is a whole number, and what a refresh really     *)
(* costs is no more than what is booked for it.                              *)
LEMMA MoneyCounted ==
  ASSUME StrategyTypeOK
  PROVE  Observed \in Nat /\ Paid \in Nat /\ Paid <= Observed
<1>. DEFINE n == Cardinality(started)
<1>1. n \in Nat
  BY TasksANumber DEF StrategyTypeOK
<1>2. ledger \in Nat /\ LiteCost \in Nat /\ FlatCost \in Nat /\ LiteCost <= FlatCost
  BY StrategyAssumption DEF StrategyTypeOK
<1>. HIDE DEF n
<1>3. n * LiteCost <= n * FlatCost /\ n * LiteCost \in Nat /\ n * FlatCost \in Nat
  BY <1>1, <1>2, CostsGrow
<1>4. Observed = ledger + n * FlatCost /\ Paid = ledger + n * LiteCost
  BY DEF Observed, Paid, n
<1>. QED  BY <1>2, <1>3, <1>4

(* The run is where its workers are: outside the pool none is at work.       *)
StrategyPlaces ==
  /\ next >= 1
  /\ strategyPhase \in {"enter", "refresh"} => \A v \in Vendors : worker[v] = "queued"
  /\ strategyPhase # "pool" => \A v \in Vendors : worker[v] \in {"queued", "over"}
  /\ strategyPhase = "types" => \A v \in Vendors : worker[v] = "over"
  /\ exit # -1 => strategyPhase = "done"

(* A task that reached the provider was recorded, and as something else than *)
(* skipped.                                                                  *)
StrategyRecords ==
  /\ OutcomeTruthful
  /\ briefs \subseteq Requested
  /\ \A v \in started : refreshed[v] \in {"completed", "failed"}

(* No number the run ever compares with the ceiling is beyond its spend.     *)
StrategySpend ==
  /\ spent <= Observed
  /\ \A v \in Vendors : observed[v] <= Observed
  /\ SkippedAtObservedCeiling
  /\ strategyPhase = "refresh" => Observed < MaxCost

(* Where the documents are written one at a time, the spend a worker last    *)
(* saw is the spend, until its call is paid.                                 *)
StrategySerial ==
  (Len(Platforms) <= 1 /\ gate = "open" /\ strategyPhase # "enter") =>
    /\ Observed < MaxCost + DocCost + EnrichCost
    /\ \A v \in Vendors :
         /\ worker[v] = "sync" => observed[v] = Observed
         /\ worker[v] = "check" => spent = Observed
         /\ worker[v] = "call" => Observed < MaxCost
         /\ worker[v] = "enrich" => Observed < MaxCost + DocCost

StrategyInv ==
  StrategyTypeOK /\ StrategyPlaces /\ StrategyRecords /\ StrategySpend /\ StrategySerial

LEMMA OrderStays ==
  ASSUME UNCHANGED order
  PROVE  /\ Platforms' = Platforms /\ Types' = Types /\ Vendors' = Vendors
         /\ Targets' = Targets /\ Requested' = Requested
BY DEF Platforms, Types, Vendors, Targets, Requested, ElementsOf

(* Every step of the stage is one of these.                                  *)
LEMMA StrategySteps ==
  ASSUME StrategyNext
  PROVE  /\ UNCHANGED order
         /\ \/ EnterStage \/ SettleVendor \/ OpenPool \/ OpenTypes \/ SettleType
            \/ CloseStage \/ Conclude
            \/ \E v \in Vendors : \/ Observe(v) \/ SyncSpend(v) \/ BeginCall(v)
                                  \/ SkipPlatform(v) \/ CallAnswered(v) \/ CallFailed(v)
                                  \/ Enrich(v) \/ Save(v) \/ SaveRaises(v)
BY DEF StrategyNext, Worker

LEMMA MarksTyped ==
  ASSUME NEW S, NEW f \in [S -> Verdicts], NEW t \in S
  PROVE  /\ SkipRest(f) \in [S -> Verdicts] /\ Snapshot(f) \in [S -> Verdicts]
         /\ MarkCompleted(f, t) \in [S -> Verdicts] /\ MarkFailed(f, t) \in [S -> Verdicts]
         /\ MarkSkipped(f, t) \in [S -> Verdicts]
BY DEF SkipRest, Snapshot, MarkCompleted, MarkFailed, MarkSkipped, Verdicts

(* The marks of the trackers: a mark changes one entry, and none but         *)
(* MarkCompleted makes anything completed or undoes it.                      *)
LEMMA MarksOf ==
  ASSUME NEW S, NEW f \in [S -> Verdicts], NEW t \in S, NEW x \in S
  PROVE  /\ MarkCompleted(f, t)[x] = IF x = t THEN "completed" ELSE f[x]
         /\ MarkFailed(f, t)[x] = IF x = t /\ f[x] # "completed" THEN "failed" ELSE f[x]
         /\ MarkSkipped(f, t)[x] =
              IF x = t /\ f[x] \notin {"completed", "failed"} THEN "skipped" ELSE f[x]
         /\ SkipRest(f)[x] = IF f[x] = "none" THEN "skipped" ELSE f[x]
         /\ Snapshot(f)[x] = IF f[x] = "none" THEN "failed" ELSE f[x]
BY DEF SkipRest, Snapshot, MarkCompleted, MarkFailed, MarkSkipped, Verdicts

LEMMA StrategyTyped ==
  ASSUME StrategyTypeOK, StrategyPlaces, StrategyNext
  PROVE  StrategyTypeOK'
<1>13. next \in Nat /\ ledger \in Nat /\ spent \in Nat /\ order \in Orders
  BY DEF StrategyTypeOK
<1>14. /\ briefs \subseteq Vendors /\ started \subseteq Requested
      /\ refreshed \in [Requested -> Verdicts] /\ outcome \in [Targets -> Verdicts]
  BY DEF StrategyTypeOK
<1>0. /\ UNCHANGED order /\ Platforms' = Platforms /\ Types' = Types /\ Vendors' = Vendors
      /\ Targets' = Targets /\ Requested' = Requested
  BY StrategySteps, OrderStays
<1>1. /\ \A i \in 1..Len(Platforms) : Platforms[i] \in Vendors
      /\ \A i \in 1..Len(Types) : Types[i] \in Targets
      /\ Vendors \subseteq Targets /\ Requested \subseteq Vendors
      /\ Len(Platforms) \in Nat /\ Len(Types) \in Nat
  BY <1>13, OrderShape
<1>2. Observed \in Nat
  BY MoneyCounted
<1>3. DocCost \in Nat /\ EnrichCost \in Nat
  BY StrategyAssumption
<1>4. next >= 1
  BY DEF StrategyPlaces
<1>5. CASE EnterStage
  <2>1. SkipRest(outcome) \in [Targets -> Verdicts]
    BY <1>14 DEF SkipRest, Verdicts
  <2>2. SkipRest(refreshed) \in [Requested -> Verdicts]
    BY <1>14 DEF SkipRest, Verdicts
  <2>. QED  BY <1>5, <1>0, <1>2, <2>1, <2>2 DEF EnterStage, SkipStage, news, StrategyTypeOK
<1>6. CASE SettleVendor
  <2>1. PICK v \in Vendors : PassVendor(v) \/ RefuseVendor(v) \/ RefreshVendor(v)
    <3>1. Platforms[next] \in Vendors
      BY <1>6, <1>1, <1>4, <1>13 DEF SettleVendor
    <3>. QED  BY <1>6, <3>1 DEF SettleVendor
  <2>2. \A x \in Requested : /\ MarkSkipped(refreshed, x) \in [Requested -> Verdicts]
                             /\ MarkFailed(refreshed, x) \in [Requested -> Verdicts]
                             /\ MarkCompleted(refreshed, x) \in [Requested -> Verdicts]
    BY <1>14, MarksTyped
  <2>3. /\ next' \in Nat
        /\ UNCHANGED <<strategyPhase, ledger, outcome, saved, worker, observed, gate, exit>>
    BY <1>6, <1>13 DEF SettleVendor
  <2>4. /\ spent' \in Nat /\ cache' \in [Vendors -> {"fresh", "stale"}]
        /\ briefs' \subseteq Vendors /\ started' \subseteq Requested
        /\ refreshed' \in [Requested -> Verdicts]
    <3>1. CASE PassVendor(v)
      BY <3>1, <1>2, <2>2, <1>14, <1>13, <1>0 DEF PassVendor, StrategyTypeOK
    <3>2. CASE RefuseVendor(v)
      BY <3>2, <1>2, <2>2, <1>14, <1>0 DEF RefuseVendor, StrategyTypeOK
    <3>3. CASE RefreshVendor(v)
      BY <3>3, <1>1, <1>2, <2>2, <1>14, <1>0 DEF RefreshVendor, StrategyTypeOK
    <3>. QED  BY <2>1, <3>1, <3>2, <3>3
  <2>. QED  BY <1>0, <2>3, <2>4 DEF StrategyTypeOK
<1>7. CASE OpenPool
  BY <1>7, <1>0 DEF OpenPool, money, news, StrategyTypeOK
<1>8. CASE OpenTypes
  BY <1>8, <1>0 DEF OpenTypes, money, news, StrategyTypeOK
<1>9. CASE SettleType
  <2>1. UNCHANGED <<cache, briefs, started, refreshed, worker, observed, gate>>
    BY <1>9 DEF SettleType, news
  <2>2. CASE StopTypes
    <3>1. SkipRest(outcome) \in [Targets -> Verdicts]
      BY <1>14 DEF SkipRest, Verdicts
    <3>2. spent' \in Nat /\ next' \in Nat
      BY <2>2, <1>1, <1>2 DEF StopTypes
    <3>. QED  BY <2>1, <2>2, <3>1, <3>2, <1>0 DEF StopTypes, StrategyTypeOK
  <2>3. CASE WriteType(Types[next])
    <3>1. Types[next] \in Targets
      BY <1>9, <1>1, <1>4, <1>13 DEF SettleType
    <3>2. /\ MarkFailed(outcome, Types[next]) \in [Targets -> Verdicts]
          /\ MarkCompleted(outcome, Types[next]) \in [Targets -> Verdicts]
      BY <3>1, <1>14, MarksTyped
    <3>3. spent' \in Nat /\ next' \in Nat /\ ledger' \in Nat
      BY <2>3, <1>2, <1>3, <1>13 DEF WriteType
    <3>4. outcome' \in [Targets -> Verdicts] /\ saved' \subseteq Targets
      BY <2>3, <3>1, <3>2, <1>14, <1>0 DEF WriteType, StrategyTypeOK
    <3>5. strategyPhase' \in {strategyPhase, "done"} /\ exit' \in {exit, 1}
      BY <2>3 DEF WriteType
    <3>. QED  BY <2>1, <3>3, <3>4, <3>5, <1>0 DEF StrategyTypeOK
  <2>. QED  BY <1>9, <2>2, <2>3 DEF SettleType
<1>10. CASE CloseStage
  BY <1>10, <1>0 DEF CloseStage, money, news, StrategyTypeOK
<1>11. CASE Conclude
  <2>1. Snapshot(outcome) \in [Targets -> Verdicts]
    BY <1>14 DEF Snapshot, Verdicts
  <2>2. Snapshot(refreshed) \in [Requested -> Verdicts]
    BY <1>14 DEF Snapshot, Verdicts
  <2>. QED  BY <1>11, <1>0, <2>1, <2>2 DEF Conclude, money, StrategyTypeOK
<1>12. ASSUME NEW v \in Vendors,
              \/ Observe(v) \/ SyncSpend(v) \/ BeginCall(v) \/ SkipPlatform(v)
              \/ CallAnswered(v) \/ CallFailed(v) \/ Enrich(v) \/ Save(v) \/ SaveRaises(v)
       PROVE  StrategyTypeOK'
  <2>. USE <1>0
  <2>1. v \in Targets
    BY <1>1
  <2>2. /\ MarkFailed(outcome, v) \in [Targets -> Verdicts]
        /\ MarkCompleted(outcome, v) \in [Targets -> Verdicts]
        /\ MarkSkipped(outcome, v) \in [Targets -> Verdicts]
    BY <2>1, <1>14, MarksTyped
  <2>3. CASE Observe(v)
    BY <2>3, <1>2 DEF StrategyTypeOK, Observe, WorkerAt, money, news
  <2>4. CASE SyncSpend(v)
    BY <2>4 DEF StrategyTypeOK, SyncSpend, WorkerAt, news
  <2>5. CASE BeginCall(v)
    BY <2>5 DEF StrategyTypeOK, BeginCall, WorkerAt, money, news
  <2>6. CASE SkipPlatform(v)
    BY <2>6, <2>2 DEF StrategyTypeOK, SkipPlatform, WorkerAt, money, news
  <2>7. CASE CallAnswered(v)
    <3>1. ledger' \in Nat
      BY <2>7, <1>3, <1>13 DEF CallAnswered
    <3>. QED  BY <2>7, <3>1 DEF StrategyTypeOK, CallAnswered, WorkerAt, news
  <2>8. CASE CallFailed(v)
    <3>1. ledger' \in Nat
      BY <2>8, <1>3, <1>13 DEF CallFailed
    <3>. QED  BY <2>8, <2>2, <3>1 DEF StrategyTypeOK, CallFailed, WorkerAt, news
  <2>9. CASE Enrich(v)
    <3>1. ledger' \in Nat
      BY <2>9, <1>3, <1>13 DEF Enrich
    <3>. QED  BY <2>9, <3>1 DEF StrategyTypeOK, Enrich, WorkerAt, news
  <2>10. CASE Save(v)
    BY <2>10, <2>1, <2>2 DEF StrategyTypeOK, Save, WorkerAt, money, news
  <2>11. CASE SaveRaises(v)
    BY <2>11, <2>2 DEF StrategyTypeOK, SaveRaises, WorkerAt, money, news
  <2>. QED  BY <1>12, <2>3, <2>4, <2>5, <2>6, <2>7, <2>8, <2>9, <2>10, <2>11
<1>. QED  BY StrategySteps, <1>5, <1>6, <1>7, <1>8, <1>9, <1>10, <1>11, <1>12

LEMMA StrategyPlacesKept ==
  ASSUME StrategyTypeOK, StrategyPlaces, StrategyNext
  PROVE  StrategyPlaces'
<1>1. /\ Vendors' = Vendors /\ Platforms' = Platforms
      /\ Len(Platforms) \in Nat
      /\ Len(Platforms) <= 1 => \A v, w \in Vendors : v = w
  BY StrategySteps, OrderStays, OrderShape DEF StrategyTypeOK
<1>2. next \in Nat /\ next >= 1
  BY DEF StrategyTypeOK, StrategyPlaces
<1>3. DOMAIN worker = Vendors
  BY DEF StrategyTypeOK
<1>. DEFINE Stay == /\ strategyPhase \in {"enter", "refresh"} =>
                          \A v \in Vendors : worker[v] = "queued"
                    /\ strategyPhase # "pool" =>
                          \A v \in Vendors : worker[v] \in {"queued", "over"}
                    /\ strategyPhase = "types" => \A v \in Vendors : worker[v] = "over"
                    /\ exit # -1 => strategyPhase = "done"
<1>4. Stay
  BY DEF StrategyPlaces
<1>5. next' >= 1
  <2>1. next' \in {next, next + 1, 1, Len(Types) + 1}
    <3>1. CASE EnterStage  BY <3>1 DEF EnterStage, SkipStage
    <3>2. CASE SettleVendor  BY <3>2 DEF SettleVendor
    <3>3. CASE OpenPool  BY <3>3 DEF OpenPool
    <3>4. CASE OpenTypes  BY <3>4 DEF OpenTypes
    <3>5. CASE SettleType  BY <3>5 DEF SettleType, StopTypes, WriteType
    <3>6. CASE CloseStage  BY <3>6 DEF CloseStage
    <3>7. CASE Conclude  BY <3>7 DEF Conclude
    <3>8. ASSUME NEW v \in Vendors,
                \/ Observe(v) \/ SyncSpend(v) \/ BeginCall(v) \/ SkipPlatform(v)
                \/ CallAnswered(v) \/ CallFailed(v) \/ Enrich(v) \/ Save(v) \/ SaveRaises(v)
          PROVE  next' = next
      BY <3>8 DEF Observe, SyncSpend, BeginCall, SkipPlatform, CallAnswered, CallFailed, Enrich,
                  Save, SaveRaises
    <3>. QED  BY StrategySteps, <3>1, <3>2, <3>3, <3>4, <3>5, <3>6, <3>7, <3>8
  <2>2. Len(Types) \in Nat
    BY OrderShape DEF StrategyTypeOK
  <2>. QED  BY <2>1, <2>2, <1>2
<1>6. Stay'
  <2>1. CASE EnterStage
    BY <2>1, <1>1, <1>4 DEF EnterStage, SkipStage
  <2>2. CASE SettleVendor
    BY <2>2, <1>1, <1>4 DEF SettleVendor
  <2>3. CASE OpenPool
    BY <2>3, <1>1, <1>4 DEF OpenPool
  <2>4. CASE OpenTypes
    BY <2>4, <1>1, <1>4 DEF OpenTypes
  <2>5. CASE SettleType
    <3>1. worker' = worker /\ strategyPhase = "types"
      BY <2>5 DEF SettleType
    <3>2. \/ UNCHANGED <<strategyPhase, exit>>
          \/ strategyPhase' = "done"
      BY <2>5 DEF SettleType, StopTypes, WriteType
    <3>. QED  BY <3>1, <3>2, <1>1, <1>4
  <2>6. CASE CloseStage
    BY <2>6, <1>1, <1>4 DEF CloseStage
  <2>7. CASE Conclude
    BY <2>7, <1>1, <1>4 DEF Conclude
  <2>8. ASSUME NEW v \in Vendors,
              \/ Observe(v) \/ SyncSpend(v) \/ BeginCall(v) \/ SkipPlatform(v)
              \/ CallAnswered(v) \/ CallFailed(v) \/ Enrich(v) \/ Save(v)
        PROVE  Stay'
    <3>1. strategyPhase = "pool"
      BY <2>8, <1>4 DEF Observe, SyncSpend, BeginCall, SkipPlatform, CallAnswered, CallFailed,
                        Enrich, Save
    <3>2. UNCHANGED <<strategyPhase, exit>>
      BY <2>8 DEF Observe, SyncSpend, BeginCall, SkipPlatform, CallAnswered, CallFailed,
                  Enrich, Save
    <3>. QED  BY <3>1, <3>2, <1>4
  <2>9. ASSUME NEW v \in Vendors, SaveRaises(v)
        PROVE  Stay'
    <3>1. strategyPhase = "pool" /\ worker' = [worker EXCEPT ![v] = "over"]
      BY <2>9, <1>4 DEF SaveRaises, WorkerAt
    <3>2. CASE Inline
      <4>1. Len(Platforms) = 1
        BY <3>2 DEF Inline
      <4>2. \A w \in Vendors : w = v
        BY <4>1, <1>1
      <4>. QED  BY <2>9, <3>1, <3>2, <4>2, <1>1, <1>3 DEF SaveRaises
    <3>3. CASE ~Inline
      BY <2>9, <3>1, <3>3, <1>4 DEF SaveRaises
    <3>. QED  BY <3>2, <3>3
  <2>. HIDE DEF Stay
  <2>. QED  BY StrategySteps, <2>1, <2>2, <2>3, <2>4, <2>5, <2>6, <2>7, <2>8, <2>9
<1>. QED  BY <1>5, <1>6 DEF StrategyPlaces

(* Nothing is decided where nothing can be: the trackers' entries are        *)
(* changed by the steps that do the work.                                    *)
LEMMA StrategyRecordsKept ==
  ASSUME StrategyTypeOK, StrategyPlaces, StrategyRecords, StrategyNext
  PROVE  StrategyRecords'
<1>1. /\ Vendors' = Vendors /\ Requested' = Requested /\ Targets' = Targets
      /\ Vendors \subseteq Targets /\ Requested \subseteq Vendors
      /\ \A i \in 1..Len(Platforms) : Platforms[i] \in Vendors
      /\ \A i \in 1..Len(Types) : Types[i] \in Targets
      /\ Len(Platforms) \in Nat /\ Len(Types) \in Nat
  BY StrategySteps, OrderStays, OrderShape DEF StrategyTypeOK
<1>2. next \in Nat /\ next >= 1
  BY DEF StrategyTypeOK, StrategyPlaces
<1>3. /\ refreshed \in [Requested -> Verdicts] /\ outcome \in [Targets -> Verdicts]
      /\ briefs \subseteq Requested /\ started \subseteq Requested /\ saved \subseteq Targets
  BY DEF StrategyTypeOK, StrategyRecords
<1>4. StrategyTypeOK'
  BY StrategyTyped
<1>5. exit # -1 => strategyPhase = "done"
  BY DEF StrategyPlaces
<1>. DEFINE CompletedSaved == \A t \in Targets : (outcome[t] = "completed") <=> (t \in saved)
            Refreshing == /\ briefs \subseteq Requested
                          /\ \A v \in Requested : (refreshed[v] = "completed") <=> (v \in briefs)
                          /\ \A v \in started : refreshed[v] \in {"completed", "failed"}
            Exiting == exit = 0 => saved = Targets /\ briefs = Requested
<1>6. CompletedSaved /\ Refreshing /\ Exiting
  BY DEF StrategyRecords, OutcomeTruthful
<1>7. ASSUME CompletedSaved', Refreshing', Exiting'
      PROVE  StrategyRecords'
  <2>1. \A v \in Requested' : (refreshed[v] = "skipped")' => v \notin started'
    BY <1>7
  <2>. QED  BY <1>7, <2>1 DEF StrategyRecords, OutcomeTruthful
<1>8. CASE UNCHANGED <<outcome, saved, refreshed, briefs, started, exit>>
  BY <1>8, <1>1, <1>6, <1>7
<1>9. CASE EnterStage
  <2>1. CASE \E why \in {"base incomplete", "ceiling", "no route"} : SkipStage(why)
    <3>1. /\ outcome' = SkipRest(outcome) /\ refreshed' = SkipRest(refreshed)
          /\ UNCHANGED <<briefs, started, saved, exit>>
      BY <2>1 DEF SkipStage
    <3>2. /\ \A t \in Targets : outcome'[t] = IF outcome[t] = "none" THEN "skipped" ELSE outcome[t]
          /\ \A v \in Requested :
               refreshed'[v] = IF refreshed[v] = "none" THEN "skipped" ELSE refreshed[v]
      BY <3>1, <1>3, MarksOf
    <3>3. CompletedSaved' /\ Refreshing' /\ Exiting'
      BY <3>1, <3>2, <1>1, <1>3, <1>6
    <3>. QED  BY <3>3, <1>7
  <2>2. CASE UNCHANGED <<outcome, saved, refreshed, briefs, started, exit>>
    BY <2>2, <1>8
  <2>. QED  BY <1>9, <2>1, <2>2 DEF EnterStage, news
<1>10. CASE SettleVendor
  <2>1. PICK v \in Vendors : PassVendor(v) \/ RefuseVendor(v) \/ RefreshVendor(v)
    <3>1. Platforms[next] \in Vendors
      BY <1>10, <1>1, <1>2 DEF SettleVendor
    <3>. QED  BY <1>10, <3>1 DEF SettleVendor
  <2>2. UNCHANGED <<outcome, saved, exit>> /\ strategyPhase = "refresh"
    BY <1>10 DEF SettleVendor
  <2>3. exit # 0
    BY <2>2, <1>5
  <2>4. CompletedSaved' /\ Exiting'
    BY <2>2, <2>3, <1>1, <1>6
  <2>5. Refreshing'
    <3>1. ASSUME v \in Requested, UNCHANGED <<briefs, started>>,
                 \/ refreshed' = MarkSkipped(refreshed, v) \/ refreshed' = MarkFailed(refreshed, v)
          PROVE  Refreshing'
      <4>1. \A x \in Requested :
              /\ refreshed'[x] = "completed" <=> refreshed[x] = "completed"
              /\ refreshed[x] \in {"completed", "failed"} =>
                   refreshed'[x] \in {"completed", "failed"}
        <5>1. CASE refreshed' = MarkSkipped(refreshed, v)
          BY <3>1, <5>1, <1>3, MarksOf
        <5>2. CASE refreshed' = MarkFailed(refreshed, v)
          BY <3>1, <5>2, <1>3, MarksOf
        <5>. QED  BY <3>1, <5>1, <5>2
      <4>. QED  BY <3>1, <4>1, <1>1, <1>3, <1>6
    <3>2. CASE PassVendor(v)
      BY <3>1, <3>2, <1>1, <1>6 DEF PassVendor
    <3>3. CASE RefuseVendor(v)
      BY <3>1, <3>3, <1>1, <1>6 DEF RefuseVendor
    <3>4. CASE RefreshVendor(v)
      <4>1. v \in Requested /\ started' = started \cup {v}
        BY <3>4 DEF RefreshVendor
      <4>2. CASE briefs' = briefs \cup {v} /\ refreshed' = MarkCompleted(refreshed, v)
        <5>1. \A x \in Requested : refreshed'[x] = IF x = v THEN "completed" ELSE refreshed[x]
          BY <4>1, <4>2, <1>3, MarksOf
        <5>. QED  BY <4>1, <4>2, <5>1, <1>1, <1>3, <1>6
      <4>3. CASE briefs' = briefs /\ refreshed' = MarkFailed(refreshed, v)
        <5>1. \A x \in Requested :
                refreshed'[x] = IF x = v /\ refreshed[x] # "completed" THEN "failed"
                                ELSE refreshed[x]
          BY <4>1, <4>3, <1>3, MarksOf
        <5>. QED  BY <4>1, <4>3, <5>1, <1>1, <1>3, <1>6
      <4>. QED  BY <3>4, <4>2, <4>3 DEF RefreshVendor
    <3>. QED  BY <2>1, <3>2, <3>3, <3>4
  <2>. QED  BY <2>4, <2>5, <1>7
<1>11. CASE OpenPool
  BY <1>11, <1>8 DEF OpenPool, news
<1>12. CASE OpenTypes
  BY <1>12, <1>8 DEF OpenTypes, news
<1>13. CASE CloseStage
  BY <1>13, <1>8 DEF CloseStage, news
<1>14. CASE SettleType
  <2>1. UNCHANGED <<briefs, started, refreshed>> /\ exit = -1
    BY <1>14, <1>5 DEF SettleType, news
  <2>2. Refreshing'
    BY <2>1, <1>1, <1>6
  <2>3. CASE StopTypes
    <3>1. \A t \in Targets : outcome'[t] = IF outcome[t] = "none" THEN "skipped" ELSE outcome[t]
      BY <2>3, <1>3, MarksOf DEF StopTypes
    <3>2. CompletedSaved' /\ Exiting'
      BY <2>1, <2>3, <3>1, <1>1, <1>6 DEF StopTypes
    <3>. QED  BY <2>2, <3>2, <1>7
  <2>4. CASE WriteType(Types[next])
    <3>. DEFINE t == Types[next]
    <3>1. t \in Targets
      BY <1>14, <1>1, <1>2 DEF SettleType
    <3>. HIDE DEF t
    <3>2. WriteType(t)
      BY <2>4 DEF t
    <3>3. exit' \in {-1, 1}
      BY <3>2, <2>1 DEF WriteType
    <3>4. CASE outcome' = MarkFailed(outcome, t) /\ saved' = saved
      <4>1. \A x \in Targets : outcome'[x] = "completed" <=> outcome[x] = "completed"
        BY <3>1, <3>4, <1>3, MarksOf
      <4>. QED  BY <3>4, <3>3, <4>1, <2>1, <2>2, <1>1, <1>6, <1>7
    <3>5. CASE outcome' = MarkCompleted(outcome, t) /\ saved' = saved \cup {t}
      <4>1. \A x \in Targets : outcome'[x] = IF x = t THEN "completed" ELSE outcome[x]
        BY <3>1, <3>5, <1>3, MarksOf
      <4>. QED  BY <3>5, <3>3, <4>1, <2>1, <2>2, <1>1, <1>6, <1>7
    <3>6. CASE UNCHANGED <<outcome, saved>>
      BY <3>6, <3>3, <2>1, <2>2, <1>1, <1>6, <1>7
    <3>. QED  BY <3>2, <3>4, <3>5, <3>6 DEF WriteType
  <2>. QED  BY <1>14, <2>3, <2>4 DEF SettleType
<1>15. CASE Conclude
  <2>1. /\ outcome' = Snapshot(outcome) /\ refreshed' = Snapshot(refreshed)
        /\ UNCHANGED <<briefs, started, saved>>
    BY <1>15 DEF Conclude
  <2>2. /\ \A t \in Targets : outcome'[t] = IF outcome[t] = "none" THEN "failed" ELSE outcome[t]
        /\ \A v \in Requested :
             refreshed'[v] = IF refreshed[v] = "none" THEN "failed" ELSE refreshed[v]
    BY <2>1, <1>3, MarksOf
  <2>3. CompletedSaved' /\ Refreshing'
    BY <2>1, <2>2, <1>1, <1>3, <1>6
  <2>4. Exiting'
    <3>1. SUFFICES ASSUME exit' = 0
                   PROVE  saved = Targets /\ briefs = Requested
      BY <2>1, <1>1
    <3>2. Fulfilled(outcome) /\ Fulfilled(refreshed)
      BY <3>1, <1>15 DEF Conclude
    <3>3. /\ \A t \in Targets : outcome'[t] = "completed"
          /\ \A v \in Requested : refreshed'[v] = "completed"
      BY <3>2, <2>1, <1>3 DEF Fulfilled
    <3>. QED  BY <3>3, <2>2, <1>3, <1>6
  <2>. QED  BY <2>3, <2>4, <1>7
<1>16. ASSUME NEW v \in Vendors,
              \/ Observe(v) \/ SyncSpend(v) \/ BeginCall(v) \/ CallAnswered(v) \/ Enrich(v)
       PROVE  StrategyRecords'
  BY <1>16, <1>8 DEF Observe, SyncSpend, BeginCall, CallAnswered, Enrich, news
<1>17. ASSUME NEW v \in Vendors,
              \/ SkipPlatform(v) \/ CallFailed(v) \/ Save(v) \/ SaveRaises(v)
       PROVE  StrategyRecords'
  <2>1. UNCHANGED <<briefs, started, refreshed>> /\ exit = -1 /\ v \in Targets
    <3>1. worker[v] \notin {"queued", "over"}
      BY <1>17 DEF SkipPlatform, CallFailed, Save, SaveRaises
    <3>2. strategyPhase = "pool"
      BY <3>1 DEF StrategyPlaces
    <3>. QED  BY <1>17, <3>2, <1>1, <1>5 DEF SkipPlatform, CallFailed, Save, SaveRaises, news
  <2>2. Refreshing' /\ exit' \in {-1, 1}
    BY <1>17, <2>1, <1>1, <1>6 DEF SkipPlatform, CallFailed, Save, SaveRaises
  <2>3. CASE outcome' = MarkSkipped(outcome, v) /\ saved' = saved
    <3>1. \A x \in Targets : outcome'[x] = "completed" <=> outcome[x] = "completed"
      BY <2>1, <2>3, <1>3, MarksOf
    <3>. QED  BY <2>2, <2>3, <3>1, <1>1, <1>6, <1>7
  <2>4. CASE outcome' = MarkFailed(outcome, v) /\ saved' = saved
    <3>1. \A x \in Targets : outcome'[x] = "completed" <=> outcome[x] = "completed"
      BY <2>1, <2>4, <1>3, MarksOf
    <3>. QED  BY <2>2, <2>4, <3>1, <1>1, <1>6, <1>7
  <2>5. CASE outcome' = MarkCompleted(outcome, v) /\ saved' = saved \cup {v}
    <3>1. \A x \in Targets : outcome'[x] = IF x = v THEN "completed" ELSE outcome[x]
      BY <2>1, <2>5, <1>3, MarksOf
    <3>. QED  BY <2>1, <2>2, <2>5, <3>1, <1>1, <1>6, <1>7
  <2>6. CASE UNCHANGED <<outcome, saved>>
    BY <2>2, <2>6, <1>1, <1>6, <1>7
  <2>. QED  BY <1>17, <2>3, <2>4, <2>5, <2>6 DEF SkipPlatform, CallFailed, Save, SaveRaises
<1>. QED
  BY StrategySteps, <1>9, <1>10, <1>11, <1>12, <1>13, <1>14, <1>15, <1>16, <1>17

(* What a step may add to the spend.                                         *)
LEMMA SpendKept ==
  ASSUME UNCHANGED <<ledger, started>>
  PROVE  Observed' = Observed
BY DEF Observed

LEMMA SpendPaid ==
  ASSUME StrategyTypeOK, NEW c \in Nat, ledger' = ledger + c, UNCHANGED started
  PROVE  Observed' = Observed + c
<1>. DEFINE n == Cardinality(started)
<1>1. n \in Nat /\ ledger \in Nat /\ FlatCost \in Nat
  BY TasksANumber, StrategyAssumption DEF StrategyTypeOK
<1>2. Observed = ledger + n * FlatCost
  BY DEF Observed
<1>3. Observed' = ledger + c + n * FlatCost
  BY DEF Observed
<1>. HIDE DEF n
<1>4. n * FlatCost \in Nat
  BY <1>1, CostsGrow
<1>. QED  BY <1>1, <1>2, <1>3, <1>4

LEMMA SpendBooked ==
  ASSUME StrategyTypeOK, NEW v \in Requested, started' = started \cup {v}, UNCHANGED ledger
  PROVE  Observed' \in {Observed, Observed + FlatCost}
<1>. DEFINE n == Cardinality(started)
            m == Cardinality(started \cup {v})
<1>1. n \in Nat /\ ledger \in Nat /\ FlatCost \in Nat
  BY TasksANumber, StrategyAssumption DEF StrategyTypeOK
<1>2. Observed = ledger + n * FlatCost
  BY DEF Observed
<1>3. Observed' = ledger + m * FlatCost
  BY DEF Observed
<1>4. m \in {n, n + 1}
  BY TasksCounted DEF StrategyTypeOK
<1>. HIDE DEF n, m
<1>5. n * FlatCost \in Nat /\ (n + 1) * FlatCost = n * FlatCost + FlatCost
  BY <1>1, CostsGrow
<1>. QED  BY <1>1, <1>2, <1>3, <1>4, <1>5

(* The numbers of the stage, for the steps that calculate.                   *)
LEMMA StrategyNumbers ==
  ASSUME StrategyTypeOK
  PROVE  /\ Observed \in Nat /\ spent \in Nat /\ \A v \in Vendors : observed[v] \in Nat
         /\ MaxCost \in Nat /\ MaxCost > 0 /\ DocCost \in Nat /\ EnrichCost \in Nat
         /\ FlatCost \in Nat
<1>1. spent \in Nat /\ \A v \in Vendors : observed[v] \in Nat
  BY DEF StrategyTypeOK
<1>2. /\ MaxCost \in Nat /\ MaxCost > 0 /\ DocCost \in Nat /\ EnrichCost \in Nat
      /\ FlatCost \in Nat
  BY StrategyAssumption
<1>. QED  BY <1>1, <1>2, MoneyCounted

LEMMA StrategySpendKept ==
  ASSUME StrategyTypeOK, StrategyPlaces, StrategySpend, StrategyNext
  PROVE  StrategySpend'
<1>1. /\ Vendors' = Vendors /\ Targets' = Targets /\ Vendors \subseteq Targets
      /\ \A i \in 1..Len(Platforms) : Platforms[i] \in Vendors
      /\ \A i \in 1..Len(Types) : Types[i] \in Targets
      /\ Len(Platforms) \in Nat /\ Len(Types) \in Nat
  BY StrategySteps, OrderStays, OrderShape DEF StrategyTypeOK
<1>2. /\ Observed \in Nat /\ spent \in Nat /\ \A v \in Vendors : observed[v] \in Nat
      /\ MaxCost \in Nat /\ DocCost \in Nat /\ EnrichCost \in Nat /\ FlatCost \in Nat
  BY StrategyNumbers
<1>3. next \in Nat /\ next >= 1
  BY DEF StrategyTypeOK, StrategyPlaces
<1>4. outcome \in [Targets -> Verdicts] /\ DOMAIN observed = Vendors
  BY DEF StrategyTypeOK
<1>. DEFINE Skipping == gate \in {"open", "ceiling"} /\ \E t \in Targets : outcome[t] = "skipped"
<1>6. /\ spent <= Observed /\ \A v \in Vendors : observed[v] <= Observed
      /\ Skipping => Observed >= MaxCost
      /\ strategyPhase = "refresh" => Observed < MaxCost
  BY DEF StrategySpend, SkippedAtObservedCeiling
<1>7. ASSUME /\ spent' <= Observed' /\ \A v \in Vendors : observed'[v] <= Observed'
             /\ Skipping' => Observed' >= MaxCost
             /\ strategyPhase' = "refresh" => Observed' < MaxCost
      PROVE  StrategySpend'
  BY <1>7, <1>1 DEF StrategySpend, SkippedAtObservedCeiling
(* The spend grows, and no target is skipped.                                *)
<1>8. ASSUME NEW c \in Nat, Observed' = Observed + c, spent' \in {spent, Observed},
             UNCHANGED <<observed, gate>>, strategyPhase' # "refresh",
             \A t \in Targets : outcome'[t] = "skipped" => outcome[t] = "skipped"
      PROVE  StrategySpend'
  <2>1. spent' <= Observed'
    BY <1>8, <1>2, <1>6
  <2>2. \A v \in Vendors : observed'[v] <= Observed'
    BY <1>8, <1>2, <1>6
  <2>3. Skipping' => Skipping
    BY <1>8, <1>1
  <2>4. Skipping' => Observed' >= MaxCost
    BY <2>3, <1>2, <1>6, <1>8
  <2>. QED  BY <1>7, <1>8, <2>1, <2>2, <2>4
(* Targets are skipped because of the spend.                                 *)
<1>9. ASSUME Observed' = Observed, spent' \in {spent, Observed}, UNCHANGED observed,
             Observed >= MaxCost, strategyPhase' # "refresh"
      PROVE  StrategySpend'
  <2>1. spent' <= Observed' /\ \A v \in Vendors : observed'[v] <= Observed'
    BY <1>9, <1>2, <1>6
  <2>. QED  BY <1>7, <1>9, <2>1
<1>10. ASSUME NEW t \in Targets,
              \/ outcome' = outcome \/ outcome' = Snapshot(outcome)
              \/ outcome' = MarkFailed(outcome, t) \/ outcome' = MarkCompleted(outcome, t)
       PROVE  \A x \in Targets : outcome'[x] = "skipped" => outcome[x] = "skipped"
  <2>1. CASE outcome' = outcome
    BY <2>1
  <2>2. CASE outcome' = Snapshot(outcome)
    BY <2>2, <1>4, MarksOf
  <2>3. CASE outcome' = MarkFailed(outcome, t)
    BY <2>3, <1>4, <1>10, MarksOf
  <2>4. CASE outcome' = MarkCompleted(outcome, t)
    BY <2>4, <1>4, <1>10, MarksOf
  <2>. QED  BY <1>10, <2>1, <2>2, <2>3, <2>4
<1>11. CASE EnterStage
  <2>1. Observed' = Observed
    BY <1>11, SpendKept DEF EnterStage, SkipStage, news
  <2>2. UNCHANGED observed /\ spent' \in {spent, Observed}
    BY <1>11 DEF EnterStage, SkipStage
  <2>3. CASE SkipStage("base incomplete") \/ SkipStage("no route")
    <3>1. gate' \notin {"open", "ceiling"} /\ strategyPhase' = "close"
      BY <2>3 DEF SkipStage
    <3>2. spent' <= Observed' /\ \A v \in Vendors : observed'[v] <= Observed'
      BY <2>1, <2>2, <1>2, <1>6
    <3>. QED  BY <3>1, <3>2, <1>7
  <2>4. CASE SkipStage("ceiling") /\ Observed >= MaxCost
    <3>1. strategyPhase' = "close"
      BY <2>4 DEF SkipStage
    <3>. QED  BY <3>1, <2>1, <2>2, <2>4, <1>9
  <2>5. CASE UNCHANGED <<outcome, gate>> /\ Observed < MaxCost
    <3>1. spent' <= Observed' /\ \A v \in Vendors : observed'[v] <= Observed'
      BY <2>1, <2>2, <1>2, <1>6
    <3>2. Skipping' => Observed' >= MaxCost
      BY <2>1, <2>5, <1>1, <1>6
    <3>. QED  BY <3>1, <3>2, <2>1, <2>5, <1>7
  <2>. QED  BY <1>11, <2>3, <2>4, <2>5 DEF EnterStage
<1>12. CASE SettleVendor
  <2>1. PICK v \in Vendors : PassVendor(v) \/ RefuseVendor(v) \/ RefreshVendor(v)
    <3>1. Platforms[next] \in Vendors
      BY <1>12, <1>1, <1>3 DEF SettleVendor
    <3>. QED  BY <1>12, <3>1 DEF SettleVendor
  <2>2. UNCHANGED <<strategyPhase, ledger, outcome, observed, gate>> /\ strategyPhase = "refresh"
    BY <1>12 DEF SettleVendor
  <2>3. spent' \in {spent, Observed}
    BY <2>1 DEF PassVendor, RefuseVendor, RefreshVendor
  <2>4. Observed < MaxCost
    BY <2>2, <1>6
  <2>5. ~Skipping
    BY <2>4, <1>2, <1>6
  <2>6. ~Skipping'
    BY <2>2, <2>5, <1>1
  <2>7. Observed' \in {Observed, Observed + FlatCost} /\ Observed' < MaxCost
    <3>1. CASE PassVendor(v) \/ RefuseVendor(v)
      <4>1. Observed' = Observed
        BY <3>1, <2>2, SpendKept DEF PassVendor, RefuseVendor
      <4>. QED  BY <4>1, <2>4
    <3>2. CASE RefreshVendor(v)
      <4>1. v \in Requested /\ started' = started \cup {v} /\ ~TooDear
        BY <3>2 DEF RefreshVendor
      <4>2. Observed' \in {Observed, Observed + FlatCost}
        BY <4>1, <2>2, SpendBooked
      <4>3. Observed + FlatCost < MaxCost
        BY <4>1, <1>2 DEF TooDear
      <4>. QED  BY <4>2, <4>3, <1>2
    <3>. QED  BY <2>1, <3>1, <3>2
  <2>8. spent' <= Observed' /\ \A w \in Vendors : observed'[w] <= Observed'
    BY <2>2, <2>3, <2>7, <1>2, <1>6
  <2>. QED  BY <2>6, <2>7, <2>8, <1>7
<1>13. ASSUME UNCHANGED <<ledger, started, spent, observed, gate, outcome>>,
              strategyPhase' # "refresh"
       PROVE  StrategySpend'
  <2>1. Observed' = Observed + 0
    BY <1>13, <1>2, SpendKept
  <2>. QED  BY <2>1, <1>13, <1>8
<1>14. CASE OpenPool \/ OpenTypes \/ CloseStage
  BY <1>14, <1>13 DEF OpenPool, OpenTypes, CloseStage, money, news
<1>15. CASE SettleType
  <2>1. UNCHANGED <<started, observed, gate>> /\ strategyPhase' # "refresh"
    BY <1>15 DEF SettleType, StopTypes, WriteType, news
  <2>2. CASE StopTypes
    <3>1. Observed' = Observed
      BY <2>1, <2>2, SpendKept DEF StopTypes
    <3>2. spent' = Observed /\ Observed >= MaxCost
      BY <2>2 DEF StopTypes
    <3>. QED  BY <3>1, <3>2, <2>1, <1>9
  <2>3. CASE WriteType(Types[next])
    <3>1. Types[next] \in Targets
      BY <1>15, <1>1, <1>3 DEF SettleType
    <3>2. spent' = Observed
      BY <2>3 DEF WriteType
    <3>3. PICK c \in {0, DocCost, DocCost + EnrichCost} : ledger' = ledger + c
      <4>1. ledger' \in {ledger, ledger + DocCost, ledger + DocCost + EnrichCost}
        BY <2>3 DEF WriteType
      <4>2. ledger \in Nat
        BY DEF StrategyTypeOK
      <4>. QED  BY <4>1, <4>2, <1>2
    <3>4. c \in Nat
      BY <1>2
    <3>5. Observed' = Observed + c
      BY <3>3, <3>4, <2>1, SpendPaid
    <3>6. \A x \in Targets : outcome'[x] = "skipped" => outcome[x] = "skipped"
      BY <2>3, <3>1, <1>10 DEF WriteType
    <3>. QED  BY <3>2, <3>4, <3>5, <3>6, <2>1, <1>8
  <2>. QED  BY <1>15, <2>2, <2>3 DEF SettleType
<1>16. CASE Conclude
  <2>1. UNCHANGED <<ledger, started, spent, observed, gate>> /\ strategyPhase' = "done"
    BY <1>16 DEF Conclude, money
  <2>2. Observed' = Observed + 0
    BY <2>1, <1>2, SpendKept
  <2>3. \A x \in Targets : outcome'[x] = "skipped" => outcome[x] = "skipped"
    BY <1>16, <1>4, MarksOf DEF Conclude
  <2>. QED  BY <2>1, <2>2, <2>3, <1>8
<1>17. ASSUME NEW v \in Vendors,
              \/ Observe(v) \/ SyncSpend(v) \/ BeginCall(v) \/ SkipPlatform(v)
              \/ CallAnswered(v) \/ CallFailed(v) \/ Enrich(v) \/ Save(v) \/ SaveRaises(v)
       PROVE  StrategySpend'
  <2>1. strategyPhase' # "refresh" /\ v \in Targets
    <3>1. strategyPhase = "pool"
      BY <1>17 DEF StrategyPlaces, Observe, SyncSpend, BeginCall, SkipPlatform, CallAnswered,
                   CallFailed, Enrich, Save, SaveRaises
    <3>. QED  BY <3>1, <1>1, <1>17 DEF Observe, SyncSpend, BeginCall, SkipPlatform, CallAnswered,
                   CallFailed, Enrich, Save, SaveRaises
  <2>2. CASE Observe(v)
    <3>1. Observed' = Observed
      BY <2>2, SpendKept DEF Observe, money, news
    <3>2. observed' = [observed EXCEPT ![v] = Observed] /\ UNCHANGED <<spent, gate, outcome>>
      BY <2>2 DEF Observe, money
    <3>3. \A w \in Vendors : observed'[w] = IF w = v THEN Observed ELSE observed[w]
      BY <3>2, <1>4
    <3>4. spent' <= Observed' /\ \A w \in Vendors : observed'[w] <= Observed'
      BY <3>1, <3>2, <3>3, <1>2, <1>6
    <3>5. Skipping' => Observed' >= MaxCost
      BY <3>1, <3>2, <1>1, <1>6
    <3>. QED  BY <3>4, <3>5, <2>1, <1>7
  <2>3. CASE SyncSpend(v)
    <3>1. Observed' = Observed
      BY <2>3, SpendKept DEF SyncSpend, news
    <3>2. spent' = observed[v] /\ UNCHANGED <<observed, gate, outcome>>
      BY <2>3 DEF SyncSpend
    <3>3. spent' <= Observed' /\ \A w \in Vendors : observed'[w] <= Observed'
      BY <3>1, <3>2, <1>6
    <3>4. Skipping' => Observed' >= MaxCost
      BY <3>1, <3>2, <1>1, <1>6
    <3>. QED  BY <3>3, <3>4, <2>1, <1>7
  <2>4. CASE BeginCall(v)
    BY <2>1, <2>4, <1>13 DEF BeginCall, money, news
  <2>5. CASE SkipPlatform(v)
    <3>1. UNCHANGED <<ledger, started, spent, observed>> /\ spent >= MaxCost
      BY <2>5 DEF SkipPlatform, money, news
    <3>2. Observed' = Observed /\ Observed >= MaxCost
      BY <3>1, SpendKept, <1>2, <1>6
    <3>. QED  BY <3>1, <3>2, <2>1, <1>9
  <2>6. CASE CallAnswered(v) \/ CallFailed(v) \/ Enrich(v)
    <3>1. UNCHANGED <<started, spent, observed, gate>>
      BY <2>6 DEF CallAnswered, CallFailed, Enrich, news
    <3>2. PICK c \in {0, DocCost, EnrichCost} : ledger' = ledger + c
      <4>1. ledger' \in {ledger, ledger + DocCost, ledger + EnrichCost}
        BY <2>6 DEF CallAnswered, CallFailed, Enrich
      <4>2. ledger \in Nat
        BY DEF StrategyTypeOK
      <4>. QED  BY <4>1, <4>2, <1>2
    <3>3. c \in Nat
      BY <1>2
    <3>4. Observed' = Observed + c
      BY <3>1, <3>2, <3>3, SpendPaid
    <3>5. \A x \in Targets : outcome'[x] = "skipped" => outcome[x] = "skipped"
      BY <2>1, <2>6, <1>10 DEF CallAnswered, CallFailed, Enrich
    <3>. QED  BY <3>1, <3>3, <3>4, <3>5, <2>1, <1>8
  <2>7. CASE Save(v) \/ SaveRaises(v)
    <3>1. UNCHANGED <<ledger, started, spent, observed, gate>>
      BY <2>7 DEF Save, SaveRaises, money, news
    <3>2. Observed' = Observed + 0
      BY <3>1, <1>2, SpendKept
    <3>3. \A x \in Targets : outcome'[x] = "skipped" => outcome[x] = "skipped"
      BY <2>1, <2>7, <1>10 DEF Save, SaveRaises
    <3>. QED  BY <3>1, <3>2, <3>3, <2>1, <1>8
  <2>. QED  BY <1>17, <2>2, <2>3, <2>4, <2>5, <2>6, <2>7
<1>. QED  BY StrategySteps, <1>11, <1>12, <1>14, <1>15, <1>16, <1>17

LEMMA StrategySerialKept ==
  ASSUME StrategyTypeOK, StrategyPlaces, StrategySpend, StrategySerial, StrategyNext
  PROVE  StrategySerial'
<1>1. /\ Vendors' = Vendors /\ Platforms' = Platforms
      /\ Len(Platforms) \in Nat /\ Len(Types) \in Nat
      /\ Len(Platforms) <= 1 => \A v, w \in Vendors : v = w
  BY StrategySteps, OrderStays, OrderShape DEF StrategyTypeOK
<1>2. /\ Observed \in Nat /\ spent \in Nat /\ \A v \in Vendors : observed[v] \in Nat
      /\ MaxCost \in Nat /\ MaxCost > 0 /\ DocCost \in Nat /\ EnrichCost \in Nat
      /\ FlatCost \in Nat
  BY StrategyNumbers
<1>3. ledger \in Nat /\ DOMAIN worker = Vendors /\ DOMAIN observed = Vendors
  BY DEF StrategyTypeOK
<1>. DEFINE Limit == Observed < MaxCost + DocCost + EnrichCost
            Is(v) == /\ worker[v] = "sync" => observed[v] = Observed
                     /\ worker[v] = "check" => spent = Observed
                     /\ worker[v] = "call" => Observed < MaxCost
                     /\ worker[v] = "enrich" => Observed < MaxCost + DocCost
<1>4. SUFFICES ASSUME Len(Platforms) <= 1, gate' = "open", strategyPhase' # "enter"
               PROVE  Limit' /\ \A v \in Vendors : Is(v)'
  BY <1>1 DEF StrategySerial
<1>5. gate = "open" /\ strategyPhase # "enter" => Limit /\ \A v \in Vendors : Is(v)
  BY <1>4 DEF StrategySerial
<1>6. CASE EnterStage
  <2>1. UNCHANGED <<ledger, started, worker>> /\ Observed < MaxCost /\ strategyPhase = "enter"
    BY <1>6, <1>4 DEF EnterStage, SkipStage, news
  <2>2. Observed' = Observed
    BY <2>1, SpendKept
  <2>3. \A v \in Vendors : worker'[v] = "queued"
    BY <2>1 DEF StrategyPlaces
  <2>4. Limit'
    BY <2>1, <2>2, <1>2
  <2>. QED  BY <2>3, <2>4
<1>7. CASE SettleVendor
  <2>1. UNCHANGED <<strategyPhase, worker>> /\ strategyPhase = "refresh"
    BY <1>7 DEF SettleVendor
  <2>2. Observed' < MaxCost
    BY <2>1, StrategySpendKept DEF StrategySpend
  <2>3. Observed' \in Nat
    <3>1. StrategyTypeOK'
      BY StrategyTyped
    <3>2. StrategyTypeOK' => (Observed \in Nat)'
      BY MoneyCounted, PTL
    <3>. QED  BY <3>1, <3>2
  <2>4. \A v \in Vendors : worker'[v] = "queued"
    BY <2>1 DEF StrategyPlaces
  <2>5. Limit'
    BY <2>2, <2>3, <1>2
  <2>. QED  BY <2>4, <2>5
<1>8. CASE OpenPool \/ OpenTypes \/ CloseStage \/ Conclude
  <2>1. /\ UNCHANGED <<ledger, started, spent, observed, worker, gate>>
        /\ strategyPhase # "enter"
    BY <1>8 DEF OpenPool, OpenTypes, CloseStage, Conclude, money, news
  <2>2. Observed' = Observed
    BY <2>1, SpendKept
  <2>. QED  BY <2>1, <2>2, <1>4, <1>5
<1>9. CASE SettleType
  <2>1. UNCHANGED <<started, observed, worker, gate>> /\ strategyPhase = "types"
    BY <1>9 DEF SettleType, news
  <2>2. \A v \in Vendors : worker'[v] = "over"
    BY <2>1 DEF StrategyPlaces
  <2>3. CASE StopTypes
    <3>1. Observed' = Observed
      BY <2>1, <2>3, SpendKept DEF StopTypes
    <3>2. Limit'
      BY <3>1, <2>1, <1>4, <1>5
    <3>. QED  BY <2>2, <3>2
  <2>4. CASE WriteType(Types[next])
    <3>1. PICK c \in {0, DocCost, DocCost + EnrichCost} : ledger' = ledger + c
      <4>1. ledger' \in {ledger, ledger + DocCost, ledger + DocCost + EnrichCost}
        BY <2>4 DEF WriteType
      <4>. QED  BY <4>1, <1>2, <1>3
    <3>2. c \in Nat /\ c <= DocCost + EnrichCost
      BY <1>2
    <3>3. Observed' = Observed + c
      BY <3>1, <3>2, <2>1, SpendPaid
    <3>4. Observed < MaxCost
      BY <2>4 DEF WriteType
    <3>5. Limit'
      BY <3>2, <3>3, <3>4, <1>2
    <3>. QED  BY <2>2, <3>5
  <2>. QED  BY <1>9, <2>3, <2>4 DEF SettleType
<1>10. ASSUME NEW v \in Vendors,
              \/ Observe(v) \/ SyncSpend(v) \/ BeginCall(v) \/ SkipPlatform(v)
              \/ CallAnswered(v) \/ CallFailed(v) \/ Enrich(v) \/ Save(v) \/ SaveRaises(v)
       PROVE  Limit' /\ \A w \in Vendors : Is(w)'
  <2>1. strategyPhase = "pool" /\ gate' = gate
    BY <1>10 DEF StrategyPlaces, Observe, SyncSpend, BeginCall, SkipPlatform, CallAnswered,
                 CallFailed, Enrich, Save, SaveRaises
  <2>2. Limit /\ Is(v)
    BY <2>1, <1>4, <1>5
  <2>3. SUFFICES Limit' /\ Is(v)'
    BY <1>1, <1>4
  <2>4. CASE Observe(v)
    <3>1. Observed' = Observed
      BY <2>4, SpendKept DEF Observe, money, news
    <3>2. observed'[v] = Observed /\ worker'[v] = "sync"
      BY <2>4, <1>3 DEF Observe, WorkerAt
    <3>. QED  BY <2>2, <3>1, <3>2
  <2>5. CASE SyncSpend(v)
    <3>1. Observed' = Observed
      BY <2>5, SpendKept DEF SyncSpend, news
    <3>2. spent' = observed[v] /\ worker[v] = "sync" /\ worker'[v] = "check"
      BY <2>5, <1>3 DEF SyncSpend, WorkerAt
    <3>. QED  BY <2>2, <3>1, <3>2
  <2>6. CASE BeginCall(v)
    <3>1. Observed' = Observed
      BY <2>6, SpendKept DEF BeginCall, money, news
    <3>2. spent < MaxCost /\ worker[v] = "check" /\ worker'[v] = "call"
      BY <2>6, <1>3 DEF BeginCall, WorkerAt
    <3>. QED  BY <2>2, <3>1, <3>2
  <2>7. CASE SkipPlatform(v) \/ Save(v) \/ SaveRaises(v)
    <3>1. UNCHANGED <<ledger, started>>
      BY <2>7 DEF SkipPlatform, Save, SaveRaises, money, news
    <3>2. Observed' = Observed
      BY <3>1, SpendKept
    <3>3. worker'[v] = "over"
      BY <2>7, <1>3 DEF SkipPlatform, Save, SaveRaises, WorkerAt
    <3>. QED  BY <2>2, <3>2, <3>3
  <2>8. CASE CallAnswered(v)
    <3>1. ledger' = ledger + DocCost /\ UNCHANGED started
      BY <2>8 DEF CallAnswered, news
    <3>2. Observed' = Observed + DocCost
      BY <3>1, <1>2, SpendPaid
    <3>3. worker[v] = "call" /\ worker'[v] = "enrich"
      BY <2>8, <1>3 DEF CallAnswered, WorkerAt
    <3>4. Observed < MaxCost
      BY <2>2, <3>3
    <3>5. Limit' /\ Observed' < MaxCost + DocCost
      BY <3>2, <3>4, <1>2
    <3>. QED  BY <3>3, <3>5
  <2>9. CASE CallFailed(v)
    <3>1. PICK c \in {0, DocCost} : ledger' = ledger + c
      BY <2>9, <1>2, <1>3 DEF CallFailed
    <3>2. UNCHANGED started /\ worker[v] = "call" /\ worker'[v] = "over"
      BY <2>9, <1>3 DEF CallFailed, WorkerAt, news
    <3>3. Observed' = Observed + c
      BY <3>1, <3>2, <1>2, SpendPaid
    <3>4. Limit'
      BY <3>2, <3>3, <2>2, <1>2
    <3>. QED  BY <3>2, <3>4
  <2>10. CASE Enrich(v)
    <3>1. PICK c \in {0, EnrichCost} : ledger' = ledger + c
      BY <2>10, <1>2, <1>3 DEF Enrich
    <3>2. UNCHANGED started /\ worker[v] = "enrich" /\ worker'[v] = "save"
      BY <2>10, <1>3 DEF Enrich, WorkerAt, news
    <3>3. Observed' = Observed + c
      BY <3>1, <3>2, <1>2, SpendPaid
    <3>4. Limit'
      BY <3>2, <3>3, <2>2, <1>2
    <3>. QED  BY <3>2, <3>4
  <2>. QED  BY <1>10, <2>4, <2>5, <2>6, <2>7, <2>8, <2>9, <2>10
<1>. QED  BY StrategySteps, <1>6, <1>7, <1>8, <1>9, <1>10

(* What the invariant says at the beginning, and what follows from it.       *)
LEMMA StrategyStarts == StrategyInit => StrategyInv
<1>. SUFFICES ASSUME StrategyInit PROVE StrategyInv
  OBVIOUS
<1>. USE DEF StrategyInit
<1>1. StrategyTypeOK
  <2>1. BaseSpend \subseteq Nat
    BY StrategyAssumption
  <2>2. ledger \in Nat /\ next \in Nat /\ spent \in Nat
    BY <2>1
  <2>3. refreshed \in [Requested -> Verdicts] /\ outcome \in [Targets -> Verdicts]
    BY DEF Verdicts
  <2>4. observed \in [Vendors -> Nat]
    OBVIOUS
  <2>. QED  BY <2>2, <2>3, <2>4 DEF StrategyTypeOK
<1>2. StrategyPlaces
  BY DEF StrategyPlaces
<1>3. StrategyRecords
  BY DEF StrategyRecords, OutcomeTruthful
<1>4. StrategySpend
  BY <1>1, StrategyNumbers DEF StrategySpend, SkippedAtObservedCeiling
<1>5. StrategySerial
  BY DEF StrategySerial
<1>. QED  BY <1>1, <1>2, <1>3, <1>4, <1>5 DEF StrategyInv

LEMMA StrategyKept == StrategyInv /\ [StrategyNext]_strategyVars => StrategyInv'
<1>. SUFFICES ASSUME StrategyInv, [StrategyNext]_strategyVars PROVE StrategyInv'
  OBVIOUS
<1>1. CASE StrategyNext
  BY <1>1, StrategyTyped, StrategyPlacesKept, StrategyRecordsKept, StrategySpendKept,
     StrategySerialKept DEF StrategyInv
<1>2. CASE UNCHANGED strategyVars
  BY ZenonT(30), <1>2 DEF strategyVars, StrategyInv, StrategyTypeOK, StrategyPlaces, StrategyRecords,
     StrategySpend, StrategySerial, OutcomeTruthful, SkippedAtObservedCeiling, Observed,
     Vendors, Targets, Requested, Platforms, Types
<1>. QED  BY <1>1, <1>2

LEMMA StrategyShows == StrategyInv => StrategySound
<1>. SUFFICES ASSUME StrategyInv PROVE StrategySound
  OBVIOUS
<1>1. StrategyTypeOK /\ OutcomeTruthful /\ SkippedAtObservedCeiling
  BY DEF StrategyInv, StrategyRecords, StrategySpend
<1>2. RefreshKeepsBudget
  <2>1. strategyPhase = "refresh" => Observed < MaxCost
    BY DEF StrategyInv, StrategySpend
  <2>2. Observed \in Nat /\ Paid \in Nat /\ Paid <= Observed /\ MaxCost \in Nat
    BY <1>1, MoneyCounted, StrategyNumbers
  <2>. QED  BY <2>1, <2>2 DEF RefreshKeepsBudget
<1>3. OverrunOneDocument
  BY DEF StrategyInv, StrategySerial, OverrunOneDocument
<1>. QED  BY <1>1, <1>2, <1>3 DEF StrategySound

(* What the strategy stage reports is so, no document is refused for a price *)
(* the run has not observed, refreshing news stays under the ceiling, and in *)
(* series the ceiling is overstepped by less than one document: for any      *)
(* platforms, strategies, pool, prices and ceiling.                          *)
THEOREM StrategyIsSound == StrategySpec => []StrategySound
<1>1. StrategyInit => StrategyInv
  BY StrategyStarts
<1>2. StrategyInv /\ [StrategyNext]_strategyVars => StrategyInv'
  BY StrategyKept
<1>3. StrategyInv => StrategySound
  BY StrategyShows
<1>. QED  BY <1>1, <1>2, <1>3, PTL DEF StrategySpec

-----------------------------------------------------------------------------
(* Scraping a site.                                                          *)

JobRecords == [pc: JobPlaces, best: TierSet \cup {NoTier}, i: Nat, same: Nat,
               last: PageOutcomes \cup {NoTier}, saved: BOOLEAN,
               forced: BOOLEAN, got: PageOutcomes, seen: Nat]

(* What a page's place and answer become, where its tier stays.              *)
Becomes(w, spot, got, count, shown, forced) ==
  /\ job' \in [Scrapers -> JobRecords]
  /\ job'[w].pc = spot /\ job'[w].got = got /\ job'[w].seen = count
  /\ job'[w].saved = shown /\ job'[w].forced = forced
  /\ job'[w].best = job[w].best /\ job'[w].i = job[w].i
  /\ \A x \in Scrapers : x # w => job'[x] = job[x]

LEMMA GoingTo ==
  ASSUME job \in [Scrapers -> JobRecords], NEW w \in Scrapers, NEW spot \in JobPlaces,
         GoTo(w, spot)
  PROVE  Becomes(w, spot, job[w].got, job[w].seen, job[w].saved, job[w].forced)
BY DEF GoTo, Becomes, JobRecords

LEMMA GoingSeeing ==
  ASSUME job \in [Scrapers -> JobRecords], NEW w \in Scrapers, NEW spot \in JobPlaces,
         NEW n \in Nat, job' = [job EXCEPT ![w].pc = spot, ![w].seen = n]
  PROVE  Becomes(w, spot, job[w].got, n, job[w].saved, job[w].forced)
BY ZenonT(30) DEF GoTo, Becomes, JobRecords

LEMMA GoingSaved ==
  ASSUME job \in [Scrapers -> JobRecords], NEW w \in Scrapers, NEW spot \in JobPlaces,
         NEW b \in BOOLEAN, job' = [job EXCEPT ![w].pc = spot, ![w].saved = b]
  PROVE  Becomes(w, spot, job[w].got, job[w].seen, b, job[w].forced)
BY ZenonT(30) DEF GoTo, Becomes, JobRecords

LEMMA GoingForced ==
  ASSUME job \in [Scrapers -> JobRecords], NEW w \in Scrapers, NEW spot \in JobPlaces,
         job' = [job EXCEPT ![w].pc = spot, ![w].forced = TRUE]
  PROVE  Becomes(w, spot, job[w].got, job[w].seen, job[w].saved, TRUE)
BY ZenonT(30) DEF GoTo, Becomes, JobRecords

LEMMA GoingAnswered ==
  ASSUME job \in [Scrapers -> JobRecords], NEW w \in Scrapers, NEW spot \in JobPlaces,
         NEW got \in PageOutcomes, job' = [job EXCEPT ![w].got = got, ![w].pc = spot]
  PROVE  Becomes(w, spot, got, job[w].seen, job[w].saved, job[w].forced)
BY ZenonT(30) DEF GoTo, Becomes, JobRecords

LEMMA IdleIsAJob == IdleJob \in JobRecords
BY DEF IdleJob, JobRecords, JobPlaces, PageOutcomes

LEMMA GoingIdle ==
  ASSUME job \in [Scrapers -> JobRecords], NEW w \in Scrapers,
         job' = [job EXCEPT ![w] = IdleJob]
  PROVE  /\ job' \in [Scrapers -> JobRecords] /\ job'[w].pc = "idle" /\ job'[w].i = 1
         /\ ~job'[w].saved /\ ~job'[w].forced
         /\ \A x \in Scrapers : x # w => job'[x] = job[x]
BY IdleIsAJob DEF IdleJob

LEMMA GoingOn ==
  ASSUME job \in [Scrapers -> JobRecords], NEW w \in Scrapers,
         NEW best \in TierSet \cup {NoTier}, NEW n \in Nat, NEW k \in PageOutcomes,
         NEW m \in Nat,
         job' = [job EXCEPT ![w] = [IdleJob EXCEPT !.pc = "choose", !.best = best, !.i = n,
                                      !.last = k, !.same = m]]
  PROVE  /\ job' \in [Scrapers -> JobRecords] /\ job'[w].pc = "choose" /\ job'[w].i = n
         /\ ~job'[w].saved /\ ~job'[w].forced
         /\ \A x \in Scrapers : x # w => job'[x] = job[x]
BY DEF IdleJob, JobRecords, JobPlaces, PageOutcomes

LEMMA GoingInto ==
  ASSUME job \in [Scrapers -> JobRecords], NEW w \in Scrapers,
         NEW best \in TierSet \cup {NoTier},
         job' = [job EXCEPT ![w] = [IdleJob EXCEPT !.pc = "choose", !.best = best]]
  PROVE  /\ job' \in [Scrapers -> JobRecords] /\ job'[w].pc = "choose" /\ job'[w].i = 1
         /\ ~job'[w].saved /\ ~job'[w].forced
         /\ \A x \in Scrapers : x # w => job'[x] = job[x]
BY DEF IdleJob, JobRecords, JobPlaces, PageOutcomes

LEMMA GoingPast ==
  ASSUME job \in [Scrapers -> JobRecords], NEW w \in Scrapers,
         job' = [job EXCEPT ![w].pc = "choose", ![w].i = @ + 1]
  PROVE  /\ job' \in [Scrapers -> JobRecords] /\ job'[w].pc = "choose" /\ job'[w].i = job[w].i + 1
         /\ job'[w].saved = job[w].saved /\ job'[w].forced = job[w].forced
         /\ \A x \in Scrapers : x # w => job'[x] = job[x]
BY DEF JobRecords, JobPlaces

LEMMA TierStays ==
  ASSUME UNCHANGED setting, NEW w, job'[w].best = job[w].best, job'[w].i = job[w].i
  PROVE  Tier(w)' = Tier(w)
BY DEF Tier, Order, Rank, Tiers

LEMMA TierOfAJob ==
  ASSUME setting \in Settings, job \in [Scrapers -> JobRecords], NEW w \in Scrapers,
         job[w].i \in 1..Len(Tiers)
  PROVE  Tier(w) \in TierSet /\ Tier(w) # NoTier
<1>1. Len(Tiers) \in Nat /\ \A n \in 1..Len(Tiers) : Tiers[n] \in TierSet /\ Tiers[n] # NoTier
  BY ScrapingAssumption DEF Tiers, TierSet
<1>2. \A tier \in TierSet : Rank(tier) \in 1..Len(Tiers) /\ tier # NoTier
  BY <1>1 DEF Rank, TierSet
<1>3. job[w].best \in TierSet \cup {NoTier}
  BY DEF JobRecords
<1>. QED  BY <1>1, <1>2, <1>3 DEF Tier, Order

HostRecords == [attempts: [TierSet -> Nat], failures: [TierSet -> Nat],
          best: TierSet \cup {NoTier}, blocked: BOOLEAN, cooling: BOOLEAN,
          retried: SUBSET Adaptive]

LEMMA HostChanges ==
  ASSUME host \in HostRecords, NEW t \in TierSet
  PROVE  /\ [host EXCEPT !.best = t] \in HostRecords
         /\ [host EXCEPT !.blocked = TRUE] \in HostRecords
         /\ [host EXCEPT !.cooling = TRUE] \in HostRecords
         /\ t \in Adaptive => [host EXCEPT !.retried = @ \cup {t}] \in HostRecords
BY DEF HostRecords

(* Where a page is tells what is known of its tier.                          *)
JobsPlaced ==
  /\ \A w \in Scrapers :
       /\ job[w].i >= 1
       /\ job[w].pc \notin {"idle", "choose"} => job[w].i \in 1..Len(Tiers)
       /\ job[w].pc \in {"enter", "apply", "leave", "budget"} => Tier(w) \in Adaptive
       /\ job[w].pc = "budget" => job[w].got = "blank"
       /\ job[w].pc = "judge" => job[w].seen >= Threshold

JobsShape ==
  /\ setting \in Settings /\ job \in [Scrapers -> JobRecords] /\ host \in HostRecords
  /\ JobsPlaced

LEMMA TierOf ==
  ASSUME JobsShape, NEW w \in Scrapers, job[w].pc \notin {"idle", "choose"}
  PROVE  Tier(w) \in TierSet /\ job[w].i \in 1..Len(Tiers)
BY TierOfAJob DEF JobsShape, JobsPlaced

LEMMA BecomesTier ==
  ASSUME UNCHANGED setting, NEW w \in Scrapers, NEW spot, NEW got, NEW n, NEW b, NEW c,
         Becomes(w, spot, got, n, b, c)
  PROVE  /\ Tier(w)' = Tier(w)
         /\ \A x \in Scrapers : x # w => Tier(x)' = Tier(x)
<1>1. job'[w].best = job[w].best /\ job'[w].i = job[w].i
  BY DEF Becomes
<1>2. ASSUME NEW x \in Scrapers, x # w PROVE Tier(x)' = Tier(x)
  <2>1. job'[x] = job[x]
    BY <1>2 DEF Becomes
  <2>. QED  BY <2>1, TierStays
<1>. QED  BY <1>1, <1>2, TierStays

LEMMA OthersTier ==
  ASSUME UNCHANGED setting, NEW w \in Scrapers, \A x \in Scrapers : x # w => job'[x] = job[x]
  PROVE  \A x \in Scrapers : x # w => Tier(x)' = Tier(x)
<1>1. ASSUME NEW x \in Scrapers, x # w PROVE Tier(x)' = Tier(x)
  <2>1. job'[x] = job[x]
    BY <1>1
  <2>. QED  BY <2>1, TierStays
<1>. QED  BY <1>1

-----------------------------------------------------------------------------
(* What each step does to its page.                                          *)

LEMMA ChooseMoves ==
  ASSUME JobsShape, NEW w \in Scrapers, ChooseTier(w)
  PROVE  /\ Tier(w) \in TierSet /\ job[w].i \in 1..Len(Tiers) /\ job[w].pc = "choose"
         /\ Becomes(w, IF host.attempts[Tier(w)] < Threshold THEN "want" ELSE "judge",
                    job[w].got, host.attempts[Tier(w)], job[w].saved, job[w].forced)
<1>1. job[w].i \in 1..Len(Tiers) /\ job[w].pc = "choose"
  <2>1. job[w].i \in Nat /\ Len(Tiers) \in Nat
    BY ScrapingAssumption DEF JobsShape, JobRecords, Tiers
  <2>. QED  BY <2>1 DEF ChooseTier, Doing, JobsShape, JobsPlaced
<1>2. Tier(w) \in TierSet
  BY <1>1, TierOfAJob DEF JobsShape
<1>. DEFINE n == host.attempts[Tier(w)]
            spot == IF n < Threshold THEN "want" ELSE "judge"
<1>3. n \in Nat
  BY <1>2 DEF JobsShape, HostRecords
<1>4. spot \in JobPlaces
  BY DEF JobPlaces
<1>5. job' = [job EXCEPT ![w].pc = spot, ![w].seen = n]
  BY DEF ChooseTier
<1>6. job \in [Scrapers -> JobRecords]
  BY DEF JobsShape
<1>. HIDE DEF n, spot
<1>7. Becomes(w, spot, job[w].got, n, job[w].saved, job[w].forced)
  BY <1>3, <1>4, <1>5, <1>6, GoingSeeing
<1>. QED  BY <1>1, <1>2, <1>7 DEF n, spot

LEMMA JudgeMoves ==
  ASSUME JobsShape, NEW w \in Scrapers, JudgeTier(w)
  PROVE  /\ Tier(w) \in TierSet /\ job[w].pc = "judge"
         /\ \/ /\ host.failures[Tier(w)] >= job[w].seen
               /\ dropped' = dropped \cup {Tier(w)}
               /\ job' \in [Scrapers -> JobRecords] /\ job'[w].pc = "choose"
               /\ job'[w].i = job[w].i + 1
               /\ job'[w].saved = job[w].saved /\ job'[w].forced = job[w].forced
               /\ \A x \in Scrapers : x # w => job'[x] = job[x]
            \/ /\ ~(host.failures[Tier(w)] >= job[w].seen)
               /\ dropped' = dropped
               /\ Becomes(w, "want", job[w].got, job[w].seen, job[w].saved, job[w].forced)
<1>1. job[w].pc = "judge"
  BY DEF JudgeTier, Doing
<1>2. Tier(w) \in TierSet
  BY <1>1, TierOf
<1>3. job \in [Scrapers -> JobRecords]
  BY DEF JobsShape
<1>4. CASE host.failures[Tier(w)] >= job[w].seen
  <2>1. /\ job' = [job EXCEPT ![w].pc = "choose", ![w].i = @ + 1]
        /\ dropped' = dropped \cup {Tier(w)}
    BY <1>4 DEF JudgeTier
  <2>. QED  BY <2>1, <1>1, <1>2, <1>3, <1>4, GoingPast
<1>5. CASE ~(host.failures[Tier(w)] >= job[w].seen)
  <2>1. GoTo(w, "want") /\ dropped' = dropped
    BY <1>5 DEF JudgeTier
  <2>2. "want" \in JobPlaces
    BY DEF JobPlaces
  <2>. QED  BY <2>1, <2>2, <1>1, <1>2, <1>3, <1>5, GoingTo
<1>. QED  BY <1>4, <1>5

LEMMA TakeMoves ==
  ASSUME JobsShape, NEW w \in Scrapers, TakeSlot(w)
  PROVE  /\ Tier(w) \in TierSet /\ job[w].pc = "want"
         /\ Becomes(w, IF Tier(w) \in Adaptive THEN "enter" ELSE "call",
                    job[w].got, job[w].seen, job[w].saved, job[w].forced)
<1>1. job[w].pc = "want" /\ GoTo(w, IF Tier(w) \in Adaptive THEN "enter" ELSE "call")
  BY DEF TakeSlot, Doing
<1>2. (IF Tier(w) \in Adaptive THEN "enter" ELSE "call") \in JobPlaces
  BY DEF JobPlaces
<1>3. job \in [Scrapers -> JobRecords]
  BY DEF JobsShape
<1>. QED  BY <1>1, <1>2, <1>3, GoingTo, TierOf

LEMMA EnterMoves ==
  ASSUME JobsShape, headed \in BOOLEAN, NEW w \in Scrapers, EnterCall(w)
  PROVE  /\ Tier(w) \in TierSet /\ job[w].pc = "enter"
         /\ Becomes(w, "apply", job[w].got, job[w].seen, headed, job[w].forced)
<1>1. job[w].pc = "enter" /\ job' = [job EXCEPT ![w].pc = "apply", ![w].saved = headed]
  BY DEF EnterCall, Doing
<1>2. "apply" \in JobPlaces
  BY DEF JobPlaces
<1>3. job \in [Scrapers -> JobRecords]
  BY DEF JobsShape
<1>. QED  BY <1>1, <1>2, <1>3, GoingSaved, TierOf

LEMMA PlainMoves ==
  ASSUME JobsShape, NEW w \in Scrapers, ApplyCall(w) \/ LeaveCall(w) \/ FreeSlot(w)
  PROVE  /\ Tier(w) \in TierSet
         /\ \/ /\ ApplyCall(w) /\ job[w].pc = "apply"
               /\ Becomes(w, "call", job[w].got, job[w].seen, job[w].saved, job[w].forced)
            \/ /\ LeaveCall(w) /\ job[w].pc = "leave"
               /\ Becomes(w, "release", job[w].got, job[w].seen, job[w].saved, job[w].forced)
            \/ /\ FreeSlot(w) /\ job[w].pc = "release"
               /\ Becomes(w, "digest", job[w].got, job[w].seen, job[w].saved, job[w].forced)
<1>1. /\ job[w].pc \in {"apply", "leave", "release"}
      /\ \/ ApplyCall(w) /\ job[w].pc = "apply" /\ GoTo(w, "call")
         \/ LeaveCall(w) /\ job[w].pc = "leave" /\ GoTo(w, "release")
         \/ FreeSlot(w) /\ job[w].pc = "release" /\ GoTo(w, "digest")
  BY DEF ApplyCall, LeaveCall, FreeSlot, Doing
<1>2. {"call", "release", "digest"} \subseteq JobPlaces
  BY DEF JobPlaces
<1>3. job \in [Scrapers -> JobRecords]
  BY DEF JobsShape
<1>4. Tier(w) \in TierSet
  BY <1>1, TierOf
<1>5. CASE ApplyCall(w) /\ job[w].pc = "apply" /\ GoTo(w, "call")
  BY <1>2, <1>3, <1>4, <1>5, GoingTo
<1>6. CASE LeaveCall(w) /\ job[w].pc = "leave" /\ GoTo(w, "release")
  BY <1>2, <1>3, <1>4, <1>6, GoingTo
<1>7. CASE FreeSlot(w) /\ job[w].pc = "release" /\ GoTo(w, "digest")
  BY <1>2, <1>3, <1>4, <1>7, GoingTo
<1>. QED  BY <1>1, <1>5, <1>6, <1>7

LEMMA CallMoves ==
  ASSUME JobsShape, NEW w \in Scrapers, Call(w)
  PROVE  /\ Tier(w) \in TierSet /\ job[w].pc = "call"
         /\ \E got \in PageOutcomes :
              Becomes(w, IF Tier(w) \in Adaptive THEN "leave" ELSE "release",
                      got, job[w].seen, job[w].saved, job[w].forced)
<1>1. job[w].pc = "call"
  BY DEF Call, Doing
<1>2. Tier(w) \in TierSet
  BY <1>1, TierOf
<1>. DEFINE spot == IF Tier(w) \in Adaptive THEN "leave" ELSE "release"
<1>3. PICK got \in Answers[Tier(w)] : job' = [job EXCEPT ![w].got = got, ![w].pc = spot]
  BY DEF Call
<1>4. got \in PageOutcomes
  BY <1>2, ScrapingAssumption DEF TierSet, Tiers, JobsShape
<1>5. spot \in JobPlaces
  BY DEF JobPlaces
<1>6. job \in [Scrapers -> JobRecords]
  BY DEF JobsShape
<1>. HIDE DEF spot
<1>7. Becomes(w, spot, got, job[w].seen, job[w].saved, job[w].forced)
  BY <1>3, <1>4, <1>5, <1>6, GoingAnswered
<1>. QED  BY <1>1, <1>2, <1>4, <1>7 DEF spot

(* A tier answered: the page has it, it failed, the host refuses, or it is   *)
(* worth a window.                                                           *)
LEMMA DigestMoves ==
  ASSUME JobsShape, NEW w \in Scrapers, Digest(w)
  PROVE  /\ Tier(w) \in TierSet /\ job[w].pc = "digest"
         /\ \/ /\ job[w].got = "good"
               /\ host' = [host EXCEPT !.best = Tier(w)]
               /\ worked' = worked \cup {Tier(w)} /\ failed' = failed
               /\ Becomes(w, "count", job[w].got, job[w].seen, job[w].saved, job[w].forced)
            \/ /\ job[w].got # "good"
               /\ host' \in {host, [host EXCEPT !.cooling = TRUE]}
               /\ worked' = worked /\ failed' = [failed EXCEPT ![Tier(w)] = @ + 1]
               /\ Becomes(w, "count", job[w].got, job[w].seen, job[w].saved, job[w].forced)
            \/ /\ host' = [host EXCEPT !.blocked = TRUE]
               /\ job' = [job EXCEPT ![w] = IdleJob]
               /\ UNCHANGED <<failed, worked>>
            \/ /\ job[w].got = "blank" /\ Tier(w) \in Adaptive
               /\ UNCHANGED <<host, failed, worked>>
               /\ Becomes(w, "budget", job[w].got, job[w].seen, job[w].saved, job[w].forced)
<1>1. job[w].pc = "digest"
  BY DEF Digest, Doing
<1>2. Tier(w) \in TierSet
  BY <1>1, TierOf
<1>3. job \in [Scrapers -> JobRecords]
  BY DEF JobsShape
<1>4. {"count", "budget"} \subseteq JobPlaces
  BY DEF JobPlaces
<1>5. /\ GoTo(w, "count") =>
            Becomes(w, "count", job[w].got, job[w].seen, job[w].saved, job[w].forced)
      /\ GoTo(w, "budget") =>
            Becomes(w, "budget", job[w].got, job[w].seen, job[w].saved, job[w].forced)
  BY <1>3, <1>4, GoingTo
<1>6. \/ job[w].got = "good" /\ Succeeds(w)
      \/ job[w].got # "good" /\ Fails(w) /\ host' \in {host, [host EXCEPT !.cooling = TRUE]}
      \/ /\ host' = [host EXCEPT !.blocked = TRUE]
         /\ job' = [job EXCEPT ![w] = IdleJob]
         /\ UNCHANGED <<failed, worked>>
      \/ MayRetry(w) /\ GoTo(w, "budget") /\ UNCHANGED <<host, failed, worked>>
  BY DEF Digest, Retried, Answered
<1>. QED  BY <1>1, <1>2, <1>5, <1>6 DEF Succeeds, Fails, MayRetry

LEMMA RetryMoves ==
  ASSUME JobsShape, NEW w \in Scrapers, Retry(w)
  PROVE  /\ Tier(w) \in TierSet /\ job[w].pc = "budget" /\ job[w].got = "blank"
         /\ \/ /\ used < Cap /\ used' = used + 1 /\ failed' = failed
               /\ host' = [host EXCEPT !.retried = @ \cup {Tier(w)}]
               /\ Becomes(w, "want", job[w].got, job[w].seen, job[w].saved, TRUE)
            \/ /\ UNCHANGED <<host, used>> /\ failed' = [failed EXCEPT ![Tier(w)] = @ + 1]
               /\ Becomes(w, "count", job[w].got, job[w].seen, job[w].saved, job[w].forced)
<1>1. job[w].pc = "budget"
  BY DEF Retry, Doing
<1>2. Tier(w) \in TierSet /\ job[w].got = "blank"
  BY <1>1, TierOf DEF JobsShape, JobsPlaced
<1>3. job \in [Scrapers -> JobRecords]
  BY DEF JobsShape
<1>4. {"count", "want"} \subseteq JobPlaces
  BY DEF JobPlaces
<1>5. CASE used < Cap
  <2>1. /\ used' = used + 1 /\ failed' = failed
        /\ host' = [host EXCEPT !.retried = @ \cup {Tier(w)}]
        /\ job' = [job EXCEPT ![w].pc = "want", ![w].forced = TRUE]
    BY <1>5 DEF Retry
  <2>2. Becomes(w, "want", job[w].got, job[w].seen, job[w].saved, TRUE)
    BY <2>1, <1>3, <1>4, GoingForced
  <2>. QED  BY <1>1, <1>2, <1>5, <2>1, <2>2
<1>6. CASE ~(used < Cap)
  <2>1. Fails(w) /\ UNCHANGED <<host, used>>
    BY <1>6 DEF Retry
  <2>2. GoTo(w, "count") /\ failed' = [failed EXCEPT ![Tier(w)] = @ + 1]
    BY <2>1 DEF Fails
  <2>3. Becomes(w, "count", job[w].got, job[w].seen, job[w].saved, job[w].forced)
    BY <2>2, <1>3, <1>4, GoingTo
  <2>. QED  BY <1>1, <1>2, <2>1, <2>2, <2>3
<1>. QED  BY <1>5, <1>6

LEMMA CountMoves ==
  ASSUME JobsShape, NEW w \in Scrapers, Count(w) \/ Blame(w)
  PROVE  /\ Tier(w) \in TierSet
         /\ \/ /\ Count(w) /\ job[w].pc = "count"
               /\ Becomes(w, "tally", job[w].got, host.attempts[Tier(w)],
                          job[w].saved, job[w].forced)
            \/ /\ Blame(w) /\ job[w].pc = "blame"
               /\ Becomes(w, "charge", job[w].got, host.failures[Tier(w)],
                          job[w].saved, job[w].forced)
<1>1. job[w].pc \in {"count", "blame"}
  BY DEF Count, Blame, Doing
<1>2. Tier(w) \in TierSet
  BY <1>1, TierOf
<1>3. job \in [Scrapers -> JobRecords]
  BY DEF JobsShape
<1>4. {"tally", "charge"} \subseteq JobPlaces
  BY DEF JobPlaces
<1>5. host.attempts[Tier(w)] \in Nat /\ host.failures[Tier(w)] \in Nat
  BY <1>2 DEF JobsShape, HostRecords
<1>6. CASE Count(w)
  <2>1. /\ job[w].pc = "count"
        /\ job' = [job EXCEPT ![w].pc = "tally", ![w].seen = host.attempts[Tier(w)]]
    BY <1>6 DEF Count, Doing
  <2>. QED  BY <2>1, <1>2, <1>3, <1>4, <1>5, <1>6, GoingSeeing
<1>7. CASE Blame(w)
  <2>1. /\ job[w].pc = "blame"
        /\ job' = [job EXCEPT ![w].pc = "charge", ![w].seen = host.failures[Tier(w)]]
    BY <1>7 DEF Blame, Doing
  <2>. QED  BY <2>1, <1>2, <1>3, <1>4, <1>5, <1>7, GoingSeeing
<1>. QED  BY <1>6, <1>7

LEMMA TallyMoves ==
  ASSUME JobsShape, NEW w \in Scrapers, Tally(w)
  PROVE  /\ Tier(w) \in TierSet /\ job[w].pc = "tally"
         /\ host' = [host EXCEPT !.attempts[Tier(w)] = job[w].seen + 1]
         /\ \/ job[w].got = "good" /\ job' = [job EXCEPT ![w] = IdleJob]
            \/ /\ job[w].got # "good"
               /\ Becomes(w, "blame", job[w].got, job[w].seen, job[w].saved, job[w].forced)
<1>1. job[w].pc = "tally" /\ host' = [host EXCEPT !.attempts[Tier(w)] = job[w].seen + 1]
  BY DEF Tally, Doing
<1>2. Tier(w) \in TierSet
  BY <1>1, TierOf
<1>3. job \in [Scrapers -> JobRecords] /\ "blame" \in JobPlaces
  BY DEF JobsShape, JobPlaces
<1>4. CASE job[w].got = "good"
  BY <1>1, <1>2, <1>4 DEF Tally
<1>5. CASE job[w].got # "good"
  <2>1. GoTo(w, "blame")
    BY <1>5 DEF Tally
  <2>. QED  BY <2>1, <1>1, <1>2, <1>3, <1>5, GoingTo
<1>. QED  BY <1>4, <1>5

(* The page that ends, and the one that goes on with another tier.           *)
Leaves(w) ==
  /\ job' \in [Scrapers -> JobRecords]
  /\ job'[w].pc \in {"idle", "choose"} /\ job'[w].i >= 1
  /\ ~job'[w].saved /\ ~job'[w].forced
  /\ \A x \in Scrapers : x # w => job'[x] = job[x]

LEMMA IdleLeaves ==
  ASSUME job \in [Scrapers -> JobRecords], NEW w \in Scrapers,
         job' = [job EXCEPT ![w] = IdleJob]
  PROVE  Leaves(w) /\ job'[w].pc = "idle"
<1>1. /\ job' \in [Scrapers -> JobRecords] /\ job'[w].pc = "idle" /\ job'[w].i = 1
      /\ ~job'[w].saved /\ ~job'[w].forced
      /\ \A x \in Scrapers : x # w => job'[x] = job[x]
  BY GoingIdle
<1>2. job'[w].i >= 1 /\ job'[w].pc \in {"idle", "choose"}
  BY <1>1
<1>. QED  BY <1>1, <1>2, Zenon DEF Leaves

LEMMA ChargeMoves ==
  ASSUME JobsShape, NEW w \in Scrapers, Charge(w)
  PROVE  /\ Tier(w) \in TierSet /\ job[w].pc = "charge"
         /\ host' = [host EXCEPT !.failures[Tier(w)] = job[w].seen + 1]
         /\ Leaves(w)
<1>1. job[w].pc = "charge" /\ host' = [host EXCEPT !.failures[Tier(w)] = job[w].seen + 1]
  BY DEF Charge, Doing
<1>2. Tier(w) \in TierSet
  BY <1>1, TierOf
<1>3. job \in [Scrapers -> JobRecords]
  BY DEF JobsShape
<1>. DEFINE j == job[w]
            cause == IF j.got \in {"poor", "wrong"} THEN j.got
                    ELSE IF j.forced THEN "blank"
                    ELSE IF j.got = "limited" THEN "error"
                    ELSE j.got
            same == IF cause = j.last /\ cause # "poor" THEN j.same + 1 ELSE 1
<1>4. /\ j.got \in PageOutcomes /\ j.best \in TierSet \cup {NoTier}
      /\ j.i \in Nat /\ j.same \in Nat /\ j.i >= 1
  BY <1>3 DEF JobRecords, JobsShape, JobsPlaced
<1>5. cause \in PageOutcomes
  BY <1>4 DEF PageOutcomes
<1>6. same \in Nat /\ j.i + 1 \in Nat /\ j.i + 1 >= 1
  BY <1>4
<1>7. job' = [job EXCEPT ![w] =
                IF cause = "wrong" THEN IdleJob
                ELSE [IdleJob EXCEPT !.pc = "choose", !.best = j.best, !.i = j.i + 1,
                        !.last = cause, !.same = same]]
  BY DEF Charge
<1>. HIDE DEF cause, same
<1>8. CASE cause = "wrong"
  BY <1>1, <1>2, <1>3, <1>7, <1>8, IdleLeaves
<1>9. CASE cause # "wrong"
  <2>1. job' = [job EXCEPT ![w] = [IdleJob EXCEPT !.pc = "choose", !.best = j.best,
                                     !.i = j.i + 1, !.last = cause, !.same = same]]
    BY <1>7, <1>9
  <2>2. /\ job' \in [Scrapers -> JobRecords] /\ job'[w].pc = "choose" /\ job'[w].i = j.i + 1
        /\ ~job'[w].saved /\ ~job'[w].forced
        /\ \A x \in Scrapers : x # w => job'[x] = job[x]
    BY <2>1, <1>3, <1>4, <1>5, <1>6, GoingOn
  <2>3. job'[w].i >= 1 /\ job'[w].pc \in {"idle", "choose"}
    BY <2>2, <1>6
  <2>4. Leaves(w)
    BY <2>2, <2>3, Zenon DEF Leaves
  <2>. QED  BY <2>4, <1>1, <1>2
<1>. QED  BY <1>8, <1>9

LEMMA BeginMoves ==
  ASSUME JobsShape, NEW w \in Scrapers, BeginPage(w)
  PROVE  /\ job[w].pc = "idle" /\ left' = left - 1
         /\ UNCHANGED job \/ Leaves(w)
         /\ \/ crawl = "pilot" /\ AllIdle /\ left > Pages - Pilot
            \/ crawl = "pool" /\ left > 0
<1>1. /\ job[w].pc = "idle" /\ left' = left - 1
      /\ \/ crawl = "pilot" /\ AllIdle /\ left > Pages - Pilot
         \/ crawl = "pool" /\ left > 0
      /\ \/ UNCHANGED job
         \/ job' = [job EXCEPT ![w] = [IdleJob EXCEPT !.pc = "choose", !.best = host.best]]
  BY DEF BeginPage, Doing
<1>2. job \in [Scrapers -> JobRecords] /\ host.best \in TierSet \cup {NoTier}
  BY DEF JobsShape, HostRecords
<1>3. ASSUME job' = [job EXCEPT ![w] = [IdleJob EXCEPT !.pc = "choose", !.best = host.best]]
      PROVE  Leaves(w)
  <2>1. /\ job' \in [Scrapers -> JobRecords] /\ job'[w].pc = "choose" /\ job'[w].i = 1
        /\ ~job'[w].saved /\ ~job'[w].forced
        /\ \A x \in Scrapers : x # w => job'[x] = job[x]
    BY <1>2, <1>3, GoingInto
  <2>2. job'[w].i >= 1 /\ job'[w].pc \in {"idle", "choose"}
    BY <2>1
  <2>. QED  BY <2>1, <2>2, Zenon DEF Leaves
<1>. QED  BY <1>1, <1>3

LEMMA GiveUpMoves ==
  ASSUME JobsShape, NEW w \in Scrapers, GiveUpPage(w)
  PROVE  job[w].pc = "choose" /\ Leaves(w) /\ job'[w].pc = "idle"
BY IdleLeaves DEF GiveUpPage, Doing, JobsShape

(* Every step of the scraping is one of these.                               *)
ScraperStep(w) ==
  \/ BeginPage(w) \/ GiveUpPage(w) \/ ChooseTier(w) \/ JudgeTier(w) \/ TakeSlot(w)
  \/ EnterCall(w) \/ ApplyCall(w) \/ Call(w) \/ LeaveCall(w) \/ FreeSlot(w)
  \/ Digest(w) \/ Retry(w) \/ Count(w) \/ Tally(w) \/ Blame(w) \/ Charge(w)

LEMMA ScrapeSteps ==
  ASSUME ScrapeNext
  PROVE  /\ UNCHANGED setting /\ TierSet' = TierSet /\ Tiers' = Tiers
         /\ Slots' = Slots /\ Cap' = Cap /\ Asked' = Asked
         /\ PilotEnds \/ \E w \in Scrapers : ScraperStep(w)
BY DEF ScrapeNext, ScraperStep, TierSet, Tiers, Slots, Cap, Asked

-----------------------------------------------------------------------------
(* Types and places.                                                         *)

LEMMA SetUpStays ==
  ASSUME UNCHANGED setting
  PROVE  /\ TierSet' = TierSet /\ Tiers' = Tiers
         /\ JobRecords' = JobRecords /\ HostRecords' = HostRecords
         /\ Slots' = Slots /\ Cap' = Cap /\ Asked' = Asked
BY DEF TierSet, Tiers, JobRecords, HostRecords, Slots, Cap, Asked

LEMMA BecomesPlaced ==
  ASSUME JobsShape, UNCHANGED setting, NEW w \in Scrapers, NEW spot, NEW got, NEW n, NEW b, NEW c,
         Becomes(w, spot, got, n, b, c), job[w].i \in 1..Len(Tiers),
         spot \in {"enter", "apply", "leave", "budget"} => Tier(w) \in Adaptive,
         spot = "budget" => got = "blank", spot = "judge" => n >= Threshold
  PROVE  JobsPlaced'
<1>1. /\ Tier(w)' = Tier(w) /\ Tiers' = Tiers
      /\ \A x \in Scrapers : x # w => Tier(x)' = Tier(x)
  BY BecomesTier, SetUpStays
<1>2. ASSUME NEW x \in Scrapers
      PROVE  /\ job'[x].i >= 1
             /\ job'[x].pc \notin {"idle", "choose"} => job'[x].i \in 1..Len(Tiers)
             /\ job'[x].pc \in {"enter", "apply", "leave", "budget"} => Tier(x)' \in Adaptive
             /\ job'[x].pc = "budget" => job'[x].got = "blank"
             /\ job'[x].pc = "judge" => job'[x].seen >= Threshold
  <2>1. CASE x = w
    <3>1. /\ job'[x].pc = spot /\ job'[x].got = got /\ job'[x].seen = n
          /\ job'[x].i = job[w].i
      BY <2>1 DEF Becomes
    <3>. QED  BY <3>1, <2>1, <1>1
  <2>2. CASE x # w
    <3>1. job'[x] = job[x] /\ Tier(x)' = Tier(x)
      BY <2>2, <1>1 DEF Becomes
    <3>. QED  BY <3>1 DEF JobsShape, JobsPlaced
  <2>. QED  BY <2>1, <2>2
<1>. QED  BY <1>1, <1>2 DEF JobsPlaced

LEMMA LeavingPlaced ==
  ASSUME JobsShape, UNCHANGED setting, NEW w \in Scrapers,
         job'[w].pc \in {"idle", "choose"}, job'[w].i >= 1,
         \A x \in Scrapers : x # w => job'[x] = job[x]
  PROVE  JobsPlaced'
<1>1. Tiers' = Tiers /\ \A x \in Scrapers : x # w => Tier(x)' = Tier(x)
  BY OthersTier, SetUpStays
<1>2. ASSUME NEW x \in Scrapers
      PROVE  /\ job'[x].i >= 1
             /\ job'[x].pc \notin {"idle", "choose"} => job'[x].i \in 1..Len(Tiers)
             /\ job'[x].pc \in {"enter", "apply", "leave", "budget"} => Tier(x)' \in Adaptive
             /\ job'[x].pc = "budget" => job'[x].got = "blank"
             /\ job'[x].pc = "judge" => job'[x].seen >= Threshold
  <2>1. CASE x = w
    BY <2>1
  <2>2. CASE x # w
    <3>1. job'[x] = job[x] /\ Tier(x)' = Tier(x)
      BY <2>2, <1>1
    <3>. QED  BY <3>1 DEF JobsShape, JobsPlaced
  <2>. QED  BY <2>1, <2>2
<1>. QED  BY <1>1, <1>2 DEF JobsPlaced

LEMMA JobsStay ==
  ASSUME JobsShape, UNCHANGED <<setting, job>>
  PROVE  JobsPlaced' /\ \A w \in Scrapers : Tier(w)' = Tier(w)
<1>1. \A w \in Scrapers : Tier(w)' = Tier(w)
  <2>1. ASSUME NEW w \in Scrapers PROVE Tier(w)' = Tier(w)
    BY TierStays
  <2>. QED  BY <2>1
<1>. QED  BY <1>1, SetUpStays DEF JobsShape, JobsPlaced

(* The page of a step keeps its place and its tier, or is over with it.      *)
LEMMA JobsKept ==
  ASSUME JobsShape, headed \in BOOLEAN, ScrapeNext
  PROVE  job' \in [Scrapers -> JobRecords] /\ JobsPlaced'
<1>. USE DEF JobsShape
<1>1. UNCHANGED setting
  BY ScrapeSteps
<1>2. CASE UNCHANGED job
  BY <1>1, <1>2, JobsStay
<1>3. ASSUME NEW w \in Scrapers, ScraperStep(w)
      PROVE  job' \in [Scrapers -> JobRecords] /\ JobsPlaced'
  <2>1. CASE Leaves(w)
    BY <2>1, <1>1, LeavingPlaced DEF Leaves
  <2>2. CASE BeginPage(w)
    BY <2>1, <2>2, <1>2, BeginMoves
  <2>3. CASE GiveUpPage(w) \/ Charge(w)
    BY <2>1, <2>3, GiveUpMoves, ChargeMoves
  <2>4. CASE ChooseTier(w)
    <3>. DEFINE n == host.attempts[Tier(w)]
                spot == IF n < Threshold THEN "want" ELSE "judge"
    <3>1. /\ Tier(w) \in TierSet /\ job[w].i \in 1..Len(Tiers)
          /\ Becomes(w, spot, job[w].got, n, job[w].saved, job[w].forced)
      BY <2>4, ChooseMoves
    <3>2. n \in Nat /\ Threshold \in Nat
      BY <3>1, ScrapingAssumption DEF HostRecords
    <3>3. spot \in {"want", "judge"} /\ (spot = "judge" => n >= Threshold)
      BY <3>2
    <3>. HIDE DEF n, spot
    <3>4. JobsPlaced'
      BY <3>1, <3>3, <1>1, BecomesPlaced
    <3>. QED  BY <3>1, <3>4 DEF Becomes
  <2>5. ASSUME NEW spot, NEW got, NEW n, NEW b, NEW c, Becomes(w, spot, got, n, b, c),
               job[w].pc \notin {"idle", "choose"}, spot # "judge",
               spot \in {"enter", "apply", "leave", "budget"} => Tier(w) \in Adaptive,
               spot = "budget" => got = "blank"
        PROVE  job' \in [Scrapers -> JobRecords] /\ JobsPlaced'
    <3>1. job[w].i \in 1..Len(Tiers)
      BY <2>5 DEF JobsPlaced
    <3>2. JobsPlaced'
      BY <3>1, <2>5, <1>1, BecomesPlaced
    <3>. QED  BY <3>2, <2>5 DEF Becomes
  <2>6. CASE JudgeTier(w)
    <3>1. CASE Becomes(w, "want", job[w].got, job[w].seen, job[w].saved, job[w].forced)
      BY <3>1, <2>5, <2>6, JudgeMoves
    <3>2. CASE /\ job' \in [Scrapers -> JobRecords] /\ job'[w].pc = "choose"
               /\ job'[w].i = job[w].i + 1
               /\ \A x \in Scrapers : x # w => job'[x] = job[x]
      <4>1. job[w].i \in Nat
        BY DEF JobRecords
      <4>2. job'[w].i >= 1
        BY <3>2, <4>1
      <4>. QED  BY <3>2, <4>2, <1>1, LeavingPlaced
    <3>. QED  BY <2>6, <3>1, <3>2, JudgeMoves
  <2>7. CASE TakeSlot(w)
    <3>. DEFINE spot == IF Tier(w) \in Adaptive THEN "enter" ELSE "call"
    <3>1. /\ Becomes(w, spot, job[w].got, job[w].seen, job[w].saved, job[w].forced)
          /\ job[w].pc = "want"
      BY <2>7, TakeMoves
    <3>2. /\ spot \in {"enter", "call"}
          /\ (spot = "enter" => Tier(w) \in Adaptive)
      OBVIOUS
    <3>. HIDE DEF spot
    <3>. QED  BY <3>1, <3>2, <2>5
  <2>8. CASE EnterCall(w)
    <3>1. /\ Becomes(w, "apply", job[w].got, job[w].seen, headed, job[w].forced)
          /\ job[w].pc = "enter"
      BY <2>8, EnterMoves
    <3>2. Tier(w) \in Adaptive
      BY <3>1 DEF JobsPlaced
    <3>. QED  BY <3>1, <3>2, <2>5
  <2>9. CASE ApplyCall(w) \/ LeaveCall(w) \/ FreeSlot(w)
    <3>1. /\ job[w].pc \in {"apply", "leave", "release"}
          /\ \E spot \in {"call", "release", "digest"} :
               Becomes(w, spot, job[w].got, job[w].seen, job[w].saved, job[w].forced)
      BY <2>9, PlainMoves
    <3>. QED  BY <3>1, <2>5
  <2>10. CASE Call(w)
    <3>. DEFINE spot == IF Tier(w) \in Adaptive THEN "leave" ELSE "release"
    <3>1. job[w].pc = "call"
      BY <2>10, CallMoves
    <3>2. PICK got \in PageOutcomes :
               Becomes(w, spot, got, job[w].seen, job[w].saved, job[w].forced)
      BY <2>10, CallMoves
    <3>3. /\ spot \in {"leave", "release"}
          /\ (spot = "leave" => Tier(w) \in Adaptive)
      OBVIOUS
    <3>. HIDE DEF spot
    <3>. QED  BY <3>1, <3>2, <3>3, <2>5
  <2>11. CASE Digest(w)
    <3>1. CASE job' = [job EXCEPT ![w] = IdleJob]
      BY <3>1, <2>1, IdleLeaves
    <3>2. CASE Becomes(w, "count", job[w].got, job[w].seen, job[w].saved, job[w].forced)
      BY <3>2, <2>5, <2>11, DigestMoves
    <3>3. CASE /\ Becomes(w, "budget", job[w].got, job[w].seen, job[w].saved, job[w].forced)
               /\ job[w].got = "blank" /\ Tier(w) \in Adaptive
      BY <3>3, <2>5, <2>11, DigestMoves
    <3>. QED  BY <2>11, <3>1, <3>2, <3>3, DigestMoves
  <2>12. CASE Retry(w)
    <3>1. job[w].pc = "budget"
      BY <2>12, RetryMoves
    <3>2. CASE Becomes(w, "want", job[w].got, job[w].seen, job[w].saved, TRUE)
      BY <3>1, <3>2, <2>5
    <3>3. CASE Becomes(w, "count", job[w].got, job[w].seen, job[w].saved, job[w].forced)
      BY <3>1, <3>3, <2>5
    <3>. QED  BY <2>12, <3>2, <3>3, RetryMoves
  <2>13. CASE Count(w) \/ Blame(w)
    BY <2>5, <2>13, CountMoves
  <2>14. CASE Tally(w)
    <3>1. CASE job' = [job EXCEPT ![w] = IdleJob]
      BY <3>1, <2>1, IdleLeaves
    <3>2. CASE Becomes(w, "blame", job[w].got, job[w].seen, job[w].saved, job[w].forced)
      BY <3>2, <2>5, <2>14, TallyMoves
    <3>. QED  BY <2>14, <3>1, <3>2, TallyMoves
  <2>. QED  BY <1>3, <2>2, <2>3, <2>4, <2>6, <2>7, <2>8, <2>9, <2>10, <2>11, <2>12, <2>13, <2>14
            DEF ScraperStep
<1>4. CASE PilotEnds
  BY <1>2, <1>4 DEF PilotEnds
<1>. QED  BY <1>3, <1>4, ScrapeSteps

ScrapeData ==
  /\ crawl \in {"pilot", "pool", "aborted"} /\ left \in 0..Pages
  /\ free \in Nat /\ headed \in BOOLEAN /\ used \in Nat /\ windows \in Nat
  /\ hidden \in BOOLEAN /\ failed \in [TierSet -> Nat]
  /\ worked \subseteq TierSet /\ dropped \subseteq TierSet

ScrapeShape == JobsShape /\ ScrapeData

LEMMA ShapeKept ==
  ASSUME ScrapeShape, ScrapeNext
  PROVE  ScrapeShape'
<1>1. /\ UNCHANGED setting /\ TierSet' = TierSet
      /\ JobRecords' = JobRecords /\ HostRecords' = HostRecords
  BY ScrapeSteps, SetUpStays
<1>2. /\ JobsShape /\ setting \in Settings /\ host \in HostRecords /\ headed \in BOOLEAN
      /\ free \in Nat /\ used \in Nat /\ windows \in Nat /\ left \in 0..Pages
      /\ failed \in [TierSet -> Nat] /\ hidden \in BOOLEAN
      /\ worked \subseteq TierSet /\ dropped \subseteq TierSet
      /\ crawl \in {"pilot", "pool", "aborted"}
  BY DEF ScrapeShape, JobsShape, ScrapeData
<1>3. job' \in [Scrapers -> JobRecords] /\ JobsPlaced'
  BY <1>2, ScrapeSteps, JobsKept
<1>4. ASSUME host' \in HostRecords, ScrapeData'
      PROVE  ScrapeShape'
  BY <1>1, <1>2, <1>3, <1>4 DEF ScrapeShape, JobsShape
<1>5. CASE PilotEnds
  BY <1>1, <1>2, <1>4, <1>5 DEF PilotEnds, ScrapeData, history
<1>6. ASSUME NEW w \in Scrapers, ScraperStep(w)
      PROVE  ScrapeShape'
  <2>1. CASE BeginPage(w)
    <3>1. left' = left - 1 /\ left' \in 0..Pages
      BY <2>1, <1>2, BeginMoves, ScrapingAssumption
    <3>2. UNCHANGED <<crawl, host, free, headed, used, history>>
      BY <2>1 DEF BeginPage
    <3>. QED  BY <3>1, <3>2, <1>1, <1>2, <1>4 DEF ScrapeData, history
  <2>2. CASE GiveUpPage(w) \/ ChooseTier(w) \/ EnterCall(w) \/ Count(w) \/ Blame(w)
    <3>1. UNCHANGED <<shared, history>>
      BY <2>2 DEF GiveUpPage, ChooseTier, EnterCall, Count, Blame
    <3>. QED  BY <3>1, <1>1, <1>2, <1>4 DEF ScrapeData, shared, history
  <2>3. CASE JudgeTier(w)
    <3>1. dropped' \subseteq TierSet
      BY <2>3, <1>2, JudgeMoves
    <3>2. UNCHANGED <<shared, windows, hidden, failed, worked>>
      BY <2>3 DEF JudgeTier
    <3>. QED  BY <3>1, <3>2, <1>1, <1>2, <1>4 DEF ScrapeData, shared
  <2>4. CASE TakeSlot(w)
    <3>1. free' \in Nat
      BY <2>4, <1>2 DEF TakeSlot
    <3>2. UNCHANGED <<crawl, left, host, headed, used, history>>
      BY <2>4 DEF TakeSlot
    <3>. QED  BY <3>1, <3>2, <1>1, <1>2, <1>4 DEF ScrapeData, history
  <2>5. CASE ApplyCall(w)
    <3>1. headed' \in BOOLEAN
      BY <2>5, Zenon DEF ApplyCall
    <3>2. UNCHANGED <<crawl, left, host, free, used, history>>
      BY <2>5 DEF ApplyCall
    <3>. QED  BY <3>1, <3>2, <1>1, <1>2, <1>4 DEF ScrapeData, history
  <2>6. CASE Call(w)
    <3>1. /\ used' \in {used, used + 1} /\ windows' \in {windows, windows + 1}
          /\ UNCHANGED <<crawl, left, host, free, headed, failed, worked, dropped>>
      BY <2>6, <1>2 DEF Call, OpensShown, OpensOwn
    <3>2. hidden' \in BOOLEAN
      <4>1. hidden' = hidden \/ hidden' = (hidden \/ ~headed)
        BY <2>6 DEF Call, OpensShown, OpensOwn
      <4>. QED  BY <4>1, <1>2, Zenon
    <3>3. used' \in Nat /\ windows' \in Nat
      BY <3>1, <1>2
    <3>. QED  BY <3>1, <3>2, <3>3, <1>1, <1>2, <1>4 DEF ScrapeData
  <2>7. CASE LeaveCall(w)
    <3>1. headed' = job[w].saved /\ job[w].saved \in BOOLEAN
      BY <2>7, <1>2 DEF LeaveCall, JobsShape, JobRecords
    <3>2. UNCHANGED <<crawl, left, host, free, used, history>>
      BY <2>7 DEF LeaveCall
    <3>. QED  BY <3>1, <3>2, <1>1, <1>2, <1>4 DEF ScrapeData, history
  <2>8. CASE FreeSlot(w)
    <3>1. free' \in Nat
      BY <2>8, <1>2 DEF FreeSlot
    <3>2. UNCHANGED <<crawl, left, host, headed, used, history>>
      BY <2>8 DEF FreeSlot
    <3>. QED  BY <3>1, <3>2, <1>1, <1>2, <1>4 DEF ScrapeData, history
  <2>9. CASE Digest(w)
    <3>1. UNCHANGED <<crawl, left, free, headed, used, windows, hidden, dropped>>
      BY <2>9 DEF Digest
    <3>2. /\ host' \in {host, [host EXCEPT !.best = Tier(w)], [host EXCEPT !.cooling = TRUE],
                        [host EXCEPT !.blocked = TRUE]}
          /\ worked' \in {worked, worked \cup {Tier(w)}}
          /\ failed' \in {failed, [failed EXCEPT ![Tier(w)] = @ + 1]}
          /\ Tier(w) \in TierSet
      BY <2>9, <1>2, DigestMoves
    <3>3. host' \in HostRecords
      BY <3>2, <1>2, HostChanges
    <3>4. failed' \in [TierSet -> Nat]
      BY <3>2, <1>2
    <3>. QED  BY <3>1, <3>2, <3>3, <3>4, <1>1, <1>2, <1>4 DEF ScrapeData
  <2>10. CASE Retry(w)
    <3>1. UNCHANGED <<crawl, left, free, headed, windows, hidden, worked, dropped>>
      BY <2>10 DEF Retry
    <3>2. /\ host' \in {host, [host EXCEPT !.retried = @ \cup {Tier(w)}]}
          /\ failed' \in {failed, [failed EXCEPT ![Tier(w)] = @ + 1]}
          /\ used' \in {used, used + 1}
          /\ Tier(w) \in TierSet
      BY <2>10, <1>2, RetryMoves
    <3>3. Tier(w) \in Adaptive
      <4>1. job[w].pc = "budget"
        BY <2>10 DEF Retry, Doing
      <4>. QED  BY <4>1, <1>2 DEF JobsShape, JobsPlaced
    <3>4. host' \in HostRecords
      BY <3>2, <3>3, <1>2, HostChanges
    <3>5. failed' \in [TierSet -> Nat] /\ used' \in Nat
      BY <3>2, <1>2
    <3>. QED  BY <3>1, <3>4, <3>5, <1>1, <1>2, <1>4 DEF ScrapeData
  <2>11. CASE Tally(w) \/ Charge(w)
    <3>1. UNCHANGED <<crawl, left, free, headed, used, history>>
      BY <2>11 DEF Tally, Charge
    <3>. DEFINE n == job[w].seen + 1
                t == Tier(w)
    <3>2. /\ host' \in {[host EXCEPT !.attempts[t] = n], [host EXCEPT !.failures[t] = n]}
          /\ t \in TierSet
      BY <2>11, <1>2, TallyMoves, ChargeMoves
    <3>3. n \in Nat
      BY <1>2 DEF JobsShape, JobRecords
    <3>. HIDE DEF n, t
    <3>4. host' \in HostRecords
      <4>1. CASE host' = [host EXCEPT !.attempts[t] = n]
        BY <4>1, <3>2, <3>3, <1>2 DEF HostRecords
      <4>2. CASE host' = [host EXCEPT !.failures[t] = n]
        BY <4>2, <3>2, <3>3, <1>2 DEF HostRecords
      <4>. QED  BY <3>2, <4>1, <4>2
    <3>. QED  BY <3>1, <3>4, <1>1, <1>2, <1>4 DEF ScrapeData, history
  <2>. QED  BY <1>6, <2>1, <2>2, <2>3, <2>4, <2>5, <2>6, <2>7, <2>8, <2>9, <2>10, <2>11
            DEF ScraperStep
<1>. QED  BY <1>5, <1>6, ScrapeSteps

-----------------------------------------------------------------------------
(* The slots of the host.                                                    *)

Holds(spot) == spot \in {"enter", "apply", "call", "leave", "release"}
SlotHolders == {w \in Scrapers : Holds(job[w].pc)}

LEMMA SlotHoldersCounted ==
  /\ IsFiniteSet(SlotHolders) /\ Cardinality(SlotHolders) \in Nat
  /\ \A w \in Scrapers : /\ w \in SlotHolders => Cardinality(SlotHolders) >= 1
                         /\ Cardinality(SlotHolders \cup {w}) =
                              IF w \in SlotHolders THEN Cardinality(SlotHolders)
                              ELSE Cardinality(SlotHolders) + 1
                         /\ Cardinality(SlotHolders \ {w}) =
                              IF w \in SlotHolders THEN Cardinality(SlotHolders) - 1
                              ELSE Cardinality(SlotHolders)
<1>1. IsFiniteSet(SlotHolders)
  BY ScrapingAssumption, FS_Subset DEF SlotHolders
<1>2. Cardinality(SlotHolders) \in Nat
  BY <1>1, FS_CardinalityType
<1>3. ASSUME NEW w \in Scrapers
      PROVE  /\ w \in SlotHolders => Cardinality(SlotHolders) >= 1
             /\ Cardinality(SlotHolders \cup {w}) =
                  IF w \in SlotHolders THEN Cardinality(SlotHolders)
                  ELSE Cardinality(SlotHolders) + 1
             /\ Cardinality(SlotHolders \ {w}) =
                  IF w \in SlotHolders THEN Cardinality(SlotHolders) - 1
                  ELSE Cardinality(SlotHolders)
  <2>1. w \in SlotHolders => Cardinality(SlotHolders) # 0
    BY <1>1, FS_EmptySet
  <2>2. w \in SlotHolders => Cardinality(SlotHolders) >= 1
    BY <2>1, <1>2
  <2>3. Cardinality(SlotHolders \cup {w}) =
          IF w \in SlotHolders THEN Cardinality(SlotHolders) ELSE Cardinality(SlotHolders) + 1
    BY <1>1, FS_AddElement
  <2>4. Cardinality(SlotHolders \ {w}) =
          IF w \in SlotHolders THEN Cardinality(SlotHolders) - 1 ELSE Cardinality(SlotHolders)
    BY <1>1, FS_RemoveElement
  <2>. QED  BY <2>2, <2>3, <2>4
<1>. QED  BY <1>1, <1>2, <1>3

SlotsHeld == free + Cardinality(SlotHolders) = Slots

LEMMA SlotsKept ==
  ASSUME ScrapeShape, SlotsHeld, ScrapeNext
  PROVE  SlotsHeld'
<1>1. /\ UNCHANGED setting /\ Slots' = Slots /\ JobsShape /\ headed \in BOOLEAN /\ free \in Nat
      /\ Slots \in Nat
  BY ScrapeSteps, SetUpStays, ScrapingAssumption
     DEF ScrapeShape, ScrapeData, Slots, JobsShape
<1>2. ASSUME UNCHANGED free, \A x \in Scrapers : Holds(job'[x].pc) <=> Holds(job[x].pc)
      PROVE  SlotsHeld'
  <2>1. SlotHolders' = SlotHolders
    BY <1>2 DEF SlotHolders
  <2>. QED  BY <2>1, <1>1, <1>2 DEF SlotsHeld
<1>3. CASE UNCHANGED <<job, free>>
  BY <1>2, <1>3
<1>4. CASE PilotEnds
  BY <1>3, <1>4 DEF PilotEnds
<1>5. ASSUME NEW w \in Scrapers, ScraperStep(w)
      PROVE  SlotsHeld'
  <2>1. CASE TakeSlot(w)
    <3>1. /\ job[w].pc = "want" /\ job'[w].pc \in {"enter", "call"}
          /\ \A x \in Scrapers : x # w => job'[x] = job[x]
      BY <2>1, <1>1, TakeMoves DEF Becomes
    <3>2. SlotHolders' = SlotHolders \cup {w} /\ w \notin SlotHolders
      BY <3>1 DEF SlotHolders, Holds
    <3>3. Cardinality(SlotHolders)' = Cardinality(SlotHolders) + 1
      BY <3>2, SlotHoldersCounted
    <3>4. free' = free - 1 /\ free > 0
      BY <2>1 DEF TakeSlot
    <3>. QED  BY <3>3, <3>4, <1>1, SlotHoldersCounted DEF SlotsHeld
  <2>2. CASE FreeSlot(w)
    <3>1. /\ job[w].pc = "release" /\ job'[w].pc = "digest"
          /\ \A x \in Scrapers : x # w => job'[x] = job[x]
      <4>1. job[w].pc = "release"
        BY <2>2 DEF FreeSlot, Doing
      <4>. QED  BY <2>2, <4>1, <1>1, PlainMoves DEF Becomes
    <3>2. SlotHolders' = SlotHolders \ {w} /\ w \in SlotHolders
      BY <3>1 DEF SlotHolders, Holds
    <3>3. Cardinality(SlotHolders)' = Cardinality(SlotHolders) - 1
      BY <3>2, SlotHoldersCounted
    <3>4. free' = free + 1
      BY <2>2 DEF FreeSlot
    <3>. QED  BY <3>3, <3>4, <1>1, SlotHoldersCounted DEF SlotsHeld
  <2>3. CASE EnterCall(w) \/ ApplyCall(w) \/ Call(w) \/ LeaveCall(w)
    <3>1. /\ Holds(job[w].pc) /\ Holds(job'[w].pc)
          /\ \A x \in Scrapers : x # w => job'[x] = job[x]
      <4>1. CASE EnterCall(w)
        BY <4>1, <1>1, EnterMoves DEF Becomes, Holds
      <4>2. CASE ApplyCall(w) \/ LeaveCall(w)
        <5>1. job[w].pc \in {"apply", "leave"}
          BY <4>2 DEF ApplyCall, LeaveCall, Doing
        <5>. QED  BY <4>2, <5>1, <1>1, PlainMoves DEF Becomes, Holds
      <4>3. CASE Call(w)
        BY <4>3, <1>1, CallMoves DEF Becomes, Holds
      <4>. QED  BY <2>3, <4>1, <4>2, <4>3
    <3>2. free' = free
      BY <2>3 DEF EnterCall, ApplyCall, Call, LeaveCall, shared
    <3>. QED  BY <3>1, <3>2, <1>2
  <2>4. ASSUME UNCHANGED free, ~Holds(job[w].pc), ~Holds(job'[w].pc),
               \A x \in Scrapers : x # w => job'[x] = job[x]
        PROVE  SlotsHeld'
    BY <2>4, <1>2
  <2>5. CASE BeginPage(w)
    <3>1. UNCHANGED free
      BY <2>5 DEF BeginPage
    <3>. QED  BY <3>1, <2>4, <2>5, <1>1, <1>3, BeginMoves DEF Leaves, Holds
  <2>6. CASE GiveUpPage(w)
    <3>1. UNCHANGED free
      BY <2>6 DEF GiveUpPage, shared
    <3>. QED  BY <3>1, <2>4, <2>6, <1>1, GiveUpMoves DEF Leaves, Holds
  <2>7. CASE ChooseTier(w)
    <3>1. UNCHANGED free
      BY <2>7 DEF ChooseTier, shared
    <3>. QED  BY <3>1, <2>4, <2>7, <1>1, ChooseMoves DEF Becomes, Holds
  <2>8. CASE JudgeTier(w)
    <3>1. UNCHANGED free
      BY <2>8 DEF JudgeTier, shared
    <3>. QED  BY <3>1, <2>4, <2>8, <1>1, JudgeMoves DEF Becomes, Holds
  <2>9. CASE Digest(w)
    <3>1. UNCHANGED free
      BY <2>9 DEF Digest
    <3>2. /\ job[w].pc = "digest" /\ job'[w].pc \in {"count", "idle", "budget"}
          /\ \A x \in Scrapers : x # w => job'[x] = job[x]
      <4>1. job' = [job EXCEPT ![w] = IdleJob] =>
              job'[w].pc = "idle" /\ \A x \in Scrapers : x # w => job'[x] = job[x]
        BY <1>1, GoingIdle DEF JobsShape
      <4>. QED  BY <4>1, <2>9, <1>1, DigestMoves DEF Becomes
    <3>. QED  BY <3>1, <3>2, <2>4 DEF Holds
  <2>10. CASE Retry(w)
    <3>1. UNCHANGED free
      BY <2>10 DEF Retry
    <3>. QED  BY <3>1, <2>4, <2>10, <1>1, RetryMoves DEF Becomes, Holds
  <2>11. CASE Count(w) \/ Blame(w)
    <3>1. UNCHANGED free
      BY <2>11 DEF Count, Blame, shared
    <3>. QED  BY <3>1, <2>4, <2>11, <1>1, CountMoves DEF Becomes, Holds
  <2>12. CASE Tally(w)
    <3>1. UNCHANGED free
      BY <2>12 DEF Tally
    <3>2. /\ job[w].pc = "tally" /\ job'[w].pc \in {"idle", "blame"}
          /\ \A x \in Scrapers : x # w => job'[x] = job[x]
      <4>1. job' = [job EXCEPT ![w] = IdleJob] =>
              job'[w].pc = "idle" /\ \A x \in Scrapers : x # w => job'[x] = job[x]
        BY <1>1, GoingIdle DEF JobsShape
      <4>. QED  BY <4>1, <2>12, <1>1, TallyMoves DEF Becomes
    <3>. QED  BY <3>1, <3>2, <2>4 DEF Holds
  <2>13. CASE Charge(w)
    <3>1. UNCHANGED free
      BY <2>13 DEF Charge
    <3>. QED  BY <3>1, <2>4, <2>13, <1>1, ChargeMoves DEF Leaves, Holds
  <2>. QED  BY <1>5, <2>1, <2>2, <2>3, <2>5, <2>6, <2>7, <2>8, <2>9, <2>10, <2>11, <2>12, <2>13
            DEF ScraperStep
<1>. QED  BY <1>4, <1>5, ScrapeSteps

-----------------------------------------------------------------------------
(* The windows.                                                              *)

(* A step that neither opens a window nor touches what decides on one.       *)
Quiet(w) ==
  /\ UNCHANGED <<headed, used, windows, hidden>>
  /\ job[w].pc \notin {"enter", "apply", "call", "leave"}
  /\ \/ UNCHANGED job
     \/ Leaves(w)
     \/ /\ \A x \in Scrapers : x # w => job'[x] = job[x]
        /\ job'[w].saved = job[w].saved /\ job'[w].forced = job[w].forced
        /\ \/ job[w].pc \in {"choose", "judge"} /\ job'[w].pc \in {"choose", "judge", "want"}
           \/ job[w].pc = "want" /\ job'[w].pc = "enter"
           \/ /\ job[w].pc = "want" /\ job'[w].pc = "call"
              /\ Tier(w) \notin Adaptive /\ Tier(w)' = Tier(w)
           \/ job'[w].pc \in {"digest", "count", "budget", "tally", "blame", "charge"}

(* A retry that has its window from the budget.                              *)
Pays(w) ==
  /\ used < Cap /\ used' = used + 1 /\ UNCHANGED <<headed, windows, hidden>>
  /\ Becomes(w, "want", job[w].got, job[w].seen, job[w].saved, TRUE)
  /\ job[w].pc = "budget"

LEMMA WindowSteps ==
  ASSUME ScrapeShape, UNCHANGED setting, NEW w \in Scrapers, ScraperStep(w)
  PROVE  Quiet(w) \/ EnterCall(w) \/ ApplyCall(w) \/ Call(w) \/ LeaveCall(w) \/ Pays(w)
<1>1. JobsShape /\ job \in [Scrapers -> JobRecords]
  BY DEF ScrapeShape, JobsShape
<1>2. ASSUME UNCHANGED <<headed, used, windows, hidden>>, NEW spot, NEW got, NEW n,
             Becomes(w, spot, got, n, job[w].saved, job[w].forced),
             spot \in {"digest", "count", "budget", "tally", "blame", "charge"},
             job[w].pc \notin {"enter", "apply", "call", "leave"}
      PROVE  Quiet(w)
  BY <1>2 DEF Quiet, Becomes
<1>3. ASSUME UNCHANGED <<headed, used, windows, hidden>>, Leaves(w) \/ UNCHANGED job,
             job[w].pc \notin {"enter", "apply", "call", "leave"}
      PROVE  Quiet(w)
  BY <1>3 DEF Quiet
<1>4. CASE BeginPage(w) \/ GiveUpPage(w) \/ Charge(w)
  <2>1. UNCHANGED <<headed, used, windows, hidden>>
    BY <1>4 DEF BeginPage, GiveUpPage, Charge, shared, history
  <2>2. /\ Leaves(w) \/ UNCHANGED job
        /\ job[w].pc \in {"idle", "choose", "charge"}
    BY <1>1, <1>4, BeginMoves, GiveUpMoves, ChargeMoves
  <2>. QED  BY <1>3, <2>1, <2>2
<1>5. CASE ChooseTier(w)
  <2>1. UNCHANGED <<headed, used, windows, hidden>>
    BY <1>5 DEF ChooseTier, shared, history
  <2>2. job[w].pc = "choose" /\ job'[w].pc \in {"want", "judge"}
    BY <1>1, <1>5, ChooseMoves DEF Becomes
  <2>3. /\ \A x \in Scrapers : x # w => job'[x] = job[x]
        /\ job'[w].saved = job[w].saved /\ job'[w].forced = job[w].forced
    BY <1>1, <1>5, ChooseMoves DEF Becomes
  <2>. QED  BY <2>1, <2>2, <2>3 DEF Quiet
<1>6. CASE JudgeTier(w)
  <2>1. UNCHANGED <<headed, used, windows, hidden>>
    BY <1>6 DEF JudgeTier, shared
  <2>2. job[w].pc = "judge" /\ job'[w].pc \in {"want", "choose"}
    BY <1>1, <1>6, JudgeMoves DEF Becomes
  <2>3. /\ \A x \in Scrapers : x # w => job'[x] = job[x]
        /\ job'[w].saved = job[w].saved /\ job'[w].forced = job[w].forced
    BY <1>1, <1>6, JudgeMoves DEF Becomes
  <2>. QED  BY <2>1, <2>2, <2>3 DEF Quiet
<1>7. CASE TakeSlot(w)
  <2>1. UNCHANGED <<headed, used, windows, hidden>>
    BY <1>7 DEF TakeSlot, history
  <2>2. /\ Becomes(w, IF Tier(w) \in Adaptive THEN "enter" ELSE "call",
                   job[w].got, job[w].seen, job[w].saved, job[w].forced)
        /\ job[w].pc = "want"
    BY <1>1, <1>7, TakeMoves
  <2>3. Tier(w)' = Tier(w)
    BY <2>2, BecomesTier
  <2>. QED  BY <2>1, <2>2, <2>3 DEF Quiet, Becomes
<1>8. CASE FreeSlot(w)
  <2>1. UNCHANGED <<headed, used, windows, hidden>> /\ job[w].pc = "release"
    BY <1>8 DEF FreeSlot, Doing, history
  <2>2. Becomes(w, "digest", job[w].got, job[w].seen, job[w].saved, job[w].forced)
    BY <1>1, <1>8, <2>1, PlainMoves
  <2>. QED  BY <1>2, <2>1, <2>2
<1>9. CASE Digest(w)
  <2>1. UNCHANGED <<headed, used, windows, hidden>> /\ job[w].pc = "digest"
    BY <1>9 DEF Digest, Doing
  <2>2. CASE job' = [job EXCEPT ![w] = IdleJob]
    BY <1>1, <1>3, <2>1, <2>2, IdleLeaves
  <2>3. CASE Becomes(w, "count", job[w].got, job[w].seen, job[w].saved, job[w].forced)
    BY <1>2, <2>1, <2>3
  <2>4. CASE Becomes(w, "budget", job[w].got, job[w].seen, job[w].saved, job[w].forced)
    BY <1>2, <2>1, <2>4
  <2>. QED  BY <1>1, <1>9, <2>2, <2>3, <2>4, DigestMoves
<1>10. CASE Retry(w)
  <2>1. UNCHANGED <<headed, windows, hidden>> /\ job[w].pc = "budget"
    BY <1>10 DEF Retry, Doing
  <2>2. CASE /\ used < Cap /\ used' = used + 1
             /\ Becomes(w, "want", job[w].got, job[w].seen, job[w].saved, TRUE)
    BY <2>1, <2>2 DEF Pays
  <2>3. CASE /\ UNCHANGED used
             /\ Becomes(w, "count", job[w].got, job[w].seen, job[w].saved, job[w].forced)
    BY <1>2, <2>1, <2>3
  <2>. QED  BY <1>1, <1>10, <2>2, <2>3, RetryMoves
<1>11. CASE Count(w) \/ Blame(w)
  <2>1. UNCHANGED <<headed, used, windows, hidden>> /\ job[w].pc \in {"count", "blame"}
    BY <1>11 DEF Count, Blame, Doing, shared, history
  <2>2. \E spot \in {"tally", "charge"}, n \in {host.attempts[Tier(w)], host.failures[Tier(w)]} :
          Becomes(w, spot, job[w].got, n, job[w].saved, job[w].forced)
    BY <1>1, <1>11, CountMoves
  <2>. QED  BY <1>2, <2>1, <2>2
<1>12. CASE Tally(w)
  <2>1. UNCHANGED <<headed, used, windows, hidden>> /\ job[w].pc = "tally"
    BY <1>12 DEF Tally, Doing, history
  <2>2. CASE job' = [job EXCEPT ![w] = IdleJob]
    BY <1>1, <1>3, <2>1, <2>2, IdleLeaves
  <2>3. CASE Becomes(w, "blame", job[w].got, job[w].seen, job[w].saved, job[w].forced)
    BY <1>2, <2>1, <2>3
  <2>. QED  BY <1>1, <1>12, <2>2, <2>3, TallyMoves
<1>. QED  BY <1>4, <1>5, <1>6, <1>7, <1>8, <1>9, <1>10, <1>11, <1>12 DEF ScraperStep

(* With --browser-headed: whoever restores the variable restores it set.     *)
Enveloped(w) == job[w].pc \in {"apply", "call", "leave"} /\ Tier(w) \in Adaptive

AskedHeld == Asked => headed /\ ~hidden /\ \A w \in Scrapers : Enveloped(w) => job[w].saved

LEMMA AskedKept ==
  ASSUME ScrapeShape, AskedHeld, ScrapeNext
  PROVE  AskedHeld'
<1>1. /\ UNCHANGED setting /\ Asked' = Asked /\ JobsShape /\ JobsPlaced
      /\ headed \in BOOLEAN /\ hidden \in BOOLEAN /\ \A w \in Scrapers : job[w].saved \in BOOLEAN
  BY ScrapeSteps DEF ScrapeShape, ScrapeData, JobsShape, JobRecords
<1>2. SUFFICES ASSUME Asked
               PROVE  headed' /\ ~hidden' /\ \A w \in Scrapers : Enveloped(w)' => job'[w].saved
  BY <1>1 DEF AskedHeld
<1>3. headed /\ ~hidden /\ \A w \in Scrapers : Enveloped(w) => job[w].saved
  BY <1>2 DEF AskedHeld
<1>4. ASSUME NEW w \in Scrapers, \A x \in Scrapers : x # w => job'[x] = job[x],
             Enveloped(w)' => job'[w].saved
      PROVE  \A x \in Scrapers : Enveloped(x)' => job'[x].saved
  <2>1. ASSUME NEW x \in Scrapers, x # w, Enveloped(x)' PROVE job'[x].saved
    <3>1. job'[x] = job[x] /\ Tier(x)' = Tier(x)
      BY <1>1, <1>4, <2>1, OthersTier
    <3>2. Enveloped(x)
      BY <2>1, <3>1 DEF Enveloped
    <3>. QED  BY <3>1, <3>2, <1>3
  <2>. QED  BY <1>4, <2>1
<1>5. CASE UNCHANGED <<job, headed, hidden>>
  <2>1. \A w \in Scrapers : Tier(w)' = Tier(w)
    BY <1>1, <1>5, JobsStay
  <2>2. \A w \in Scrapers : Enveloped(w)' => Enveloped(w)
    BY <1>5, <2>1 DEF Enveloped
  <2>. QED  BY <1>3, <1>5, <2>2
<1>6. ASSUME NEW w \in Scrapers, ScraperStep(w)
      PROVE  headed' /\ ~hidden' /\ \A x \in Scrapers : Enveloped(x)' => job'[x].saved
  <2>1. CASE Quiet(w)
    <3>1. headed' /\ ~hidden'
      BY <1>3, <2>1 DEF Quiet
    <3>2. CASE UNCHANGED job
      BY <1>5, <2>1, <3>2 DEF Quiet
    <3>3. CASE ~UNCHANGED job
      <4>1. /\ \A x \in Scrapers : x # w => job'[x] = job[x]
            /\ \/ job'[w].pc \notin {"apply", "call", "leave"}
               \/ Tier(w)' \notin Adaptive
        BY <2>1, <3>3 DEF Quiet, Leaves
      <4>. QED  BY <3>1, <4>1, <1>4 DEF Enveloped
    <3>. QED  BY <3>2, <3>3
  <2>2. CASE EnterCall(w)
    <3>1. Becomes(w, "apply", job[w].got, job[w].seen, headed, job[w].forced)
      BY <1>1, <2>2, EnterMoves
    <3>2. UNCHANGED <<headed, hidden>>
      BY <2>2 DEF EnterCall, shared, history
    <3>3. job'[w].saved /\ \A x \in Scrapers : x # w => job'[x] = job[x]
      BY <1>3, <3>1 DEF Becomes
    <3>. QED  BY <3>2, <3>3, <1>3, <1>4
  <2>3. CASE ApplyCall(w)
    <3>1. job[w].pc = "apply"
      BY <2>3 DEF ApplyCall, Doing
    <3>2. Becomes(w, "call", job[w].got, job[w].seen, job[w].saved, job[w].forced)
      BY <1>1, <2>3, <3>1, PlainMoves
    <3>3. job[w].saved
      BY <3>1, <1>1, <1>3 DEF Enveloped, JobsPlaced
    <3>4. headed' /\ hidden' = hidden
      BY <2>3, <3>3, <1>3, Zenon DEF ApplyCall, history
    <3>5. job'[w].saved /\ \A x \in Scrapers : x # w => job'[x] = job[x]
      BY <3>2, <3>3 DEF Becomes
    <3>. QED  BY <3>4, <3>5, <1>3, <1>4
  <2>4. CASE Call(w)
    <3>1. PICK spot \in {"leave", "release"}, got \in PageOutcomes :
            /\ Becomes(w, spot, got, job[w].seen, job[w].saved, job[w].forced)
            /\ spot = "leave" => Tier(w) \in Adaptive
      BY <1>1, <2>4, CallMoves
    <3>2. headed' = headed /\ (hidden' = hidden \/ hidden' = (hidden \/ ~headed))
      BY <2>4 DEF Call, OpensShown, OpensOwn
    <3>3. headed' /\ ~hidden'
      <4>1. CASE hidden' = hidden
        BY <4>1, <3>2, <1>3
      <4>2. CASE hidden' = (hidden \/ ~headed)
        <5>1. ~(hidden \/ ~headed)
          BY <1>3
        <5>2. ~hidden'
          BY <4>2, <5>1
        <5>. QED  BY <5>2, <3>2, <1>3
      <4>. QED  BY <3>2, <4>1, <4>2
    <3>4. job[w].pc = "call" /\ Tier(w)' = Tier(w)
      BY <3>1, <1>1, <2>4, CallMoves, BecomesTier
    <3>5. Enveloped(w)' => job'[w].saved
      <4>1. Enveloped(w)' => Enveloped(w)
        BY <3>1, <3>4 DEF Enveloped, Becomes
      <4>. QED  BY <4>1, <3>1, <1>3 DEF Becomes
    <3>. QED  BY <3>1, <3>3, <3>5, <1>4 DEF Becomes
  <2>5. CASE LeaveCall(w)
    <3>1. job[w].pc = "leave"
      BY <2>5 DEF LeaveCall, Doing
    <3>2. Becomes(w, "release", job[w].got, job[w].seen, job[w].saved, job[w].forced)
      BY <1>1, <2>5, <3>1, PlainMoves
    <3>3. job[w].saved
      BY <3>1, <1>1, <1>3 DEF Enveloped, JobsPlaced
    <3>4. headed' /\ ~hidden'
      BY <2>5, <3>3, <1>3 DEF LeaveCall, history
    <3>5. job'[w].pc = "release" /\ \A x \in Scrapers : x # w => job'[x] = job[x]
      BY <3>2 DEF Becomes
    <3>. QED  BY <3>4, <3>5, <1>4 DEF Enveloped
  <2>6. CASE Pays(w)
    <3>1. headed' /\ ~hidden'
      BY <2>6, <1>3 DEF Pays
    <3>2. job'[w].pc = "want" /\ \A x \in Scrapers : x # w => job'[x] = job[x]
      BY <2>6 DEF Pays, Becomes
    <3>. QED  BY <3>1, <3>2, <1>4 DEF Enveloped
  <2>. QED  BY <1>1, <1>6, <2>1, <2>2, <2>3, <2>4, <2>5, <2>6, WindowSteps
<1>7. CASE PilotEnds
  BY <1>5, <1>7 DEF PilotEnds, history
<1>. QED  BY <1>6, <1>7, ScrapeSteps

(* A step is of one page, and that page was begun.                           *)
LEMMA OthersStay ==
  ASSUME ScrapeShape, UNCHANGED setting, NEW w \in Scrapers, ScraperStep(w)
  PROVE  /\ crawl' = crawl /\ \A x \in Scrapers : x # w => job'[x] = job[x]
         /\ job[w].pc = "idle" => BeginPage(w)
<1>1. crawl' = crawl
  BY DEF ScraperStep, BeginPage, GiveUpPage, ChooseTier, JudgeTier, TakeSlot, EnterCall,
         ApplyCall, Call, LeaveCall, FreeSlot, Digest, Retry, Count, Tally, Blame, Charge, shared
<1>2. job[w].pc = "idle" => BeginPage(w)
  BY DEF ScraperStep, GiveUpPage, ChooseTier, JudgeTier, TakeSlot, EnterCall,
         ApplyCall, Call, LeaveCall, FreeSlot, Digest, Retry, Count, Tally, Blame, Charge, Doing
<1>3. JobsShape /\ headed \in BOOLEAN
  BY DEF ScrapeShape, ScrapeData
<1>4. \A x \in Scrapers : x # w => job'[x] = job[x]
  <2>1. CASE Quiet(w)
    BY <2>1 DEF Quiet, Leaves
  <2>2. CASE EnterCall(w)
    BY <1>3, <2>2, EnterMoves DEF Becomes
  <2>3. CASE ApplyCall(w) \/ LeaveCall(w)
    BY <1>3, <2>3, PlainMoves DEF Becomes
  <2>4. CASE Call(w)
    BY <1>3, <2>4, CallMoves DEF Becomes
  <2>5. CASE Pays(w)
    BY <2>5 DEF Pays, Becomes
  <2>. QED  BY <2>1, <2>2, <2>3, <2>4, <2>5, WindowSteps
<1>. QED  BY <1>1, <1>2, <1>4

(* The pilot scrapes one page at a time.                                     *)
Scraped(w) == job[w].pc # "idle"
OnePage == crawl = "pilot" => \A w, x \in Scrapers : Scraped(w) /\ Scraped(x) => w = x

LEMMA OnePageKept ==
  ASSUME ScrapeShape, OnePage, ScrapeNext
  PROVE  OnePage'
<1>1. UNCHANGED setting
  BY ScrapeSteps
<1>2. CASE PilotEnds
  BY <1>2 DEF PilotEnds, OnePage
<1>3. ASSUME NEW w \in Scrapers, ScraperStep(w)
      PROVE  OnePage'
  <2>1. /\ crawl' = crawl /\ \A x \in Scrapers : x # w => job'[x] = job[x]
        /\ job[w].pc = "idle" => BeginPage(w)
    BY <1>1, <1>3, OthersStay
  <2>2. CASE BeginPage(w) /\ crawl = "pilot"
    <3>1. \A x \in Scrapers : job[x].pc = "idle"
      BY <2>2 DEF BeginPage, AllIdle
    <3>. QED  BY <2>1, <3>1 DEF OnePage, Scraped
  <2>3. CASE Scraped(w)
    BY <2>1, <2>3 DEF OnePage, Scraped
  <2>. QED  BY <2>1, <2>2, <2>3 DEF OnePage, Scraped
<1>. QED  BY <1>2, <1>3, ScrapeSteps

(* Only a retry is forced.                                                   *)
Unforced == \A w \in Scrapers : job[w].pc \in {"choose", "judge"} => ~job[w].forced

LEMMA FreshKept ==
  ASSUME ScrapeShape, Unforced, ScrapeNext
  PROVE  Unforced'
<1>1. UNCHANGED setting /\ JobsShape /\ headed \in BOOLEAN
  BY ScrapeSteps DEF ScrapeShape, ScrapeData
<1>2. CASE PilotEnds
  BY <1>2 DEF PilotEnds, Unforced
<1>3. ASSUME NEW w \in Scrapers, ScraperStep(w)
      PROVE  Unforced'
  <2>1. \A x \in Scrapers : x # w => job'[x] = job[x]
    BY <1>1, <1>3, OthersStay
  <2>2. SUFFICES job'[w].pc \in {"choose", "judge"} => ~job'[w].forced
    BY <2>1 DEF Unforced
  <2>3. CASE Quiet(w)
    BY <2>3 DEF Quiet, Leaves, Unforced
  <2>4. CASE EnterCall(w)
    BY <1>1, <2>4, EnterMoves DEF Becomes
  <2>5. CASE ApplyCall(w) \/ LeaveCall(w)
    BY <1>1, <2>5, PlainMoves DEF Becomes
  <2>6. CASE Call(w)
    BY <1>1, <2>6, CallMoves DEF Becomes
  <2>7. CASE Pays(w)
    BY <2>7 DEF Pays, Becomes
  <2>. QED  BY <1>1, <1>3, <2>3, <2>4, <2>5, <2>6, <2>7, WindowSteps
<1>. QED  BY <1>2, <1>3, ScrapeSteps

(* Where windows are not wanted at all, nobody ever sees the variable set.   *)
NoneWanted ==
  /\ used <= Cap
  /\ ~Asked /\ Cap = 0 =>
       windows = 0 /\ ~headed /\ \A w \in Scrapers : ~job[w].saved /\ ~job[w].forced

LEMMA NoneWantedKept ==
  ASSUME ScrapeShape, NoneWanted, ScrapeNext
  PROVE  NoneWanted'
<1>1. /\ UNCHANGED setting /\ Asked' = Asked /\ Cap' = Cap /\ JobsShape /\ headed \in BOOLEAN
      /\ used \in Nat /\ windows \in Nat /\ Cap \in Nat
  BY ScrapeSteps, ScrapingAssumption DEF ScrapeShape, ScrapeData, JobsShape, Cap
<1>2. used' <= Cap
  <2>1. used' = used \/ (used < Cap /\ used' = used + 1)
    <3>1. CASE PilotEnds
      BY <3>1 DEF PilotEnds
    <3>2. ASSUME NEW w \in Scrapers, ScraperStep(w)
          PROVE  used' = used \/ (used < Cap /\ used' = used + 1)
      <4>1. CASE Quiet(w) \/ EnterCall(w) \/ ApplyCall(w) \/ LeaveCall(w)
        BY <4>1 DEF Quiet, EnterCall, ApplyCall, LeaveCall, shared
      <4>2. CASE Call(w) \/ Pays(w)
        BY <4>2 DEF Call, OpensOwn, Pays
      <4>. QED  BY <1>1, <3>2, <4>1, <4>2, WindowSteps
    <3>. QED  BY <3>1, <3>2, ScrapeSteps
  <2>. QED  BY <2>1, <1>1 DEF NoneWanted
<1>3. CASE ~(~Asked /\ Cap = 0)
  BY <1>1, <1>2, <1>3 DEF NoneWanted
<1>4. CASE ~Asked /\ Cap = 0
  <2>1. /\ windows = 0 /\ ~headed /\ \A w \in Scrapers : ~job[w].saved /\ ~job[w].forced
        /\ used = 0
    BY <1>1, <1>4 DEF NoneWanted
  <2>2. SUFFICES windows' = 0 /\ ~headed' /\ \A w \in Scrapers : ~job'[w].saved /\ ~job'[w].forced
    BY <1>1, <1>2 DEF NoneWanted
  <2>3. CASE PilotEnds
    BY <2>1, <2>3 DEF PilotEnds, history
  <2>4. ASSUME NEW w \in Scrapers, ScraperStep(w)
        PROVE  windows' = 0 /\ ~headed' /\ \A x \in Scrapers : ~job'[x].saved /\ ~job'[x].forced
    <3>1. \A x \in Scrapers : x # w => job'[x] = job[x]
      BY <1>1, <2>4, OthersStay
    <3>2. SUFFICES windows' = 0 /\ ~headed' /\ ~job'[w].saved /\ ~job'[w].forced
      BY <3>1, <2>1
    <3>3. CASE Quiet(w)
      BY <3>3, <2>1 DEF Quiet, Leaves
    <3>4. CASE EnterCall(w)
      <4>1. ~job'[w].saved /\ ~job'[w].forced
        BY <1>1, <2>1, <3>4, EnterMoves DEF Becomes
      <4>2. windows' = windows /\ headed' = headed
        BY <3>4 DEF EnterCall, shared, history
      <4>. QED  BY <4>1, <4>2, <2>1
    <3>5. CASE ApplyCall(w) \/ LeaveCall(w)
      <4>1. ~job'[w].saved /\ ~job'[w].forced
        BY <1>1, <2>1, <3>5, PlainMoves DEF Becomes
      <4>2. windows' = windows
        BY <3>5 DEF ApplyCall, LeaveCall, history
      <4>3. headed' = job[w].saved \/ headed' = (job[w].forced \/ (job[w].saved /\ headed))
        BY <3>5 DEF ApplyCall, LeaveCall
      <4>4. ~(job[w].forced \/ (job[w].saved /\ headed)) /\ ~job[w].saved
        BY <2>1
      <4>5. ~headed'
        BY <4>3, <4>4, Zenon
      <4>. QED  BY <4>1, <4>2, <4>5, <2>1
    <3>6. CASE Call(w)
      <4>1. ~job'[w].saved /\ ~job'[w].forced
        BY <1>1, <2>1, <3>6, CallMoves DEF Becomes
      <4>2. headed' = headed
        BY <3>6 DEF Call
      <4>3. windows' = 0
        BY <1>1, <1>4, <2>1, <3>6 DEF Call, OpensShown, OpensOwn
      <4>. QED  BY <4>1, <4>2, <4>3, <2>1
    <3>7. CASE Pays(w)
      BY <1>1, <1>4, <2>1, <3>7 DEF Pays
    <3>. QED  BY <1>1, <2>4, <3>3, <3>4, <3>5, <3>6, <3>7, WindowSteps
  <2>. QED  BY <2>3, <2>4, ScrapeSteps
<1>. QED  BY <1>3, <1>4

(* In the pilot the variable is set only around the call of a retry, and     *)
(* that retry has a window of the budget left to open.                       *)
Shows(w) == job[w].forced /\ job[w].pc \in {"call", "leave"} /\ Tier(w) \in Adaptive
WillShow(w) == job[w].forced /\ job[w].pc \in {"want", "enter", "apply", "call"}

PilotHeld ==
  ~Asked /\ crawl = "pilot" =>
    /\ windows <= used
    /\ headed => \E w \in Scrapers : Shows(w)
    /\ \A w \in Scrapers : ~job[w].saved /\ (WillShow(w) => windows + 1 <= used)

LEMMA PilotKept ==
  ASSUME ScrapeShape, OnePage, Unforced, PilotHeld, ScrapeNext
  PROVE  PilotHeld'
<1>1. /\ UNCHANGED setting /\ Asked' = Asked /\ JobsShape /\ JobsPlaced /\ headed \in BOOLEAN
      /\ used \in Nat /\ windows \in Nat
  BY ScrapeSteps DEF ScrapeShape, ScrapeData, JobsShape
<1>2. CASE PilotEnds
  BY <1>2 DEF PilotEnds, PilotHeld
<1>3. ASSUME NEW w \in Scrapers, ScraperStep(w)
      PROVE  PilotHeld'
  <2>1. /\ crawl' = crawl /\ \A x \in Scrapers : x # w => job'[x] = job[x]
        /\ \A x \in Scrapers : x # w => Tier(x)' = Tier(x)
    BY <1>1, <1>3, OthersStay, OthersTier
  <2>2. SUFFICES ASSUME ~Asked, crawl = "pilot"
                 PROVE  /\ windows' <= used'
                        /\ headed' => \E x \in Scrapers : Shows(x)'
                        /\ \A x \in Scrapers :
                             ~job'[x].saved /\ (WillShow(x)' => windows' + 1 <= used')
    BY <1>1, <2>1 DEF PilotHeld
  <2>3. /\ windows <= used /\ (headed => \E x \in Scrapers : Shows(x))
        /\ \A x \in Scrapers : ~job[x].saved /\ (WillShow(x) => windows + 1 <= used)
    BY <2>2 DEF PilotHeld
  <2>4. \A x \in Scrapers : x # w => /\ (Shows(x)' <=> Shows(x)) /\ (WillShow(x)' <=> WillShow(x))
                                     /\ job'[x].saved = job[x].saved
    BY <2>1 DEF Shows, WillShow
  <2>5. \A x \in Scrapers : (Shows(x) \/ WillShow(x)) /\ job[w].pc # "idle" => x = w
    BY <2>2 DEF Shows, WillShow, OnePage, Scraped
(* A step that leaves the windows alone, of a page that does not show one.   *)
  <2>6. ASSUME UNCHANGED <<headed, windows>>, used' \in {used, used + 1},
               ~Shows(w), ~job'[w].saved,
               WillShow(w)' => WillShow(w) \/ used' = used + 1
        PROVE  /\ windows' <= used'
               /\ headed' => \E x \in Scrapers : Shows(x)'
               /\ \A x \in Scrapers :
                    ~job'[x].saved /\ (WillShow(x)' => windows' + 1 <= used')
    <3>1. headed' => \E x \in Scrapers : Shows(x)'
      <4>1. ASSUME headed' PROVE \E x \in Scrapers : Shows(x)'
        <5>1. headed
          BY <2>6, <4>1
        <5>2. PICK x \in Scrapers : Shows(x)
          BY <2>3, <5>1
        <5>3. x # w
          BY <2>6, <5>2
        <5>. QED  BY <2>4, <5>2, <5>3
      <4>. QED  BY <4>1
    <3>2. ASSUME NEW x \in Scrapers
          PROVE  ~job'[x].saved /\ (WillShow(x)' => windows' + 1 <= used')
      <4>1. ~job'[x].saved
        BY <2>3, <2>4, <2>6
      <4>2. WillShow(x)' => WillShow(x) \/ used' = used + 1
        BY <2>4, <2>6
      <4>. QED  BY <4>1, <4>2, <2>3, <2>6, <1>1
    <3>3. windows' <= used'
      BY <2>3, <2>6, <1>1
    <3>. QED  BY <3>1, <3>2, <3>3
  <2>7. CASE Quiet(w)
    <3>1. UNCHANGED <<headed, windows>> /\ used' = used /\ ~Shows(w)
      BY <2>7 DEF Quiet, Shows
    <3>2. ~job'[w].saved
      BY <2>3, <2>7 DEF Quiet, Leaves
    <3>3. WillShow(w)' => WillShow(w)
      BY <2>7 DEF Quiet, Leaves, WillShow, Unforced
    <3>. QED  BY <3>1, <3>2, <3>3, <2>6
  <2>8. CASE EnterCall(w)
    <3>1. /\ UNCHANGED <<headed, windows>> /\ used' = used
          /\ job[w].pc = "enter" /\ ~Shows(w)
      BY <2>8 DEF EnterCall, Doing, Shows, shared, history
    <3>2. Becomes(w, "apply", job[w].got, job[w].seen, headed, job[w].forced)
      BY <1>1, <2>8, EnterMoves
    <3>3. ~headed
      BY <3>1, <2>3, <2>5
    <3>4. ~job'[w].saved /\ (WillShow(w)' => WillShow(w))
      BY <3>1, <3>2, <3>3 DEF Becomes, WillShow
    <3>. QED  BY <3>1, <3>4, <2>6
  <2>9. CASE ApplyCall(w)
    <3>1. /\ UNCHANGED <<windows, used>> /\ job[w].pc = "apply"
          /\ headed' = (job[w].forced \/ (job[w].saved /\ headed))
      BY <2>9 DEF ApplyCall, Doing, history
    <3>2. Becomes(w, "call", job[w].got, job[w].seen, job[w].saved, job[w].forced)
      BY <1>1, <2>9, <3>1, PlainMoves
    <3>3. Tier(w)' = Tier(w) /\ Tier(w) \in Adaptive
      BY <3>1, <3>2, <1>1, BecomesTier DEF JobsPlaced
    <3>4. headed' => job[w].forced
      BY <3>1, <2>3, Zenon
    <3>5. headed' => Shows(w)'
      BY <3>2, <3>3, <3>4 DEF Becomes, Shows
    <3>6. ~job'[w].saved /\ (WillShow(w)' => WillShow(w))
      BY <3>1, <3>2, <2>3 DEF Becomes, WillShow
    <3>. QED  BY <3>1, <3>5, <3>6, <2>3, <2>4
  <2>10. CASE Call(w)
    <3>1. job[w].pc = "call" /\ headed' = headed
      BY <2>10 DEF Call, Doing
    <3>2. PICK spot \in {"leave", "release"}, got \in PageOutcomes :
            /\ Becomes(w, spot, got, job[w].seen, job[w].saved, job[w].forced)
            /\ Tier(w) \in Adaptive => spot = "leave"
      BY <1>1, <2>10, CallMoves
    <3>3. Tier(w)' = Tier(w)
      BY <3>2, <1>1, BecomesTier
    <3>4. headed => Shows(w)
      BY <3>1, <2>3, <2>5
    <3>5. headed' => Shows(w)'
      BY <3>1, <3>2, <3>3, <3>4 DEF Becomes, Shows
    <3>6. \A x \in Scrapers : ~WillShow(x)'
      <4>1. ~WillShow(w)'
        BY <3>2 DEF Becomes, WillShow
      <4>2. \A x \in Scrapers : x # w => ~WillShow(x)
        BY <3>1, <2>5
      <4>. QED  BY <4>1, <4>2, <2>4
    <3>7. windows' <= used'
      <4>1. CASE headed /\ OpensShown(headed) /\ UNCHANGED used
        <5>1. WillShow(w)
          BY <3>1, <3>4, <4>1 DEF Shows, WillShow
        <5>. QED  BY <4>1, <5>1, <2>3, <1>1 DEF OpensShown
      <4>2. CASE ~headed /\ OpensShown(headed) /\ UNCHANGED used
        BY <4>2, <2>3, <1>1 DEF OpensShown
      <4>3. CASE UNCHANGED <<used, windows>>
        BY <4>3, <2>3
      <4>4. CASE OpensOwn(w)
        BY <4>4, <2>3, <1>1 DEF OpensOwn
      <4>. QED  BY <2>10, <4>1, <4>2, <4>3, <4>4 DEF Call
    <3>8. ~job'[w].saved
      BY <3>2, <2>3 DEF Becomes
    <3>. QED  BY <3>5, <3>6, <3>7, <3>8, <2>3, <2>4
  <2>11. CASE LeaveCall(w)
    <3>1. /\ UNCHANGED <<windows, used>> /\ job[w].pc = "leave"
          /\ headed' = job[w].saved
      BY <2>11 DEF LeaveCall, Doing, history
    <3>2. Becomes(w, "release", job[w].got, job[w].seen, job[w].saved, job[w].forced)
      BY <1>1, <2>11, <3>1, PlainMoves
    <3>3. ~headed'
      BY <3>1, <2>3
    <3>4. ~job'[w].saved /\ ~WillShow(w)'
      BY <3>2, <2>3 DEF Becomes, WillShow
    <3>. QED  BY <3>1, <3>3, <3>4, <2>3, <2>4
  <2>12. CASE Pays(w)
    <3>1. UNCHANGED <<headed, windows>> /\ used' = used + 1 /\ ~Shows(w)
      BY <2>12 DEF Pays, Shows
    <3>2. ~job'[w].saved
      BY <2>3, <2>12 DEF Pays, Becomes
    <3>. QED  BY <3>1, <3>2, <2>6
  <2>. QED  BY <1>1, <1>3, <2>7, <2>8, <2>9, <2>10, <2>11, <2>12, WindowSteps
<1>. QED  BY <1>2, <1>3, ScrapeSteps

-----------------------------------------------------------------------------
(* The counters of the tiers.                                                *)

(* The pages that will still charge a failure to a tier.                     *)
Blaming(w) == job[w].pc \in {"count", "tally", "blame", "charge"} /\ job[w].got # "good"
Charging(t) == {w \in Scrapers : Blaming(w) /\ Tier(w) = t}

FailuresHeld ==
  /\ \A t \in TierSet : host.failures[t] + Cardinality(Charging(t)) <= failed[t]
  /\ \A w \in Scrapers :
       /\ job[w].pc \in {"blame", "charge"} => job[w].got # "good"
       /\ job[w].pc = "charge" =>
            job[w].seen + Cardinality(Charging(Tier(w))) <= failed[Tier(w)]
  /\ \A t \in dropped : failed[t] >= Threshold

LEMMA ChargingCounted ==
  ASSUME NEW t, NEW w \in Scrapers
  PROVE  /\ Cardinality(Charging(t)) \in Nat
         /\ w \in Charging(t) =>
              Cardinality(Charging(t) \ {w}) = Cardinality(Charging(t)) - 1
         /\ w \notin Charging(t) =>
              Cardinality(Charging(t) \cup {w}) = Cardinality(Charging(t)) + 1
<1>1. IsFiniteSet(Charging(t))
  BY ScrapingAssumption, FS_Subset DEF Charging
<1>. QED  BY <1>1, FS_CardinalityType, FS_AddElement, FS_RemoveElement

(* A step that neither fails a tier nor charges it.                          *)
Harmless(w) ==
  /\ host'.failures = host.failures /\ failed' = failed
  /\ Blaming(w)' <=> Blaming(w)
  /\ Blaming(w) => Tier(w)' = Tier(w)
  /\ job'[w].pc # "charge" /\ (job'[w].pc = "blame" => job'[w].got # "good")

(* A step at which a tier is known to have failed.                           *)
FailsNow(w) ==
  /\ host'.failures = host.failures /\ failed' = [failed EXCEPT ![Tier(w)] = @ + 1]
  /\ Tier(w) \in TierSet /\ Tier(w)' = Tier(w)
  /\ ~Blaming(w) /\ Blaming(w)' /\ job'[w].pc = "count"

LEMMA CountingSteps ==
  ASSUME ScrapeShape, UNCHANGED setting, NEW w \in Scrapers, ScraperStep(w)
  PROVE  Harmless(w) \/ FailsNow(w) \/ Blame(w) \/ Charge(w)
<1>1. JobsShape /\ job \in [Scrapers -> JobRecords] /\ headed \in BOOLEAN /\ host \in HostRecords
  BY DEF ScrapeShape, ScrapeData, JobsShape
<1>2. CASE BeginPage(w) \/ GiveUpPage(w)
  <2>1. host' = host /\ failed' = failed
    BY <1>2 DEF BeginPage, GiveUpPage, shared, history
  <2>2. job[w].pc \in {"idle", "choose"} /\ job'[w].pc \in {"idle", "choose"}
    BY <1>1, <1>2, BeginMoves, GiveUpMoves DEF Leaves
  <2>. QED  BY <2>1, <2>2 DEF Harmless, Blaming
<1>3. CASE ChooseTier(w) \/ JudgeTier(w)
  <2>1. host' = host /\ failed' = failed
    BY <1>3 DEF ChooseTier, JudgeTier, shared, history
  <2>2. job[w].pc \in {"choose", "judge"} /\ job'[w].pc \in {"choose", "judge", "want"}
    <3>1. CASE ChooseTier(w)
      BY <1>1, <3>1, ChooseMoves DEF Becomes
    <3>2. CASE JudgeTier(w)
      BY <1>1, <3>2, JudgeMoves DEF Becomes
    <3>. QED  BY <1>3, <3>1, <3>2
  <2>. QED  BY <2>1, <2>2 DEF Harmless, Blaming
<1>4. CASE TakeSlot(w) \/ EnterCall(w) \/ ApplyCall(w) \/ Call(w) \/ LeaveCall(w) \/ FreeSlot(w)
  <2>1. host' = host /\ failed' = failed
    BY <1>4 DEF TakeSlot, EnterCall, ApplyCall, Call, LeaveCall, FreeSlot, OpensShown, OpensOwn,
                shared, history
  <2>2. job[w].pc \in {"want", "enter", "apply", "call", "leave", "release"}
    BY <1>4 DEF TakeSlot, EnterCall, ApplyCall, Call, LeaveCall, FreeSlot, Doing
  <2>3. job'[w].pc \in {"enter", "apply", "call", "leave", "release", "digest"}
    <3>1. CASE TakeSlot(w)
      BY <1>1, <3>1, TakeMoves DEF Becomes
    <3>2. CASE EnterCall(w)
      BY <1>1, <3>2, EnterMoves DEF Becomes
    <3>3. CASE ApplyCall(w) \/ LeaveCall(w) \/ FreeSlot(w)
      BY <1>1, <3>3, PlainMoves DEF Becomes
    <3>4. CASE Call(w)
      BY <1>1, <3>4, CallMoves DEF Becomes
    <3>. QED  BY <1>4, <3>1, <3>2, <3>3, <3>4
  <2>. QED  BY <2>1, <2>2, <2>3 DEF Harmless, Blaming
<1>5. ASSUME NEW spot \in {"count", "budget"}, job[w].pc \in {"digest", "budget"},
             Becomes(w, spot, job[w].got, job[w].seen, job[w].saved, job[w].forced)
      PROVE  /\ job'[w].pc = spot /\ job'[w].got = job[w].got /\ ~Blaming(w)
             /\ Tier(w)' = Tier(w)
  BY <1>5, BecomesTier DEF Becomes, Blaming
<1>6. CASE Digest(w)
  <2>1. Tier(w) \in TierSet /\ job[w].pc = "digest"
    BY <1>1, <1>6, DigestMoves
  <2>2. CASE /\ job[w].got = "good"
             /\ host' = [host EXCEPT !.best = Tier(w)] /\ failed' = failed
             /\ Becomes(w, "count", job[w].got, job[w].seen, job[w].saved, job[w].forced)
    <3>1. host'.failures = host.failures
      BY <1>1, <2>2 DEF HostRecords
    <3>. QED  BY <1>5, <2>1, <2>2, <3>1 DEF Harmless, Blaming
  <2>3. CASE /\ job[w].got # "good" /\ host' \in {host, [host EXCEPT !.cooling = TRUE]}
             /\ failed' = [failed EXCEPT ![Tier(w)] = @ + 1]
             /\ Becomes(w, "count", job[w].got, job[w].seen, job[w].saved, job[w].forced)
    <3>1. host'.failures = host.failures
      BY <1>1, <2>3 DEF HostRecords
    <3>2. /\ job'[w].pc = "count" /\ job'[w].got # "good" /\ ~Blaming(w) /\ Tier(w)' = Tier(w)
      BY <1>5, <2>1, <2>3
    <3>. QED  BY <2>1, <2>3, <3>1, <3>2 DEF FailsNow, Blaming
  <2>4. CASE /\ host' = [host EXCEPT !.blocked = TRUE] /\ failed' = failed
             /\ job' = [job EXCEPT ![w] = IdleJob]
    <3>1. host'.failures = host.failures
      BY <1>1, <2>4 DEF HostRecords
    <3>2. job'[w].pc = "idle"
      BY <1>1, <2>4, GoingIdle
    <3>. QED  BY <2>1, <2>4, <3>1, <3>2 DEF Harmless, Blaming
  <2>5. CASE /\ UNCHANGED <<host, failed>>
             /\ Becomes(w, "budget", job[w].got, job[w].seen, job[w].saved, job[w].forced)
    BY <1>5, <2>1, <2>5 DEF Harmless, Blaming
  <2>. QED  BY <1>1, <1>6, <2>2, <2>3, <2>4, <2>5, DigestMoves
<1>7. CASE Retry(w)
  <2>1. Tier(w) \in TierSet /\ job[w].pc = "budget" /\ job[w].got = "blank"
    BY <1>1, <1>7, RetryMoves
  <2>2. CASE /\ host' = [host EXCEPT !.retried = @ \cup {Tier(w)}] /\ failed' = failed
             /\ Becomes(w, "want", job[w].got, job[w].seen, job[w].saved, TRUE)
    <3>1. host'.failures = host.failures
      BY <1>1, <2>2 DEF HostRecords
    <3>. QED  BY <2>1, <2>2, <3>1 DEF Harmless, Blaming, Becomes
  <2>3. CASE /\ UNCHANGED host /\ failed' = [failed EXCEPT ![Tier(w)] = @ + 1]
             /\ Becomes(w, "count", job[w].got, job[w].seen, job[w].saved, job[w].forced)
    BY <1>5, <2>1, <2>3 DEF FailsNow, Blaming
  <2>. QED  BY <1>1, <1>7, <2>2, <2>3, RetryMoves
<1>8. CASE Count(w)
  <2>1. host' = host /\ failed' = failed /\ job[w].pc = "count"
    BY <1>8 DEF Count, Doing, shared, history
  <2>2. Becomes(w, "tally", job[w].got, host.attempts[Tier(w)], job[w].saved, job[w].forced)
    BY <1>1, <1>8, <2>1, CountMoves
  <2>3. Tier(w)' = Tier(w)
    BY <2>2, BecomesTier
  <2>. QED  BY <2>1, <2>2, <2>3 DEF Harmless, Blaming, Becomes
<1>9. CASE Tally(w)
  <2>1. /\ job[w].pc = "tally" /\ failed' = failed
        /\ host' = [host EXCEPT !.attempts[Tier(w)] = job[w].seen + 1]
    BY <1>9 DEF Tally, Doing, history
  <2>2. host'.failures = host.failures
    BY <1>1, <2>1 DEF HostRecords
  <2>3. CASE job[w].got = "good" /\ job' = [job EXCEPT ![w] = IdleJob]
    <3>1. job'[w].pc = "idle"
      BY <1>1, <2>3, GoingIdle
    <3>. QED  BY <2>1, <2>2, <2>3, <3>1 DEF Harmless, Blaming
  <2>4. CASE /\ job[w].got # "good"
             /\ Becomes(w, "blame", job[w].got, job[w].seen, job[w].saved, job[w].forced)
    <3>1. Tier(w)' = Tier(w)
      BY <2>4, BecomesTier
    <3>. QED  BY <2>1, <2>2, <2>4, <3>1 DEF Harmless, Blaming, Becomes
  <2>. QED  BY <1>1, <1>9, <2>3, <2>4, TallyMoves
<1>. QED  BY <1>2, <1>3, <1>4, <1>6, <1>7, <1>8, <1>9 DEF ScraperStep

LEMMA FailuresKept ==
  ASSUME ScrapeShape, FailuresHeld, ScrapeNext
  PROVE  FailuresHeld'
<1>1. /\ UNCHANGED setting /\ TierSet' = TierSet /\ JobsShape /\ JobsPlaced /\ host \in HostRecords
      /\ failed \in [TierSet -> Nat] /\ dropped \subseteq TierSet /\ Threshold \in Nat
      /\ job \in [Scrapers -> JobRecords] /\ headed \in BOOLEAN
  BY ScrapeSteps, ScrapingAssumption DEF ScrapeShape, ScrapeData, JobsShape
<1>2. CASE PilotEnds
  <2>1. UNCHANGED <<job, host, failed, dropped>>
    BY <1>2 DEF PilotEnds, history
  <2>2. \A w \in Scrapers : Tier(w)' = Tier(w)
    BY <1>1, <2>1, JobsStay
  <2>3. \A t : Charging(t)' = Charging(t)
    BY <2>1, <2>2 DEF Charging, Blaming
  <2>. QED  BY <1>1, <2>1, <2>2, <2>3 DEF FailuresHeld
<1>3. ASSUME NEW w \in Scrapers, ScraperStep(w)
      PROVE  FailuresHeld'
  <2>1. /\ \A x \in Scrapers : x # w => job'[x] = job[x]
        /\ \A x \in Scrapers : x # w => Tier(x)' = Tier(x)
    BY <1>1, <1>3, OthersStay, OthersTier
  <2>2. \A x \in Scrapers : x # w => (Blaming(x)' <=> Blaming(x))
    BY <2>1 DEF Blaming
  <2>3. /\ \A t \in TierSet : host.failures[t] \in Nat /\ failed[t] \in Nat
        /\ \A x \in Scrapers : job[x].seen \in Nat
        /\ \A t : Cardinality(Charging(t)) \in Nat
    BY <1>1, <1>3, ChargingCounted DEF HostRecords, JobRecords
  <2>4. \A x \in Scrapers : job[x].pc \in {"blame", "charge"} =>
                              Tier(x) \in TierSet /\ x \in Charging(Tier(x))
    BY <1>1, TierOf DEF FailuresHeld, Charging, Blaming
(* The dropped tiers really failed.                                          *)
  <2>5. ASSUME \A t \in TierSet : failed'[t] >= failed[t]
        PROVE  \A t \in dropped' : failed'[t] >= Threshold
    <3>1. failed' \in [TierSet -> Nat]
      BY <1>1, ShapeKept DEF ScrapeShape, ScrapeData
    <3>2. \A t \in dropped : failed'[t] >= Threshold
      BY <1>1, <2>5, <3>1 DEF FailuresHeld
    <3>3. CASE dropped' = dropped
      BY <3>2, <3>3
    <3>4. CASE JudgeTier(w) /\ dropped' = dropped \cup {Tier(w)}
      <4>1. /\ Tier(w) \in TierSet /\ job[w].pc = "judge"
            /\ host.failures[Tier(w)] >= job[w].seen \/ dropped' = dropped
        BY <1>1, <3>4, JudgeMoves
      <4>2. job[w].seen >= Threshold
        BY <1>1, <4>1 DEF JobsPlaced
      <4>3. host.failures[Tier(w)] <= failed[Tier(w)]
        <5>1. host.failures[Tier(w)] + Cardinality(Charging(Tier(w))) <= failed[Tier(w)]
          BY <4>1 DEF FailuresHeld
        <5>. QED  BY <5>1, <4>1, <2>3
      <4>4. CASE host.failures[Tier(w)] >= job[w].seen
        <5>1. failed'[Tier(w)] >= Threshold
          BY <4>1, <4>2, <4>3, <4>4, <2>3, <2>5, <3>1, <1>1
        <5>. QED  BY <3>2, <3>4, <5>1
      <4>. QED  BY <4>1, <4>4, <3>2
    <3>5. dropped' = dropped \/ JudgeTier(w)
      BY <1>3 DEF ScraperStep, BeginPage, GiveUpPage, ChooseTier, TakeSlot, EnterCall, ApplyCall,
                  Call, LeaveCall, FreeSlot, Digest, Retry, Count, Tally, Blame, Charge, history
    <3>6. JudgeTier(w) => dropped' = dropped \/ dropped' = dropped \cup {Tier(w)}
      BY <1>1, JudgeMoves
    <3>. QED  BY <3>3, <3>4, <3>5, <3>6
  <2>6. CASE Harmless(w)
    <3>1. \A t : Charging(t)' = Charging(t)
      BY <2>1, <2>2, <2>6 DEF Harmless, Charging
    <3>2. \A t \in TierSet : host'.failures[t] + Cardinality(Charging(t))' <= failed'[t]
      BY <2>6, <3>1 DEF FailuresHeld, Harmless
    <3>3. ASSUME NEW x \in Scrapers
          PROVE  /\ job'[x].pc \in {"blame", "charge"} => job'[x].got # "good"
                 /\ job'[x].pc = "charge" =>
                      job'[x].seen + Cardinality(Charging(Tier(x)))' <= failed'[Tier(x)']
      <4>1. CASE x = w
        BY <2>6, <4>1 DEF Harmless
      <4>2. CASE x # w
        <5>1. job'[x] = job[x] /\ Tier(x)' = Tier(x) /\ failed' = failed
          BY <2>1, <2>6, <4>2 DEF Harmless
        <5>2. Charging(Tier(x))' = Charging(Tier(x))
          BY <3>1, <5>1 DEF Charging
        <5>. QED  BY <5>1, <5>2 DEF FailuresHeld
      <4>. QED  BY <4>1, <4>2
    <3>4. \A t \in dropped' : failed'[t] >= Threshold
      BY <2>3, <2>5, <2>6 DEF Harmless
    <3>. QED  BY <1>1, <3>2, <3>3, <3>4 DEF FailuresHeld
  <2>7. \A x \in Scrapers : x # w =>
          /\ job'[x] = job[x] /\ Tier(x)' = Tier(x)
          /\ job'[x].pc \in {"blame", "charge"} =>
               job'[x].got # "good" /\ Tier(x) \in TierSet
          /\ job'[x].pc = "charge" =>
               /\ job'[x].seen \in Nat
               /\ job'[x].seen + Cardinality(Charging(Tier(x))) <= failed[Tier(x)]
    BY <2>1, <2>3, <2>4 DEF FailuresHeld
  <2>8. CASE FailsNow(w)
    <3>. DEFINE T == Tier(w)
    <3>1. /\ T \in TierSet /\ host'.failures = host.failures
          /\ \A t \in TierSet : failed'[t] = IF t = T THEN failed[t] + 1 ELSE failed[t]
      BY <1>1, <2>8 DEF FailsNow
    <3>2. \A t : Charging(t)' = IF t = T THEN Charging(t) \cup {w} ELSE Charging(t)
      BY <2>1, <2>2, <2>8 DEF FailsNow, Charging
    <3>3. w \notin Charging(T)
      BY <2>8 DEF FailsNow, Charging
    <3>. HIDE DEF T
    <3>4. \A t \in TierSet :
            Cardinality(Charging(t)') = IF t = T THEN Cardinality(Charging(t)) + 1
                                        ELSE Cardinality(Charging(t))
      BY <1>3, <3>2, <3>3, ChargingCounted
    <3>5. \A t \in TierSet : host'.failures[t] + Cardinality(Charging(t)') <= failed'[t]
      BY <2>3, <3>1, <3>4 DEF FailuresHeld
    <3>6. ASSUME NEW x \in Scrapers
          PROVE  /\ job'[x].pc \in {"blame", "charge"} => job'[x].got # "good"
                 /\ job'[x].pc = "charge" =>
                      job'[x].seen + Cardinality(Charging(Tier(x)))' <= failed'[Tier(x)']
      <4>1. CASE x = w
        BY <2>8, <4>1 DEF FailsNow
      <4>2. CASE x # w
        <5>1. SUFFICES ASSUME job'[x].pc = "charge"
                       PROVE  job'[x].seen + Cardinality(Charging(Tier(x)))' <= failed'[Tier(x)']
          BY <2>7, <4>2
        <5>2. PICK t \in TierSet : t = Tier(x) /\ t = Tier(x)'
          BY <2>7, <4>2, <5>1
        <5>3. job'[x].seen \in Nat /\ job'[x].seen + Cardinality(Charging(t)) <= failed[t]
          BY <2>7, <4>2, <5>1, <5>2
        <5>4. job'[x].seen + Cardinality(Charging(t)') <= failed'[t]
          BY <5>3, <2>3, <3>1, <3>4
        <5>5. Charging(Tier(x))' = Charging(t)'
          BY <5>2 DEF Charging
        <5>. QED  BY <5>2, <5>4, <5>5
      <4>. QED  BY <4>1, <4>2
    <3>7. \A t \in dropped' : failed'[t] >= Threshold
      BY <2>3, <2>5, <3>1
    <3>. QED  BY <1>1, <3>5, <3>6, <3>7 DEF FailuresHeld
  <2>9. CASE Blame(w)
    <3>1. UNCHANGED <<host, failed>> /\ job[w].pc = "blame"
      BY <2>9 DEF Blame, Doing, shared, history
    <3>2. /\ Tier(w) \in TierSet
          /\ Becomes(w, "charge", job[w].got, host.failures[Tier(w)], job[w].saved, job[w].forced)
      BY <1>1, <2>9, <3>1, CountMoves
    <3>3. Tier(w)' = Tier(w)
      BY <1>1, <3>2, BecomesTier
    <3>4. Blaming(w)' <=> Blaming(w)
      BY <3>1, <3>2 DEF Blaming, Becomes
    <3>5. \A t : Charging(t)' = Charging(t)
      BY <2>1, <2>2, <3>3, <3>4 DEF Charging
    <3>6. \A t \in TierSet : host'.failures[t] + Cardinality(Charging(t)') <= failed'[t]
      BY <3>1, <3>5 DEF FailuresHeld
    <3>7. ASSUME NEW x \in Scrapers
          PROVE  /\ job'[x].pc \in {"blame", "charge"} => job'[x].got # "good"
                 /\ job'[x].pc = "charge" =>
                      job'[x].seen + Cardinality(Charging(Tier(x)))' <= failed'[Tier(x)']
      <4>1. Charging(Tier(x))' = Charging(Tier(x))
        <5>1. Tier(x)' = Tier(x)
          BY <2>1, <3>3
        <5>. QED  BY <3>5, <5>1 DEF Charging
      <4>2. CASE x = w
        <5>1. job'[w].seen = host.failures[Tier(w)] /\ job'[w].got = job[w].got
          BY <3>2 DEF Becomes
        <5>2. job[w].got # "good"
          BY <3>1 DEF FailuresHeld
        <5>. QED  BY <4>1, <4>2, <5>1, <5>2, <3>1, <3>2, <3>3 DEF FailuresHeld
      <4>3. CASE x # w
        BY <2>7, <3>1, <4>1, <4>3
      <4>. QED  BY <4>2, <4>3
    <3>8. \A t \in dropped' : failed'[t] >= Threshold
      BY <2>3, <2>5, <3>1
    <3>. QED  BY <1>1, <3>6, <3>7, <3>8 DEF FailuresHeld
  <2>10. CASE Charge(w)
    <3>. DEFINE T == Tier(w)
                n == job[w].seen
    <3>1. /\ T \in TierSet /\ job[w].pc = "charge" /\ job'[w].pc \in {"idle", "choose"}
          /\ host' = [host EXCEPT !.failures[T] = n + 1]
      BY <1>1, <2>10, ChargeMoves DEF Leaves
    <3>2. failed' = failed /\ n \in Nat /\ w \in Charging(T)
      BY <2>3, <2>4, <2>10, <3>1 DEF Charge, history
    <3>3. \A t \in TierSet : host'.failures[t] = IF t = T THEN n + 1 ELSE host.failures[t]
      BY <1>1, <3>1 DEF HostRecords
    <3>4. \A t : Charging(t)' = IF t = T THEN Charging(t) \ {w} ELSE Charging(t)
      BY <2>1, <2>2, <3>1 DEF Charging, Blaming
    <3>5. n + Cardinality(Charging(T)) <= failed[T]
      BY <3>1 DEF FailuresHeld
    <3>. HIDE DEF T, n
    <3>6. \A t \in TierSet :
            Cardinality(Charging(t)') = IF t = T THEN Cardinality(Charging(t)) - 1
                                        ELSE Cardinality(Charging(t))
      BY <1>3, <3>2, <3>4, ChargingCounted
    <3>7. \A t \in TierSet : host'.failures[t] + Cardinality(Charging(t)') <= failed'[t]
      BY <2>3, <3>1, <3>2, <3>3, <3>5, <3>6 DEF FailuresHeld
    <3>8. ASSUME NEW x \in Scrapers
          PROVE  /\ job'[x].pc \in {"blame", "charge"} => job'[x].got # "good"
                 /\ job'[x].pc = "charge" =>
                      job'[x].seen + Cardinality(Charging(Tier(x)))' <= failed'[Tier(x)']
      <4>1. CASE x = w
        BY <3>1, <4>1
      <4>2. CASE x # w
        <5>1. SUFFICES ASSUME job'[x].pc = "charge"
                       PROVE  job'[x].seen + Cardinality(Charging(Tier(x)))' <= failed'[Tier(x)']
          BY <2>7, <4>2
        <5>2. PICK t \in TierSet : t = Tier(x) /\ t = Tier(x)'
          BY <2>7, <4>2, <5>1
        <5>3. job'[x].seen \in Nat /\ job'[x].seen + Cardinality(Charging(t)) <= failed[t]
          BY <2>7, <4>2, <5>1, <5>2
        <5>4. job'[x].seen + Cardinality(Charging(t)') <= failed'[t]
          BY <5>3, <2>3, <3>2, <3>6
        <5>5. Charging(Tier(x))' = Charging(t)'
          BY <5>2 DEF Charging
        <5>. QED  BY <5>2, <5>4, <5>5
      <4>. QED  BY <4>1, <4>2
    <3>9. \A t \in dropped' : failed'[t] >= Threshold
      BY <2>3, <2>5, <3>2
    <3>. QED  BY <1>1, <3>7, <3>8, <3>9 DEF FailuresHeld
  <2>. QED  BY <1>1, <1>3, <2>6, <2>8, <2>9, <2>10, CountingSteps
<1>. QED  BY <1>2, <1>3, ScrapeSteps

(* While one page is scraped at a time no update of a counter is lost.       *)
Attempts(t) == host.attempts[t]
Failures(t) == host.failures[t]
Credits(w, t) == job[w].pc \in {"count", "tally"} /\ job[w].got = "good" /\ Tier(w) = t

PageExact(w) ==
  /\ job[w].pc \in {"judge", "tally"} => job[w].seen = Attempts(Tier(w))
  /\ job[w].pc = "charge" => job[w].seen = Failures(Tier(w))
  /\ job[w].pc \in {"blame", "charge"} =>
       /\ job[w].got # "good" /\ Failures(Tier(w)) < Attempts(Tier(w))
       /\ Tier(w) \in worked => Failures(Tier(w)) + 1 < Attempts(Tier(w))
  /\ job[w].pc \notin {"idle", "choose", "judge"} => Tier(w) \notin dropped

TierExact(t) ==
  /\ Failures(t) <= Attempts(t)
  /\ t \in worked => Failures(t) < Attempts(t) \/ \E w \in Scrapers : Credits(w, t)
  /\ t \in dropped => Attempts(t) >= Threshold /\ Failures(t) >= Attempts(t)

CountersExact ==
  crawl = "pilot" =>
    (\A w \in Scrapers : PageExact(w)) /\ (\A t \in TierSet : TierExact(t))

LEMMA CountersKept ==
  ASSUME ScrapeShape, OnePage, CountersExact, ScrapeNext
  PROVE  CountersExact'
<1>1. /\ UNCHANGED setting /\ TierSet' = TierSet /\ JobsShape /\ JobsPlaced /\ host \in HostRecords
      /\ worked \subseteq TierSet /\ dropped \subseteq TierSet /\ Threshold \in Nat
      /\ job \in [Scrapers -> JobRecords] /\ headed \in BOOLEAN
  BY ScrapeSteps, ScrapingAssumption DEF ScrapeShape, ScrapeData, JobsShape
<1>2. CASE PilotEnds
  BY <1>2 DEF PilotEnds, CountersExact
<1>3. ASSUME NEW w \in Scrapers, ScraperStep(w)
      PROVE  CountersExact'
  <2>1. /\ crawl' = crawl /\ \A x \in Scrapers : x # w => job'[x] = job[x]
        /\ job[w].pc = "idle" => BeginPage(w)
    BY <1>1, <1>3, OthersStay
  <2>2. SUFFICES ASSUME crawl = "pilot"
                 PROVE  (\A x \in Scrapers : PageExact(x)') /\ (\A t \in TierSet : TierExact(t)')
    BY <1>1, <2>1 DEF CountersExact
  <2>3. PageExact(w) /\ \A t \in TierSet : TierExact(t)
    BY <2>2 DEF CountersExact
(* Every other page is over or not begun.                                    *)
  <2>4. \A x \in Scrapers : x # w => job[x].pc = "idle" /\ job'[x].pc = "idle"
    <3>1. CASE job[w].pc = "idle"
      <4>1. BeginPage(w)
        BY <2>1, <3>1
      <4>2. \A x \in Scrapers : job[x].pc = "idle"
        BY <4>1, <2>2 DEF BeginPage, AllIdle
      <4>. QED  BY <4>2, <2>1
    <3>2. CASE job[w].pc # "idle"
      <4>1. \A x \in Scrapers : x # w => job[x].pc = "idle"
        BY <2>2, <3>2 DEF OnePage, Scraped
      <4>. QED  BY <4>1, <2>1
    <3>. QED  BY <3>1, <3>2
  <2>5. \A x \in Scrapers : x # w => PageExact(x)'
    BY <2>4 DEF PageExact
  <2>6. \A t : (\E x \in Scrapers : Credits(x, t)) => Credits(w, t)
    BY <2>4 DEF Credits
  <2>7. /\ \A t \in TierSet : Attempts(t) \in Nat /\ Failures(t) \in Nat
        /\ job[w].seen \in Nat
    BY <1>1 DEF HostRecords, JobRecords, Attempts, Failures
(* Steps that leave the counters of the host and the lists alone.            *)
  <2>8. ASSUME host'.attempts = host.attempts, host'.failures = host.failures,
               UNCHANGED <<worked, dropped>>, PageExact(w)',
               \A t \in TierSet : Credits(w, t) => Credits(w, t)'
        PROVE  (\A x \in Scrapers : PageExact(x)') /\ (\A t \in TierSet : TierExact(t)')
    <3>1. ASSUME NEW t \in TierSet PROVE TierExact(t)'
      <4>1. Attempts(t)' = Attempts(t) /\ Failures(t)' = Failures(t)
        BY <2>8 DEF Attempts, Failures
      <4>2. TierExact(t)
        BY <2>3
      <4>3. (\E x \in Scrapers : Credits(x, t)) => \E x \in Scrapers : Credits(x, t)'
        BY <2>6, <2>8, <3>1
      <4>. QED  BY <4>1, <4>2, <4>3, <2>8 DEF TierExact
    <3>. QED  BY <2>5, <2>8, <3>1
  <2>9. CASE BeginPage(w) \/ GiveUpPage(w)
    <3>1. UNCHANGED <<host, worked, dropped>>
      BY <2>9 DEF BeginPage, GiveUpPage, shared, history
    <3>2. job[w].pc \in {"idle", "choose"} /\ job'[w].pc \in {"idle", "choose"}
      BY <1>1, <2>9, BeginMoves, GiveUpMoves DEF Leaves
    <3>3. PageExact(w)' /\ \A t : ~Credits(w, t)
      BY <3>2 DEF PageExact, Credits
    <3>. QED  BY <3>1, <3>3, <2>8
  <2>10. CASE ChooseTier(w)
    <3>. DEFINE T == Tier(w)
    <3>1. UNCHANGED <<host, worked, dropped>>
      BY <2>10 DEF ChooseTier, shared, history
    <3>2. /\ T \in TierSet /\ job[w].pc = "choose"
          /\ Becomes(w, IF Attempts(T) < Threshold THEN "want" ELSE "judge",
                     job[w].got, Attempts(T), job[w].saved, job[w].forced)
      BY <1>1, <2>10, ChooseMoves DEF Attempts
    <3>3. T' = T
      BY <1>1, <3>2, BecomesTier
    <3>4. Attempts(T) < Threshold => T \notin dropped
      BY <2>3, <2>7, <3>2, <1>1 DEF TierExact
    <3>5. /\ job'[w].pc = (IF Attempts(T) < Threshold THEN "want" ELSE "judge")
          /\ job'[w].seen = Attempts(T) /\ Attempts(T)' = Attempts(T)
      BY <3>1, <3>2, <3>3 DEF Becomes, Attempts
    <3>6. Attempts(Tier(w))' = Attempts(T)
      BY <3>5
    <3>. HIDE DEF T
    <3>7. Tier(w)' = T
      BY <3>3 DEF T
    <3>8. PageExact(w)'
      BY <3>1, <3>4, <3>5, <3>6, <3>7 DEF PageExact
    <3>9. \A t : ~Credits(w, t)
      BY <3>2 DEF Credits
    <3>. QED  BY <3>1, <3>8, <3>9, <2>8
(* On the way from a slot to the counters.                                   *)
  <2>11. ASSUME host'.attempts = host.attempts, host'.failures = host.failures,
                UNCHANGED <<worked, dropped>>, NEW spot, NEW got, NEW n, NEW b, NEW c,
                Becomes(w, spot, got, n, b, c),
                job[w].pc \notin {"idle", "choose", "judge", "count", "tally"},
                spot \notin {"judge", "tally", "blame", "charge"}
         PROVE  (\A x \in Scrapers : PageExact(x)') /\ (\A t \in TierSet : TierExact(t)')
    <3>1. Tier(w)' = Tier(w) /\ job'[w].pc = spot
      BY <1>1, <2>11, BecomesTier DEF Becomes
    <3>2. Tier(w) \notin dropped
      BY <2>3, <2>11 DEF PageExact
    <3>3. PageExact(w)'
      BY <2>11, <3>1, <3>2 DEF PageExact
    <3>4. \A t : ~Credits(w, t)
      BY <2>11 DEF Credits
    <3>. QED  BY <2>8, <2>11, <3>3, <3>4
  <2>12. CASE TakeSlot(w) \/ EnterCall(w)
    <3>1. UNCHANGED <<host, worked, dropped>>
      BY <2>12 DEF TakeSlot, EnterCall, shared, history
    <3>2. CASE TakeSlot(w)
      <4>. DEFINE spot == IF Tier(w) \in Adaptive THEN "enter" ELSE "call"
      <4>1. /\ job[w].pc = "want"
            /\ Becomes(w, spot, job[w].got, job[w].seen, job[w].saved, job[w].forced)
        BY <1>1, <3>2, TakeMoves
      <4>2. spot \notin {"judge", "tally", "blame", "charge"}
        OBVIOUS
      <4>. HIDE DEF spot
      <4>. QED  BY <3>1, <4>1, <4>2, <2>11
    <3>3. CASE EnterCall(w)
      <4>1. /\ job[w].pc = "enter"
            /\ Becomes(w, "apply", job[w].got, job[w].seen, headed, job[w].forced)
        BY <1>1, <3>3, EnterMoves
      <4>. QED  BY <3>1, <4>1, <2>11
    <3>. QED  BY <2>12, <3>2, <3>3
  <2>13. CASE ApplyCall(w) \/ LeaveCall(w) \/ FreeSlot(w)
    <3>1. UNCHANGED <<host, worked, dropped>>
      BY <2>13 DEF ApplyCall, LeaveCall, FreeSlot, history
    <3>2. PICK spot \in {"call", "release", "digest"} :
            /\ job[w].pc \in {"apply", "leave", "release"}
            /\ Becomes(w, spot, job[w].got, job[w].seen, job[w].saved, job[w].forced)
      BY <1>1, <2>13, PlainMoves
    <3>. QED  BY <3>1, <3>2, <2>11
  <2>14. CASE Call(w)
    <3>1. UNCHANGED <<host, worked, dropped>>
      BY <2>14 DEF Call
    <3>. DEFINE spot == IF Tier(w) \in Adaptive THEN "leave" ELSE "release"
    <3>2. job[w].pc = "call"
      BY <1>1, <2>14, CallMoves
    <3>3. PICK got \in PageOutcomes :
            Becomes(w, spot, got, job[w].seen, job[w].saved, job[w].forced)
      BY <1>1, <2>14, CallMoves
    <3>4. spot \notin {"judge", "tally", "blame", "charge"}
      OBVIOUS
    <3>. HIDE DEF spot
    <3>. QED  BY <3>1, <3>2, <3>3, <3>4, <2>11
  <2>15. CASE Retry(w)
    <3>1. UNCHANGED <<worked, dropped>> /\ job[w].pc = "budget"
      BY <2>15 DEF Retry, Doing, Fails
    <3>2. PICK spot \in {"want", "count"}, c \in BOOLEAN :
            Becomes(w, spot, job[w].got, job[w].seen, job[w].saved, c)
      <4>1. job[w].forced \in BOOLEAN
        BY <1>1 DEF JobRecords
      <4>. QED  BY <4>1, <1>1, <2>15, RetryMoves
    <3>3. host'.attempts = host.attempts /\ host'.failures = host.failures
      BY <1>1, <2>15, RetryMoves DEF HostRecords
    <3>. QED  BY <3>1, <3>2, <3>3, <2>11
(* A tier is judged by what both counters say.                               *)
  <2>16. CASE JudgeTier(w)
    <3>. DEFINE T == Tier(w)
                n == job[w].seen
    <3>1. /\ T \in TierSet /\ job[w].pc = "judge" /\ host' = host /\ worked' = worked
          /\ n = Attempts(T) /\ n >= Threshold
      BY <1>1, <2>3, <2>16, JudgeMoves DEF JudgeTier, shared, JobsPlaced, PageExact
    <3>2. \A t : Attempts(t)' = Attempts(t) /\ Failures(t)' = Failures(t) /\ ~Credits(w, t)
      BY <3>1 DEF Attempts, Failures, Credits
    <3>3. CASE Failures(T) >= n
      <4>1. /\ dropped' = dropped \cup {T}
            /\ job'[w].pc = "choose"
        BY <1>1, <2>16, <3>3, JudgeMoves DEF Failures
      <4>2. PageExact(w)'
        BY <4>1 DEF PageExact
      <4>3. ASSUME NEW t \in TierSet PROVE TierExact(t)'
        <5>1. TierExact(t) /\ ~\E x \in Scrapers : Credits(x, t)
          BY <2>3, <2>6, <3>2
        <5>. HIDE DEF T, n
        <5>2. t \in dropped' => Attempts(t) >= Threshold /\ Failures(t) >= Attempts(t)
          BY <3>1, <3>3, <4>1, <5>1 DEF TierExact
        <5>. QED  BY <3>1, <3>2, <5>1, <5>2 DEF TierExact
      <4>. QED  BY <2>5, <4>2, <4>3
    <3>4. CASE ~(Failures(T) >= n)
      <4>1. /\ dropped' = dropped
            /\ Becomes(w, "want", job[w].got, job[w].seen, job[w].saved, job[w].forced)
        BY <1>1, <2>16, <3>4, JudgeMoves DEF Failures
      <4>2. T \notin dropped
        BY <2>3, <3>1, <3>4 DEF TierExact
      <4>3. Tier(w)' = T /\ job'[w].pc = "want"
        BY <1>1, <4>1, BecomesTier DEF Becomes
      <4>4. PageExact(w)'
        BY <4>1, <4>2, <4>3 DEF PageExact
      <4>. QED  BY <2>8, <3>1, <3>2, <4>1, <4>4
    <3>. QED  BY <3>3, <3>4
  <2>17. CASE Digest(w)
    <3>. DEFINE T == Tier(w)
    <3>1. /\ T \in TierSet /\ job[w].pc = "digest" /\ dropped' = dropped
          /\ T \notin dropped
          /\ host'.attempts = host.attempts /\ host'.failures = host.failures
      BY <1>1, <2>3, <2>17, DigestMoves DEF Digest, HostRecords, PageExact
    <3>2. CASE /\ job[w].got = "good" /\ worked' = worked \cup {T}
               /\ Becomes(w, "count", job[w].got, job[w].seen, job[w].saved, job[w].forced)
      <4>1. Tier(w)' = T /\ job'[w].pc = "count" /\ job'[w].got = "good"
        BY <1>1, <3>2, BecomesTier DEF Becomes
      <4>2. PageExact(w)' /\ \A t : t = T => Credits(w, t)'
        BY <3>1, <4>1 DEF PageExact, Credits
      <4>3. \A t : Attempts(t)' = Attempts(t) /\ Failures(t)' = Failures(t) /\ ~Credits(w, t)
        BY <3>1 DEF Attempts, Failures, Credits
      <4>4. ASSUME NEW t \in TierSet PROVE TierExact(t)'
        <5>1. TierExact(t) /\ ~\E x \in Scrapers : Credits(x, t)
          BY <2>3, <2>6, <4>3
        <5>. HIDE DEF T
        <5>2. CASE t = T
          BY <3>1, <4>2, <4>3, <5>1, <5>2 DEF TierExact
        <5>3. CASE t # T
          BY <3>1, <3>2, <4>3, <5>1, <5>3 DEF TierExact
        <5>. QED  BY <5>2, <5>3
      <4>. QED  BY <2>5, <4>2, <4>4
    <3>3. CASE /\ worked' = worked
               /\ \E spot \in {"count", "budget"} :
                    Becomes(w, spot, job[w].got, job[w].seen, job[w].saved, job[w].forced)
      <4>1. PICK spot \in {"count", "budget"} :
                    Becomes(w, spot, job[w].got, job[w].seen, job[w].saved, job[w].forced)
        BY <3>3
      <4>. QED  BY <3>1, <3>3, <4>1, <2>11
    <3>4. CASE worked' = worked /\ job' = [job EXCEPT ![w] = IdleJob]
      <4>1. job'[w].pc = "idle"
        BY <1>1, <3>4, GoingIdle
      <4>2. PageExact(w)' /\ \A t : ~Credits(w, t)
        BY <3>1, <4>1 DEF PageExact, Credits
      <4>. QED  BY <2>8, <3>1, <3>4, <4>2
    <3>. QED  BY <1>1, <2>17, <3>2, <3>3, <3>4, DigestMoves
(* The counters are read and written in four steps of this page alone.       *)
  <2>18. CASE Count(w) \/ Blame(w)
    <3>. DEFINE T == Tier(w)
    <3>1. UNCHANGED <<host, worked, dropped>> /\ T \in TierSet
      BY <1>1, <2>18, CountMoves DEF Count, Blame, shared, history
    <3>2. \A t : Attempts(t)' = Attempts(t) /\ Failures(t)' = Failures(t)
      BY <3>1 DEF Attempts, Failures
    <3>3. CASE Count(w)
      <4>1. /\ job[w].pc = "count"
            /\ Becomes(w, "tally", job[w].got, Attempts(T), job[w].saved, job[w].forced)
        BY <1>1, <3>3, CountMoves DEF Attempts, Count, Blame, Doing
      <4>2. /\ Tier(w)' = T /\ job'[w].pc = "tally" /\ job'[w].seen = Attempts(T)
            /\ job'[w].got = job[w].got
        BY <1>1, <4>1, BecomesTier DEF Becomes
      <4>3. T \notin dropped
        BY <2>3, <4>1 DEF PageExact
      <4>4. Attempts(Tier(w))' = Attempts(T)
        BY <3>2, <4>2 DEF Attempts
      <4>5. PageExact(w)'
        BY <3>1, <4>2, <4>3, <4>4 DEF PageExact
      <4>6. \A t \in TierSet : Credits(w, t) => Credits(w, t)'
        BY <4>1, <4>2 DEF Credits
      <4>. QED  BY <2>8, <3>1, <4>5, <4>6
    <3>4. CASE Blame(w)
      <4>1. /\ job[w].pc = "blame"
            /\ Becomes(w, "charge", job[w].got, Failures(T), job[w].saved, job[w].forced)
        BY <1>1, <3>4, CountMoves DEF Failures, Count, Blame, Doing
      <4>2. /\ Tier(w)' = T /\ job'[w].pc = "charge" /\ job'[w].seen = Failures(T)
            /\ job'[w].got = job[w].got
        BY <1>1, <4>1, BecomesTier DEF Becomes
      <4>3. /\ T \notin dropped /\ job[w].got # "good" /\ Failures(T) < Attempts(T)
            /\ T \in worked => Failures(T) + 1 < Attempts(T)
        BY <2>3, <4>1 DEF PageExact
      <4>4. Attempts(Tier(w))' = Attempts(T) /\ Failures(Tier(w))' = Failures(T)
        BY <3>2, <4>2 DEF Attempts, Failures
      <4>5. PageExact(w)'
        BY <3>1, <4>2, <4>3, <4>4 DEF PageExact
      <4>6. \A t \in TierSet : ~Credits(w, t)
        BY <4>1 DEF Credits
      <4>. QED  BY <2>8, <3>1, <4>5, <4>6
    <3>. QED  BY <2>18, <3>3, <3>4
  <2>19. CASE Tally(w)
    <3>. DEFINE T == Tier(w)
                n == job[w].seen
    <3>1. /\ T \in TierSet /\ job[w].pc = "tally" /\ UNCHANGED <<worked, dropped>>
          /\ host' = [host EXCEPT !.attempts[T] = n + 1]
      BY <1>1, <2>19, TallyMoves DEF Tally, history
    <3>2. n = Attempts(T) /\ T \notin dropped
      BY <2>3, <3>1 DEF PageExact
    <3>3. \A t \in TierSet : /\ Attempts(t)' = (IF t = T THEN n + 1 ELSE Attempts(t))
                             /\ Failures(t)' = Failures(t)
      BY <1>1, <3>1 DEF HostRecords, Attempts, Failures
    <3>4. CASE job[w].got = "good" /\ job' = [job EXCEPT ![w] = IdleJob]
      <4>1. job'[w].pc = "idle"
        BY <1>1, <3>4, GoingIdle
      <4>2. PageExact(w)' /\ \A t : t # T => ~Credits(w, t)
        BY <4>1 DEF PageExact, Credits
      <4>3. ASSUME NEW t \in TierSet PROVE TierExact(t)'
        <5>1. /\ TierExact(t) /\ Attempts(t) \in Nat /\ Failures(t) \in Nat
              /\ t # T => ~\E x \in Scrapers : Credits(x, t)
          BY <2>3, <2>6, <2>7, <4>2
        <5>. HIDE DEF T, n
        <5>2. CASE t = T
          BY <3>1, <3>2, <3>3, <5>1, <5>2 DEF TierExact
        <5>3. CASE t # T
          BY <3>1, <3>3, <5>1, <5>3 DEF TierExact
        <5>. QED  BY <5>2, <5>3
      <4>. QED  BY <2>5, <4>2, <4>3
    <3>5. CASE /\ job[w].got # "good"
               /\ Becomes(w, "blame", job[w].got, job[w].seen, job[w].saved, job[w].forced)
      <4>1. /\ Tier(w)' = T /\ job'[w].pc = "blame" /\ job'[w].got = job[w].got
        BY <1>1, <3>5, BecomesTier DEF Becomes
      <4>2. \A t : ~Credits(w, t)
        BY <3>5 DEF Credits
      <4>3. ASSUME NEW t \in TierSet PROVE TierExact(t)'
        <5>1. /\ TierExact(t) /\ Attempts(t) \in Nat /\ Failures(t) \in Nat
              /\ ~\E x \in Scrapers : Credits(x, t)
          BY <2>3, <2>6, <2>7, <4>2
        <5>. HIDE DEF T, n
        <5>2. CASE t = T
          BY <3>1, <3>2, <3>3, <5>1, <5>2 DEF TierExact
        <5>3. CASE t # T
          BY <3>1, <3>3, <5>1, <5>3 DEF TierExact
        <5>. QED  BY <5>2, <5>3
      <4>4. /\ TierExact(T) /\ Attempts(T) \in Nat /\ Failures(T) \in Nat
            /\ ~\E x \in Scrapers : Credits(x, T)
        BY <2>3, <2>6, <2>7, <3>1, <4>2
      <4>5. Attempts(Tier(w))' = n + 1 /\ Failures(Tier(w))' = Failures(T)
        <5>1. host'.attempts[T] = n + 1 /\ host'.failures[T] = Failures(T)
          BY <3>1, <3>3 DEF Attempts, Failures
        <5>2. Attempts(Tier(w))' = host'.attempts[T] /\ Failures(Tier(w))' = host'.failures[T]
          BY <4>1 DEF Attempts, Failures
        <5>. QED  BY <5>1, <5>2
      <4>. HIDE DEF T, n
      <4>6. PageExact(w)'
        BY <3>1, <3>2, <3>5, <4>1, <4>4, <4>5 DEF PageExact, TierExact
      <4>. QED  BY <2>5, <4>3, <4>6
    <3>. QED  BY <1>1, <2>19, <3>4, <3>5, TallyMoves
  <2>20. CASE Charge(w)
    <3>. DEFINE T == Tier(w)
                n == job[w].seen
    <3>1. /\ T \in TierSet /\ job[w].pc = "charge" /\ UNCHANGED <<worked, dropped>>
          /\ host' = [host EXCEPT !.failures[T] = n + 1]
          /\ job'[w].pc \in {"idle", "choose"}
      BY <1>1, <2>20, ChargeMoves DEF Charge, history, Leaves
    <3>2. /\ n = Failures(T) /\ T \notin dropped /\ Failures(T) < Attempts(T)
          /\ T \in worked => Failures(T) + 1 < Attempts(T)
      BY <2>3, <3>1 DEF PageExact
    <3>3. \A t \in TierSet : /\ Failures(t)' = (IF t = T THEN n + 1 ELSE Failures(t))
                             /\ Attempts(t)' = Attempts(t)
      BY <1>1, <3>1 DEF HostRecords, Attempts, Failures
    <3>4. PageExact(w)' /\ \A t : ~Credits(w, t)
      BY <3>1 DEF PageExact, Credits
    <3>5. ASSUME NEW t \in TierSet PROVE TierExact(t)'
      <4>1. /\ TierExact(t) /\ Attempts(t) \in Nat /\ Failures(t) \in Nat
            /\ ~\E x \in Scrapers : Credits(x, t)
        BY <2>3, <2>6, <2>7, <3>4
      <4>. HIDE DEF T, n
      <4>2. CASE t = T
        BY <3>1, <3>2, <3>3, <4>1, <4>2 DEF TierExact
      <4>3. CASE t # T
        BY <3>1, <3>3, <4>1, <4>3 DEF TierExact
      <4>. QED  BY <4>2, <4>3
    <3>. QED  BY <2>5, <3>4, <3>5
  <2>. QED  BY <1>3, <2>9, <2>10, <2>12, <2>13, <2>14, <2>15, <2>16, <2>17, <2>18, <2>19, <2>20
            DEF ScraperStep
<1>. QED  BY <1>2, <1>3, ScrapeSteps

-----------------------------------------------------------------------------
(* All together.                                                             *)
ScrapeInv ==
  /\ ScrapeShape /\ SlotsHeld /\ AskedHeld
  /\ OnePage /\ Unforced /\ NoneWanted /\ PilotHeld
  /\ FailuresHeld /\ CountersExact

LEMMA ScrapeBegins ==
  ASSUME ScrapeInit
  PROVE  ScrapeInv
<1>1. /\ setting \in Settings /\ Threshold \in Nat \ {0} /\ Pages \in Nat
      /\ Slots \in Nat \ {0} /\ Cap \in Nat /\ Asked \in BOOLEAN
  BY ScrapingAssumption DEF ScrapeInit, Slots, Cap, Asked
<1>2. /\ job \in [Scrapers -> JobRecords]
      /\ \A w \in Scrapers : /\ job[w].pc = "idle" /\ job[w].i = 1
                             /\ ~job[w].saved /\ ~job[w].forced
  BY IdleIsAJob DEF ScrapeInit, IdleJob
<1>3. JobsPlaced
  BY <1>2 DEF JobsPlaced
<1>4. host \in HostRecords
  BY DEF ScrapeInit, HostRecords
<1>5. ScrapeData
  <2>1. failed \in [TierSet -> Nat] /\ worked \subseteq TierSet /\ dropped \subseteq TierSet
    BY DEF ScrapeInit
  <2>2. left \in 0..Pages
    BY <1>1 DEF ScrapeInit
  <2>3. free \in Nat /\ headed \in BOOLEAN /\ used \in Nat /\ windows \in Nat
    BY <1>1 DEF ScrapeInit
  <2>4. crawl \in {"pilot", "pool", "aborted"} /\ hidden \in BOOLEAN
    BY DEF ScrapeInit
  <2>. QED  BY <2>1, <2>2, <2>3, <2>4 DEF ScrapeData
<1>6. ScrapeShape
  BY <1>1, <1>2, <1>3, <1>4, <1>5 DEF ScrapeShape, JobsShape
<1>7. SlotsHeld
  <2>1. SlotHolders = {}
    BY <1>2 DEF SlotHolders, Holds
  <2>. QED  BY <1>1, <2>1, FS_EmptySet DEF SlotsHeld, ScrapeInit
<1>8. AskedHeld /\ OnePage /\ Unforced /\ NoneWanted /\ PilotHeld
  BY <1>1, <1>2
     DEF AskedHeld, OnePage, Unforced, NoneWanted, PilotHeld, Enveloped, Scraped, WillShow, ScrapeInit
<1>9. FailuresHeld
  <2>1. \A t : Cardinality(Charging(t)) = 0
    <3>1. \A t : Charging(t) = {}
      BY <1>2 DEF Charging, Blaming
    <3>. QED  BY <3>1, FS_EmptySet
  <2>2. \A t \in TierSet : host.failures[t] = 0 /\ failed[t] = 0
    BY DEF ScrapeInit
  <2>3. dropped = {}
    BY DEF ScrapeInit
  <2>. QED  BY <1>2, <2>1, <2>2, <2>3 DEF FailuresHeld
<1>10. CountersExact
  <2>1. \A t \in TierSet : Attempts(t) = 0 /\ Failures(t) = 0
    BY DEF ScrapeInit, Attempts, Failures
  <2>2. worked = {} /\ dropped = {}
    BY DEF ScrapeInit
  <2>3. \A w \in Scrapers : PageExact(w)
    BY <1>2 DEF PageExact
  <2>. QED  BY <2>1, <2>2, <2>3 DEF CountersExact, TierExact
<1>. QED  BY <1>6, <1>7, <1>8, <1>9, <1>10 DEF ScrapeInv

LEMMA ScrapeStutters ==
  ASSUME ScrapeInv, UNCHANGED scrapeVars
  PROVE  ScrapeInv'
<1>1. UNCHANGED <<setting, crawl, left, host, free, headed, used, job, windows, hidden,
                  failed, worked, dropped>>
  BY DEF scrapeVars, shared, history
<1>2. \A w \in Scrapers : Tier(w)' = Tier(w)
  BY <1>1, TierStays
<1>3. ScrapeShape' /\ SlotsHeld'
  <2>1. /\ TierSet' = TierSet /\ Tiers' = Tiers
        /\ JobRecords' = JobRecords /\ HostRecords' = HostRecords
        /\ Slots' = Slots
    BY <1>1, SetUpStays
  <2>2. ScrapeShape /\ SlotsHeld
    BY DEF ScrapeInv
  <2>3. JobsPlaced'
    BY <1>1, <1>2, <2>1, <2>2 DEF ScrapeShape, JobsShape, JobsPlaced
  <2>4. ScrapeData'
    BY <1>1, <2>1, <2>2 DEF ScrapeShape, ScrapeData
  <2>5. SlotsHeld'
    BY <1>1, <2>1, <2>2 DEF SlotsHeld, SlotHolders, Holds
  <2>. QED  BY <1>1, <2>1, <2>2, <2>3, <2>4, <2>5 DEF ScrapeShape, JobsShape
<1>4. AskedHeld' /\ OnePage' /\ Unforced' /\ NoneWanted' /\ PilotHeld'
  BY <1>1, <1>2
     DEF ScrapeInv, AskedHeld, OnePage, Unforced, NoneWanted, PilotHeld, Enveloped, Scraped, Shows,
         WillShow, Asked, Cap
<1>5. FailuresHeld'
  <2>1. \A t : Charging(t)' = Charging(t)
    BY <1>1, <1>2 DEF Charging, Blaming
  <2>. QED  BY <1>1, <1>2, <2>1 DEF ScrapeInv, FailuresHeld, TierSet, Tiers
<1>6. CountersExact'
  <2>1. \A w \in Scrapers : PageExact(w)' <=> PageExact(w)
    BY <1>1, <1>2 DEF PageExact, Attempts, Failures
  <2>2. \A t : TierExact(t)' <=> TierExact(t)
    BY <1>1, <1>2 DEF TierExact, Attempts, Failures, Credits
  <2>3. TierSet' = TierSet
    BY <1>1 DEF TierSet, Tiers
  <2>. QED  BY <1>1, <2>1, <2>2, <2>3 DEF ScrapeInv, CountersExact
<1>. QED  BY <1>3, <1>4, <1>5, <1>6 DEF ScrapeInv

LEMMA ScrapeGoesOn ==
  ASSUME ScrapeInv, [ScrapeNext]_scrapeVars
  PROVE  ScrapeInv'
<1>1. CASE ScrapeNext
  <2>1. /\ ScrapeShape /\ SlotsHeld /\ AskedHeld /\ OnePage /\ Unforced /\ NoneWanted /\ PilotHeld
        /\ FailuresHeld /\ CountersExact
    BY DEF ScrapeInv
  <2>2. ScrapeShape' /\ SlotsHeld' /\ AskedHeld'
    BY <1>1, <2>1, ShapeKept, SlotsKept, AskedKept
  <2>3. OnePage' /\ Unforced' /\ NoneWanted' /\ PilotHeld'
    BY <1>1, <2>1, OnePageKept, FreshKept, NoneWantedKept, PilotKept
  <2>4. FailuresHeld' /\ CountersExact'
    BY <1>1, <2>1, FailuresKept, CountersKept
  <2>. QED  BY <2>2, <2>3, <2>4 DEF ScrapeInv
<1>2. CASE UNCHANGED scrapeVars
  BY <1>2, ScrapeStutters
<1>. QED  BY <1>1, <1>2

LEMMA InvMakesSound ==
  ASSUME ScrapeInv
  PROVE  ScrapingSound
<1>1. /\ ScrapeShape /\ JobsShape /\ ScrapeData /\ SlotsHeld /\ NoneWanted /\ PilotHeld
      /\ FailuresHeld /\ CountersExact /\ AskedHeld
  BY DEF ScrapeInv, ScrapeShape
<1>2. SlotsAccounted
  <2>1. SlotHolders = {w \in Scrapers :
                     job[w].pc \in {"enter", "apply", "call", "leave", "release"}}
    BY DEF SlotHolders, Holds
  <2>. QED  BY <1>1, <2>1 DEF SlotsHeld, SlotsAccounted
<1>3. free \in 0..Slots
  <2>1. Cardinality(SlotHolders) \in Nat /\ Slots \in Nat
    <3>1. IsFiniteSet(SlotHolders)
      BY ScrapingAssumption, FS_Subset DEF SlotHolders
    <3>. QED  BY <1>1, <3>1, FS_CardinalityType, ScrapingAssumption DEF JobsShape, Slots
  <2>2. free \in Nat
    BY <1>1 DEF ScrapeData
  <2>. QED  BY <1>1, <2>1, <2>2 DEF SlotsHeld
<1>4. ScrapeTypeOK
  BY <1>1, <1>3 DEF ScrapeTypeOK, ScrapeData, JobsShape, JobRecords, HostRecords
<1>5. WindowsInvited
  BY <1>1 DEF WindowsInvited, NoneWanted, PilotHeld
<1>6. AskedIsShown
  BY <1>1 DEF AskedIsShown, AskedHeld
<1>7. SkippedForCause
  <2>1. ASSUME crawl = "pilot", NEW t \in dropped, t \in worked
        PROVE  FALSE
    <3>1. t \in TierSet
      BY <1>1, <2>1 DEF ScrapeData
    <3>2. TierExact(t) /\ \A w \in Scrapers : PageExact(w)
      BY <1>1, <2>1, <3>1 DEF CountersExact
    <3>3. Attempts(t) \in Nat /\ Failures(t) \in Nat
      BY <1>1, <3>1 DEF JobsShape, HostRecords, Attempts, Failures
    <3>4. \A w \in Scrapers : ~Credits(w, t)
      BY <2>1, <3>2 DEF Credits, PageExact
    <3>. QED  BY <2>1, <3>2, <3>3, <3>4 DEF TierExact
  <2>2. \A t \in dropped : failed[t] >= Threshold
    BY <1>1 DEF FailuresHeld
  <2>. QED  BY <2>1, <2>2 DEF SkippedForCause
<1>. QED  BY <1>2, <1>4, <1>5, <1>6, <1>7 DEF ScrapingSound

(* data/scrape.py, scraping/orchestrator.py, headed_budget.py: the threads   *)
(* of a crawl share windows, slots and the counters of the host as           *)
(* ScrapingSound says, for any number of threads, tiers and pages and for    *)
(* every set-up of a run.                                                    *)
THEOREM ScrapingIsSound == ScrapeSpec => []ScrapingSound
<1>1. ScrapeInit => ScrapeInv
  BY ScrapeBegins
<1>2. ScrapeInv /\ [ScrapeNext]_scrapeVars => ScrapeInv'
  BY ScrapeGoesOn
<1>3. ScrapeInv => ScrapingSound
  BY InvMakesSound
<1>. QED  BY <1>1, <1>2, <1>3, PTL DEF ScrapeSpec

-----------------------------------------------------------------------------
(* The batch of companies, and the single runs beside it.                    *)

(* What the run state of a process says, if every read of it succeeded.    *)
StateRead(p) ==
  /\ State(p).known
  /\ place[p] \in {"running", "published"} =>
       State(p).status = "running" /\ State(p).fulfilled = "none"
  /\ place[p] = "settled" => State(p).status = "running"
  /\ place[p] \in {"returned", "bound"} => State(p).status = "completed"

(* Each process has a run folder of its own, the batch that of the row it  *)
(* is at, and it vouches only for runs it is done with.                    *)
RunsApart ==
  /\ \A p \in Procs : place[p] # "idle" => cur[p] # 0 /\ cur[p] \notin vouched
  /\ cur["batch"] = cur["single"] => cur["batch"] = 0
AtRow ==
  place["batch"] # "idle" =>
    /\ batchPhase = "run" /\ State("batch").company = plan[at]
    /\ command.explicit /\ State("batch").known => State("batch").targets = Expected
StatesRead ==
  "read" \notin command.faulty => \A p \in Procs : place[p] # "idle" => StateRead(p)
RunsOwned == RunsApart /\ AtRow /\ StatesRead

(* A report is its company's, of a run that published it; only such a      *)
(* report is bound.                                                        *)
ReportsOwned ==
  /\ \A c \in Rows : report[c] # 0 => runs[report[c]].company = c
  /\ \A p \in Procs : place[p] = "running" =>
       /\ \A c \in Rows : report[c] # cur[p]
       /\ \A i \in DOMAIN runs : runs[i].bound # cur[p]

(* Nobody publishes over a report of the batch before it is bound; there   *)
(* may be no such report if it could not be written.                       *)
ReportHeld == ~command.overlap =>
  /\ place["batch"] \in {"running", "published", "settled", "returned"}
     /\ place["single"] \in {"running", "published", "settled"}
       => State("batch").company # State("single").company
  /\ place["batch"] \in {"published", "settled", "returned"} =>
       report[State("batch").company] = cur["batch"] \/ cur["batch"] \in unwritten
  /\ place["single"] # "idle" /\ State("single").known => State("single").targets = "other"

(* A run that covers a report wrote it, if it could write its own.         *)
BoundToOwn == ~command.overlap =>
  \A i \in DOMAIN runs :
    runs[i].known /\ runs[i].targets = Expected /\ runs[i].bound # 0
      /\ runs[i].bound = report[runs[i].company]
      => runs[i].bound = i \/ i \in unwritten

(* A report a batch vouched for is left out, and was not planned.          *)
VouchedCovered == command.explicit /\ "read" \notin command.faulty =>
  /\ place["batch"] = "bound" /\ report[State("batch").company] = cur["batch"] =>
       State("batch").bound = cur["batch"]
  /\ \A c \in Rows : report[c] \in vouched => Covers(runs[report[c]], c)
  /\ batchPhase = "run" => \A j \in at..Len(plan) : report[plan[j]] \notin vouched

(* Nor was one planned that a run vouched for is bound to.                 *)
VouchedStands == command.explicit /\ "read" \notin command.faulty =>
  /\ \A i \in vouched :
       runs[i].known /\ runs[i].status = "completed" /\ runs[i].targets = Expected
  /\ batchPhase = "run" => \A j \in at..Len(plan), i \in vouched :
       runs[i].company = plan[j] => report[plan[j]] = 0 \/ runs[i].bound # report[plan[j]]

(* The rows of the plan are researched in turn: those that are left have   *)
(* no result, and the failures in a row are the last results.              *)
RowsDistinct == \A j, l \in DOMAIN plan : plan[j] = plan[l] => j = l
RowsIdle == batchPhase = "idle" => plan = <<>> /\ at = 1 /\ \A c \in Rows : results[c] = "none"
RowAt == batchPhase = "run" => at <= Len(plan) /\ failing < MaxFailures /\ failing < at
RowsAttempted == batchPhase = "run" => \A c \in Rows : results[c] # "not attempted"
RowsLeft == batchPhase = "run" =>
  \A c \in Rows : results[c] = "none" <=> \E j \in at..Len(plan) : c = plan[j]
RowsFailed == batchPhase = "run" =>
  \A j \in at - failing..at - 1 : results[plan[j]] = "failed"
RowsInTurn ==
  RowsDistinct /\ RowsIdle /\ RowAt /\ RowsAttempted /\ RowsLeft /\ RowsFailed

Commanded == command \in Commands

BatchInv ==
  /\ Commanded /\ BatchTypeOK /\ RunsOwned /\ ReportsOwned /\ ReportHeld /\ BoundToOwn
  /\ VouchedCovered /\ VouchedStands /\ RowsInTurn /\ SummaryComplete

-----------------------------------------------------------------------------
(* What the types say of the lists.                                          *)

LEMMA BatchShape ==
  ASSUME Commanded, BatchTypeOK
  PROVE  /\ Len(runs) \in Nat /\ DOMAIN runs = 1..Len(runs)
         /\ \A i \in DOMAIN runs : runs[i] \in RunStates
         /\ Len(plan) \in Nat /\ DOMAIN plan = 1..Len(plan)
         /\ \A j \in DOMAIN plan : plan[j] \in Rows
         /\ \A i \in DOMAIN runs :
              /\ runs[i].company \in Rows /\ runs[i].known \in BOOLEAN
              /\ runs[i].bound \in 0..Len(runs)
<1>1. runs \in Seq(RunStates) /\ plan \in Seq(Rows)
  BY DEF BatchTypeOK
<1>2. /\ Len(runs) \in Nat /\ DOMAIN runs = 1..Len(runs)
      /\ \A i \in DOMAIN runs : runs[i] \in RunStates
      /\ Len(plan) \in Nat /\ DOMAIN plan = 1..Len(plan)
      /\ \A j \in DOMAIN plan : plan[j] \in Rows
  BY <1>1, ListShape
<1>3. ASSUME NEW r \in RunStates
      PROVE  r.company \in Rows /\ r.known \in BOOLEAN /\ r.bound \in 0..Len(runs)
  BY DEF RunStates
<1> QED BY <1>2, <1>3

LEMMA BatchNumbers ==
  ASSUME Commanded, BatchTypeOK
  PROVE  /\ MaxFailures \in Nat \ {0} /\ at \in Nat \ {0} /\ at <= Len(plan) + 1
         /\ failing \in 0..MaxFailures
         /\ command.faults \in Nat /\ batchFaults \in 0..command.faults
         /\ command.crashes \in Nat /\ batchCrashes \in 0..command.crashes
         /\ \A p \in Procs : cur[p] \in 0..Len(runs)
<1>1. at \in 1..Len(plan) + 1 /\ failing \in 0..MaxFailures
  BY DEF BatchTypeOK
<1>2. batchFaults \in 0..command.faults /\ batchCrashes \in 0..command.crashes
  BY DEF BatchTypeOK
<1>3. cur \in [Procs -> 0..Len(runs)]
  BY DEF BatchTypeOK
<1>4. {command.faults, command.crashes} \subseteq Nat /\ MaxFailures \in Nat \ {0}
  BY BatchAssumption DEF Commanded
<1>5. Len(plan) \in Nat
  BY BatchShape
<1> QED BY <1>1, <1>2, <1>3, <1>4, <1>5

LEMMA UnknownTyped ==
  ASSUME Commanded, BatchTypeOK, NEW c \in Rows PROVE Unknown(c) \in RunStates
<1>1. 0 \in 0..Len(runs)
  BY BatchShape
<1> QED BY <1>1 DEF Unknown, RunStates

(* A transaction changes one state.                                          *)
LEMMA Transacted ==
  ASSUME Commanded, BatchTypeOK, NEW p \in Procs, cur[p] # 0,
         NEW read, NEW entry \in RunStates, Transaction(p, read, entry)
  PROVE  /\ runs' \in Seq(RunStates) /\ Len(runs') = Len(runs) /\ DOMAIN runs' = DOMAIN runs
         /\ cur[p] \in DOMAIN runs /\ runs'[cur[p]] = entry
         /\ \A i \in DOMAIN runs : i # cur[p] => runs'[i] = runs[i]
<1>1. cur[p] \in 1..Len(runs) /\ Len(runs) \in Nat /\ DOMAIN runs = 1..Len(runs)
  BY BatchShape, BatchNumbers
<1>2. runs \in Seq(RunStates)
  BY DEF BatchTypeOK
<1>3. runs' = [runs EXCEPT ![cur[p]] = entry]
  BY DEF Transaction
<1> QED BY <1>1, <1>2, <1>3

(* What a step that writes the state of a run does besides.                  *)
Writes(p) ==
  /\ runs' \in Seq(RunStates) /\ Len(runs') = Len(runs) /\ DOMAIN runs' = DOMAIN runs
  /\ cur[p] \in DOMAIN runs
  /\ \A i \in DOMAIN runs : i # cur[p] => runs'[i] = runs[i]
  /\ runs'[cur[p]].company = State(p).company
  /\ runs'[cur[p]].known => State(p).known /\ runs'[cur[p]].targets = State(p).targets
  /\ "read" \notin command.faulty =>
       runs'[cur[p]].known = State(p).known /\ runs'[cur[p]].targets = State(p).targets
  /\ UNCHANGED <<command, report, cur, batch, vouched, unwritten, batchCrashes>>
  /\ batchFaults' \in {batchFaults, batchFaults + 1} /\ batchFaults' <= command.faults

LEMMA Written ==
  ASSUME Commanded, BatchTypeOK, NEW p \in Procs, cur[p] # 0,
         NEW read \in Readable(p), NEW entry \in RunStates, Transaction(p, read, entry),
         entry.company = read.company, entry.known = read.known, entry.targets = read.targets,
         UNCHANGED <<command, report, cur, batch, vouched, unwritten, batchCrashes>>
  PROVE  Writes(p)
<1>1. /\ runs' \in Seq(RunStates) /\ Len(runs') = Len(runs) /\ DOMAIN runs' = DOMAIN runs
      /\ cur[p] \in DOMAIN runs /\ runs'[cur[p]] = entry
      /\ \A i \in DOMAIN runs : i # cur[p] => runs'[i] = runs[i]
  BY Transacted
<1>2. read.company = State(p).company
  BY DEF Readable, Unknown
<1>3. entry.known => State(p).known /\ entry.targets = State(p).targets
  <2>1. CASE read = State(p)
    BY <2>1
  <2>2. CASE read = Unknown(State(p).company)
    <3>1. read.known = FALSE
      BY <2>2 DEF Unknown
    <3> QED BY <3>1
  <2> QED BY <2>1, <2>2 DEF Readable
<1>4. ASSUME "read" \notin command.faulty
      PROVE  entry.known = State(p).known /\ entry.targets = State(p).targets
  BY <1>4 DEF Transaction, AccessFails
<1>5. batchFaults \in 0..command.faults /\ command.faults \in Nat
  BY BatchNumbers
<1>6. batchFaults' \in {batchFaults, batchFaults + 1} /\ batchFaults' <= command.faults
  BY <1>5 DEF Transaction, AccessFails
<1> QED BY <1>1, <1>2, <1>3, <1>4, <1>6 DEF Writes

LEMMA ReadTyped ==
  ASSUME Commanded, BatchTypeOK, NEW p \in Procs, cur[p] # 0, NEW read \in Readable(p)
  PROVE  /\ read \in RunStates /\ read.bound \in {0, State(p).bound}
         /\ cur[p] \in DOMAIN runs /\ State(p) \in RunStates
<1>1. cur[p] \in DOMAIN runs
  BY BatchShape, BatchNumbers
<1>2. State(p) \in RunStates
  BY <1>1, BatchShape DEF State
<1>3. State(p).company \in Rows
  BY <1>2 DEF RunStates
<1>4. read \in RunStates
  BY <1>2, <1>3, UnknownTyped DEF Readable
<1>5. read.bound \in {0, State(p).bound}
  BY DEF Readable, Unknown
<1> QED BY <1>1, <1>2, <1>4, <1>5

LEMMA OutcomeRecorded ==
  ASSUME Commanded, BatchTypeOK, RunsOwned, NEW p \in Procs, RecordOutcome(p)
  PROVE  /\ Writes(p) /\ place[p] = "published" /\ place' = [place EXCEPT ![p] = "settled"]
         /\ runs'[cur[p]].bound \in {0, State(p).bound}
         /\ "read" \notin command.faulty =>
              runs'[cur[p]].status = State(p).status /\ runs'[cur[p]].bound = State(p).bound
<1>1. PICK read \in Readable(p), how \in {"full", "partial"} :
        Transaction(p, read, [read EXCEPT !.fulfilled = how])
  BY DEF RecordOutcome
<1> DEFINE entry == [read EXCEPT !.fulfilled = how]
<1>2. cur[p] # 0 /\ place[p] = "published" /\ place' = [place EXCEPT ![p] = "settled"]
  BY DEF RunsOwned, RunsApart, RecordOutcome, MoveTo
<1>3. read \in RunStates /\ read.bound \in {0, State(p).bound}
  BY <1>2, ReadTyped
<1>4. /\ entry \in RunStates
      /\ entry.company = read.company /\ entry.known = read.known
      /\ entry.targets = read.targets
      /\ entry.status = read.status /\ entry.bound = read.bound
  BY <1>3 DEF RunStates
<1>5. Transaction(p, read, entry)
  BY <1>1
<1> HIDE DEF entry
<1>6. Writes(p) /\ runs'[cur[p]] = entry
  BY <1>2, <1>4, <1>5, Written, Transacted DEF RecordOutcome
<1>7. "read" \notin command.faulty => read = State(p)
  BY <1>5 DEF Transaction, AccessFails
<1> QED BY <1>2, <1>3, <1>4, <1>6, <1>7

LEMMA CompletionRecorded ==
  ASSUME Commanded, BatchTypeOK, RunsOwned, NEW p \in Procs, RecordCompletion(p)
  PROVE  /\ Writes(p) /\ place[p] = "settled" /\ place' = [place EXCEPT ![p] = "returned"]
         /\ runs'[cur[p]].bound \in {0, State(p).bound} /\ runs'[cur[p]].status = "completed"
         /\ "read" \notin command.faulty =>
              runs'[cur[p]].fulfilled = State(p).fulfilled /\ runs'[cur[p]].bound = State(p).bound
<1>1. PICK read \in Readable(p) : Transaction(p, read, [read EXCEPT !.status = "completed"])
  BY DEF RecordCompletion
<1> DEFINE entry == [read EXCEPT !.status = "completed"]
<1>2. cur[p] # 0 /\ place[p] = "settled" /\ place' = [place EXCEPT ![p] = "returned"]
  BY DEF RunsOwned, RunsApart, RecordCompletion, MoveTo
<1>3. read \in RunStates /\ read.bound \in {0, State(p).bound}
  BY <1>2, ReadTyped
<1>4. /\ entry \in RunStates /\ entry.status = "completed"
      /\ entry.company = read.company /\ entry.known = read.known
      /\ entry.targets = read.targets
      /\ entry.fulfilled = read.fulfilled /\ entry.bound = read.bound
  BY <1>3 DEF RunStates
<1>5. Transaction(p, read, entry)
  BY <1>1
<1> HIDE DEF entry
<1>6. Writes(p) /\ runs'[cur[p]] = entry
  BY <1>2, <1>4, <1>5, Written, Transacted DEF RecordCompletion
<1>7. "read" \notin command.faulty => read = State(p)
  BY <1>5 DEF Transaction, AccessFails
<1> QED BY <1>2, <1>3, <1>4, <1>6, <1>7

LEMMA FailureRecorded ==
  ASSUME Commanded, BatchTypeOK, RunsOwned, NEW p \in Procs, RecordFailure(p)
  PROVE  /\ Writes(p) /\ place[p] \in {"running", "published", "settled"}
         /\ place' = [place EXCEPT ![p] = "failed"]
         /\ runs'[cur[p]].bound \in {0, State(p).bound}
         /\ "read" \notin command.faulty => runs'[cur[p]].fulfilled = State(p).fulfilled
<1>1. PICK read \in Readable(p) : Transaction(p, read, [read EXCEPT !.status = "failed"])
  BY DEF RecordFailure
<1> DEFINE entry == [read EXCEPT !.status = "failed"]
<1>2. /\ cur[p] # 0 /\ place[p] \in {"running", "published", "settled"}
      /\ place' = [place EXCEPT ![p] = "failed"]
  BY DEF RunsOwned, RunsApart, RecordFailure, MoveTo
<1>3. read \in RunStates /\ read.bound \in {0, State(p).bound}
  BY <1>2, ReadTyped
<1>4. /\ entry \in RunStates
      /\ entry.company = read.company /\ entry.known = read.known
      /\ entry.targets = read.targets
      /\ entry.fulfilled = read.fulfilled /\ entry.bound = read.bound
  BY <1>3 DEF RunStates
<1>5. Transaction(p, read, entry)
  BY <1>1
<1> HIDE DEF entry
<1>6. Writes(p) /\ runs'[cur[p]] = entry
  BY <1>2, <1>4, <1>5, Written, Transacted DEF RecordFailure
<1>7. "read" \notin command.faulty => read = State(p)
  BY <1>5 DEF Transaction, AccessFails
<1> QED BY <1>2, <1>3, <1>4, <1>6, <1>7

LEMMA ReportBound ==
  ASSUME Commanded, BatchTypeOK, RunsOwned, NEW p \in Procs, Bind(p)
  PROVE  /\ Writes(p) /\ place[p] = "returned" /\ place' = [place EXCEPT ![p] = "bound"]
         /\ runs'[cur[p]].bound = report[State(p).company]
         /\ "read" \notin command.faulty =>
              /\ runs'[cur[p]].fulfilled = State(p).fulfilled
              /\ runs'[cur[p]].status = State(p).status
<1>1. PICK read \in Readable(p) :
        Transaction(p, read, [read EXCEPT !.bound = report[State(p).company]])
  BY DEF Bind
<1> DEFINE entry == [read EXCEPT !.bound = report[State(p).company]]
<1>2. cur[p] # 0 /\ place[p] = "returned" /\ place' = [place EXCEPT ![p] = "bound"]
  BY DEF RunsOwned, RunsApart, Bind, MoveTo
<1>3. read \in RunStates /\ State(p) \in RunStates
  BY <1>2, ReadTyped
<1>4. State(p).company \in Rows
  BY <1>3 DEF RunStates
<1>5. report[State(p).company] \in 0..Len(runs)
  BY <1>4 DEF BatchTypeOK
<1>6. /\ entry \in RunStates /\ entry.bound = report[State(p).company]
      /\ entry.company = read.company /\ entry.known = read.known
      /\ entry.targets = read.targets
      /\ entry.fulfilled = read.fulfilled /\ entry.status = read.status
  BY <1>3, <1>5 DEF RunStates
<1>7. Transaction(p, read, entry)
  BY <1>1
<1> HIDE DEF entry
<1>8. Writes(p) /\ runs'[cur[p]] = entry
  BY <1>2, <1>6, <1>7, Written, Transacted DEF Bind
<1>9. "read" \notin command.faulty => read = State(p)
  BY <1>7 DEF Transaction, AccessFails
<1> QED BY <1>2, <1>6, <1>8, <1>9

-----------------------------------------------------------------------------
(* A report that is written, or not, is that of one company.                 *)

LEMMA OneReplaced ==
  ASSUME NEW S, NEW T, NEW f \in [S -> T], NEW c \in S, NEW v, NEW g \in {f, [f EXCEPT ![c] = v]}
  PROVE  \A x \in S : g[x] = f[x] \/ (x = c /\ g[x] = v)
<1>1. CASE g = f BY <1>1
<1>2. CASE g = [f EXCEPT ![c] = v] BY <1>2
<1> QED BY <1>1, <1>2

LEMMA Published ==
  ASSUME Commanded, BatchTypeOK, RunsOwned, NEW p \in Procs, Publish(p)
  PROVE  /\ place[p] = "running" /\ place' = [place EXCEPT ![p] = "published"]
         /\ cur[p] \in DOMAIN runs /\ DOMAIN runs = 1..Len(runs) /\ State(p).company \in Rows
         /\ report' \in [Rows -> 0..Len(runs)]
         /\ \A x \in Rows : report'[x] = report[x]
                            \/ (x = State(p).company /\ report'[x] = cur[p])
         /\ report'[State(p).company] = cur[p] \/ cur[p] \in unwritten'
         /\ unwritten' \in {unwritten, unwritten \cup {cur[p]}} /\ unwritten' \subseteq DOMAIN runs
         /\ UNCHANGED <<runs, cur, batch, vouched>>
<1>1. place[p] = "running" /\ place' = [place EXCEPT ![p] = "published"]
      /\ UNCHANGED <<runs, cur, batch, vouched>>
  BY DEF Publish, MoveTo
<1>2. cur[p] \in DOMAIN runs /\ DOMAIN runs = 1..Len(runs)
  BY <1>1, BatchShape, BatchNumbers DEF RunsOwned, RunsApart
<1>3. State(p).company \in Rows
  BY <1>2, BatchShape DEF State
<1>4. report \in [Rows -> 0..Len(runs)] /\ unwritten \subseteq 1..Len(runs)
      /\ cur[p] \in 0..Len(runs)
  BY BatchNumbers DEF BatchTypeOK
<1> DEFINE own == [report EXCEPT ![State(p).company] = cur[p]]
<1>5. /\ own \in [Rows -> 0..Len(runs)] /\ own[State(p).company] = cur[p]
      /\ \A x \in Rows : x # State(p).company => own[x] = report[x]
  BY <1>3, <1>4
<1>6. \/ report' = own /\ unwritten' = unwritten
      \/ report' \in {report, own} /\ unwritten' = unwritten \cup {cur[p]}
  BY DEF Publish
<1> HIDE DEF own
<1>7. report' \in {report, own} /\ (report' = own \/ cur[p] \in unwritten')
      /\ unwritten' \in {unwritten, unwritten \cup {cur[p]}}
  BY <1>6
<1>8. report' \in [Rows -> 0..Len(runs)]
  BY <1>4, <1>5, <1>7
<1>9. \A x \in Rows : report'[x] = report[x] \/ (x = State(p).company /\ report'[x] = cur[p])
  <2>1. report' \in {report, [report EXCEPT ![State(p).company] = cur[p]]}
    BY <1>7 DEF own
  <2> QED BY ONLY <1>3, <1>4, <2>1, OneReplaced
<1>10. report'[State(p).company] = cur[p] \/ cur[p] \in unwritten'
  BY <1>5, <1>7
<1>11. unwritten' \subseteq DOMAIN runs
  BY <1>2, <1>4, <1>7
<1> QED BY <1>1, <1>2, <1>3, <1>7, <1>8, <1>9, <1>10, <1>11

-----------------------------------------------------------------------------
(* Types are kept.                                                           *)

LEMMA CommandShape ==
  ASSUME Commanded
  PROVE  /\ command.companies \in Seq(Rows)
         /\ \A i, j \in DOMAIN command.companies :
              command.companies[i] = command.companies[j] => i = j
         /\ command.explicit \in BOOLEAN /\ command.overlap \in BOOLEAN
         /\ command.detected \subseteq {"agnostic", "azure"}
BY BatchAssumption DEF Commanded, Rows

LEMMA StatesGrow ==
  ASSUME Rows' = Rows, Len(runs) \in Nat, Len(runs') \in Nat, Len(runs) <= Len(runs')
  PROVE  RunStates \subseteq RunStates'
<1>1. 0..Len(runs) \subseteq 0..Len(runs')
  OBVIOUS
<1> QED BY <1>1 DEF RunStates

LEMMA RunOpened ==
  ASSUME Commanded, BatchTypeOK, command' = command, NEW p \in Procs, NEW c \in Rows,
         NEW t \in {"agnostic", "azure", "other"}, OpenRun(p, c, t)
  PROVE  /\ Len(runs') = Len(runs) + 1 /\ DOMAIN runs' = 1..Len(runs) + 1
         /\ runs' \in Seq(RunStates')
         /\ \A i \in DOMAIN runs : runs'[i] = runs[i]
         /\ LET new == runs'[Len(runs) + 1]
            IN /\ new.company = c /\ new.known /\ new.status = "running" /\ new.targets = t
               /\ new.fulfilled = "none" /\ new.bound = 0
         /\ cur' = [cur EXCEPT ![p] = Len(runs) + 1]
         /\ place' = [place EXCEPT ![p] = "running"]
<1> DEFINE new == [Unknown(c) EXCEPT !.known = TRUE, !.status = "running", !.targets = t]
<1>1. Unknown(c) \in RunStates
  BY UnknownTyped
<1>2. /\ new \in RunStates
      /\ new.company = c /\ new.known /\ new.status = "running" /\ new.targets = t
      /\ new.fulfilled = "none" /\ new.bound = 0
  <2>1. TRUE \in BOOLEAN
    OBVIOUS
  <2>2. Unknown(c).company = c /\ Unknown(c).fulfilled = "none" /\ Unknown(c).bound = 0
    BY DEF Unknown
  <2> QED BY <1>1, <2>1, <2>2 DEF RunStates
<1>3. runs' = Append(runs, new)
  BY DEF OpenRun
<1> HIDE DEF new
<1>4. runs \in Seq(RunStates) /\ Len(runs) \in Nat /\ DOMAIN runs = 1..Len(runs)
  BY BatchShape DEF BatchTypeOK
<1>5. /\ runs' \in Seq(RunStates) /\ Len(runs') = Len(runs) + 1
      /\ DOMAIN runs' = 1..Len(runs) + 1
      /\ \A i \in DOMAIN runs : runs'[i] = runs[i]
      /\ runs'[Len(runs) + 1] = new
  BY <1>2, <1>3, <1>4
<1>6. Rows' = Rows
  BY DEF Rows
<1>7. RunStates \subseteq RunStates'
  BY <1>4, <1>5, <1>6, StatesGrow
<1>8. runs' \in Seq(RunStates')
  BY <1>5, <1>7
<1> QED BY <1>2, <1>5, <1>8 DEF OpenRun

LEMMA SameCommand == ASSUME [BatchNext]_batchVars PROVE command' = command /\ Rows' = Rows
<1>1. command' = command
  BY DEF BatchNext, batchVars, PlanBatch, Repeat, StartRow, StartSingle, EndSingle, Assess,
     CountFailure, KillBatch, ResearchStep, Publish, RecordOutcome, RecordCompletion,
     RecordFailure, RefusedWrite, Bind
<1> QED BY <1>1 DEF Rows

LEMMA StatesSame ==
  ASSUME Rows' = Rows, Len(runs') = Len(runs) PROVE RunStates' = RunStates
BY DEF RunStates

LEMMA RowPlanned ==
  ASSUME Commanded, BatchTypeOK, PlanBatch
  PROVE  /\ plan' \in Seq(Rows)
         /\ \A c \in Rows : c \in Listed(plan') <=> ~Existing(c)
         /\ \A j, l \in DOMAIN plan' : plan'[j] = plan'[l] => j = l
<1> DEFINE open == {i \in DOMAIN command.companies : ~Existing(command.companies[i])}
<1>1. command.companies \in Seq(Rows) /\ open \in SUBSET DOMAIN command.companies
      /\ plan' \in PickedAt(command.companies, open)
  BY CommandShape DEF PlanBatch
<1>2. /\ plan' \in Seq(Rows) /\ Listed(plan') = {command.companies[i] : i \in open}
      /\ \A i, j \in DOMAIN plan' : i < j =>
           \E k, l \in open : k < l /\ plan'[i] = command.companies[k]
                              /\ plan'[j] = command.companies[l]
  <2> HIDE DEF open
  <2> QED BY <1>1, PickedInOrder
<1>3. ASSUME NEW c \in Rows PROVE c \in Listed(plan') <=> ~Existing(c)
  <2>1. PICK i \in DOMAIN command.companies : c = command.companies[i]
    BY DEF Rows, Listed
  <2>2. ASSUME ~Existing(c) PROVE c \in Listed(plan')
    <3>1. i \in open
      BY <2>1, <2>2
    <3> HIDE DEF open
    <3> QED BY <1>2, <2>1, <3>1
  <2>3. ASSUME c \in Listed(plan') PROVE ~Existing(c)
    <3>1. PICK k \in open : c = command.companies[k]
      <4> HIDE DEF open
      <4> QED BY <1>2, <2>3
    <3> QED BY <3>1
  <2> QED BY <2>2, <2>3
<1>4. ASSUME NEW i \in DOMAIN plan', NEW j \in DOMAIN plan', i < j PROVE plan'[i] # plan'[j]
  <2>1. PICK k, l \in open : k < l /\ plan'[i] = command.companies[k]
                             /\ plan'[j] = command.companies[l]
    BY <1>2, <1>4
  <2>2. k \in DOMAIN command.companies /\ l \in DOMAIN command.companies /\ k # l
    <3>1. DOMAIN command.companies = 1..Len(command.companies) /\ Len(command.companies) \in Nat
      BY <1>1, ListShape
    <3> QED BY <2>1, <3>1
  <2> QED BY <2>1, <2>2, CommandShape
<1>5. DOMAIN plan' \subseteq Nat
  BY <1>2, ListShape
<1> QED BY <1>2, <1>3, <1>4, <1>5

(* The process that takes a row is at it.                                    *)
LEMMA RowEnds ==
  ASSUME Commanded, BatchTypeOK, RowsInTurn, command' = command, batchPhase = "run",
         NEW count \in 0..MaxFailures, NEW result \in {"ok", "partial", "failed"},
         Advance(result, count)
  PROVE  /\ at \in DOMAIN plan /\ plan[at] \in Rows
         /\ at' \in 1..Len(plan) + 1 /\ plan' = plan /\ failing' = count
         /\ results' \in [Rows -> {"none", "ok", "partial", "failed", "not attempted"}]
         /\ batchPhase' \in {"run", "done"}
<1>0. at <= Len(plan)
  BY DEF RowsInTurn, RowAt
<1>1. at \in 1..Len(plan) /\ Len(plan) \in Nat
  BY <1>0, BatchNumbers, BatchShape
<1>2. at \in DOMAIN plan /\ plan[at] \in Rows
  BY <1>1, BatchShape
<1>3. results \in [Rows -> {"none", "ok", "partial", "failed", "not attempted"}]
  BY DEF BatchTypeOK
<1>4. results' \in [Rows -> {"none", "ok", "partial", "failed", "not attempted"}]
  <2>1. results' = [c \in Rows |->
          IF c = plan[at] THEN result
          ELSE IF results[c] = "none" /\ count >= MaxFailures THEN "not attempted"
          ELSE results[c]]
    BY DEF Advance
  <2>2. \A c \in Rows : results[c] \in {"none", "ok", "partial", "failed", "not attempted"}
    BY <1>3
  <2> QED BY <2>1, <2>2
<1>5. batchPhase' \in {"run", "done"} /\ plan' = plan /\ failing' = count /\ at' = at + 1
  BY DEF Advance
<1>6. at' \in 1..Len(plan) + 1
  BY <1>1, <1>5
<1> QED BY <1>2, <1>4, <1>5, <1>6

LEMMA BatchTypesKept ==
  ASSUME Commanded, BatchTypeOK, RunsOwned, RowsInTurn, BatchNext
  PROVE  Commanded' /\ BatchTypeOK'
<1>1. command' = command /\ Rows' = Rows
  BY SameCommand
<1>2. Commanded'
  BY <1>1 DEF Commanded
<1>. SUFFICES BatchTypeOK'
  BY <1>2
<1>3. Len(runs) \in Nat /\ DOMAIN runs = 1..Len(runs) /\ Len(plan) \in Nat
  BY BatchShape
<1>4. /\ MaxFailures \in Nat \ {0} /\ command.crashes \in Nat /\ command.faults \in Nat
      /\ batchFaults \in 0..command.faults /\ batchCrashes \in 0..command.crashes
      /\ \A p \in Procs : cur[p] \in 0..Len(runs)
  BY BatchNumbers
<1>5. ASSUME NEW p \in Procs, Writes(p), NEW to \in BatchPlaces,
             place' = [place EXCEPT ![p] = to]
      PROVE  BatchTypeOK'
  <2>1. RunStates' = RunStates
    BY <1>1, <1>5, StatesSame DEF Writes
  <2>2. batchFaults' \in 0..command'.faults
    BY <1>1, <1>4, <1>5 DEF Writes
  <2> QED BY <1>1, <1>5, <2>1, <2>2 DEF Writes, BatchTypeOK, batch
<1>6. CASE PlanBatch
  <2>1. RunStates' = RunStates
    BY <1>1, <1>6, StatesSame DEF PlanBatch
  <2>2. plan' \in Seq(Rows)
    BY <1>6, RowPlanned
  <2>3. Len(plan') \in Nat /\ at' \in 1..Len(plan') + 1 /\ failing' \in 0..MaxFailures
    BY <1>4, <1>6, <2>2 DEF PlanBatch
  <2>4. results' \in [Rows -> {"none", "ok", "partial", "failed", "not attempted"}]
    BY <1>6 DEF PlanBatch
  <2>5. /\ batchPhase' \in {"idle", "run", "done"}
        /\ UNCHANGED <<runs, report, place, cur, vouched, unwritten, batchFaults, batchCrashes>>
    BY <1>6 DEF PlanBatch
  <2> QED BY <1>1, <2>1, <2>2, <2>3, <2>4, <2>5 DEF BatchTypeOK
<1>7. CASE Repeat \/ KillBatch
  <2>1. RunStates' = RunStates
    BY <1>1, <1>7, StatesSame DEF Repeat, KillBatch
  <2>2. plan' = <<>> /\ at' = 1 /\ failing' = 0 /\ batchPhase' = "idle"
    BY <1>7 DEF Repeat, KillBatch
  <2>5. plan' \in Seq(Rows) /\ Len(plan') = 0
    BY <2>2
  <2>6. at' \in 1..Len(plan') + 1 /\ failing' \in 0..MaxFailures
    BY <1>4, <2>2, <2>5
  <2>7. UNCHANGED <<runs, report, cur, vouched, unwritten, batchFaults>>
    BY <1>7 DEF Repeat, KillBatch
  <2>3. /\ results' \in [Rows -> {"none", "ok", "partial", "failed", "not attempted"}]
        /\ place' \in [Procs -> BatchPlaces]
    BY <1>7 DEF Repeat, KillBatch, MoveTo, BatchPlaces, Procs, BatchTypeOK
  <2>4. batchCrashes' \in 0..command.crashes
    BY <1>4, <1>7 DEF Repeat, KillBatch
  <2> QED BY <1>1, <2>1, <2>2, <2>3, <2>4, <2>5, <2>6, <2>7 DEF BatchTypeOK
<1>8. ASSUME NEW p \in Procs, NEW c \in Rows, NEW t \in {"agnostic", "azure", "other"},
             OpenRun(p, c, t),
             UNCHANGED <<report, batch, vouched, unwritten, batchFaults, batchCrashes>>
      PROVE  BatchTypeOK'
  <2>1. /\ Len(runs') = Len(runs) + 1 /\ runs' \in Seq(RunStates')
        /\ cur' = [cur EXCEPT ![p] = Len(runs) + 1]
        /\ place' = [place EXCEPT ![p] = "running"]
    BY <1>1, <1>8, RunOpened
  <2>2. 0..Len(runs) \subseteq 0..Len(runs') /\ Len(runs) + 1 \in 0..Len(runs')
        /\ 1..Len(runs) \subseteq 1..Len(runs')
    BY <1>3, <2>1
  <2>3. report' \in [Rows -> 0..Len(runs')] /\ cur' \in [Procs -> 0..Len(runs')]
    BY <1>8, <2>1, <2>2 DEF BatchTypeOK
  <2>4. vouched' \subseteq 1..Len(runs') /\ unwritten' \subseteq 1..Len(runs')
    BY <1>8, <2>2 DEF BatchTypeOK
  <2>5. place' \in [Procs -> BatchPlaces]
    BY <2>1 DEF BatchTypeOK, BatchPlaces
  <2> QED BY <1>1, <1>8, <2>1, <2>3, <2>4, <2>5 DEF BatchTypeOK, batch
<1>9. CASE StartRow
  <2>1. plan[at] \in Rows
    BY <1>9, BatchShape, BatchNumbers DEF StartRow
  <2>2. PICK t \in IF command.explicit THEN {Expected} ELSE command.detected :
          OpenRun("batch", plan[at], t)
    BY <1>9 DEF StartRow
  <2>3. t \in {"agnostic", "azure", "other"}
    BY CommandShape DEF Expected
  <2>4. UNCHANGED <<report, batch, vouched, unwritten, batchFaults, batchCrashes>>
    BY <1>9 DEF StartRow
  <2> QED BY <1>8, <2>1, <2>2, <2>3, <2>4 DEF Procs
<1>10. CASE StartSingle
  <2>1. PICK c \in Rows : OpenRun("single", c, "other")
    BY <1>10 DEF StartSingle
  <2>2. UNCHANGED <<report, batch, vouched, unwritten, batchFaults, batchCrashes>>
    BY <1>10 DEF StartSingle
  <2> QED BY <1>8, <2>1, <2>2 DEF Procs
<1>11. CASE EndSingle
  <2>1. RunStates' = RunStates
    BY <1>1, <1>11, StatesSame DEF EndSingle
  <2>2. place' \in [Procs -> BatchPlaces]
    BY <1>11 DEF EndSingle, MoveTo, BatchTypeOK, BatchPlaces
  <2>3. UNCHANGED <<runs, report, cur, batch, vouched, unwritten, batchFaults, batchCrashes>>
    BY <1>11 DEF EndSingle
  <2> QED BY <1>1, <2>1, <2>2, <2>3 DEF BatchTypeOK, batch
<1>12. ASSUME NEW count \in 0..MaxFailures, NEW result \in {"ok", "partial", "failed"},
              batchPhase = "run", Advance(result, count), MoveTo("batch", "idle"),
              vouched' \subseteq 1..Len(runs),
              UNCHANGED <<runs, report, cur, unwritten, batchFaults, batchCrashes>>
       PROVE  BatchTypeOK'
  <2>1. RunStates' = RunStates
    BY <1>1, <1>12, StatesSame
  <2>2. /\ at' \in 1..Len(plan) + 1 /\ plan' = plan /\ failing' = count
        /\ results' \in [Rows -> {"none", "ok", "partial", "failed", "not attempted"}]
        /\ batchPhase' \in {"run", "done"}
    BY <1>1, <1>12, RowEnds
  <2>3. place' \in [Procs -> BatchPlaces]
    BY <1>12 DEF MoveTo, BatchTypeOK, BatchPlaces
  <2>4. plan \in Seq(Rows)
    BY DEF BatchTypeOK
  <2> QED BY <1>1, <1>12, <2>1, <2>2, <2>3, <2>4 DEF BatchTypeOK
<1>13. CASE Assess
  <2>1. PICK result \in {"ok", "partial", "failed"} : Advance(result, 0)
    BY <1>13 DEF Assess
  <2>2. cur["batch"] \in 1..Len(runs)
    BY <1>3, <1>4, <1>13 DEF Assess, RunsOwned, RunsApart, Procs
  <2>3. vouched' \subseteq 1..Len(runs)
    BY <1>13, <2>2 DEF Assess, BatchTypeOK
  <2>4. 0 \in 0..MaxFailures
    BY <1>4
  <2>5. /\ batchPhase = "run" /\ MoveTo("batch", "idle")
        /\ UNCHANGED <<runs, report, cur, unwritten, batchFaults, batchCrashes>>
    BY <1>13 DEF Assess
  <2> QED BY <1>12, <2>1, <2>3, <2>4, <2>5
<1>14. CASE CountFailure
  <2>0. failing < MaxFailures
    BY <1>14 DEF CountFailure, RowsInTurn, RowAt
  <2>1. failing + 1 \in 0..MaxFailures
    BY <1>4, <2>0, BatchNumbers
  <2>3. /\ batchPhase = "run" /\ Advance("failed", failing + 1) /\ MoveTo("batch", "idle")
        /\ UNCHANGED <<runs, report, cur, unwritten, batchFaults, batchCrashes>>
    BY <1>14 DEF CountFailure
  <2>2. vouched' \subseteq 1..Len(runs)
    BY <1>14 DEF CountFailure, BatchTypeOK
  <2> QED BY <1>12, <2>1, <2>2, <2>3
<1>15. ASSUME NEW p \in Procs, ResearchStep(p) PROVE BatchTypeOK'
  <2>1. CASE Publish(p)
    <3>1. RunStates' = RunStates
      BY <1>1, <2>1, StatesSame DEF Publish
    <3>2. place' \in [Procs -> BatchPlaces]
      BY <2>1 DEF Publish, MoveTo, BatchTypeOK, BatchPlaces
    <3>3. report' \in [Rows -> 0..Len(runs)] /\ unwritten' \subseteq 1..Len(runs)
      BY <1>15, <2>1, Published DEF BatchTypeOK
    <3>4. batchFaults' \in 0..command.faults
      BY <1>4, <2>1 DEF Publish, AccessFails
    <3> QED BY <1>1, <2>1, <3>1, <3>2, <3>3, <3>4 DEF Publish, BatchTypeOK, batch
  <2>2. CASE RefusedWrite(p)
    <3>1. RunStates' = RunStates
      BY <1>1, <2>2, StatesSame DEF RefusedWrite
    <3>2. place' \in [Procs -> BatchPlaces]
      BY <2>2 DEF RefusedWrite, MoveTo, BatchTypeOK, BatchPlaces
    <3>3. batchFaults' \in 0..command.faults
      BY <1>4, <2>2 DEF RefusedWrite, AccessFails
    <3> QED BY <1>1, <2>2, <3>1, <3>2, <3>3 DEF RefusedWrite, BatchTypeOK, batch
  <2>3. CASE RecordOutcome(p)
    BY <1>5, <2>3, OutcomeRecorded DEF BatchPlaces
  <2>4. CASE RecordCompletion(p)
    BY <1>5, <2>4, CompletionRecorded DEF BatchPlaces
  <2>5. CASE RecordFailure(p)
    BY <1>5, <2>5, FailureRecorded DEF BatchPlaces
  <2>6. CASE Bind(p)
    BY <1>5, <2>6, ReportBound DEF BatchPlaces
  <2> QED BY <1>15, <2>1, <2>2, <2>3, <2>4, <2>5, <2>6 DEF ResearchStep
<1> QED BY <1>6, <1>7, <1>9, <1>10, <1>11, <1>13, <1>14, <1>15 DEF BatchNext

-----------------------------------------------------------------------------
(* The kinds of steps, as the runs and the reports see them.                 *)

(* A step of no run's text.                                                  *)
Rests ==
  /\ UNCHANGED <<runs, report, cur, unwritten>>
  /\ \A p \in Procs :
       \/ place'[p] \in {place[p], "idle"}
       \/ place'[p] = "failed" /\ place[p] \in {"settled", "returned"}

(* A step that writes a state, and where it takes the run.                   *)
Recorded(p, to) ==
  /\ Writes(p) /\ place' = [place EXCEPT ![p] = to]
  /\ to = "settled" => place[p] = "published"
  /\ to = "returned" => place[p] = "settled"
  /\ to = "failed" => place[p] \in {"running", "published", "settled"}
  /\ to = "bound" => place[p] = "returned" /\ runs'[cur[p]].bound = report[State(p).company]
  /\ to # "bound" => runs'[cur[p]].bound \in {0, State(p).bound}

(* A step that opens a run.                                                  *)
Opens(p, c, t) ==
  /\ place[p] = "idle" /\ ~Leased(c) /\ OpenRun(p, c, t)
  /\ UNCHANGED <<report, batch, vouched, unwritten>>
  /\ p = "batch" => /\ batchPhase = "run" /\ at \in DOMAIN plan /\ c = plan[at]
                    /\ command.explicit => t = Expected
  /\ p = "single" => t = "other" /\ (command.overlap \/ \A q \in Procs :
                       place[q] = "returned" => State(q).company # c)

LEMMA Resting ==
  ASSUME BatchTypeOK,
         \/ PlanBatch \/ Repeat \/ EndSingle \/ Assess \/ CountFailure \/ KillBatch
         \/ \E p \in Procs : RefusedWrite(p)
  PROVE  Rests
<1>1. place \in [Procs -> BatchPlaces]
  BY DEF BatchTypeOK
<1>2. CASE PlanBatch \/ Repeat
  BY <1>2 DEF PlanBatch, Repeat, Rests
<1>3. CASE EndSingle
  BY <1>1, <1>3 DEF EndSingle, MoveTo, Rests, Procs
<1>4. CASE Assess \/ CountFailure \/ KillBatch
  <2>1. UNCHANGED <<runs, report, cur, unwritten>> /\ MoveTo("batch", "idle")
    BY <1>4 DEF Assess, CountFailure, KillBatch
  <2> QED BY <1>1, <2>1 DEF MoveTo, Rests, Procs
<1>5. ASSUME NEW p \in Procs, RefusedWrite(p) PROVE Rests
  BY <1>1, <1>5 DEF RefusedWrite, MoveTo, Rests
<1> QED BY <1>2, <1>3, <1>4, <1>5

LEMMA Recording ==
  ASSUME Commanded, BatchTypeOK, RunsOwned, NEW p \in Procs,
         RecordOutcome(p) \/ RecordCompletion(p) \/ RecordFailure(p) \/ Bind(p)
  PROVE  \E to \in {"settled", "returned", "failed", "bound"} : Recorded(p, to)
<1>1. CASE RecordOutcome(p)
  <2>1. Recorded(p, "settled")
    BY <1>1, OutcomeRecorded DEF Recorded
  <2> QED BY <2>1
<1>2. CASE RecordCompletion(p)
  <2>1. Recorded(p, "returned")
    BY <1>2, CompletionRecorded DEF Recorded
  <2> QED BY <2>1
<1>3. CASE RecordFailure(p)
  <2>1. Recorded(p, "failed")
    BY <1>3, FailureRecorded DEF Recorded
  <2> QED BY <2>1
<1>4. CASE Bind(p)
  <2>1. Recorded(p, "bound")
    BY <1>4, ReportBound DEF Recorded
  <2> QED BY <2>1
<1> QED BY <1>1, <1>2, <1>3, <1>4

LEMMA Opening ==
  ASSUME Commanded, BatchTypeOK, StartRow \/ StartSingle
  PROVE  \E p \in Procs, c \in Rows, t \in {"agnostic", "azure", "other"} : Opens(p, c, t)
<1>1. CASE StartRow
  <2>1. at \in DOMAIN plan /\ plan[at] \in Rows
    BY <1>1, BatchShape, BatchNumbers DEF StartRow
  <2>2. PICK t \in IF command.explicit THEN {Expected} ELSE command.detected :
          OpenRun("batch", plan[at], t)
    BY <1>1 DEF StartRow
  <2>3. t \in {"agnostic", "azure", "other"} /\ (command.explicit => t = Expected)
    BY CommandShape DEF Expected
  <2>4. /\ batchPhase = "run" /\ place["batch"] = "idle"
        /\ UNCHANGED <<report, batch, vouched, unwritten>>
    BY <1>1 DEF StartRow
  <2>5. Opens("batch", plan[at], t)
    BY <2>1, <2>2, <2>3, <2>4 DEF Opens, OpenRun
  <2> QED BY <2>1, <2>3, <2>5 DEF Procs
<1>2. CASE StartSingle
  <2>1. PICK c \in Rows :
          /\ command.overlap \/ \A q \in Procs : place[q] = "returned" => State(q).company # c
          /\ OpenRun("single", c, "other")
    BY <1>2 DEF StartSingle, State
  <2>2. place["single"] = "idle" /\ UNCHANGED <<report, batch, vouched, unwritten>>
    BY <1>2 DEF StartSingle
  <2>3. Opens("single", c, "other")
    BY <2>1, <2>2 DEF Opens, OpenRun
  <2> QED BY <2>3 DEF Procs
<1> QED BY <1>1, <1>2

(* What the lists are after a run was opened.                                *)
LEMMA Opened ==
  ASSUME Commanded, BatchTypeOK, command' = command, NEW p \in Procs, NEW c \in Rows,
         NEW t \in {"agnostic", "azure", "other"}, Opens(p, c, t)
  PROVE  /\ Len(runs) \in Nat /\ DOMAIN runs = 1..Len(runs) /\ DOMAIN runs' = 1..Len(runs) + 1
         /\ \A i \in DOMAIN runs : runs'[i] = runs[i]
         /\ LET new == runs'[Len(runs) + 1]
            IN /\ new.company = c /\ new.known /\ new.status = "running" /\ new.targets = t
               /\ new.fulfilled = "none" /\ new.bound = 0
         /\ cur'[p] = Len(runs) + 1 /\ place'[p] = "running"
         /\ \A q \in Procs : q # p => cur'[q] = cur[q] /\ place'[q] = place[q]
         /\ \A q \in Procs : cur[q] \in 0..Len(runs)
         /\ \A x \in Rows : report[x] \in 0..Len(runs)
<1>1. place \in [Procs -> BatchPlaces] /\ cur \in [Procs -> 0..Len(runs)]
      /\ report \in [Rows -> 0..Len(runs)]
  BY DEF BatchTypeOK
<1>2. Len(runs) \in Nat /\ DOMAIN runs = 1..Len(runs)
  BY BatchShape
<1>3. OpenRun(p, c, t)
  BY DEF Opens
<1> QED BY <1>1, <1>2, <1>3, RunOpened

-----------------------------------------------------------------------------
(* Reports belong to the runs that published them.                           *)

LEMMA ReportsKept ==
  ASSUME Commanded, BatchTypeOK, RunsOwned, ReportsOwned, BatchNext
  PROVE  ReportsOwned'
<1>1. command' = command /\ Rows' = Rows
  BY SameCommand
<1>2. DOMAIN runs = 1..Len(runs) /\ Len(runs) \in Nat /\ \A q \in Procs : cur[q] \in 0..Len(runs)
  BY BatchShape, BatchNumbers
<1>3. ASSUME Rests PROVE ReportsOwned'
  BY <1>1, <1>3 DEF Rests, ReportsOwned
<1>4. ASSUME NEW p \in Procs, NEW c \in Rows, NEW t \in {"agnostic", "azure", "other"},
             Opens(p, c, t)
      PROVE  ReportsOwned'
  <2>1. report' = report
    BY <1>4 DEF Opens
  <2>2. ASSUME NEW x \in Rows, report[x] # 0 PROVE runs'[report[x]].company = x
    BY <1>1, <1>4, <2>2, Opened DEF ReportsOwned
  <2>3. ASSUME NEW q \in Procs, place'[q] = "running"
        PROVE  /\ \A x \in Rows : report[x] # cur'[q]
               /\ \A i \in DOMAIN runs' : runs'[i].bound # cur'[q]
    <3>1. CASE q = p
      <4>1. \A i \in DOMAIN runs : runs[i].bound \in 0..Len(runs)
        BY BatchShape
      <4>2. \A i \in DOMAIN runs' : runs'[i].bound \in 0..Len(runs)
        BY <1>1, <1>4, <4>1, Opened
      <4> QED BY <1>1, <1>2, <1>4, <3>1, <4>2, Opened
    <3>2. CASE q # p
      <4>1. place[q] = "running" /\ cur'[q] = cur[q] /\ cur[q] # 0
        BY <1>1, <1>4, <2>3, <3>2, Opened DEF RunsOwned, RunsApart
      <4> QED BY <1>1, <1>4, <4>1, Opened DEF ReportsOwned
    <3> QED BY <3>1, <3>2
  <2> QED BY <1>1, <2>1, <2>2, <2>3 DEF ReportsOwned
<1>5. ASSUME NEW p \in Procs, Publish(p) PROVE ReportsOwned'
  <2>1. /\ place[p] = "running" /\ place' = [place EXCEPT ![p] = "published"]
        /\ UNCHANGED <<runs, cur>> /\ cur[p] \in DOMAIN runs
        /\ \A x \in Rows : report'[x] = report[x]
                           \/ (x = State(p).company /\ report'[x] = cur[p])
    BY <1>5, Published
  <2>2. cur[p] # 0
    BY <2>1 DEF RunsOwned, RunsApart
  <2>3. place \in [Procs -> BatchPlaces]
    BY DEF BatchTypeOK
  <2>4. \A q \in Procs : place'[q] = "running" => q # p /\ place[q] = "running" /\ cur[q] # cur[p]
    BY <2>1, <2>2, <2>3 DEF RunsOwned, RunsApart, Procs
  <2>5. ASSUME NEW x \in Rows, report'[x] # 0 PROVE runs[report'[x]].company = x
    BY <2>1, <2>3, <2>5 DEF ReportsOwned, State
  <2> QED BY <1>1, <2>1, <2>3, <2>4, <2>5 DEF ReportsOwned
<1>6. ASSUME NEW p \in Procs, NEW to \in {"settled", "returned", "failed", "bound"},
             Recorded(p, to)
      PROVE  ReportsOwned'
  <2>1. /\ UNCHANGED <<report, cur>> /\ place' = [place EXCEPT ![p] = to]
        /\ DOMAIN runs' = DOMAIN runs /\ cur[p] \in DOMAIN runs
        /\ \A i \in DOMAIN runs : i # cur[p] => runs'[i] = runs[i]
        /\ runs'[cur[p]].company = State(p).company
        /\ runs'[cur[p]].bound \in {0, State(p).bound, report[State(p).company]}
    BY <1>6 DEF Recorded, Writes
  <2>2. State(p).company \in Rows /\ place \in [Procs -> BatchPlaces]
    BY <2>1, BatchShape DEF State, BatchTypeOK
  <2>3. report \in [Rows -> 0..Len(runs)]
    BY DEF BatchTypeOK
  <2>4. ASSUME NEW x \in Rows, report[x] # 0 PROVE runs'[report[x]].company = x
    BY <1>2, <2>1, <2>3, <2>4 DEF ReportsOwned, State
  <2>5. ASSUME NEW q \in Procs, place'[q] = "running"
        PROVE  \A i \in DOMAIN runs' : runs'[i].bound # cur[q]
    <3>1. place[q] = "running" /\ cur[q] # 0
      BY <2>1, <2>2, <2>5 DEF RunsOwned, RunsApart
    <3>2. State(p).bound # cur[q] /\ report[State(p).company] # cur[q]
      BY <2>1, <2>2, <3>1 DEF ReportsOwned, State
    <3> QED BY <2>1, <3>1, <3>2 DEF ReportsOwned
  <2>6. ASSUME NEW q \in Procs, place'[q] = "running" PROVE \A x \in Rows : report[x] # cur[q]
    BY <2>1, <2>2, <2>6 DEF ReportsOwned
  <2> QED BY <1>1, <2>1, <2>4, <2>5, <2>6 DEF ReportsOwned
<1>7. ASSUME NEW p \in Procs, ResearchStep(p) PROVE ReportsOwned'
  BY <1>3, <1>5, <1>6, <1>7, Resting, Recording DEF ResearchStep
<1> QED BY <1>1, <1>3, <1>4, <1>7, Resting, Opening DEF BatchNext

-----------------------------------------------------------------------------
(* Each process has a run of its own, and the batch that of its row.         *)

LEMMA RunsApartKept ==
  ASSUME Commanded, BatchTypeOK, RunsOwned, BatchNext PROVE RunsApart'
<1>1. command' = command
  BY SameCommand
<1>2. Len(runs) \in Nat /\ \A q \in Procs : cur[q] \in 0..Len(runs)
  BY BatchShape, BatchNumbers
<1>3. vouched \subseteq 1..Len(runs)
  BY DEF BatchTypeOK
<1>4. ASSUME Rests, vouched' = vouched \/ Assess PROVE RunsApart'
  <2>1. \A q \in Procs : place'[q] # "idle" => cur'[q] # 0
    BY <1>4 DEF Rests, RunsOwned, RunsApart
  <2>2. cur'["batch"] = cur'["single"] => cur'["batch"] = 0
    BY <1>4 DEF Rests, RunsOwned, RunsApart
  <2>3. CASE vouched' = vouched
    BY <1>4, <2>1, <2>2, <2>3 DEF Rests, RunsOwned, RunsApart, Procs
  <2>4. CASE Assess
    <3>1. /\ vouched' \in {vouched, vouched \cup {cur["batch"]}}
          /\ place["batch"] = "bound" /\ place' = [place EXCEPT !["batch"] = "idle"]
      BY <2>4 DEF Assess, MoveTo
    <3>2. place'["batch"] = "idle"
      BY <3>1 DEF Procs, BatchTypeOK
    <3> QED BY <1>4, <2>1, <2>2, <3>1, <3>2 DEF Rests, RunsOwned, RunsApart, Procs
  <2> QED BY <1>4, <2>3, <2>4
<1>5. ASSUME NEW p \in Procs, NEW c \in Rows, NEW t \in {"agnostic", "azure", "other"},
             Opens(p, c, t)
      PROVE  RunsApart'
  <2>1. /\ cur'[p] = Len(runs) + 1 /\ place'[p] = "running"
        /\ \A q \in Procs : q # p => cur'[q] = cur[q] /\ place'[q] = place[q]
    BY <1>1, <1>5, Opened
  <2>2. vouched' = vouched
    BY <1>5 DEF Opens
  <2>3. Len(runs) + 1 \notin vouched /\ \A q \in Procs : cur[q] # Len(runs) + 1
    BY <1>2, <1>3
  <2>4. Len(runs) + 1 # 0
    BY <1>2
  <2> QED BY <2>1, <2>2, <2>3, <2>4 DEF RunsOwned, RunsApart, Procs
<1>6. ASSUME NEW p \in Procs, UNCHANGED <<cur, vouched>>, NEW to \in BatchPlaces, place[p] # "idle",
             place' = [place EXCEPT ![p] = to]
      PROVE  RunsApart'
  <2>1. \A q \in Procs : place'[q] # "idle" => place[q] # "idle"
    BY <1>6 DEF BatchTypeOK
  <2> QED BY <1>6, <2>1 DEF RunsOwned, RunsApart, Procs
<1>7. ASSUME NEW p \in Procs, Publish(p) PROVE RunsApart'
  BY <1>6, <1>7 DEF Publish, MoveTo, BatchPlaces
<1>8. ASSUME NEW p \in Procs, NEW to \in {"settled", "returned", "failed", "bound"},
             Recorded(p, to)
      PROVE  RunsApart'
  BY <1>6, <1>8 DEF Recorded, Writes, BatchPlaces
<1>9. CASE PlanBatch \/ Repeat \/ EndSingle \/ CountFailure \/ KillBatch
  BY <1>4, <1>9, Resting DEF PlanBatch, Repeat, EndSingle, CountFailure, KillBatch
<1>10. ASSUME NEW p \in Procs, RefusedWrite(p) PROVE RunsApart'
  BY <1>4, <1>10, Resting DEF RefusedWrite
<1>11. ASSUME NEW p \in Procs, ResearchStep(p) PROVE RunsApart'
  BY <1>7, <1>8, <1>10, <1>11, Recording DEF ResearchStep
<1> QED BY <1>4, <1>5, <1>9, <1>11, Resting, Opening DEF BatchNext

LEMMA AtRowKept ==
  ASSUME Commanded, BatchTypeOK, RunsOwned, BatchNext PROVE AtRow'
<1>1. command' = command
  BY SameCommand
<1>2. Len(runs) \in Nat /\ DOMAIN runs = 1..Len(runs) /\ \A q \in Procs : cur[q] \in 0..Len(runs)
  BY BatchShape, BatchNumbers
<1>3. place \in [Procs -> BatchPlaces] /\ "batch" \in Procs
  BY DEF BatchTypeOK, Procs
<1>4. ASSUME place'["batch"] = "idle" PROVE AtRow'
  BY <1>4 DEF AtRow
<1>5. ASSUME UNCHANGED <<batchPhase, plan, at, cur>>,
             place["batch"] = "idle" => place'["batch"] = "idle",
             place["batch"] # "idle" =>
               /\ State("batch")'.company = State("batch").company
               /\ State("batch")'.known =>
                    State("batch").known /\ State("batch")'.targets = State("batch").targets
      PROVE  AtRow'
  BY <1>1, <1>5 DEF AtRow, RunsOwned
<1>6. ASSUME Rests, UNCHANGED <<batchPhase, plan, at>> PROVE AtRow'
  BY <1>3, <1>5, <1>6 DEF Rests, State
<1>7. CASE PlanBatch \/ Repeat
  BY <1>4, <1>7 DEF PlanBatch, Repeat, RunsOwned, AtRow
<1>8. CASE Assess \/ CountFailure \/ KillBatch
  BY <1>3, <1>4, <1>8 DEF Assess, CountFailure, KillBatch, MoveTo
<1>9. CASE EndSingle
  BY <1>6, <1>9, Resting DEF EndSingle, batch
<1>10. ASSUME NEW p \in Procs, NEW c \in Rows, NEW t \in {"agnostic", "azure", "other"},
              Opens(p, c, t)
       PROVE  AtRow'
  <2>1. UNCHANGED <<batchPhase, plan, at>>
    BY <1>10 DEF Opens, batch
  <2>2. CASE p = "batch"
    <3>1. State("batch")' = runs'[Len(runs) + 1]
      BY <1>1, <1>10, <2>2, Opened DEF State
    <3> QED BY <1>1, <1>10, <2>1, <2>2, <3>1, Opened DEF AtRow, Opens
  <2>3. CASE p # "batch"
    <3>1. place'["batch"] = place["batch"] /\ cur'["batch"] = cur["batch"]
      BY <1>1, <1>3, <1>10, <2>3, Opened
    <3>2. place["batch"] # "idle" => State("batch")' = State("batch")
      BY <1>1, <1>2, <1>3, <1>10, <3>1, Opened DEF State, RunsOwned, RunsApart
    <3> QED BY <1>1, <2>1, <3>1, <3>2 DEF AtRow, RunsOwned
  <2> QED BY <2>2, <2>3
<1>11. ASSUME NEW p \in Procs, Publish(p) PROVE AtRow'
  <2>1. place["batch"] = "idle" => place'["batch"] = "idle"
    BY <1>3, <1>11 DEF Publish, MoveTo
  <2> QED BY <1>5, <1>11, <2>1 DEF Publish, batch, State
<1>12. ASSUME NEW p \in Procs, NEW to \in {"settled", "returned", "failed", "bound"},
              Recorded(p, to)
       PROVE  AtRow'
  <2>1. /\ UNCHANGED <<batchPhase, plan, at, cur>> /\ place' = [place EXCEPT ![p] = to]
        /\ place[p] # "idle"
    BY <1>12 DEF Recorded, Writes, batch
  <2>2. place["batch"] = "idle" => place'["batch"] = "idle"
    BY <1>3, <2>1
  <2>3. ASSUME place["batch"] # "idle"
        PROVE  /\ State("batch")'.company = State("batch").company
               /\ State("batch")'.known =>
                    State("batch").known /\ State("batch")'.targets = State("batch").targets
    <3>1. CASE p = "batch"
      BY <1>12, <2>1, <3>1 DEF Recorded, Writes, State
    <3>2. CASE p # "batch"
      <4>1. cur["batch"] \in DOMAIN runs /\ cur["batch"] # cur[p]
        BY <1>2, <1>3, <2>3, <3>2 DEF RunsOwned, RunsApart, Procs
      <4> QED BY <1>12, <2>1, <4>1 DEF Recorded, Writes, State
    <3> QED BY <3>1, <3>2
  <2> QED BY <1>5, <2>1, <2>2, <2>3
<1>13. ASSUME NEW p \in Procs, ResearchStep(p) PROVE AtRow'
  BY <1>6, <1>11, <1>12, <1>13, Resting, Recording DEF ResearchStep, RefusedWrite, batch
<1> QED BY <1>7, <1>8, <1>9, <1>10, <1>13, Opening DEF BatchNext

(* While states can be read they say how far their run is.                   *)
LEMMA StatesReadKept ==
  ASSUME Commanded, BatchTypeOK, RunsOwned, BatchNext PROVE StatesRead'
<1>1. command' = command
  BY SameCommand
<1>2. Len(runs) \in Nat /\ DOMAIN runs = 1..Len(runs) /\ \A q \in Procs : cur[q] \in 0..Len(runs)
  BY BatchShape, BatchNumbers
<1>3. place \in [Procs -> BatchPlaces]
  BY DEF BatchTypeOK
<1>. SUFFICES ASSUME "read" \notin command.faulty, NEW q \in Procs, place'[q] # "idle"
              PROVE  StateRead(q)'
  BY <1>1 DEF StatesRead
<1>4. ASSUME place[q] # "idle" PROVE StateRead(q) /\ cur[q] \in DOMAIN runs
  BY <1>2, <1>4 DEF RunsOwned, RunsApart, StatesRead
<1>5. ASSUME UNCHANGED cur, runs'[cur[q]] = runs[cur[q]], place[q] # "idle",
             \/ place'[q] \in {place[q], "failed"}
             \/ place[q] = "running" /\ place'[q] = "published"
      PROVE  StateRead(q)'
  BY <1>4, <1>5 DEF StateRead, State
<1>6. ASSUME Rests PROVE StateRead(q)'
  <2>1. place[q] # "idle"
    BY <1>6 DEF Rests
  <2> QED BY <1>5, <1>6, <2>1 DEF Rests
<1>7. ASSUME NEW p \in Procs, NEW c \in Rows, NEW t \in {"agnostic", "azure", "other"},
             Opens(p, c, t)
      PROVE  StateRead(q)'
  <2>1. CASE q = p
    BY <1>1, <1>7, <2>1, Opened DEF StateRead, State
  <2>2. CASE q # p
    <3>1. cur'[q] = cur[q] /\ place'[q] = place[q]
      BY <1>1, <1>7, <2>2, Opened
    <3>2. StateRead(q) /\ cur[q] \in DOMAIN runs
      BY <1>4, <3>1
    <3>3. runs'[cur[q]] = runs[cur[q]]
      BY <1>1, <1>7, <3>2, Opened
    <3> QED BY <3>1, <3>2, <3>3 DEF StateRead, State
  <2> QED BY <2>1, <2>2
<1>8. ASSUME NEW p \in Procs, Publish(p) PROVE StateRead(q)'
  <2>1. /\ place' = [place EXCEPT ![p] = "published"] /\ place[p] = "running"
        /\ UNCHANGED <<cur, runs>>
    BY <1>8 DEF Publish, MoveTo
  <2>2. /\ place[q] # "idle"
        /\ \/ place'[q] = place[q]
           \/ place[q] = "running" /\ place'[q] = "published"
    BY <1>3, <2>1
  <2> QED BY <1>5, <2>1, <2>2
<1>9. ASSUME NEW p \in Procs, NEW to \in {"settled", "returned", "failed", "bound"},
             Writes(p), place[p] # "idle", place' = [place EXCEPT ![p] = to], q # p
      PROVE  StateRead(q)'
  <2>1. place'[q] = place[q]
    BY <1>3, <1>9
  <2>2. cur[q] # cur[p] /\ cur[q] \in DOMAIN runs
    BY <1>2, <1>9, <2>1 DEF RunsOwned, RunsApart, Procs
  <2>3. runs'[cur[q]] = runs[cur[q]] /\ cur' = cur
    BY <1>9, <2>2 DEF Writes
  <2> QED BY <1>5, <2>1, <2>3
<1>10. ASSUME NEW p \in Procs, place[p] # "idle", Writes(p), q = p, NEW to \in BatchPlaces,
              place' = [place EXCEPT ![p] = to],
              to = "settled" => runs'[cur[p]].status = "running",
              to \in {"returned", "bound"} => runs'[cur[p]].status = "completed",
              to \notin {"running", "published"}
       PROVE  StateRead(q)'
  <2>1. place'[q] = to /\ cur' = cur
    BY <1>3, <1>10 DEF Writes
  <2>2. StateRead(p)
    BY <1>4, <1>10
  <2>3. runs'[cur[p]].known
    BY <1>10, <2>2 DEF Writes, StateRead
  <2> QED BY <1>10, <2>1, <2>3 DEF StateRead, State
<1>11. ASSUME NEW p \in Procs, RecordOutcome(p) PROVE StateRead(q)'
  <2>1. /\ Writes(p) /\ place[p] = "published" /\ place' = [place EXCEPT ![p] = "settled"]
        /\ runs'[cur[p]].status = State(p).status
    BY <1>11, OutcomeRecorded
  <2>2. q = p => State(p).status = "running"
    BY <1>4, <2>1 DEF StateRead
  <2> QED BY <1>9, <1>10, <2>1, <2>2 DEF BatchPlaces
<1>12. ASSUME NEW p \in Procs, RecordCompletion(p) PROVE StateRead(q)'
  <2>1. /\ Writes(p) /\ place[p] = "settled" /\ place' = [place EXCEPT ![p] = "returned"]
        /\ runs'[cur[p]].status = "completed"
    BY <1>12, CompletionRecorded
  <2> QED BY <1>9, <1>10, <2>1 DEF BatchPlaces
<1>13. ASSUME NEW p \in Procs, RecordFailure(p) PROVE StateRead(q)'
  <2>1. /\ Writes(p) /\ place[p] # "idle" /\ place' = [place EXCEPT ![p] = "failed"]
    BY <1>13, FailureRecorded
  <2> QED BY <1>9, <1>10, <2>1 DEF BatchPlaces
<1>14. ASSUME NEW p \in Procs, Bind(p) PROVE StateRead(q)'
  <2>1. /\ Writes(p) /\ place[p] = "returned" /\ place' = [place EXCEPT ![p] = "bound"]
        /\ runs'[cur[p]].status = State(p).status
    BY <1>14, ReportBound
  <2>2. q = p => State(p).status = "completed"
    BY <1>4, <2>1 DEF StateRead
  <2> QED BY <1>9, <1>10, <2>1, <2>2 DEF BatchPlaces
<1>15. ASSUME NEW p \in Procs, ResearchStep(p) PROVE StateRead(q)'
  BY <1>6, <1>8, <1>11, <1>12, <1>13, <1>14, <1>15, Resting DEF ResearchStep
<1> QED BY <1>6, <1>7, <1>15, Resting, Opening DEF BatchNext

-----------------------------------------------------------------------------
(* The batch's report stands until it is bound.                              *)

LEMMA ReportHeldKept ==
  ASSUME Commanded, BatchTypeOK, RunsOwned, ReportsOwned, ReportHeld, BatchNext
  PROVE  ReportHeld'
<1>1. command' = command
  BY SameCommand
<1>2. Len(runs) \in Nat /\ DOMAIN runs = 1..Len(runs) /\ \A q \in Procs : cur[q] \in 0..Len(runs)
  BY BatchShape, BatchNumbers
<1>3. place \in [Procs -> BatchPlaces] /\ {"batch", "single"} \subseteq Procs
  BY DEF BatchTypeOK, Procs
<1>. SUFFICES ASSUME ~command.overlap PROVE ReportHeld'
  BY <1>1 DEF ReportHeld
<1>4. ASSUME Rests PROVE ReportHeld'
  BY <1>1, <1>3, <1>4 DEF Rests, ReportHeld, State
<1>5. \A q \in Procs : place[q] # "idle" => cur[q] \in DOMAIN runs
  BY <1>2 DEF RunsOwned, RunsApart
<1>6. ASSUME NEW p \in Procs, NEW c \in Rows, NEW t \in {"agnostic", "azure", "other"},
             Opens(p, c, t)
      PROVE  ReportHeld'
  <2>1. /\ State(p)'.company = c /\ State(p)'.targets = t /\ place'[p] = "running"
        /\ \A q \in Procs : q # p => place'[q] = place[q] /\ cur'[q] = cur[q]
        /\ \A i \in DOMAIN runs : runs'[i] = runs[i]
    BY <1>1, <1>6, Opened DEF State
  <2>2. \A q \in Procs : q # p /\ place[q] # "idle" => State(q)' = State(q)
    BY <1>5, <2>1 DEF State
  <2>3. \A q \in Procs : place[q] \in {"running", "published", "settled"} => State(q).company # c
    BY <1>6 DEF Opens, Leased, State
  <2>4. UNCHANGED <<report, unwritten>>
    BY <1>6 DEF Opens
  <2>5. CASE p = "batch"
    BY <1>1, <1>3, <2>1, <2>2, <2>3, <2>5 DEF ReportHeld
  <2>6. CASE p = "single"
    <3>1. t = "other" /\ (place["batch"] = "returned" => State("batch").company # c)
      BY <1>3, <1>6, <2>6 DEF Opens
    <3> QED BY <1>1, <1>3, <2>1, <2>2, <2>3, <2>4, <2>6, <3>1 DEF ReportHeld
  <2> QED BY <2>5, <2>6 DEF Procs
<1>7. ASSUME NEW p \in Procs, Publish(p) PROVE ReportHeld'
  <2>1. /\ place[p] = "running" /\ place' = [place EXCEPT ![p] = "published"]
        /\ UNCHANGED <<runs, cur>>
        /\ \A x \in Rows : report'[x] = report[x] \/ x = State(p).company
        /\ report'[State(p).company] = cur[p] \/ cur[p] \in unwritten'
        /\ unwritten \subseteq unwritten'
    BY <1>7, Published
  <2>2. \A q \in Procs : State(q)' = State(q)
    BY <2>1 DEF State
  <2>3. \A q \in Procs : place[q] # "idle" => State(q).company \in Rows
    BY <1>5, BatchShape DEF State
  <2>4. CASE p = "batch"
    BY <1>1, <1>3, <2>1, <2>2, <2>3, <2>4 DEF ReportHeld
  <2>5. CASE p = "single"
    BY <1>1, <1>3, <2>1, <2>2, <2>3, <2>5 DEF ReportHeld
  <2> QED BY <2>4, <2>5 DEF Procs
<1>8. ASSUME NEW p \in Procs, NEW to \in {"settled", "returned", "failed", "bound"},
             Recorded(p, to)
      PROVE  ReportHeld'
  <2>1. /\ UNCHANGED <<report, cur, unwritten>> /\ place' = [place EXCEPT ![p] = to]
        /\ \A i \in DOMAIN runs : i # cur[p] => runs'[i] = runs[i]
        /\ State(p)'.company = State(p).company
        /\ State(p)'.known => State(p).known /\ State(p)'.targets = State(p).targets
    BY <1>8 DEF Recorded, Writes, State
  <2>2. /\ to = "settled" => place[p] = "published"
        /\ to = "returned" => place[p] = "settled"
        /\ to = "failed" => place[p] \in {"running", "published", "settled"}
        /\ to = "bound" => place[p] = "returned"
    BY <1>8 DEF Recorded
  <2>3. \A q \in Procs : q # p /\ place[q] # "idle" => State(q)' = State(q)
    BY <1>5, <2>1, <2>2 DEF State, RunsOwned, RunsApart, Procs
  <2>4. CASE p = "batch"
    BY <1>1, <1>3, <2>1, <2>2, <2>3, <2>4 DEF ReportHeld
  <2>5. CASE p = "single"
    BY <1>1, <1>3, <2>1, <2>2, <2>3, <2>5 DEF ReportHeld
  <2> QED BY <2>4, <2>5 DEF Procs
<1>9. ASSUME NEW p \in Procs, ResearchStep(p) PROVE ReportHeld'
  BY <1>4, <1>7, <1>8, <1>9, Resting, Recording DEF ResearchStep
<1> QED BY <1>4, <1>6, <1>9, Resting, Opening DEF BatchNext

-----------------------------------------------------------------------------
(* A run that covers a report wrote it.                                      *)

LEMMA BoundToOwnKept ==
  ASSUME Commanded, BatchTypeOK, RunsOwned, ReportsOwned, ReportHeld, BoundToOwn, BatchNext
  PROVE  BoundToOwn'
<1>1. command' = command
  BY SameCommand
<1>2. DOMAIN runs = 1..Len(runs) /\ Len(runs) \in Nat
      /\ \A i \in DOMAIN runs : runs[i].company \in Rows
  BY BatchShape
<1>3. report \in [Rows -> 0..Len(runs)]
  BY DEF BatchTypeOK
<1>. SUFFICES ASSUME ~command.overlap PROVE BoundToOwn'
  BY <1>1 DEF BoundToOwn
<1>4. ASSUME Rests PROVE BoundToOwn'
  BY <1>1, <1>4 DEF Rests, BoundToOwn
<1>5. ASSUME NEW p \in Procs, NEW c \in Rows, NEW t \in {"agnostic", "azure", "other"},
             Opens(p, c, t)
      PROVE  BoundToOwn'
  <2>1. UNCHANGED <<report, unwritten>>
    BY <1>5 DEF Opens
  <2>2. /\ DOMAIN runs' = 1..Len(runs) + 1 /\ runs'[Len(runs) + 1].bound = 0
        /\ \A i \in DOMAIN runs : runs'[i] = runs[i]
    BY <1>1, <1>5, Opened
  <2>3. \A i \in DOMAIN runs' : i \in DOMAIN runs \/ i = Len(runs) + 1
    BY <1>2, <2>2
  <2> QED BY <1>1, <2>1, <2>2, <2>3 DEF BoundToOwn
<1>6. ASSUME NEW p \in Procs, Publish(p) PROVE BoundToOwn'
  <2>1. /\ place[p] = "running" /\ runs' = runs /\ unwritten \subseteq unwritten'
        /\ \A x \in Rows : report'[x] = report[x] \/ report'[x] = cur[p]
    BY <1>6, Published
  <2>2. \A i \in DOMAIN runs : runs[i].bound # cur[p]
    BY <2>1 DEF ReportsOwned
  <2>3. \A i \in DOMAIN runs : report'[runs[i].company] \in {report[runs[i].company], cur[p]}
    BY <1>2, <2>1
  <2> QED BY <1>1, <2>1, <2>2, <2>3 DEF BoundToOwn
<1>7. ASSUME NEW p \in Procs, NEW to \in {"settled", "returned", "failed", "bound"},
             Recorded(p, to)
      PROVE  BoundToOwn'
  <2>1. /\ UNCHANGED <<report, unwritten>> /\ DOMAIN runs' = DOMAIN runs /\ cur[p] \in DOMAIN runs
        /\ \A i \in DOMAIN runs : i # cur[p] => runs'[i] = runs[i]
        /\ runs'[cur[p]].company = State(p).company
        /\ runs'[cur[p]].known => State(p).known /\ runs'[cur[p]].targets = State(p).targets
    BY <1>7 DEF Recorded, Writes
  <2>2. CASE to # "bound"
    <3>1. runs'[cur[p]].bound \in {0, State(p).bound}
      BY <1>7, <2>2 DEF Recorded
    <3> QED BY <1>1, <2>1, <3>1 DEF BoundToOwn, State
  <2>3. CASE to = "bound"
    <3>1. place[p] = "returned" /\ runs'[cur[p]].bound = report[State(p).company]
      BY <1>7, <2>3 DEF Recorded
    <3>2. p = "batch" => report[State(p).company] = cur[p] \/ cur[p] \in unwritten
      BY <3>1 DEF ReportHeld
    <3>3. p = "single" => (runs'[cur[p]].known => runs'[cur[p]].targets # Expected)
      BY <2>1, <3>1 DEF ReportHeld, Expected
    <3>4. CASE p = "batch"
      BY <1>1, <2>1, <3>1, <3>2, <3>4 DEF BoundToOwn
    <3>5. CASE p = "single"
      BY <1>1, <2>1, <3>3, <3>5 DEF BoundToOwn
    <3> QED BY <3>4, <3>5 DEF Procs
  <2> QED BY <2>2, <2>3
<1>8. ASSUME NEW p \in Procs, ResearchStep(p) PROVE BoundToOwn'
  BY <1>4, <1>6, <1>7, <1>8, Resting, Recording DEF ResearchStep
<1> QED BY <1>4, <1>5, <1>8, Resting, Opening DEF BatchNext

-----------------------------------------------------------------------------
(* A report a batch vouched for is left out.                                 *)

LEMMA VouchedCoveredKept ==
  ASSUME Commanded, BatchTypeOK, RunsOwned, ReportsOwned, VouchedCovered, RowsInTurn,
         BatchNext
  PROVE  VouchedCovered'
<1>1. command' = command /\ Rows' = Rows
  BY SameCommand
<1>2. /\ DOMAIN runs = 1..Len(runs) /\ Len(runs) \in Nat
      /\ DOMAIN plan = 1..Len(plan) /\ Len(plan) \in Nat /\ at \in Nat \ {0}
      /\ \A j \in DOMAIN plan : plan[j] \in Rows
  BY BatchShape, BatchNumbers
<1>3. /\ report \in [Rows -> 0..Len(runs)] /\ vouched \subseteq 1..Len(runs)
      /\ place \in [Procs -> BatchPlaces] /\ "batch" \in Procs
  BY DEF BatchTypeOK, Procs
<1>4. \A j \in at..Len(plan) : plan[j] \in Rows
  BY <1>2
<1>. SUFFICES ASSUME command.explicit, "read" \notin command.faulty PROVE VouchedCovered'
  BY <1>1 DEF VouchedCovered
<1>5. ASSUME UNCHANGED <<runs, report, cur, vouched>>,
             place'["batch"] = "bound" => place["batch"] = "bound",
             batchPhase' = "run" => \A j \in at'..Len(plan') : report[plan'[j]] \notin vouched
      PROVE  VouchedCovered'
  BY <1>1, <1>5 DEF VouchedCovered, Covers, State
<1>6. CASE PlanBatch
  <2>1. /\ plan' \in Seq(Rows) /\ at' = 1
        /\ \A c \in Rows : c \in Listed(plan') <=> ~Existing(c)
    BY <1>6, RowPlanned DEF PlanBatch
  <2>2. ASSUME NEW j \in at'..Len(plan') PROVE report[plan'[j]] \notin vouched
    <3>1. j \in DOMAIN plan' /\ plan'[j] \in Rows
      BY <2>1, ListShape
    <3>2. ~Existing(plan'[j])
      BY <2>1, <3>1 DEF Listed
    <3>3. ASSUME report[plan'[j]] \in vouched PROVE FALSE
      BY <1>2, <1>3, <3>1, <3>2, <3>3 DEF VouchedCovered, Existing
    <3> QED BY <3>3
  <2> QED BY <1>5, <1>6, <2>2 DEF PlanBatch
<1>7. CASE Repeat \/ KillBatch
  BY <1>3, <1>5, <1>7 DEF Repeat, KillBatch, MoveTo
<1>8. CASE EndSingle
  <2>1. place'["batch"] = "bound" => place["batch"] = "bound"
    BY <1>3, <1>8 DEF EndSingle, MoveTo
  <2>2. UNCHANGED <<runs, report, cur, vouched, batchPhase, plan, at>>
    BY <1>8 DEF EndSingle, batch
  <2> QED BY <1>5, <2>1, <2>2 DEF VouchedCovered
<1>9. CASE CountFailure
  <2>1. /\ place'["batch"] = "idle" /\ plan' = plan /\ at' = at + 1 /\ batchPhase = "run"
        /\ UNCHANGED <<runs, report, cur, vouched>>
    BY <1>3, <1>9 DEF CountFailure, MoveTo, Advance
  <2>2. at'..Len(plan') \subseteq at..Len(plan)
    BY <1>2, <2>1
  <2> QED BY <1>5, <2>1, <2>2 DEF VouchedCovered
<1>10. CASE Assess
  <2>1. /\ place'["batch"] = "idle" /\ plan' = plan /\ at' = at + 1 /\ batchPhase = "run"
        /\ place["batch"] = "bound" /\ UNCHANGED <<runs, report, cur>>
        /\ \/ vouched' = vouched
           \/ State("batch").fulfilled = "full" /\ vouched' = vouched \cup {cur["batch"]}
    BY <1>3, <1>10 DEF Assess, MoveTo, Advance, State
  <2>2. at'..Len(plan') \subseteq at..Len(plan) /\ at \notin at'..Len(plan')
        /\ at'..Len(plan') \subseteq DOMAIN plan
    BY <1>2, <2>1
  <2>3. CASE vouched' = vouched
    BY <1>5, <2>1, <2>2, <2>3 DEF VouchedCovered
  <2>4. CASE State("batch").fulfilled = "full" /\ vouched' = vouched \cup {cur["batch"]}
    <3>1. /\ State("batch").known /\ State("batch").status = "completed"
          /\ State("batch").targets = Expected /\ State("batch").company = plan[at]
          /\ cur["batch"] # 0
      BY <1>3, <2>1 DEF RunsOwned, RunsApart, AtRow, StatesRead, StateRead
    <3>2. ASSUME NEW c \in Rows, report[c] = cur["batch"] PROVE Covers(State("batch"), c)
      <4>1. State("batch").company = c
        BY <3>1, <3>2 DEF ReportsOwned, State
      <4>2. State("batch").bound = report[c]
        BY <2>1, <3>2, <4>1 DEF VouchedCovered
      <4> QED BY <2>4, <3>1, <3>2, <4>1, <4>2 DEF Covers
    <3>3. ASSUME NEW c \in Rows, report[c] \in vouched' PROVE Covers(runs[report[c]], c)
      BY <2>4, <3>2, <3>3 DEF VouchedCovered, State
    <3>4. ASSUME NEW j \in at'..Len(plan') PROVE report[plan[j]] \notin vouched'
      <4>1. report[plan[j]] \notin vouched /\ plan[j] \in Rows
        BY <1>4, <2>1, <2>2 DEF VouchedCovered
      <4>2. ASSUME report[plan[j]] = cur["batch"] PROVE FALSE
        <5>1. plan[at] = plan[j]
          BY <3>1, <4>1, <4>2 DEF ReportsOwned, State
        <5>2. at \in DOMAIN plan /\ j \in DOMAIN plan /\ at # j
          BY <1>2, <2>1, <2>2
        <5> QED BY <5>1, <5>2 DEF RowsInTurn, RowsDistinct
      <4> QED BY <2>4, <4>1, <4>2
    <3> QED BY <1>1, <2>1, <3>3, <3>4 DEF VouchedCovered, Covers
  <2> QED BY <2>1, <2>3, <2>4
<1>11. ASSUME NEW p \in Procs, NEW c \in Rows, NEW t \in {"agnostic", "azure", "other"},
              Opens(p, c, t)
       PROVE  VouchedCovered'
  <2>1. UNCHANGED <<report, vouched, batchPhase, plan, at>>
    BY <1>11 DEF Opens, batch
  <2>2. /\ \A i \in DOMAIN runs : runs'[i] = runs[i]
        /\ place'[p] = "running"
        /\ \A q \in Procs : q # p => cur'[q] = cur[q] /\ place'[q] = place[q]
    BY <1>1, <1>11, Opened
  <2>3. ASSUME place'["batch"] = "bound"
        PROVE  place["batch"] = "bound" /\ cur'["batch"] = cur["batch"]
               /\ State("batch")' = State("batch")
    <3>1. place["batch"] = "bound" /\ cur'["batch"] = cur["batch"]
      BY <1>3, <2>2, <2>3
    <3>2. cur["batch"] \in DOMAIN runs
      BY <1>2, <1>3, <3>1, BatchNumbers DEF RunsOwned, RunsApart
    <3> QED BY <2>2, <3>1, <3>2 DEF State
  <2>4. ASSUME NEW x \in Rows, report[x] \in vouched PROVE Covers(runs[report[x]], x)'
    <3>1. runs'[report[x]] = runs[report[x]]
      BY <1>2, <1>3, <2>2, <2>4
    <3> QED BY <2>1, <2>4, <3>1 DEF VouchedCovered, Covers
  <2> QED BY <1>1, <2>1, <2>3, <2>4 DEF VouchedCovered
<1>12. ASSUME NEW p \in Procs, Publish(p) PROVE VouchedCovered'
  <2>1. /\ place[p] = "running" /\ place' = [place EXCEPT ![p] = "published"]
        /\ UNCHANGED <<runs, cur, vouched, batchPhase, plan, at>>
        /\ \A x \in Rows : report'[x] = report[x] \/ report'[x] = cur[p]
    BY <1>12, Published DEF batch
  <2>2. cur[p] \notin vouched
    BY <2>1 DEF RunsOwned, RunsApart
  <2>3. \A x \in Rows : report'[x] \in {report[x], cur[p]}
    BY <2>1
  <2>4. \A x \in Rows : report'[x] \in vouched => report'[x] = report[x]
    BY <2>2, <2>3
  <2>5. ASSUME NEW x \in Rows, report'[x] \in vouched' PROVE Covers(runs[report[x]], x)'
    BY <2>1, <2>4, <2>5 DEF VouchedCovered, Covers
  <2>6. ASSUME place'["batch"] = "bound", report'[State("batch").company] = cur["batch"]
        PROVE  State("batch").bound = cur["batch"]
    <3>1. p # "batch" /\ place["batch"] = "bound"
      BY <1>3, <2>1, <2>6
    <3>2. cur["batch"] # cur[p] /\ cur["batch"] \in DOMAIN runs
      BY <1>2, <1>3, <2>1, <3>1, BatchNumbers DEF RunsOwned, RunsApart, Procs
    <3>3. State("batch").company \in Rows
      BY <3>2, BatchShape DEF State
    <3>4. report[State("batch").company] = cur["batch"]
      BY <2>3, <2>6, <3>2, <3>3
    <3> QED BY <3>1, <3>4 DEF VouchedCovered
  <2> QED BY <1>1, <1>4, <2>1, <2>4, <2>5, <2>6 DEF VouchedCovered, State
<1>13. ASSUME NEW p \in Procs, NEW to \in {"settled", "returned", "failed", "bound"},
              Recorded(p, to)
       PROVE  VouchedCovered'
  <2>1. /\ UNCHANGED <<report, cur, vouched, batchPhase, plan, at>>
        /\ place' = [place EXCEPT ![p] = to] /\ place[p] # "idle" /\ cur[p] \in DOMAIN runs
        /\ \A i \in DOMAIN runs : i # cur[p] => runs'[i] = runs[i]
        /\ runs'[cur[p]].company = State(p).company
        /\ to = "bound" => runs'[cur[p]].bound = report[State(p).company]
    BY <1>13 DEF Recorded, Writes, batch
  <2>2. cur[p] \notin vouched
    BY <2>1 DEF RunsOwned, RunsApart
  <2>3. ASSUME NEW x \in Rows, report[x] \in vouched PROVE Covers(runs[report[x]], x)'
    <3>1. runs'[report[x]] = runs[report[x]]
      BY <1>2, <1>3, <2>1, <2>2, <2>3
    <3> QED BY <2>1, <2>3, <3>1 DEF VouchedCovered, Covers
  <2>4. ASSUME place'["batch"] = "bound", report[State("batch")'.company] = cur["batch"]
        PROVE  State("batch")'.bound = cur["batch"]
    <3>1. CASE p = "batch"
      BY <1>3, <2>1, <2>4, <3>1 DEF State
    <3>2. CASE p # "batch"
      <4>1. place["batch"] = "bound"
        BY <1>3, <2>1, <2>4, <3>2
      <4>2. cur["batch"] # cur[p] /\ cur["batch"] \in DOMAIN runs
        BY <1>2, <1>3, <2>1, <3>2, <4>1, BatchNumbers DEF RunsOwned, RunsApart, Procs
      <4>3. State("batch")' = State("batch")
        BY <2>1, <4>2 DEF State
      <4> QED BY <2>4, <4>1, <4>3 DEF VouchedCovered
    <3> QED BY <3>1, <3>2
  <2> QED BY <1>1, <2>1, <2>3, <2>4 DEF VouchedCovered
<1>14. ASSUME NEW p \in Procs, RefusedWrite(p) PROVE VouchedCovered'
  <2>1. place'["batch"] = "bound" => place["batch"] = "bound"
    BY <1>3, <1>14 DEF RefusedWrite, MoveTo
  <2>2. UNCHANGED <<runs, report, cur, vouched, batchPhase, plan, at>>
    BY <1>14 DEF RefusedWrite, batch
  <2> QED BY <1>5, <2>1, <2>2 DEF VouchedCovered
<1>15. ASSUME NEW p \in Procs, ResearchStep(p) PROVE VouchedCovered'
  BY <1>12, <1>13, <1>14, <1>15, Recording DEF ResearchStep
<1> QED BY <1>6, <1>7, <1>8, <1>9, <1>10, <1>11, <1>15, Opening DEF BatchNext

-----------------------------------------------------------------------------
(* The rows of the plan are researched in turn, and summed up.               *)

(* The parts of SummaryComplete: every row is accounted for, those left out  *)
(* come after failures, and what the batch vouches for is complete.          *)
RowsResolved == batchPhase = "done" => \A c \in Rows : results[c] # "none"
AfterFailures(c, rows, said) ==
  \E i \in 1..Len(rows) :
    /\ i + MaxFailures - 1 <= Len(rows)
    /\ \A j \in i..i + MaxFailures - 1 : said[rows[j]] = "failed"
    /\ \E j \in i + MaxFailures..Len(rows) : c = rows[j]
RowsSkipped ==
  \A c \in Rows : results[c] = "not attempted" => AfterFailures(c, plan, results)
RowsSummed == RowsResolved /\ RowsSkipped
VouchedFull == \A i \in vouched : runs[i].fulfilled = "full"

LEMMA RowAdvances ==
  ASSUME Commanded, BatchTypeOK, RowsInTurn, command' = command, batchPhase = "run",
         NEW result \in {"ok", "partial", "failed"}, NEW count, Advance(result, count),
         count = 0 \/ (count = failing + 1 /\ result = "failed")
  PROVE  RowsInTurn' /\ RowsSummed'
<1>1. Len(plan) \in Nat /\ DOMAIN plan = 1..Len(plan)
  BY BatchShape
<1>2. MaxFailures \in Nat \ {0} /\ at \in Nat \ {0} /\ failing \in Nat
  BY BatchNumbers
<1>3. Rows' = Rows
  BY DEF Rows
<1>4. at <= Len(plan) /\ failing < MaxFailures /\ failing < at
  BY DEF RowsInTurn, RowAt
<1>5. at \in DOMAIN plan
  BY <1>1, <1>2, <1>4
<1>6. plan[at] \in Rows
  BY <1>5, BatchShape
<1>7. count \in Nat /\ count <= failing + 1
  BY <1>2
<1>8. plan' = plan /\ at' = at + 1 /\ failing' = count
  BY DEF Advance
<1>9. batchPhase' = IF count >= MaxFailures \/ at = Len(plan) THEN "done" ELSE "run"
  BY DEF Advance
<1>10. \A c \in Rows : results'[c] =
         IF c = plan[at] THEN result
         ELSE IF results[c] = "none" /\ count >= MaxFailures THEN "not attempted"
         ELSE results[c]
  BY DEF Advance
<1>11. results'[plan[at]] = result
  BY <1>6, <1>10
<1>12. \A j \in DOMAIN plan : j # at => plan[j] # plan[at]
  BY <1>5 DEF RowsInTurn, RowsDistinct
<1>13. ASSUME NEW j \in at - failing..at - 1 PROVE results'[plan[j]] = "failed"
  <2>1. j \in DOMAIN plan /\ j # at
    BY <1>1, <1>2, <1>4
  <2>2. plan[j] \in Rows /\ plan[j] # plan[at]
    BY <1>12, <2>1, BatchShape
  <2>3. results[plan[j]] = "failed"
    BY DEF RowsInTurn, RowsFailed
  <2> QED BY <1>10, <2>2, <2>3
<1>14. ASSUME count = failing + 1, NEW j \in at - failing..at PROVE results'[plan[j]] = "failed"
  <2>1. CASE j = at
    <3>1. result = "failed"
      BY <1>2, <1>14
    <3> QED BY <1>11, <2>1, <3>1
  <2>2. CASE j # at
    <3>1. j \in at - failing..at - 1
      BY <1>2, <2>2
    <3> QED BY <1>13, <3>1
  <2> QED BY <2>1, <2>2
<1>15. ASSUME NEW c \in Rows
       PROVE  (results[c] = "none" /\ c # plan[at]) <=> \E j \in at + 1..Len(plan) : c = plan[j]
  <2>1. ASSUME results[c] = "none", c # plan[at] PROVE \E j \in at + 1..Len(plan) : c = plan[j]
    <3>1. PICK j \in at..Len(plan) : c = plan[j]
      BY <2>1 DEF RowsInTurn, RowsLeft
    <3>2. j # at
      BY <2>1, <3>1
    <3>3. j \in at + 1..Len(plan)
      BY <1>1, <1>2, <3>2
    <3> QED BY <3>1, <3>3
  <2>2. ASSUME NEW j \in at + 1..Len(plan), c = plan[j]
        PROVE  results[c] = "none" /\ c # plan[at]
    <3>1. j \in at..Len(plan) /\ j \in DOMAIN plan /\ j # at
      BY <1>1, <1>2
    <3>2. c # plan[at]
      BY <1>12, <2>2, <3>1
    <3>3. results[c] = "none"
      BY <2>2, <3>1 DEF RowsInTurn, RowsLeft
    <3> QED BY <3>2, <3>3
  <2> QED BY <2>1, <2>2
<1>16. RowsInTurn'
  <2>1. RowsDistinct' /\ RowsIdle'
    BY <1>8, <1>9 DEF RowsInTurn, RowsDistinct, RowsIdle
  <2>. SUFFICES ASSUME batchPhase' = "run"
                PROVE  RowAt' /\ RowsAttempted' /\ RowsLeft' /\ RowsFailed'
    BY <2>1 DEF RowsInTurn, RowAt, RowsAttempted, RowsLeft, RowsFailed
  <2>2. ~(count >= MaxFailures) /\ at # Len(plan)
    BY <1>9
  <2>3. count < MaxFailures /\ at + 1 <= Len(plan) /\ count < at + 1
    <3>1. count < MaxFailures
      BY <1>2, <1>7, <2>2
    <3>2. at + 1 <= Len(plan)
      <4>1. \A n \in Nat : at <= n /\ at # n => at + 1 <= n
        BY <1>2
      <4> QED BY <1>1, <1>4, <2>2, <4>1
    <3>3. count < at + 1
      BY <1>2, <1>4, <1>7
    <3> QED BY <3>1, <3>2, <3>3
  <2>4. RowAt'
    BY <1>8, <2>3 DEF RowAt
  <2>5. \A c \in Rows : results'[c] = IF c = plan[at] THEN result ELSE results[c]
    BY <1>10, <2>2
  <2>6. RowsAttempted'
    BY <1>3, <2>5 DEF RowsInTurn, RowsAttempted
  <2>7. ASSUME NEW c \in Rows
        PROVE  results'[c] = "none" <=> \E j \in at + 1..Len(plan) : c = plan[j]
    BY <1>15, <2>5
  <2>8. RowsLeft'
    BY <1>3, <1>8, <2>7 DEF RowsLeft
  <2>9. ASSUME NEW j \in at + 1 - count..at + 1 - 1 PROVE results'[plan[j]] = "failed"
    <3>1. count = failing + 1
      BY <1>2, <2>9
    <3>2. j \in at - failing..at
      BY <1>2, <2>9, <3>1
    <3> QED BY <1>14, <3>1, <3>2
  <2>10. RowsFailed'
    <3>0. at' - failing' = at + 1 - count /\ at' - 1 = at + 1 - 1
      BY <1>2, <1>7, <1>8
    <3>1. plan' = plan /\ at' - failing'..at' - 1 = at + 1 - count..at + 1 - 1
      BY <1>8, <3>0, Zenon
    <3>2. \A j \in at' - failing'..at' - 1 : results'[plan[j]] = "failed"
      BY <2>9, <3>1
    <3> QED BY <3>1, <3>2 DEF RowsFailed
  <2> QED BY <2>4, <2>6, <2>8, <2>10
<1>17. ASSUME batchPhase' = "done", NEW c \in Rows PROVE results'[c] # "none"
  <2>1. CASE count >= MaxFailures
    BY <1>10, <2>1
  <2>2. CASE at = Len(plan)
    <3>1. ~\E j \in at + 1..Len(plan) : c = plan[j]
      BY <1>1, <2>2
    <3>2. results[c] # "none" \/ c = plan[at]
      BY <1>15, <3>1
    <3> QED BY <1>10, <3>2
  <2> QED BY <1>9, <1>17, <2>1, <2>2
<1>18. ASSUME NEW c \in Rows, results'[c] = "not attempted"
       PROVE  AfterFailures(c, plan, results')
  <2>1. results[c] # "not attempted"
    BY DEF RowsInTurn, RowsAttempted
  <2>2. c # plan[at] /\ results[c] = "none" /\ count >= MaxFailures
    BY <1>10, <1>18, <2>1
  <2>3. count = failing + 1 /\ MaxFailures = failing + 1
    BY <1>2, <1>4, <2>2
  <2>4. at - failing \in 1..Len(plan) /\ (at - failing) + MaxFailures - 1 = at
        /\ (at - failing) + MaxFailures = at + 1
    BY <1>1, <1>2, <1>4, <2>3
  <2>5. \E j \in at + 1..Len(plan) : c = plan[j]
    BY <1>15, <2>2
  <2>6. \A j \in at - failing..at : results'[plan[j]] = "failed"
    BY <1>14, <2>3
  <2>7. PICK i \in 1..Len(plan) : i = at - failing
    BY <2>4
  <2>8. i + MaxFailures - 1 = at /\ i + MaxFailures = at + 1
    BY <2>4, <2>7
  <2> QED BY <1>4, <2>5, <2>6, <2>7, <2>8 DEF AfterFailures
<1>19. RowsResolved'
  BY <1>3, <1>17 DEF RowsResolved
<1>20. RowsSkipped'
  <2>1. plan' = plan
    BY <1>8
  <2> QED BY <1>3, <1>18, <2>1 DEF RowsSkipped
<1> QED BY <1>16, <1>19, <1>20 DEF RowsSummed

LEMMA RowsKept ==
  ASSUME Commanded, BatchTypeOK, RowsInTurn, RowsSummed, [BatchNext]_batchVars
  PROVE  RowsInTurn' /\ RowsSummed'
<1>1. command' = command /\ Rows' = Rows
  BY SameCommand
<1>2. ASSUME UNCHANGED <<batchPhase, plan, at, results, failing>>
      PROVE  RowsInTurn' /\ RowsSummed'
  <2>1. RowsDistinct' /\ RowsIdle'
    BY <1>1, <1>2 DEF RowsInTurn, RowsDistinct, RowsIdle
  <2>2. RowAt'
    BY <1>2 DEF RowsInTurn, RowAt
  <2>3. RowsAttempted'
    BY <1>1, <1>2 DEF RowsInTurn, RowsAttempted
  <2>4. RowsLeft'
    BY <1>1, <1>2 DEF RowsInTurn, RowsLeft
  <2>5. RowsFailed'
    BY <1>1, <1>2 DEF RowsInTurn, RowsFailed
  <2>6. RowsResolved'
    BY <1>1, <1>2 DEF RowsSummed, RowsResolved
  <2>7. RowsSkipped'
    BY <1>1, <1>2 DEF RowsSummed, RowsSkipped
  <2> QED BY <2>1, <2>2, <2>3, <2>4, <2>5, <2>6, <2>7 DEF RowsInTurn, RowsSummed
<1>3. CASE PlanBatch
  <2>1. /\ plan' \in Seq(Rows) /\ \A c \in Rows : c \in Listed(plan') <=> ~Existing(c)
        /\ \A j, l \in DOMAIN plan' : plan'[j] = plan'[l] => j = l
    BY <1>3, RowPlanned
  <2>2. DOMAIN plan' = 1..Len(plan') /\ Len(plan') \in Nat
    BY <2>1, ListShape
  <2>3. /\ at' = 1 /\ failing' = 0
        /\ \A c \in Rows : results'[c] = IF Existing(c) THEN "ok" ELSE "none"
        /\ batchPhase' = IF plan' = <<>> THEN "done" ELSE "run"
    BY <1>3 DEF PlanBatch
  <2>4. ASSUME NEW c \in Rows
        PROVE  results'[c] = "none" <=> \E j \in 1..Len(plan') : c = plan'[j]
    BY <2>1, <2>2, <2>3 DEF Listed
  <2>5. \A c \in Rows : results'[c] # "not attempted"
    BY <2>3
  <2>6. RowsDistinct' /\ RowsIdle' /\ RowsAttempted' /\ RowsSkipped'
    BY <1>1, <2>1, <2>3, <2>5 DEF RowsDistinct, RowsIdle, RowsAttempted, RowsSkipped
  <2>7. RowsLeft'
    BY <1>1, <2>3, <2>4 DEF RowsLeft
  <2>8. RowsFailed'
    BY <2>3 DEF RowsFailed
  <2>9. RowAt'
    <3>1. MaxFailures \in Nat \ {0}
      BY BatchNumbers
    <3>2. plan' # <<>> => 1 <= Len(plan')
      BY <2>1, <2>2
    <3> QED BY <2>3, <3>1, <3>2 DEF RowAt
  <2>10. RowsResolved'
    <3>1. ASSUME plan' = <<>>, NEW c \in Rows PROVE results'[c] # "none"
      <4>1. Len(plan') = 0
        BY <3>1
      <4> QED BY <2>4, <4>1
    <3> QED BY <1>1, <2>3, <3>1 DEF RowsResolved
  <2> QED BY <2>6, <2>7, <2>8, <2>9, <2>10 DEF RowsInTurn, RowsSummed
<1>4. CASE Repeat \/ KillBatch
  <2>1. plan' = <<>> /\ at' = 1 /\ batchPhase' = "idle" /\ \A c \in Rows : results'[c] = "none"
    BY <1>1, <1>4 DEF Repeat, KillBatch
  <2>2. RowsDistinct' /\ RowsIdle'
    BY <1>1, <2>1 DEF RowsDistinct, RowsIdle
  <2>3. RowAt' /\ RowsAttempted' /\ RowsLeft' /\ RowsFailed' /\ RowsResolved'
    BY <2>1 DEF RowAt, RowsAttempted, RowsLeft, RowsFailed, RowsResolved
  <2>4. RowsSkipped'
    BY <1>1, <2>1 DEF RowsSkipped
  <2> QED BY <2>2, <2>3, <2>4 DEF RowsInTurn, RowsSummed
<1>5. CASE Assess
  <2>1. PICK result \in {"ok", "partial", "failed"} : Advance(result, 0)
    BY <1>5 DEF Assess
  <2> QED BY <1>1, <1>5, <2>1, RowAdvances DEF Assess
<1>6. CASE CountFailure
  <2>1. batchPhase = "run" /\ Advance("failed", failing + 1)
    BY <1>6 DEF CountFailure
  <2> QED BY <1>1, <2>1, RowAdvances
<1>7. CASE \/ StartRow \/ StartSingle \/ EndSingle \/ UNCHANGED batchVars
           \/ \E p \in Procs : ResearchStep(p)
  <2>1. UNCHANGED batch
    BY <1>7 DEF batchVars, StartRow, StartSingle, EndSingle, ResearchStep, Publish, RecordOutcome,
       RecordCompletion, RecordFailure, RefusedWrite, Bind
  <2> QED BY <1>2, <2>1 DEF batch
<1> QED BY <1>3, <1>4, <1>5, <1>6, <1>7 DEF BatchNext

LEMMA VouchedFullKept ==
  ASSUME Commanded, BatchTypeOK, RunsOwned, VouchedFull, BatchNext
  PROVE  VouchedFull'
<1>1. command' = command
  BY SameCommand
<1>2. DOMAIN runs = 1..Len(runs) /\ vouched \subseteq DOMAIN runs
  BY BatchShape DEF BatchTypeOK
<1>3. ASSUME runs' = runs, vouched' = vouched PROVE VouchedFull'
  BY <1>3 DEF VouchedFull
<1>4. CASE Assess
  BY <1>4 DEF Assess, VouchedFull
<1>5. ASSUME NEW p \in Procs, NEW c \in Rows, NEW t \in {"agnostic", "azure", "other"},
             Opens(p, c, t)
      PROVE  VouchedFull'
  <2>1. vouched' = vouched /\ \A i \in DOMAIN runs : runs'[i] = runs[i]
    BY <1>1, <1>5, Opened DEF Opens
  <2> QED BY <1>2, <2>1 DEF VouchedFull
<1>6. ASSUME NEW p \in Procs, NEW to \in {"settled", "returned", "failed", "bound"},
             Recorded(p, to)
      PROVE  VouchedFull'
  <2>1. /\ vouched' = vouched /\ place[p] # "idle"
        /\ \A i \in DOMAIN runs : i # cur[p] => runs'[i] = runs[i]
    BY <1>6 DEF Recorded, Writes
  <2>2. cur[p] \notin vouched
    BY <2>1 DEF RunsOwned, RunsApart
  <2> QED BY <1>2, <2>1, <2>2 DEF VouchedFull
<1>7. CASE PlanBatch \/ Repeat \/ EndSingle \/ CountFailure \/ KillBatch
  BY <1>3, <1>7 DEF PlanBatch, Repeat, EndSingle, CountFailure, KillBatch
<1>8. ASSUME NEW p \in Procs, ResearchStep(p) PROVE VouchedFull'
  BY <1>3, <1>6, <1>8, Recording DEF ResearchStep, Publish, RefusedWrite
<1> QED BY <1>4, <1>5, <1>7, <1>8, Opening DEF BatchNext

(* A company is not planned while a run vouched for is bound to its report.  *)
LEMMA VouchedStandsKept ==
  ASSUME Commanded, BatchTypeOK, RunsOwned, ReportsOwned, VouchedFull, VouchedStands,
         RowsInTurn, BatchNext
  PROVE  VouchedStands'
<1>1. command' = command /\ Rows' = Rows
  BY SameCommand
<1>2. /\ DOMAIN runs = 1..Len(runs) /\ Len(runs) \in Nat /\ vouched \subseteq DOMAIN runs
      /\ DOMAIN plan = 1..Len(plan) /\ Len(plan) \in Nat /\ at \in Nat \ {0}
      /\ \A j \in DOMAIN plan : plan[j] \in Rows
  BY BatchShape, BatchNumbers DEF BatchTypeOK
<1>3. \A j \in at..Len(plan) : plan[j] \in Rows
  BY <1>2
<1>. SUFFICES ASSUME command.explicit, "read" \notin command.faulty PROVE VouchedStands'
  BY <1>1 DEF VouchedStands
<1>4. ASSUME UNCHANGED <<runs, report, vouched>>,
             batchPhase' = "run" =>
               batchPhase = "run" /\ plan' = plan /\ at'..Len(plan) \subseteq at..Len(plan)
      PROVE  VouchedStands'
  BY <1>1, <1>4 DEF VouchedStands
<1>5. CASE PlanBatch
  <2>1. /\ plan' \in Seq(Rows) /\ at' = 1 /\ UNCHANGED <<runs, report, vouched>>
        /\ \A c \in Rows : c \in Listed(plan') <=> ~Existing(c)
    BY <1>5, RowPlanned DEF PlanBatch
  <2>2. ASSUME NEW j \in at'..Len(plan'), NEW i \in vouched, runs[i].company = plan'[j],
               report[plan'[j]] # 0, runs[i].bound = report[plan'[j]]
        PROVE  FALSE
    <3>1. j \in DOMAIN plan' /\ plan'[j] \in Rows
      BY <2>1, ListShape
    <3>2. ~Existing(plan'[j])
      BY <2>1, <3>1 DEF Listed
    <3>3. Covers(runs[i], plan'[j])
      BY <2>2 DEF VouchedStands, VouchedFull, Covers
    <3> QED BY <1>2, <3>2, <3>3 DEF Existing
  <2> QED BY <1>1, <2>1, <2>2 DEF VouchedStands
<1>6. CASE Repeat \/ KillBatch
  BY <1>4, <1>6 DEF Repeat, KillBatch
<1>7. CASE EndSingle
  BY <1>4, <1>7 DEF EndSingle, batch
<1>8. CASE CountFailure
  <2>1. /\ plan' = plan /\ at' = at + 1 /\ batchPhase = "run"
        /\ UNCHANGED <<runs, report, vouched>>
    BY <1>8 DEF CountFailure, Advance
  <2>2. at'..Len(plan) \subseteq at..Len(plan)
    BY <1>2, <2>1
  <2> QED BY <1>4, <2>1, <2>2
<1>9. CASE Assess
  <2>1. /\ plan' = plan /\ at' = at + 1 /\ batchPhase = "run" /\ place["batch"] = "bound"
        /\ UNCHANGED <<runs, report>> /\ vouched' \subseteq vouched \cup {cur["batch"]}
    BY <1>9 DEF Assess, Advance
  <2>2. at'..Len(plan) \subseteq at..Len(plan) /\ at \notin at'..Len(plan)
        /\ at'..Len(plan) \subseteq DOMAIN plan
    BY <1>2, <2>1
  <2>3. /\ State("batch").known /\ State("batch").status = "completed"
        /\ State("batch").targets = Expected /\ State("batch").company = plan[at]
    BY <2>1 DEF RunsOwned, AtRow, StatesRead, StateRead, Procs
  <2>4. at \in DOMAIN plan
    BY <1>2, <2>1 DEF RowsInTurn, RowAt
  <2>5. \A j \in at'..Len(plan) : plan[j] # plan[at]
    BY <2>2, <2>4 DEF RowsInTurn, RowsDistinct
  <2>6. \A i \in vouched' :
          runs[i].known /\ runs[i].status = "completed" /\ runs[i].targets = Expected
    BY <2>1, <2>3 DEF VouchedStands, State
  <2>7. ASSUME NEW j \in at'..Len(plan), NEW i \in vouched', runs[i].company = plan[j]
        PROVE  report[plan[j]] = 0 \/ runs[i].bound # report[plan[j]]
    <3>1. i \in vouched /\ j \in at..Len(plan)
      BY <2>1, <2>2, <2>3, <2>5, <2>7 DEF State
    <3> QED BY <2>1, <2>7, <3>1 DEF VouchedStands
  <2> QED BY <1>1, <2>1, <2>6, <2>7 DEF VouchedStands
<1>10. ASSUME UNCHANGED <<report, vouched, batchPhase, plan, at>>,
              \A i \in vouched :
                /\ runs'[i].known = runs[i].known /\ runs'[i].status = runs[i].status
                /\ runs'[i].targets = runs[i].targets /\ runs'[i].bound = runs[i].bound
                /\ runs'[i].company = runs[i].company
       PROVE  VouchedStands'
  BY <1>1, <1>10 DEF VouchedStands
<1>11. ASSUME NEW p \in Procs, NEW c \in Rows, NEW t \in {"agnostic", "azure", "other"},
              Opens(p, c, t)
       PROVE  VouchedStands'
  <2>1. UNCHANGED <<report, vouched, batchPhase, plan, at>>
    BY <1>11 DEF Opens, batch
  <2>2. \A i \in vouched : runs'[i] = runs[i]
    BY <1>1, <1>2, <1>11, Opened
  <2> QED BY <1>10, <2>1, <2>2
<1>12. ASSUME NEW p \in Procs, Publish(p) PROVE VouchedStands'
  <2>1. /\ place[p] = "running" /\ UNCHANGED <<runs, vouched, batchPhase, plan, at>>
        /\ \A x \in Rows : report'[x] = report[x] \/ report'[x] = cur[p]
    BY <1>12, Published DEF batch
  <2>2. \A i \in vouched : runs[i].bound # cur[p]
    BY <1>2, <2>1 DEF ReportsOwned
  <2>3. ASSUME batchPhase = "run", NEW j \in at..Len(plan), NEW i \in vouched,
               runs[i].company = plan[j]
        PROVE  report'[plan[j]] = 0 \/ runs[i].bound # report'[plan[j]]
    BY <1>3, <2>1, <2>2, <2>3 DEF VouchedStands
  <2> QED BY <1>1, <2>1, <2>3 DEF VouchedStands
<1>13. ASSUME NEW p \in Procs, NEW to \in {"settled", "returned", "failed", "bound"},
              Recorded(p, to)
       PROVE  VouchedStands'
  <2>1. /\ UNCHANGED <<report, vouched, batchPhase, plan, at>> /\ place[p] # "idle"
        /\ \A i \in DOMAIN runs : i # cur[p] => runs'[i] = runs[i]
    BY <1>13 DEF Recorded, Writes, batch
  <2>2. cur[p] \notin vouched
    BY <2>1 DEF RunsOwned, RunsApart
  <2>3. \A i \in vouched : runs'[i] = runs[i]
    BY <1>2, <2>1, <2>2
  <2> QED BY <1>10, <2>1, <2>3
<1>14. ASSUME NEW p \in Procs, RefusedWrite(p) PROVE VouchedStands'
  BY <1>4, <1>14 DEF RefusedWrite, batch
<1>15. ASSUME NEW p \in Procs, ResearchStep(p) PROVE VouchedStands'
  BY <1>12, <1>13, <1>14, <1>15, Recording DEF ResearchStep
<1> QED BY <1>5, <1>6, <1>7, <1>8, <1>9, <1>11, <1>15, Opening DEF BatchNext

-----------------------------------------------------------------------------
(* The invariant holds.                                                      *)

LEMMA BatchInvInit == ASSUME BatchInit PROVE BatchInv
<1>1. Commanded
  BY DEF BatchInit, Commanded
<1>2. /\ runs = <<>> /\ report = [c \in Rows |-> 0] /\ vouched = {} /\ unwritten = {}
      /\ place = [p \in Procs |-> "idle"] /\ cur = [p \in Procs |-> 0]
      /\ batchPhase = "idle" /\ plan = <<>> /\ at = 1 /\ failing = 0
      /\ results = [c \in Rows |-> "none"] /\ batchFaults = 0 /\ batchCrashes = 0
  BY DEF BatchInit
<1>3. Len(runs) = 0 /\ Len(plan) = 0 /\ DOMAIN runs = {} /\ DOMAIN plan = {}
  BY <1>2
<1>4. {command.faults, command.crashes} \subseteq Nat /\ MaxFailures \in Nat \ {0}
  BY <1>1, BatchAssumption DEF Commanded
<1>5. BatchTypeOK
  <2>1. 1 \in 1..Len(plan) + 1 /\ 0 \in 0..MaxFailures /\ 0 \in 0..Len(runs)
        /\ 0 \in 0..command.faults /\ 0 \in 0..command.crashes
    BY <1>3, <1>4
  <2>2. runs \in Seq(RunStates) /\ plan \in Seq(Rows)
    BY <1>2
  <2> QED BY <1>2, <2>1, <2>2 DEF BatchTypeOK, BatchPlaces
<1>6. \A p \in Procs : place[p] = "idle"
  BY <1>2
<1>7. RunsOwned
  BY <1>2, <1>6 DEF RunsOwned, RunsApart, AtRow, StatesRead, Procs
<1>8. ReportsOwned /\ ReportHeld /\ BoundToOwn
  BY <1>2, <1>3, <1>6 DEF ReportsOwned, ReportHeld, BoundToOwn, Procs
<1>9. VouchedCovered /\ VouchedStands /\ RowsInTurn /\ SummaryComplete
  BY <1>2, <1>3, <1>6 DEF VouchedCovered, VouchedStands, RowsInTurn, RowsDistinct, RowsIdle, RowAt,
     RowsAttempted, RowsLeft, RowsFailed, SummaryComplete, Procs
<1> QED BY <1>1, <1>5, <1>7, <1>8, <1>9 DEF BatchInv

LEMMA BatchInvStep == ASSUME BatchInv, [BatchNext]_batchVars PROVE BatchInv'
<1>1. /\ Commanded /\ BatchTypeOK /\ RunsOwned /\ ReportsOwned /\ ReportHeld /\ BoundToOwn
      /\ VouchedCovered /\ VouchedStands /\ RowsInTurn
  BY DEF BatchInv
<1>2. RowsSummed /\ VouchedFull
  BY DEF BatchInv, SummaryComplete, RowsSummed, RowsResolved, RowsSkipped, AfterFailures,
     VouchedFull
<1>3. RowsInTurn' /\ RowsSummed'
  BY <1>1, <1>2, RowsKept
<1>4. CASE BatchNext
  <2>1. Commanded' /\ BatchTypeOK'
    BY <1>1, <1>4, BatchTypesKept
  <2>2. RunsApart' /\ AtRow' /\ StatesRead'
    BY <1>1, <1>4, RunsApartKept, AtRowKept, StatesReadKept
  <2>3. ReportsOwned' /\ ReportHeld' /\ BoundToOwn'
    BY <1>1, <1>4, ReportsKept, ReportHeldKept, BoundToOwnKept
  <2>4. VouchedCovered' /\ VouchedFull' /\ VouchedStands'
    BY <1>1, <1>2, <1>4, VouchedCoveredKept, VouchedFullKept, VouchedStandsKept
  <2>5. SummaryComplete'
    BY <1>3, <2>4 DEF SummaryComplete, RowsSummed, RowsResolved, RowsSkipped, AfterFailures,
     VouchedFull
  <2> QED BY <1>3, <2>1, <2>2, <2>3, <2>4, <2>5 DEF BatchInv, RunsOwned
<1>5. CASE UNCHANGED batchVars
  <2>1. UNCHANGED <<command, runs, report, place, cur, batchPhase, plan, at, results, failing,
                    vouched, unwritten, batchFaults, batchCrashes>>
    BY <1>5 DEF batchVars, batch
  <2>2. Commanded' /\ BatchTypeOK' /\ VouchedFull'
    BY <1>1, <1>2, <2>1 DEF Commanded, BatchTypeOK, RunStates, Rows, VouchedFull
  <2>3. /\ RunsOwned' /\ ReportsOwned' /\ ReportHeld' /\ BoundToOwn' /\ VouchedCovered'
        /\ VouchedStands'
    BY <1>1, <2>1 DEF RunsOwned, RunsApart, AtRow, StatesRead, StateRead, State, ReportsOwned,
       ReportHeld, BoundToOwn, VouchedCovered, VouchedStands, Covers, Rows
  <2>4. SummaryComplete'
    BY <1>3, <2>2 DEF SummaryComplete, RowsSummed, RowsResolved, RowsSkipped, AfterFailures,
     VouchedFull
  <2> QED BY <1>3, <2>2, <2>3, <2>4 DEF BatchInv
<1> QED BY <1>4, <1>5

(* A report that is left alone was written by the run that covers it, if     *)
(* that run could write its own.                                             *)
LEMMA LeftAlone == ASSUME BatchInv PROVE ExistingTruthful
<1>. SUFFICES ASSUME ~command.overlap, NEW c \in Rows, NEW i \in DOMAIN runs,
                     Covers(runs[i], c), i \notin unwritten
              PROVE  LET r == runs[report[c]]
                     IN r.company = c /\ r.status = "completed" /\ r.targets = Expected
                        /\ r.fulfilled = "full"
  BY DEF ExistingTruthful, Existing
<1>1. report[c] = i
  BY DEF Covers, BatchInv, BoundToOwn
<1> QED BY <1>1 DEF Covers

-----------------------------------------------------------------------------
(* What a step may do.                                                       *)

LEMMA NotPaidTwice == ASSUME BatchInv PROVE PaysOnce
<1>. SUFFICES ASSUME command.explicit, "read" \notin command.faulty, StartRow,
                     NEW i \in vouched, runs[i].company = plan[at], report[plan[at]] # 0,
                     report[plan[at]] = i \/ report[plan[at]] = runs[i].bound
              PROVE  FALSE
  BY DEF PaysOnce
<1>1. batchPhase = "run" /\ at <= Len(plan)
  BY DEF StartRow
<1>2. at \in at..Len(plan)
  BY <1>1, BatchShape, BatchNumbers DEF BatchInv
<1>3. report[plan[at]] \notin vouched
  BY <1>1, <1>2 DEF BatchInv, VouchedCovered
<1>4. report[plan[at]] # runs[i].bound
  BY <1>1, <1>2 DEF BatchInv, VouchedStands
<1> QED BY <1>3, <1>4

LEMMA NotForgotten == ASSUME BatchInv, [BatchNext]_batchVars PROVE KeepsRecord
<1>0. Commanded /\ BatchTypeOK /\ RunsOwned
  BY DEF BatchInv
<1>1. command' = command
  BY SameCommand
<1>. SUFFICES ASSUME "read" \notin command.faulty, NEW i \in DOMAIN runs,
                     runs[i].status = "completed" \/ runs[i].fulfilled # "none",
                     runs'[i] # runs[i]
              PROVE  /\ runs'[i].known = runs[i].known
                     /\ runs[i].fulfilled # "none" => runs'[i].fulfilled = runs[i].fulfilled
                     /\ runs[i].status = "completed" => runs'[i].status = "completed"
  BY DEF KeepsRecord
<1>2. ASSUME runs' = runs PROVE FALSE
  BY <1>2
<1>3. ~(StartRow \/ StartSingle)
  <2>1. ASSUME StartRow \/ StartSingle PROVE FALSE
    <3>1. PICK p \in Procs, c \in Rows, t \in {"agnostic", "azure", "other"} : Opens(p, c, t)
      BY <1>0, <2>1, Opening
    <3>2. runs'[i] = runs[i]
      BY <1>0, <1>1, <3>1, Opened
    <3> QED BY <3>2
  <2> QED BY <2>1
<1>4. \E p \in Procs : RecordOutcome(p) \/ RecordCompletion(p) \/ RecordFailure(p) \/ Bind(p)
  BY <1>2, <1>3 DEF BatchNext, batchVars, PlanBatch, Repeat, EndSingle, Assess, CountFailure,
     KillBatch, ResearchStep, Publish, RefusedWrite
<1>5. PICK p \in Procs : RecordOutcome(p) \/ RecordCompletion(p) \/ RecordFailure(p) \/ Bind(p)
  BY <1>4
<1>6. PICK to \in {"settled", "returned", "failed", "bound"} : Recorded(p, to)
  BY <1>0, <1>5, Recording
<1>7. i = cur[p] /\ runs'[i].known = runs[i].known /\ place[p] # "idle"
  BY <1>6 DEF Recorded, Writes, State
<1>8. StateRead(p)
  BY <1>0, <1>7 DEF RunsOwned, StatesRead
<1>9. CASE RecordOutcome(p)
  BY <1>7, <1>8, <1>9 DEF RecordOutcome, StateRead, State
<1>10. CASE RecordCompletion(p)
  <2>1. runs'[i].fulfilled = runs[i].fulfilled /\ runs'[i].status = "completed"
    BY <1>0, <1>7, <1>10, CompletionRecorded DEF State
  <2> QED BY <1>7, <2>1
<1>11. CASE RecordFailure(p)
  <2>1. runs'[i].fulfilled = runs[i].fulfilled /\ place[p] \in {"running", "published", "settled"}
    BY <1>0, <1>7, <1>11, FailureRecorded DEF State
  <2>2. runs[i].status = "running"
    BY <1>7, <1>8, <2>1 DEF StateRead, State
  <2> QED BY <1>7, <2>1, <2>2
<1>12. CASE Bind(p)
  <2>1. runs'[i].fulfilled = runs[i].fulfilled /\ runs'[i].status = runs[i].status
    BY <1>0, <1>7, <1>12, ReportBound DEF State
  <2> QED BY <1>7, <2>1
<1> QED BY <1>5, <1>9, <1>10, <1>11, <1>12

(* What a batch leaves out and what it sums up is so, whatever single runs,  *)
(* failures, faults of the run state and deaths of the batch come between,   *)
(* and a batch that is given again repeats and forgets nothing.              *)
THEOREM BatchIsSound == BatchSpec => BatchSound
<1>1. BatchInit => BatchInv
  BY BatchInvInit
<1>2. BatchInv /\ [BatchNext]_batchVars => BatchInv'
  BY BatchInvStep
<1>3. BatchInv => BatchTypeOK /\ ExistingTruthful /\ SummaryComplete
  BY LeftAlone DEF BatchInv
<1>4. BatchInv /\ [BatchNext]_batchVars => [PaysOnce /\ KeepsRecord]_batchVars
  BY NotPaidTwice, NotForgotten
<1> QED BY <1>1, <1>2, <1>3, <1>4, PTL DEF BatchSpec, BatchSound
=============================================================================
