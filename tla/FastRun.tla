------------------------------ MODULE FastRun ------------------------------
(***************************************************************************)
(* The default research run (core/research_agent.py, perform_fast_research *)
(* and the stages fast_run_*.py): external sources are validated by a pool *)
(* of threads under a deadline and a quota, a second pool fills the gaps,  *)
(* the sections of each part of the plan are written in parallel, the      *)
(* executive summary after them, weak sections are enriched with further   *)
(* sources, and the report is saved, as a Word document only if complete.  *)
(*                                                                         *)
(* A section cites a source by its number in the list of sources it was    *)
(* given; the list grows while the report is written, and the numbers are  *)
(* resolved against the last one. A run that is stopped may be resumed in  *)
(* its folder, where the collection it paid for is cached.                 *)
(*                                                                         *)
(* Not modelled: the passes that rewrite the text under a check that its   *)
(* structure is kept, the workbook, and the strategies (StrategyPhase).    *)
(***************************************************************************)
EXTENDS Selections, FiniteSets

CONSTANTS
  Scopes,      \* what a run may have before it: records of
               \*   urls: what searches may find outside the company's site
               \*   parts: the plan, the sections of each part without the summary
               \*   quota, gaps: how many sources the pool of each stage accepts
               \*   weak: sections a review may flag (three in the code)
               \*   runs: bound on how often the run is started or resumed
  MinKept,     \* fewest sources the relevance filter may leave (three in the code)
  Threads      \* threads of a pool (four in the code)

Pools == {"collect", "gaps"}
Summary == "executive_summary"
AllOf(parts) == UNION {Listed(parts[i]) : i \in DOMAIN parts}

(* No section is planned twice: the code drops a second one of a title.    *)
ASSUME FastRunAssumption ==
  /\ {MinKept, Threads} \subseteq Nat \ {0}
  /\ \A x \in Scopes :
       /\ x.parts \in Seq(Seq(AllOf(x.parts))) /\ Summary \notin AllOf(x.parts)
       /\ \A i, k \in DOMAIN x.parts : \A j \in DOMAIN x.parts[i], l \in DOMAIN x.parts[k] :
            x.parts[i][j] = x.parts[k][l] => i = k /\ j = l
       /\ {x.quota, x.gaps, x.runs} \subseteq Nat \ {0} /\ x.weak \in Nat

VARIABLES
  scope,       \* what this run has before it
  run,         \* how many times the run was started or resumed
  stage,       \* where it is, "stopped" after a failure or a death, or "done"
  validation,  \* the validation of each URL by the pool of each stage
  taken,       \* the URLs whose result the stage's loop has looked at
  gained,      \* the sources it has accepted
  sources,     \* source_urls, the list citations are numbered by
  cached,      \* the collection on disk: <<>>, or its sources in a 1-tuple
  validated,   \* the list the strategies get
  part,        \* the part being written
  writer,      \* the writing of each section
  ended,       \* the part's sections in the order their writers ended
  material,    \* what each piece's text was written from
  written,     \* written_sections
  looked,      \* weak sections the enrichment has dealt with
  markdown, document,  \* the run whose report each file holds, or 0
  shipped,     \* this run wrote a Word document
  passed       \* the artifact gate on record, by the last run that reached it

pools == <<validation, taken, gained>>
writing == <<part, writer, ended, material, written>>
files == <<markdown, document, shipped, passed>>
runVars == <<scope, run, stage, pools, sources, cached, validated, writing, looked, files>>

Urls == scope.urls
Parts == scope.parts
Sections == AllOf(Parts)
Pieces == Sections \cup {Summary}
IsPrefixOf(s, t) == \A i \in DOMAIN s : i \in DOMAIN t /\ t[i] = s[i]
Judgements == {"good", "bad"}
Idle == [pool \in Pools |-> [u \in Urls |-> "none"]]
Blank == [context |-> <<>>, given |-> <<>>]

Fresh(first) ==
  /\ stage' = first
  /\ validation' = Idle /\ taken' = {} /\ gained' = 0
  /\ validated' = <<>>
  /\ part' = 1 /\ ended' = <<>> /\ written' = <<>> /\ looked' = 0
  /\ writer' = [s \in Sections |-> "none"]
  /\ material' = [s \in Pieces |-> Blank]
  /\ shipped' = FALSE

RunInit ==
  /\ scope \in Scopes
  /\ run = 1 /\ stage = "search"
  /\ validation = Idle /\ taken = {} /\ gained = 0
  /\ sources = <<>> /\ cached = <<>> /\ validated = <<>>
  /\ part = 1 /\ ended = <<>> /\ written = <<>> /\ looked = 0
  /\ writer = [s \in Sections |-> "none"]
  /\ material = [s \in Pieces |-> Blank]
  /\ markdown = 0 /\ document = 0 /\ shipped = FALSE /\ passed = FALSE

-----------------------------------------------------------------------------
(* A pool that validates candidates: its threads and the loop that takes   *)
(* their results, under a quota and a deadline.                            *)

Submit(pool, candidates) ==
  /\ validation' = [validation EXCEPT ![pool] =
       [u \in Urls |-> IF u \in candidates THEN "queued" ELSE "none"]]
  /\ taken' = {} /\ gained' = 0

Finished(pool) == {u \in Urls : validation[pool][u] \in Judgements} \ taken
Validating(pool) == {u \in Urls : validation[pool][u] = "running"}
Unfinished(pool) == {u \in Urls : validation[pool][u] \in {"queued", "running"}}

InUse(pool) == stage = pool

(* A thread takes a candidate, or ends it. An abandoned one ends too, but  *)
(* its result went with the future nobody holds any more.                  *)
Validate(pool, u) ==
  /\ \/ /\ validation[pool][u] = "queued" /\ Cardinality(Validating(pool)) < Threads
        /\ validation' = [validation EXCEPT ![pool][u] = "running"]
     \/ /\ validation[pool][u] = "running"
        /\ \E answer \in IF InUse(pool) THEN Judgements ELSE {"none"} :
             validation' = [validation EXCEPT ![pool][u] = answer]
  /\ UNCHANGED <<scope, run, stage, taken, gained, sources, cached, validated, writing,
                 looked, files>>

(* shutdown(wait=False, cancel_futures=True): what runs goes on, detached. *)
Abandon(pool) ==
  /\ validation' = [validation EXCEPT ![pool] =
    [u \in Urls |-> IF @[u] = "running" THEN "running" ELSE "none"]]
  /\ taken' = {} /\ gained' = 0

Accept(pool, quota) ==
  \E u \in Finished(pool) :
    /\ gained < quota
    /\ taken' = taken \cup {u}
    /\ IF validation[pool][u] = "good" /\ u \notin Listed(sources)
       THEN sources' = Append(sources, u) /\ gained' = gained + 1
       ELSE UNCHANGED <<sources, gained>>
    /\ UNCHANGED validation

LoopEnds(pool, quota) ==
  /\ \/ Finished(pool) # {} /\ gained >= quota
     \/ Unfinished(pool) # {}                                 \* the deadline
     \/ Finished(pool) = {} /\ Unfinished(pool) = {}
  /\ Abandon(pool)

-----------------------------------------------------------------------------
(* Collection: a resumed run takes the cached one. The relevance filter    *)
(* may drop sources before the list is made; the cache may not be written. *)

Search ==
  /\ stage = "search"
  /\ \E found \in SUBSET Urls : Submit("collect", found)
  /\ stage' = "collect"
  /\ UNCHANGED <<scope, run, sources, cached, validated, writing, looked, files>>

TakeCollected ==
  /\ stage = "collect" /\ Accept("collect", scope.quota)
  /\ UNCHANGED <<scope, run, stage, cached, validated, writing, looked, files>>

Collected ==
  /\ stage = "collect" /\ LoopEnds("collect", scope.quota)
  /\ \E kept \in Choices(sources) :
       /\ Len(kept) = Len(sources) \/ Len(kept) >= MinKept
       /\ sources' = Picked(sources, kept)
  /\ cached' \in {cached, <<sources'>>}
  /\ stage' = "deepen"
  /\ UNCHANGED <<scope, run, validated, writing, looked, files>>

(* Research deepening looks for sources not in the list; a run over its    *)
(* budget, or without gaps, skips it.                                      *)
Deepen ==
  /\ stage = "deepen"
  /\ \E found \in SUBSET (Urls \ Listed(sources)) : Submit("gaps", found)
  /\ stage' = "gaps"
  /\ UNCHANGED <<scope, run, sources, cached, validated, writing, looked, files>>

TakeGap ==
  /\ stage = "gaps" /\ Accept("gaps", scope.gaps)
  /\ UNCHANGED <<scope, run, stage, cached, validated, writing, looked, files>>

Deepened ==
  /\ stage = "gaps" /\ LoopEnds("gaps", scope.gaps)
  /\ validated' = sources
  /\ stage' = "write"
  /\ UNCHANGED <<scope, run, sources, cached, writing, looked, files>>

-----------------------------------------------------------------------------
(* The writers of one part share the sections of the parts before it.      *)

Current == Listed(Parts[part])
Writing == {s \in Sections : writer[s] \in {"first", "second"}}

StartSection(s) ==
  /\ stage = "write" /\ part <= Len(Parts) /\ s \in Current
  /\ writer[s] = "none" /\ Cardinality(Writing) < Threads
  /\ writer' = [writer EXCEPT ![s] = "first"]
  /\ material' = [material EXCEPT ![s] = [context |-> written, given |-> sources]]
  /\ UNCHANGED <<scope, run, stage, pools, sources, cached, validated, part, ended, written,
                 looked, files>>

(* An empty or failed section is written once more, then skipped.          *)
EndSection(s) ==
  /\ s \in Writing
  /\ \/ /\ writer' = [writer EXCEPT ![s] = "ok"]
        /\ ended' = Append(ended, s)
     \/ /\ writer[s] = "first"
        /\ writer' = [writer EXCEPT ![s] = "second"]
        /\ UNCHANGED ended
     \/ /\ writer[s] = "second"
        /\ writer' = [writer EXCEPT ![s] = "empty"]
        /\ ended' = Append(ended, s)
  /\ UNCHANGED <<scope, run, stage, pools, sources, cached, validated, part, material, written,
                 looked, files>>

(* The sections of the part that were written, in the order of the plan.   *)
(* Mutant: in the order in which their writers ended.                      *)
WrittenOf(list) == PickedAt(list, {i \in DOMAIN list : writer[list[i]] = "ok"})
InOrderOfCompletion(sections) == WrittenOf(ended)
InCanonicalOrder(sections) == WrittenOf(sections)

EndPart ==
  /\ stage = "write" /\ part <= Len(Parts)
  /\ Len(ended) = Len(Parts[part])
  /\ \E list \in InCanonicalOrder(Parts[part]) : written' = written \o list
  /\ ended' = <<>> /\ part' = part + 1
  /\ UNCHANGED <<scope, run, stage, pools, sources, cached, validated, writer, material,
                 looked, files>>

(* The summary is written from all sections and put before them. A report  *)
(* without a section fails the run.                                        *)
WriteSummary ==
  /\ stage = "write" /\ part > Len(Parts)
  /\ \/ /\ material' = [material EXCEPT ![Summary] =
                          [context |-> written, given |-> sources]]
        /\ written' = <<Summary>> \o written
        /\ stage' = "enrich"
     \/ /\ stage' = IF written = <<>> THEN "stopped" ELSE "enrich"
        /\ UNCHANGED <<material, written>>
  /\ UNCHANGED <<scope, run, pools, sources, cached, validated, part, writer, ended,
                 looked, files>>

Complete ==
  /\ Summary \in Listed(written)
  /\ Len(written) >= (Cardinality(Pieces) + 1) \div 2

-----------------------------------------------------------------------------
(* Cross-validation: for each weak section a thread looks for sources and  *)
(* keeps them in lists of its own; only if it ends in time are they added, *)
(* and the section, if the report still has it, rewritten with them.       *)

NewSources == {<<u>> : u \in Urls} \cup {pair \in Urls \X Urls : pair[1] # pair[2]}

EnrichReport ==
  /\ stage = "enrich" /\ looked < scope.weak
  /\ looked' = looked + 1
  /\ \/ UNCHANGED <<sources, material>>     \* nothing found, or not in time
     \/ \E found \in NewSources :
          /\ Listed(found) \cap Listed(sources) = {}
          /\ sources' = sources \o found
          /\ \/ UNCHANGED material
             \/ \E s \in Listed(written) :
                  material' = [material EXCEPT ![s].given = sources']
  /\ UNCHANGED <<scope, run, stage, pools, cached, validated, part, writer, ended, written, files>>

EndReview ==
  /\ stage = "enrich"
  /\ stage' = "ship"
  /\ UNCHANGED <<scope, run, pools, sources, cached, validated, writing, looked, files>>

-----------------------------------------------------------------------------
(* Saving, and the outcome. Markdown comes first; a Word document is made  *)
(* of a complete report that passes the other checks, and removed again if *)
(* it does not validate.                                                   *)

Convert ==
  /\ stage = "ship" /\ stage' = "finalize"
  /\ \/ markdown' \in {markdown, run} /\ UNCHANGED <<document, shipped>>
     \/ /\ Complete /\ markdown' = run
        /\ \/ document' = run /\ shipped' = TRUE
           \/ document' \in {0, run} /\ UNCHANGED shipped
  /\ UNCHANGED <<scope, run, pools, sources, cached, validated, writing, looked, passed>>

(* The artifact gate also needs the strategies. *)
Finalize ==
  /\ stage = "finalize" /\ stage' = "recorded"
  /\ passed' \in {FALSE, shipped /\ Complete}
  /\ UNCHANGED <<scope, run, pools, sources, cached, validated, writing, looked,
                 markdown, document, shipped>>

(* The status is saved after the gate. A run without Markdown returns no    *)
(* path and is failed, hence may be resumed.                                *)
EndRun ==
  /\ stage = "recorded"
  /\ stage' = IF markdown = 0 /\ ~shipped THEN "stopped" ELSE "done"
  /\ UNCHANGED <<scope, run, pools, sources, cached, validated, writing, looked, files>>

(* A stage raises, or the process dies.                                    *)
Stop ==
  /\ stage \notin {"stopped", "done"}
  /\ stage' = "stopped"
  /\ UNCHANGED <<scope, run, pools, sources, cached, validated, writing, looked, files>>

(* --resume-local in the same folder, whose record of the gate is kept. *)
Resume ==
  /\ stage = "stopped" /\ run < scope.runs
  /\ run' = run + 1
  /\ IF cached = <<>> THEN Fresh("search") /\ sources' = <<>>
     ELSE Fresh("deepen") /\ sources' = cached[1]
  /\ UNCHANGED <<scope, cached, markdown, document, passed>>

RunNext ==
  \/ \E pool \in Pools, u \in Urls : Validate(pool, u)
  \/ Search \/ TakeCollected \/ Collected \/ Deepen \/ TakeGap \/ Deepened
  \/ \E s \in Sections : StartSection(s) \/ EndSection(s)
  \/ EndPart \/ WriteSummary \/ EnrichReport \/ EndReview \/ Convert \/ Finalize \/ EndRun
  \/ Stop \/ Resume

RunSpec == RunInit /\ [][RunNext]_runVars

-----------------------------------------------------------------------------
RunTypeOK ==
  /\ stage \in {"search", "collect", "deepen", "gaps", "write", "enrich", "ship",
               "finalize", "recorded", "stopped", "done"}
  /\ validation \in [Pools -> [Urls -> {"none", "queued", "running"} \cup Judgements]]
  /\ taken \subseteq Urls /\ gained \in Nat
  /\ sources \in Seq(Urls) /\ validated \in Seq(Urls)
  /\ part \in 1..Len(Parts) + 1 /\ looked \in 0..scope.weak
  /\ writer \in [Sections -> {"none", "first", "second", "ok", "empty"}]
  /\ ended \in Seq(Sections) /\ written \in Seq(Pieces)
  /\ material \in [Pieces -> [context: Seq(Sections), given: Seq(Urls)]]
  /\ run \in 1..scope.runs /\ {markdown, document} \subseteq 0..run
  /\ shipped \in BOOLEAN /\ passed \in BOOLEAN

(* A citation number means the same source wherever it was given out: what *)
(* the cache, the strategies and each written section were given is how    *)
(* the list still begins, no source is in it twice, the pools kept their   *)
(* quotas, and no section of the first writing saw another list than the   *)
(* rest, whatever threads ended late or were abandoned.                    *)
CitationsStable ==
  /\ \A i, j \in DOMAIN sources : sources[i] = sources[j] => i = j
  /\ cached # <<>> => IsPrefixOf(cached[1], sources)
  /\ IsPrefixOf(validated, sources) /\ Len(validated) <= scope.quota + scope.gaps
  /\ \A s \in Pieces : IsPrefixOf(material[s].given, sources)
  /\ stage = "write" =>
       \A s \in Sections : writer[s] # "none" => material[s].given = sources

(* The report has every section of the parts that are done whose writing   *)
(* succeeded, and no other, in the order of the plan, with the summary     *)
(* first. Each was written from all the sections of earlier parts that the *)
(* report has, and the summary from all its sections, whichever writer was *)
(* faster.                                                                 *)
Body == IF Summary \in Listed(written) THEN Tail(written) ELSE written
InEarlierPart(parts, s, t) ==
  \E i, k \in DOMAIN parts : s \in Listed(parts[i]) /\ t \in Listed(parts[k]) /\ i < k
Precedes(parts, s, t) ==
  \/ InEarlierPart(parts, s, t)
  \/ \E i \in DOMAIN parts : \E j, l \in DOMAIN parts[i] :
       j < l /\ s = parts[i][j] /\ t = parts[i][l]
ReportInOrder ==
  /\ written \in {Body, <<Summary>> \o Body}
  /\ \A i \in DOMAIN Parts : \A s \in Listed(Parts[i]) :
       s \in Listed(Body) <=> i < part /\ writer[s] = "ok"
  /\ \A i, j \in DOMAIN Body : i < j => Precedes(Parts, Body[i], Body[j])
  /\ \A s \in Listed(written) :
       /\ IsPrefixOf(material[s].context, Body)
       /\ \A i \in DOMAIN Body : i \in DOMAIN material[s].context
            <=> s = Summary \/ InEarlierPart(Parts, Body[i], s)

(* A run that records a passed gate has its own complete report on disk in *)
(* both formats: not the files an earlier run of the folder left. (Until a *)
(* resumed run records its gate, that of a run which died after recording  *)
(* one is still there; nothing reads it before the run is done.)           *)
GateHonest ==
  /\ shipped => document = run /\ markdown = run /\ Complete
  /\ stage \in {"recorded", "done"} /\ passed => shipped

(* A research run keeps its types; citation numbers mean what they meant   *)
(* when they were given out, the report is in the order of its plan,       *)
(* complete and written from what it says, and the gate passes only what   *)
(* this run made, with threads that are abandoned, sections that end in    *)
(* any order, and a run that is resumed.                                   *)
ReportSound == RunTypeOK /\ CitationsStable /\ ReportInOrder /\ GateHonest
=============================================================================
