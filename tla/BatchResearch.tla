--------------------------- MODULE BatchResearch ---------------------------
(***************************************************************************)
(* A batch of companies (core/cli_batch_runtime.py) that is run, stopped   *)
(* and run again, beside single runs of the same companies                 *)
(* (core/research_agent.py): each run has a folder with a state file       *)
(* (core/run_state_io.py), publishes a report under the company's name of  *)
(* the day, records what it fulfilled, is marked completed, and is bound   *)
(* to the report's hash (core/research_artifact_binding.py). A later batch *)
(* leaves a company out when some completed run of the same request is     *)
(* bound to the report on disk.                                            *)
(*                                                                         *)
(* A report is known by the run that wrote it, which stands for its hash.  *)
(* A run that cannot write its report goes on all the same: it completes   *)
(* with the one of an earlier run of the day, if there is one.             *)
(***************************************************************************)
EXTENDS Selections, FiniteSets

CONSTANTS
  Commands,    \* what a batch may be given: records of
               \*   companies: the rows of the batch file, in order, no two alike
               \*   explicit: the platforms are given on the command line
               \*   detected: platforms recon may choose for a company otherwise
               \*   overlap: a single run may start while another is not yet bound
               \*   runs, crashes, faults: bounds on each of them
               \*   faulty: accesses that may go wrong: reading the run state ("read"),
               \*     saving it ("refuse"), writing the report ("write")
  MaxFailures  \* failures in a row that stop a batch (three in the code)

Expected == "agnostic"
Procs == {"batch", "single"}

ASSUME BatchAssumption ==
  /\ MaxFailures \in Nat \ {0}
  /\ \A x \in Commands :
       /\ x.companies \in Seq(Listed(x.companies))
       /\ \A i, j \in DOMAIN x.companies : x.companies[i] = x.companies[j] => i = j
       /\ {x.explicit, x.overlap} \subseteq BOOLEAN
       /\ x.detected \subseteq {"agnostic", "azure"} /\ x.detected # {}
       /\ {x.runs, x.crashes, x.faults} \subseteq Nat
       /\ x.faulty \subseteq {"read", "refuse", "write"}

VARIABLES
  command,  \* what the batch is given, again after each end of it
  runs,     \* the run folders, oldest first, and what each state file says
  report,   \* the run whose text is each company's report of the day, or 0
  place,    \* where each process is in its run
  cur,      \* the run each process is at
  batchPhase,  \* "idle", "run" or "done"
  plan,     \* the companies this batch has to research, in order
  at,       \* position in the plan
  results,  \* what the batch says of each company
  failing,  \* failures in a row
  vouched,  \* runs a batch has reported as complete
  unwritten,  \* history: the runs that could not write their report
  batchFaults, batchCrashes

batch == <<batchPhase, plan, at, results, failing>>
batchVars == <<command, runs, report, place, cur, batch, vouched, unwritten,
               batchFaults, batchCrashes>>

Rows == Listed(command.companies)

Unknown(c) == [company |-> c, known |-> FALSE, status |-> "none",
               targets |-> "none", fulfilled |-> "none", bound |-> 0]

(* The company's lease is held while perform_research runs. *)
Leased(c) == \E p \in Procs :
  place[p] \in {"running", "published", "settled"} /\ runs[cur[p]].company = c

BatchInit ==
  /\ command \in Commands
  /\ runs = <<>> /\ report = [c \in Rows |-> 0]
  /\ place = [p \in Procs |-> "idle"] /\ cur = [p \in Procs |-> 0]
  /\ batchPhase = "idle" /\ plan = <<>> /\ at = 1 /\ failing = 0
  /\ results = [c \in Rows |-> "none"]
  /\ vouched = {} /\ unwritten = {} /\ batchFaults = 0 /\ batchCrashes = 0

-----------------------------------------------------------------------------
(* Planning: which companies the batch leaves out.                         *)

(* Mutant: a report counts as soon as its run was bound to some text.      *)
CoversUnhashed(r, c) ==
  /\ r.known /\ r.company = c /\ r.status = "completed"
  /\ r.targets = Expected /\ r.fulfilled = "full"
  /\ report[c] # 0 /\ r.bound # 0

Covers(r, c) ==
  /\ r.known /\ r.company = c /\ r.status = "completed"
  /\ r.targets = Expected /\ r.fulfilled = "full"
  /\ report[c] # 0 /\ r.bound = report[c]

Existing(c) == \E i \in DOMAIN runs : Covers(runs[i], c)

PlanBatch ==
  /\ batchPhase = "idle"
  /\ plan' \in PickedAt(command.companies,
       {i \in DOMAIN command.companies : ~Existing(command.companies[i])})
  /\ Len(runs) + Len(plan') <= command.runs
  /\ at' = 1 /\ failing' = 0
  /\ results' = [c \in Rows |-> IF Existing(c) THEN "ok" ELSE "none"]
  /\ batchPhase' = IF plan' = <<>> THEN "done" ELSE "run"
  /\ UNCHANGED <<command, runs, report, place, cur, vouched, unwritten, batchFaults, batchCrashes>>

Repeat ==
  /\ batchPhase = "done" /\ Len(runs) < command.runs
  /\ batchPhase' = "idle" /\ plan' = <<>> /\ at' = 1 /\ failing' = 0
  /\ results' = [c \in Rows |-> "none"]
  /\ UNCHANGED <<command, runs, report, place, cur, vouched, unwritten, batchFaults, batchCrashes>>

-----------------------------------------------------------------------------
(* One run, by either process. *)

OpenRun(p, c, targets) ==
  /\ ~Leased(c)
  /\ runs' = Append(runs, [Unknown(c) EXCEPT !.known = TRUE, !.status = "running",
                                             !.targets = targets])
  /\ cur' = [cur EXCEPT ![p] = Len(runs) + 1]
  /\ place' = [place EXCEPT ![p] = "running"]

(* Recon settles the platforms of a run that was given none. *)
StartRow ==
  /\ batchPhase = "run" /\ place["batch"] = "idle" /\ at <= Len(plan)
  /\ \E t \in IF command.explicit THEN {Expected} ELSE command.detected :
       OpenRun("batch", plan[at], t)
  /\ UNCHANGED <<command, report, batch, vouched, unwritten, batchFaults, batchCrashes>>

StartSingle ==
  /\ place["single"] = "idle"
  /\ Len(runs) + Len(plan) - at + 1 < command.runs
  /\ \E c \in Rows :
       /\ command.overlap \/ \A p \in Procs :
            place[p] = "returned" => runs[cur[p]].company # c
       /\ OpenRun("single", c, "other")
  /\ UNCHANGED <<command, report, batch, vouched, unwritten, batchFaults, batchCrashes>>

(* A transaction on the run state: it is read, its fields are set, and it   *)
(* is written back. When the read fails the change is made to a recovery    *)
(* marker, which replaces the file.                                         *)
State(p) == runs[cur[p]]
Readable(p) == {State(p), Unknown(State(p).company)}
AccessFails(kind) ==
  /\ kind \in command.faulty /\ batchFaults < command.faults
  /\ batchFaults' = batchFaults + 1

Transaction(p, read, saved) ==
  /\ \/ read = State(p) /\ UNCHANGED batchFaults
     \/ read = Unknown(State(p).company) /\ AccessFails("read")
  /\ runs' = [runs EXCEPT ![cur[p]] = saved]

MoveTo(p, to) == place' = [place EXCEPT ![p] = to]

(* The run writes its report over the one of the day.  A write that fails   *)
(* leaves that one in place, or the beginning of the new one; the writer    *)
(* swallows the error and the run goes on.                                  *)
Publish(p) ==
  /\ place[p] = "running"
  /\ LET own == [report EXCEPT ![State(p).company] = cur[p]]
     IN \/ report' = own /\ UNCHANGED <<unwritten, batchFaults>>
        \/ /\ AccessFails("write")
           /\ report' \in {report, own}
           /\ unwritten' = unwritten \cup {cur[p]}
  /\ MoveTo(p, "published")
  /\ UNCHANGED <<command, runs, cur, batch, vouched, batchCrashes>>

RecordOutcome(p) ==
  /\ place[p] = "published"
  /\ \E read \in Readable(p), how \in {"full", "partial"} :
       Transaction(p, read, [read EXCEPT !.fulfilled = how])
  /\ MoveTo(p, "settled")
  /\ UNCHANGED <<command, report, cur, batch, vouched, unwritten, batchCrashes>>

(* A run is complete if there is a report of the day, be it its own or an   *)
(* earlier one.                                                             *)
RecordCompletion(p) ==
  /\ place[p] = "settled" /\ report[State(p).company] # 0
  /\ \E read \in Readable(p) : Transaction(p, read, [read EXCEPT !.status = "completed"])
  /\ MoveTo(p, "returned")
  /\ UNCHANGED <<command, report, cur, batch, vouched, unwritten, batchCrashes>>

(* The run fails before it is done, or ends without a report, and says so   *)
(* in its state.                                                            *)
RecordFailure(p) ==
  /\ \/ place[p] \in {"running", "published"}
     \/ place[p] = "settled" /\ report[State(p).company] = 0
  /\ \E read \in Readable(p) : Transaction(p, read, [read EXCEPT !.status = "failed"])
  /\ MoveTo(p, "failed")
  /\ UNCHANGED <<command, report, cur, batch, vouched, unwritten, batchCrashes>>

(* A write of the run state is refused and the error ends the run. *)
RefusedWrite(p) ==
  /\ place[p] \in {"settled", "returned"}
  /\ AccessFails("refuse")
  /\ MoveTo(p, "failed")
  /\ UNCHANGED <<command, runs, report, cur, batch, vouched, unwritten, batchCrashes>>

Bind(p) ==
  /\ place[p] = "returned"
  /\ \E read \in Readable(p) :
       Transaction(p, read, [read EXCEPT !.bound = report[State(p).company]])
  /\ MoveTo(p, "bound")
  /\ UNCHANGED <<command, report, cur, batch, vouched, unwritten, batchCrashes>>

EndSingle ==
  /\ place["single"] \in {"bound", "failed"}
  /\ MoveTo("single", "idle")
  /\ UNCHANGED <<command, runs, report, cur, batch, vouched, unwritten, batchFaults, batchCrashes>>

ResearchStep(p) ==
  \/ Publish(p) \/ RecordOutcome(p) \/ RecordCompletion(p) \/ RecordFailure(p)
  \/ RefusedWrite(p) \/ Bind(p)

-----------------------------------------------------------------------------
(* What the batch makes of a run, and when it stops. *)

Advance(result, count) ==
  /\ failing' = count /\ at' = at + 1
  /\ results' = [c \in Rows |->
       IF c = plan[at] THEN result
       ELSE IF results[c] = "none" /\ count >= MaxFailures THEN "not attempted"
       ELSE results[c]]
  /\ batchPhase' = IF count >= MaxFailures \/ at = Len(plan) THEN "done" ELSE "run"
  /\ UNCHANGED plan

Assess ==
  /\ batchPhase = "run" /\ place["batch"] = "bound"
  /\ LET full == runs[cur["batch"]].fulfilled = "full"
     IN /\ Advance(IF full THEN "ok" ELSE "partial", 0)
        /\ vouched' = IF full THEN vouched \cup {cur["batch"]} ELSE vouched
  /\ MoveTo("batch", "idle")
  /\ UNCHANGED <<command, runs, report, cur, unwritten, batchFaults, batchCrashes>>

CountFailure ==
  /\ batchPhase = "run"
  /\ \/ place["batch"] = "failed"
     \/ place["batch"] = "idle" /\ Leased(plan[at])
  /\ Advance("failed", failing + 1)
  /\ MoveTo("batch", "idle")
  /\ UNCHANGED <<command, runs, report, cur, vouched, unwritten, batchFaults, batchCrashes>>

(* The batch dies; the operator can only give the command again. *)
KillBatch ==
  /\ batchPhase = "run" /\ batchCrashes < command.crashes
  /\ batchCrashes' = batchCrashes + 1
  /\ MoveTo("batch", "idle")
  /\ batchPhase' = "idle" /\ plan' = <<>> /\ at' = 1 /\ failing' = 0
  /\ results' = [c \in Rows |-> "none"]
  /\ UNCHANGED <<command, runs, report, cur, vouched, unwritten, batchFaults>>

BatchNext ==
  \/ PlanBatch \/ Repeat \/ StartRow \/ StartSingle \/ EndSingle
  \/ Assess \/ CountFailure \/ KillBatch
  \/ \E p \in Procs : ResearchStep(p)

BatchSpec == BatchInit /\ [][BatchNext]_batchVars

-----------------------------------------------------------------------------
BatchPlaces == {"idle", "running", "published", "settled", "returned", "bound", "failed"}

RunStates == [company: Rows, known: BOOLEAN,
              status: {"none", "running", "completed", "failed"},
              targets: {"none", "agnostic", "azure", "other"},
              fulfilled: {"none", "full", "partial"}, bound: 0..Len(runs)]

BatchTypeOK ==
  /\ runs \in Seq(RunStates)
  /\ report \in [Rows -> 0..Len(runs)]
  /\ place \in [Procs -> BatchPlaces] /\ cur \in [Procs -> 0..Len(runs)]
  /\ batchPhase \in {"idle", "run", "done"} /\ plan \in Seq(Rows)
  /\ at \in 1..Len(plan) + 1
  /\ results \in [Rows -> {"none", "ok", "partial", "failed", "not attempted"}]
  /\ failing \in 0..MaxFailures
  /\ vouched \subseteq 1..Len(runs) /\ unwritten \subseteq 1..Len(runs)
  /\ batchFaults \in 0..command.faults /\ batchCrashes \in 0..command.crashes

(* The report a batch leaves alone was written by a run that completed,    *)
(* fulfilled everything and had the batch's own request, however many runs *)
(* of other requests, failures and crashes went over it. There are two     *)
(* exceptions: another run may replace the report between the end of the   *)
(* owner's lease and its binding (a command with "overlap"), and a run     *)
(* that could not write its own report is completed with, and bound to,    *)
(* whatever text stands in its place, an earlier run's or a part of its    *)
(* own, and the batch leaves that alone as well.                           *)
ExistingTruthful ==
  ~command.overlap => \A c \in Rows : Existing(c) =>
    LET r == runs[report[c]]
    IN \/ r.company = c /\ r.status = "completed" /\ r.targets = Expected
          /\ r.fulfilled = "full"
       \/ \E i \in unwritten : Covers(runs[i], c)

(* A company a batch reported complete is not researched again by the same *)
(* command while the report of that run, or the one it was bound to, is    *)
(* still in place, if the command names the platforms and run states can   *)
(* be read. (A report that cannot be hashed is announced as one that will  *)
(* be paid for again.)                                                     *)
PaysOnce ==
  command.explicit /\ "read" \notin command.faulty /\ StartRow
    => \A i \in vouched :
         ~(runs[i].company = plan[at] /\ report[plan[at]] \in {i, runs[i].bound} \ {0})

(* The summary accounts for every company; one is not attempted only after *)
(* as many failures in a row as stop a batch, and one is called complete   *)
(* only on a run that recorded it all.                                     *)
SummaryComplete ==
  /\ batchPhase = "done" => \A c \in Rows : results[c] # "none"
  /\ \A c \in Rows : results[c] = "not attempted" =>
       \E i \in 1..Len(plan) :
         /\ i + MaxFailures - 1 <= Len(plan)
         /\ \A j \in i..i + MaxFailures - 1 : results[plan[j]] = "failed"
         /\ \E j \in i + MaxFailures..Len(plan) : c = plan[j]
  /\ \A i \in vouched : runs[i].fulfilled = "full"

(* What a run recorded as completed and fulfilled is not lost, while run   *)
(* states can be read.                                                     *)
KeepsRecord ==
  "read" \notin command.faulty => \A i \in DOMAIN runs :
    (runs[i].status = "completed" \/ runs[i].fulfilled # "none") =>
      /\ runs'[i].known = runs[i].known
      /\ runs[i].fulfilled # "none" => runs'[i].fulfilled = runs[i].fulfilled
      /\ runs[i].status = "completed" => runs'[i].status = "completed"

(* What a batch leaves out and what it sums up is so, and a batch that is  *)
(* given again repeats and forgets nothing.                                *)
BatchSound ==
  /\ [](BatchTypeOK /\ ExistingTruthful /\ SummaryComplete)
  /\ [][PaysOnce /\ KeepsRecord]_batchVars
=============================================================================
