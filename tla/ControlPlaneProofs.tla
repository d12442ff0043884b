-------------------------- MODULE ControlPlaneProofs --------------------------
(***************************************************************************)
(* Theorems about CloudRunner and ControlPlane for any number of jobs,     *)
(* executions and requests.                                                *)
(*                                                                         *)
(* A manifest never changes, so what an execution knew of it when it chose *)
(* its exit code is still true when it ends.  The invariant adds what each *)
(* place of main knows: a late writer saw a manifest, an execution about   *)
(* to end has one behind its exit code.                                    *)
(*                                                                         *)
(* A handler writes back whole the copy it has read.  The invariant of the *)
(* control plane says what of a copy stays right however old it is: its    *)
(* inputs, and what the status it is about to write claims.                *)
(***************************************************************************)
EXTENDS ControlPlane, TLAPS

(* An exit code is backed by the manifest of the job.                      *)
Backed(r) ==
    LET m == manifest[run[r].job]
    IN  /\ run[r].ret = EXIT_SUCCESS => m # NoManifest /\ m.status = "SUCCEEDED"
        /\ run[r].ret = EXIT_CANCELLED => m # NoManifest /\ m.status = "CANCELLED"
        /\ r \notin Troubled => m # NoManifest

Knows(r) ==
    /\ run[r].pc # "idle" => run[r].job \in Jobs
    /\ run[r].pc \in {"upload", "commit"} => run[r].status \in Statuses
    /\ run[r].pc = "late" => manifest[run[r].job] # NoManifest
    /\ run[r].pc \in {"finally", "ended"} => Backed(r)
    /\ run[r].pc = "refused" => run[r].ret \notin {EXIT_SUCCESS, EXIT_CANCELLED}

RunnerInv == RunnerTypeOK /\ \A r \in Runners : Knows(r)

USE RunnerAssumption

(* A step of r that keeps the manifests written so far keeps what the      *)
(* other executions know.                                                  *)
LEMMA OthersKnow ==
    ASSUME RunnerInv, NEW r \in Runners, RunnerTypeOK',
           \A s \in Runners \ {r} : run'[s] = run[s],
           \A j \in Jobs : manifest[j] # NoManifest => manifest'[j] = manifest[j]
    PROVE  \A s \in Runners \ {r} : Knows(s)'
BY DEF RunnerInv, Knows, Backed, RunnerTypeOK

LEMMA PutKeepsType ==
    ASSUME RunnerTypeOK, NEW r \in Runners, run[r].job \in Jobs,
           NEW s \in Statuses, PutManifest(r, s)
    PROVE  /\ manifest' \in [Jobs -> Manifests \union {NoManifest}]
           /\ \A j \in Jobs : manifest[j] # NoManifest => manifest'[j] = manifest[j]
           /\ manifest'[run[r].job] # NoManifest
           /\ manifest[run[r].job] = NoManifest => manifest'[run[r].job].status = s
BY DEF PutManifest, RunnerTypeOK, Manifests

(* The initial state and every step.                                       *)
LEMMA RunnerStarts == RunnerInit => RunnerInv
BY DEF RunnerInit, RunnerInv, RunnerTypeOK, Knows, Processes, PCs, ExitCodes, EXIT_SUCCESS

(* What a step of one execution must establish for the rest to follow.     *)
Stable == \A j \in Jobs : manifest[j] # NoManifest => manifest'[j] = manifest[j]
Others(r) == \A s \in Runners \ {r} : run'[s] = run[s]
Good(r) == RunnerTypeOK' /\ Others(r) /\ Stable /\ Knows(r)'

LEMMA ReturnSteps ==
    ASSUME run \in [Runners -> Processes], NEW r \in Runners,
           NEW code \in ExitCodes, Return(r, code)
    PROVE  /\ run' \in [Runners -> Processes]
           /\ Others(r)
           /\ run'[r].job = run[r].job
           /\ run'[r].pc = "finally"
           /\ run'[r].ret = code
<1> DEFINE p == [run[r] EXCEPT !.pc = "finally", !.ret = code]
<1>1. run' = [run EXCEPT ![r] = p]
  BY DEF Return
<1>2. p \in Processes
  BY DEF Processes, PCs
<1>3. p.job = run[r].job /\ p.pc = "finally" /\ p.ret = code
  BY DEF Processes
<1> QED
  BY <1>1, <1>2, <1>3 DEF Others

LEMMA LaunchGood ==
    ASSUME RunnerInv, NEW r \in Runners, NEW j \in Jobs, Launch(r, j)
    PROVE  Good(r)
<1> DEFINE p == [run[r] EXCEPT !.pc = "setup", !.job = j]
<1>1. run' = [run EXCEPT ![r] = p] /\ run \in [Runners -> Processes]
  BY DEF Launch, Launched, RunnerInv, RunnerTypeOK
<1>2. p \in Processes
  BY <1>1 DEF Processes, PCs
<1>3. run' \in [Runners -> Processes] /\ run'[r] = p /\ Others(r)
  BY <1>1, <1>2 DEF Others
<1>4. p.job = j /\ p.pc = "setup"
  BY <1>1 DEF Processes
<1> QED
  BY <1>3, <1>4 DEF Launch, RunnerInv, RunnerTypeOK, Good, Stable, Knows

LEMMA SetupGood == ASSUME RunnerInv, NEW r \in Runners, Setup(r) PROVE Good(r)
<1>1. run' \in [Runners -> Processes]
  <2>1. ASSUME NEW code \in ExitCodes,
               run' = [run EXCEPT ![r].pc = "refused", ![r].ret = code]
        PROVE  run' \in [Runners -> Processes]
    <3> DEFINE p == [run[r] EXCEPT !.pc = "refused", !.ret = code]
    <3>1. run' = [run EXCEPT ![r] = p]
      BY <2>1
    <3>2. run[r] \in Processes
      BY DEF RunnerInv, RunnerTypeOK
    <3>3. p \in Processes
      BY ONLY <3>2, <2>1 DEF Processes, PCs
    <3> QED
      BY <3>1, <3>3 DEF RunnerInv, RunnerTypeOK
  <2>2. CASE Goto(r, "research")
    BY <2>2 DEF Goto, Processes, PCs, RunnerInv, RunnerTypeOK
  <2>3. EXIT_FAILURE \in ExitCodes /\ EXIT_INVALID_SPEC \in ExitCodes
    BY DEF ExitCodes
  <2> QED
    BY <2>1, <2>2, <2>3 DEF Setup
<1>2. Others(r) /\ run'[r].job = run[r].job /\ run'[r].pc \in {"research", "refused"}
  BY DEF Setup, Goto, Others, RunnerInv, RunnerTypeOK, Processes
<1>3. run'[r].pc = "refused" => run'[r].ret \notin {EXIT_SUCCESS, EXIT_CANCELLED}
  BY DEF Setup, Goto, RunnerInv, RunnerTypeOK, Processes, EXIT_SUCCESS, EXIT_CANCELLED,
     EXIT_FAILURE, EXIT_INVALID_SPEC
<1> QED
  BY <1>1, <1>2, <1>3 DEF Setup, RunnerInv, RunnerTypeOK, Good, Stable, Knows

LEMMA SignalGood == ASSUME RunnerInv, NEW r \in Runners, Signal(r) PROVE Good(r)
<1>1. run' \in [Runners -> Processes]
  BY ZenonT(30) DEF Signal, Processes, RunnerInv, RunnerTypeOK
<1>2. /\ Others(r) /\ run'[r].job = run[r].job /\ run'[r].pc = run[r].pc
      /\ run'[r].ret = run[r].ret /\ run'[r].status = run[r].status
  BY DEF Signal, Others, RunnerInv, RunnerTypeOK, Processes
<1> QED
  BY <1>1, <1>2 DEF Signal, RunnerInv, RunnerTypeOK, Good, Stable, Knows, Backed

LEMMA KillGood == ASSUME RunnerInv, NEW r \in Runners, Kill(r) PROVE Good(r)
BY DEF Kill, Alive, Goto, RunnerInv, RunnerTypeOK, Processes, PCs, Good, Others,
       Stable, Knows, Backed

LEMMA ResearchGood == ASSUME RunnerInv, NEW r \in Runners, Research(r) PROVE Good(r)
BY DEF Research, StatusOf, Statuses, Goto, RunnerInv, RunnerTypeOK, Processes, PCs,
       Good, Others, Stable, Knows, Backed

LEMMA UploadGood == ASSUME RunnerInv, NEW r \in Runners, Upload(r) PROVE Good(r)
BY DEF Upload, Goto, RunnerInv, RunnerTypeOK, Processes, PCs, Good, Others, Stable,
       Knows, Backed

(* The exit code of a commit that created the manifest, and of one that    *)
(* found it there.                                                         *)
LEMMA CommitGood == ASSUME RunnerInv, NEW r \in Runners, Commit(r) PROVE Good(r)
<1> DEFINE s == run[r].status
<1>1. run[r].job \in Jobs /\ s \in Statuses /\ RunnerTypeOK
  BY DEF Commit, RunnerInv, Knows, RunnerTypeOK
<1>2. ASSUME PutManifest(r, s), manifest[run[r].job] = NoManifest,
             Return(r, ExitCodeOf(s)), stored' = stored
      PROVE  Good(r)
  <2>1. manifest' \in [Jobs -> Manifests \union {NoManifest}] /\ Stable
        /\ manifest'[run[r].job] # NoManifest
        /\ manifest'[run[r].job].status = s
    BY <1>1, <1>2, PutKeepsType DEF Stable
  <2>2. ExitCodeOf(s) \in ExitCodes
    BY DEF ExitCodeOf, ExitCodes
  <2>3. /\ RunnerTypeOK' /\ Others(r)
        /\ run'[r].job = run[r].job /\ run'[r].pc = "finally"
        /\ run'[r].ret = ExitCodeOf(s)
    BY <1>1, <1>2, <2>1, <2>2, ReturnSteps DEF RunnerTypeOK
  <2>4. Knows(r)'
    BY <1>1, <2>1, <2>3 DEF Knows, Backed, ExitCodeOf, Statuses, EXIT_SUCCESS,
       EXIT_CANCELLED, EXIT_FAILURE
  <2> QED
    BY <2>1, <2>3, <2>4 DEF Good
<1>3. ASSUME PutManifest(r, s), manifest[run[r].job] # NoManifest,
             Goto(r, "late"), stored' = stored
      PROVE  Good(r)
  BY <1>1, <1>3 DEF PutManifest, RunnerTypeOK, Goto, Processes, PCs, Good,
     Others, Stable, Knows, Backed
<1>4. ASSUME PutFails(r, s), Goto(r, "failing"), stored' = stored
      PROVE  Good(r)
  <2>1. manifest' \in [Jobs -> Manifests \union {NoManifest}] /\ Stable
    BY <1>1, <1>4, PutKeepsType DEF PutFails, Stable, RunnerTypeOK
  <2> QED
    BY <1>1, <1>4, <2>1 DEF RunnerTypeOK, Goto, Processes, PCs, Good, Others,
       Knows, Backed
<1> QED
  BY <1>2, <1>3, <1>4 DEF Commit

LEMMA LateWriterGood == ASSUME RunnerInv, NEW r \in Runners, LateWriter(r) PROVE Good(r)
BY DEF LateWriter, LateExitCode, Return, Goto, RunnerInv, RunnerTypeOK, Processes,
       PCs, Good, Others, Stable, Knows, Backed, ExitCodes, EXIT_SUCCESS,
       EXIT_CANCELLED, EXIT_FAILURE

LEMMA HandleExceptionGood ==
    ASSUME RunnerInv, NEW r \in Runners, HandleException(r)
    PROVE  Good(r)
<1>1. run[r].job \in Jobs /\ RunnerTypeOK /\ "FAILED" \in Statuses
  BY DEF HandleException, RunnerInv, Knows, Statuses
<1>2. /\ manifest' \in [Jobs -> Manifests \union {NoManifest}] /\ Stable
      /\ r \notin Troubled => manifest'[run[r].job] # NoManifest
  BY <1>1, PutKeepsType DEF HandleException, PutFails, Stable, RunnerTypeOK
<1>3. EXIT_FAILURE \in ExitCodes
  BY DEF ExitCodes
<1>4. /\ RunnerTypeOK' /\ Others(r)
      /\ run'[r].job = run[r].job /\ run'[r].pc = "finally"
      /\ run'[r].ret = EXIT_FAILURE
  BY <1>1, <1>2, <1>3, ReturnSteps DEF HandleException, RunnerTypeOK
<1>5. Knows(r)'
  BY <1>1, <1>2, <1>4 DEF Knows, Backed, EXIT_SUCCESS, EXIT_CANCELLED,
     EXIT_FAILURE
<1> QED
  BY <1>2, <1>4, <1>5 DEF Good

(* What backed the exit code before the finally block still does.          *)
LEMMA FinallyGood == ASSUME RunnerInv, NEW r \in Runners, Finally(r) PROVE Good(r)
<1>1. /\ run[r].job \in Jobs /\ RunnerTypeOK /\ "CANCELLED" \in Statuses
      /\ Backed(r)
  BY DEF Finally, RunnerInv, Knows, Statuses
<1>2. manifest' \in [Jobs -> Manifests \union {NoManifest}] /\ Stable
  BY <1>1, PutKeepsType DEF Finally, PutFails, Stable, RunnerTypeOK
<1>3. /\ run'[r].job = run[r].job /\ run'[r].pc = "ended"
      /\ run'[r].ret = run[r].ret /\ RunnerTypeOK' /\ Others(r)
  BY <1>1, <1>2 DEF Finally, Goto, RunnerTypeOK, Processes, PCs, Others
<1>4. Knows(r)'
  BY <1>1, <1>2, <1>3 DEF Knows, Backed, Stable
<1> QED
  BY <1>2, <1>3, <1>4 DEF Good

(* Every step preserves the invariant and every manifest.                  *)
LEMMA RunnerKeeps == RunnerInv /\ [RunnerNext]_runnerVars => RunnerInv' /\ Stable
<1> SUFFICES ASSUME RunnerInv, [RunnerNext]_runnerVars PROVE RunnerInv' /\ Stable
  OBVIOUS
<1>1. ASSUME NEW r \in Runners, Good(r) PROVE RunnerInv' /\ Stable
  <2>1. \A s \in Runners \ {r} : Knows(s)'
    BY <1>1, OthersKnow DEF Good, Others, Stable
  <2> QED
    BY <1>1, <2>1 DEF Good, RunnerInv
<1>2. CASE UNCHANGED runnerVars
  BY <1>2 DEF runnerVars, RunnerInv, RunnerTypeOK, Knows, Backed, Stable
<1>3. CASE RunnerNext
  BY <1>1, <1>3, LaunchGood, SetupGood, SignalGood, KillGood, ResearchGood,
     UploadGood, CommitGood, LateWriterGood, HandleExceptionGood, FinallyGood
     DEF RunnerNext, RunnerStep
<1> QED
  BY <1>2, <1>3

LEMMA RunnerInvariance == RunnerSpec => []RunnerInv
BY RunnerStarts, RunnerKeeps, PTL DEF RunnerSpec

(* Processes, manifests and stored artifacts are of their types, in        *)
(* particular only a decided status is ever committed.                     *)
THEOREM RunnerTypeCorrect == RunnerSpec => []RunnerTypeOK
<1>1. RunnerInv => RunnerTypeOK
  BY DEF RunnerInv
<1> QED
  BY <1>1, RunnerInvariance, PTL

(* An execution exits with success or cancellation only behind a manifest  *)
(* that says so, however commits, signals and failures interleave.         *)
(* An execution that ends by itself leaves a manifest if the store works   *)
(* for it.                                                                 *)
THEOREM ExitsAreSound == RunnerSpec => []ExitsSound
<1>1. RunnerInv => ExitsSound
  BY DEF RunnerInv, Knows, Backed, ExitCodeTruthful, LeavesManifest, ExitsSound
<1> QED
  BY <1>1, RunnerInvariance, PTL

(* No step of any execution replaces a manifest.                           *)
THEOREM CommitsAreFinal == RunnerSpec => CommitOnce
<1>1. RunnerInv /\ [RunnerNext]_runnerVars =>
        [\A j \in Jobs : manifest[j] # NoManifest => manifest'[j] = manifest[j]]_runnerVars
  BY RunnerKeeps DEF Stable
<1> QED
  BY <1>1, RunnerInvariance, PTL DEF RunnerSpec, CommitOnce

------------------------------------------------------------------------------
(***************************************************************************)
(* The control plane.                                                      *)
(***************************************************************************)
(* What a handler may still rely on of the copy it read, however late: the *)
(* inputs of the job never change, and the status it is about to write     *)
(* says no more than the manifest it has seen.                             *)
Intends(w, ms) ==
    /\ w.at = "approve" => w.next = "QUEUED"
    /\ w.at = "stop" => w.next = "CANCELLED" /\ w.copy.exec \in Runners
    /\ w.at = "manifest" => w.next = "FAILED"
    /\ w.at = "update" => w.next \in Terminal \union {"CANCEL_REQUESTED"}
    /\ w.at = "update" /\ w.next = "SUCCEEDED" =>
         ms[w.job] # NoManifest /\ ms[w.job].status = "SUCCEEDED"

CopySound(w, rs, ms) ==
    /\ w.at = "put" =>
         w.next \in {"PENDING_APPROVAL", "QUEUED"} /\ w.copy.status = w.next
    /\ w.at \in Steps \ {"put"} =>
         /\ rs[w.job] # NoRecord /\ w.copy.inputs = rs[w.job].inputs
         /\ Intends(w, ms)

(* A job's record with its messages and the answers given about it.        *)
JobSound(j) ==
    /\ rec[j] = NoRecord => created[j] = 0 /\ queue[j] = 0
    /\ queue[j] <= sends[j]
    /\ created[j] <= 1
    /\ \A i \in Inputs : <<j, i>> \in accepted =>
         rec[j] # NoRecord /\ rec[j].inputs = i
    /\ Has(j, {"SUCCEEDED"}) =>
         manifest[j] # NoManifest /\ manifest[j].status = "SUCCEEDED"
    /\ Has(j, {"QUEUED"}) =>
         \/ queue[j] > 0 \/ j \in refused
         \/ \E h \in Handlers : At(h, "enqueue") /\ handler[h].job = j

PlaneTypes ==
    /\ rec \in [Jobs -> JobRecords \union {NoRecord}]
    /\ queue \in [Jobs -> 0..MaxSends]
    /\ sends \in [Jobs -> 0..MaxSends]
    /\ handler \in [Handlers -> HandlerStates]
    /\ created \in [Jobs -> Nat]
    /\ accepted \subseteq Jobs \X Inputs
    /\ refused \subseteq Jobs

(* Executions are of jobs in the table.                                    *)
RunsKnown == \A r \in Runners : run[r].pc # "idle" => rec[run[r].job] # NoRecord

PlaneInv ==
    /\ PlaneTypes /\ RunnerInv /\ RunsKnown
    /\ \A h \in Handlers : CopySound(handler[h], rec, manifest)
    /\ \A j \in Jobs : JobSound(j)

(* What no step takes away: a record with its inputs, the job an execution *)
(* is of.                                                                  *)
RecordsStay ==
    \A j \in Jobs : rec[j] # NoRecord =>
        rec'[j] # NoRecord /\ rec'[j].inputs = rec[j].inputs

RunsStay ==
    \A r \in Runners : run'[r].pc # "idle" =>
        IF run[r].pc = "idle" THEN rec[run'[r].job] # NoRecord
        ELSE run'[r].job = run[r].job

RunnersRest == RunnerInv' /\ Stable /\ RunsStay

LEMMA RestedRunners ==
    ASSUME RunnerInv, UNCHANGED runnerVars
    PROVE  RunnersRest /\ manifest' = manifest
  BY DEF RunnersRest, runnerVars, RunnerInv, RunnerTypeOK, Knows, Backed, Stable, RunsStay

LEMMA CopyKept ==
    ASSUME PlaneInv, RecordsStay, Stable, NEW h \in Handlers
    PROVE  CopySound(handler[h], rec', manifest')
  <1> DEFINE w == handler[h]
  <1>1. CopySound(w, rec, manifest) /\ w \in HandlerStates
    BY DEF PlaneInv, PlaneTypes
  <1>2. CASE w.at \in Steps \ {"put"}
    <2>1. w \in [at: Steps, job: Jobs, copy: JobRecords, next: JobStatus]
      BY <1>1, <1>2 DEF HandlerStates, Idle, Steps
    <2>2. w.job \in Jobs
      BY <2>1
    <2> HIDE DEF w
    <2>3. Intends(w, manifest) => Intends(w, manifest')
      BY <2>2 DEF Intends, Stable
    <2>4. CopySound(w, rec', manifest')
      BY <1>1, <1>2, <2>2, <2>3 DEF CopySound, RecordsStay
    <2> QED
      BY <2>4 DEF w
  <1>3. CASE w.at \notin Steps \ {"put"}
    BY <1>1, <1>3 DEF CopySound
  <1> QED
    BY <1>2, <1>3

(* What a step must establish for the invariant to hold after it.          *)
LEMMA Assembled ==
    ASSUME PlaneInv, PlaneTypes', RunnersRest, RecordsStay,
           \A h \in Handlers :
              handler'[h] = handler[h] \/ CopySound(handler'[h], rec', manifest'),
           \A j \in Jobs : JobSound(j)'
    PROVE  PlaneInv'
  <1>1. \A h \in Handlers : CopySound(handler[h], rec', manifest')
    BY CopyKept DEF RunnersRest
  <1>2. RunsKnown'
    BY DEF PlaneInv, RunsKnown, RunnersRest, RunsStay, RecordsStay, RunnerInv, Knows
  <1> QED
    BY <1>1, <1>2 DEF PlaneInv, RunnersRest

(* A job whose record a step leaves alone.                                 *)
LEMMA JobKept ==
    ASSUME PlaneInv, Stable, NEW j \in Jobs,
           rec'[j] = rec[j], created'[j] = created[j],
           queue'[j] \in Nat, queue'[j] <= sends'[j], queue[j] > 0 => queue'[j] > 0,
           rec[j] = NoRecord => queue'[j] = 0, refused \subseteq refused',
           \A i \in Inputs : <<j, i>> \in accepted' =>
              <<j, i>> \in accepted \/ (rec[j] # NoRecord /\ rec[j].inputs = i),
           \A h \in Handlers : At(h, "enqueue") /\ handler[h].job = j =>
              handler'[h] = handler[h] \/ queue'[j] > 0 \/ j \in refused'
    PROVE  JobSound(j)'
  <1>1. JobSound(j)
    BY DEF PlaneInv
  <1>2. ASSUME Has(j, {"QUEUED"}), j \notin refused'
        PROVE  queue'[j] > 0 \/ \E h \in Handlers : At(h, "enqueue")' /\ handler'[h].job = j
    <2>1. CASE queue[j] > 0
      BY <2>1
    <2>2. CASE \E h \in Handlers : At(h, "enqueue") /\ handler[h].job = j
      BY <1>2, <2>2 DEF At
    <2> QED
      BY <1>1, <1>2, <2>1, <2>2 DEF JobSound
  <1> QED
    BY <1>1, <1>2 DEF JobSound, Has, Stable

(* A step of one handler that reads, decides or answers, and writes no     *)
(* record.                                                                 *)
Answers ==
    \/ accepted' = accepted
    \/ \E j \in Jobs, i \in Inputs : rec[j] # NoRecord /\ Existing(j, i)

LEMMA HandlerMoves ==
    ASSUME PlaneInv, RunnersRest, manifest' = manifest,
           NEW h \in Handlers, NEW w \in HandlerStates, CopySound(w, rec, manifest),
           handler[h].at # "enqueue", Become(h, w), Answers,
           UNCHANGED <<rec, queue, sends, created, refused>>
    PROVE  PlaneInv'
  <1>1. /\ handler' \in [Handlers -> HandlerStates] /\ handler'[h] = w
        /\ \A g \in Handlers \ {h} : handler'[g] = handler[g]
    BY DEF Become, PlaneInv, PlaneTypes
  <1>2. /\ accepted' \subseteq Jobs \X Inputs
        /\ \A j \in Jobs, i \in Inputs : <<j, i>> \in accepted' =>
             <<j, i>> \in accepted \/ (rec[j] # NoRecord /\ rec[j].inputs = i)
    BY DEF Answers, Existing, PlaneInv, PlaneTypes
  <1>3. PlaneTypes'
    BY <1>1, <1>2 DEF PlaneTypes, PlaneInv
  <1>4. ASSUME NEW j \in Jobs PROVE JobSound(j)'
    <2>1. \A g \in Handlers : At(g, "enqueue") => handler'[g] = handler[g]
      BY <1>1 DEF At
    <2>2. queue[j] \in Nat /\ queue[j] <= sends[j] /\ (rec[j] = NoRecord => queue[j] = 0)
      BY DEF PlaneInv, PlaneTypes, JobSound
    <2> QED
      BY <1>2, <2>1, <2>2, JobKept DEF RunnersRest
  <1>5. RecordsStay
    BY DEF RecordsStay
  <1> QED
    BY <1>1, <1>3, <1>4, <1>5, Assembled

(* A step that writes the record of a job that has one.                    *)
LEMMA RecordWritten ==
    ASSUME ControlPlaneAssumption, PlaneInv, RunnersRest,
           NEW j \in Jobs, NEW x \in JobRecords, rec' = [rec EXCEPT ![j] = x],
           rec[j] # NoRecord, x.inputs = rec[j].inputs,
           x.status = "SUCCEEDED" =>
              manifest'[j] # NoManifest /\ manifest'[j].status = "SUCCEEDED",
           x.status = "QUEUED" =>
              \E h \in Handlers : At(h, "enqueue")' /\ handler'[h].job = j,
           handler' \in [Handlers -> HandlerStates],
           \A h \in Handlers :
              \/ handler'[h] = handler[h]
              \/ handler[h].at # "enqueue" /\ CopySound(handler'[h], rec', manifest'),
           queue' \in [Jobs -> 0..MaxSends], queue'[j] <= queue[j],
           \A k \in Jobs \ {j} : queue'[k] = queue[k],
           UNCHANGED <<sends, created, accepted, refused>>
    PROVE  PlaneInv'
  <1>1. /\ PlaneTypes' /\ rec'[j] = x /\ x # NoRecord
        /\ \A k \in Jobs \ {j} : rec'[k] = rec[k]
    BY DEF PlaneTypes, PlaneInv, ControlPlaneAssumption
  <1>2. RecordsStay
    BY <1>1 DEF RecordsStay
  <1>3. ASSUME NEW k \in Jobs, k # j PROVE JobSound(k)'
    <2>1. \A g \in Handlers : At(g, "enqueue") => handler'[g] = handler[g]
      BY DEF At
    <2>2. queue[k] \in Nat /\ queue[k] <= sends[k] /\ (rec[k] = NoRecord => queue[k] = 0)
      BY DEF PlaneInv, PlaneTypes, JobSound
    <2> QED
      BY <1>1, <1>3, <2>1, <2>2, JobKept DEF RunnersRest
  <1>4. JobSound(j)'
    <2> USE DEF PlaneInv
    <2>1. JobSound(j) /\ queue[j] \in 0..MaxSends /\ sends[j] \in 0..MaxSends
      BY DEF PlaneTypes
    <2> MaxSends \in Nat /\ queue'[j] \in 0..MaxSends
      BY DEF ControlPlaneAssumption
    <2>2. queue'[j] <= sends'[j]
      BY <2>1 DEF JobSound
    <2>3. Has(j, {"QUEUED"})' => \E h \in Handlers : At(h, "enqueue")' /\ handler'[h].job = j
      BY <1>1 DEF Has
    <2>4. Has(j, {"SUCCEEDED"})' => manifest'[j] # NoManifest /\ manifest'[j].status = "SUCCEEDED"
      BY <1>1 DEF Has
    <2> QED
      BY <1>1, <2>1, <2>2, <2>3, <2>4 DEF JobSound
  <1> QED
    BY <1>1, <1>2, <1>3, <1>4, Assembled

(* What the runner's steps mean for the table.                             *)
LEMMA JobsOfRunsKept ==
    ASSUME RunnerInv, NEW r \in Runners, RunnerStep(r) \/ Signal(r) \/ Kill(r)
    PROVE  RunsStay
  BY DEF RunnerInv, RunnerTypeOK, Processes, RunsStay, RunnerStep, Signal, Kill, Alive, Setup,
     Research, Upload, Commit, LateWriter, HandleException, Finally, Goto, Return

LEMMA RunnerRests ==
    ASSUME RunnerInv, NEW r \in Runners, RunnerStep(r) \/ Signal(r) \/ Kill(r)
    PROVE  RunnersRest
  <1>1. RunnerNext
    BY DEF RunnerNext
  <1> QED
    BY <1>1, RunnerKeeps, JobsOfRunsKept DEF RunnersRest

LEMMA LaunchRests ==
    ASSUME RunnerInv, NEW r \in Runners, NEW j \in Jobs, Launch(r, j), rec[j] # NoRecord
    PROVE  RunnersRest
  <1>1. RunnerNext
    BY DEF RunnerNext
  <1>2. RunsStay
    BY DEF RunsStay, Launch, Launched, RunnerInv, RunnerTypeOK, Processes
  <1> QED
    BY <1>1, <1>2, RunnerKeeps DEF RunnersRest

(* The record read by a handler and the handler's state as records.        *)
LEMMA RecordType ==
    ASSUME PlaneInv, NEW j \in Jobs, rec[j] # NoRecord
    PROVE  rec[j] \in JobRecords
  BY DEF PlaneInv, PlaneTypes

LEMMA HandlerType ==
    ASSUME PlaneInv, NEW h \in Handlers, handler[h].at \in Steps
    PROVE  /\ handler[h] \in [at: Steps, job: Jobs, copy: JobRecords, next: JobStatus]
           /\ handler[h].job \in Jobs
           /\ handler[h].copy \in JobRecords
           /\ handler[h].next \in JobStatus
           /\ CopySound(handler[h], rec, manifest)
  <1>1. handler[h] \in [at: Steps, job: Jobs, copy: JobRecords, next: JobStatus]
    BY DEF PlaneInv, PlaneTypes, HandlerStates, Idle, Steps
  <1> QED
    BY <1>1 DEF PlaneInv

LEMMA WorkingType ==
    ASSUME NEW a \in Steps, NEW j \in Jobs, NEW c \in JobRecords, NEW n \in JobStatus
    PROVE  LET w == Working(a, j, c, n)
           IN  /\ w \in HandlerStates
               /\ w.at = a /\ w.job = j /\ w.copy = c /\ w.next = n
  BY DEF Working, HandlerStates

LEMMA MovedType ==
    ASSUME NEW w \in [at: Steps, job: Jobs, copy: JobRecords, next: JobStatus],
           NEW a \in Steps, NEW n \in JobStatus
    PROVE  LET m == [w EXCEPT !.at = a, !.next = n]
           IN  /\ m \in HandlerStates
               /\ m.at = a /\ m.job = w.job /\ m.copy = w.copy /\ m.next = n
  BY DEF HandlerStates

LEMMA IdleSound ==
    /\ Idle \in HandlerStates /\ Idle.at = "idle"
    /\ \A rs, ms : CopySound(Idle, rs, ms)
  BY DEF Idle, HandlerStates, CopySound, Steps

(* The steps that only read or decide.                                     *)
LEMMA SubmitKeeps ==
    ASSUME PlaneInv, NEW h \in Handlers, NEW j \in Jobs, NEW i \in Inputs,
           NEW approved \in BOOLEAN, Submit(h, j, i, approved), UNCHANGED runnerVars
    PROVE  PlaneInv'
  <1>1. RunnersRest /\ manifest' = manifest /\ handler[h].at = "idle"
    BY RestedRunners, IdleSound DEF PlaneInv, Submit
  <1>2. CASE rec[j] # NoRecord
    <2>1. Become(h, handler[h])
      BY <1>2 DEF Submit, Become, PlaneInv, PlaneTypes
    <2>2. Answers
      BY <1>2 DEF Submit, Answers
    <2>3. handler[h] \in HandlerStates /\ CopySound(handler[h], rec, manifest)
      BY DEF PlaneInv, PlaneTypes
    <2> QED
      BY <1>1, <1>2, <2>1, <2>2, <2>3, HandlerMoves DEF Submit
  <1>3. CASE rec[j] = NoRecord
    <2> DEFINE x == NewRecord(i, approved)
               w == Working("put", j, x, x.status)
    <2>1. x \in JobRecords /\ x.status \in {"PENDING_APPROVAL", "QUEUED"}
      BY DEF NewRecord, JobRecords, JobStatus
    <2>2. "put" \in Steps /\ x.status \in JobStatus
      BY <2>1 DEF Steps, JobStatus
    <2> HIDE DEF x
    <2>3. w \in HandlerStates /\ CopySound(w, rec, manifest)
      BY <2>1, <2>2, WorkingType DEF CopySound
    <2>4. Become(h, w) /\ Answers
      BY <1>3 DEF Submit, Answers, x
    <2> QED
      BY <1>1, <1>3, <2>3, <2>4, HandlerMoves DEF Submit
  <1> QED
    BY <1>2, <1>3

(* Approval, cancellation and reconciler start with a copy of the record.  *)
LEMMA ReadingKeeps ==
    ASSUME PlaneInv, NEW h \in Handlers, NEW j \in Jobs, handler[h] = Idle,
           NEW a \in Steps \ {"put"}, NEW n \in JobStatus, rec[j] # NoRecord,
           Intends(Working(a, j, rec[j], n), manifest),
           Become(h, Working(a, j, rec[j], n)),
           UNCHANGED <<rec, queue, sends, created, accepted, refused>>, UNCHANGED runnerVars
    PROVE  PlaneInv'
  <1> DEFINE w == Working(a, j, rec[j], n)
  <1>1. RunnersRest /\ manifest' = manifest /\ handler[h].at = "idle"
    BY RestedRunners, IdleSound DEF PlaneInv
  <1>2. w \in HandlerStates /\ w.at = a /\ w.job = j /\ w.copy = rec[j]
    BY RecordType, WorkingType
  <1>3. CopySound(w, rec, manifest)
    BY <1>2 DEF CopySound
  <1> QED
    BY <1>1, <1>2, <1>3, HandlerMoves DEF Answers

LEMMA ApproveKeeps ==
    ASSUME PlaneInv, NEW h \in Handlers, NEW j \in Jobs, Approve(h, j), UNCHANGED runnerVars
    PROVE  PlaneInv'
  <1>1. "approve" \in Steps \ {"put"} /\ "QUEUED" \in JobStatus /\ rec[j] # NoRecord
    BY DEF Steps, JobStatus, Approve, Has
  <1>2. Intends(Working("approve", j, rec[j], "QUEUED"), manifest)
    BY DEF Intends, Working
  <1> QED
    BY <1>1, <1>2, ReadingKeeps DEF Approve

LEMMA CancelKeeps ==
    ASSUME PlaneInv, NEW h \in Handlers, NEW j \in Jobs, Cancel(h, j), UNCHANGED runnerVars
    PROVE  PlaneInv'
  <1>1. /\ {"update", "stop"} \subseteq Steps \ {"put"}
        /\ {"CANCELLED", "CANCEL_REQUESTED"} \subseteq JobStatus
        /\ rec[j] # NoRecord
    BY DEF Steps, JobStatus, Terminal, Cancel, Has
  <1>2. /\ Intends(Working("update", j, rec[j], "CANCELLED"), manifest)
        /\ Intends(Working("update", j, rec[j], "CANCEL_REQUESTED"), manifest)
    BY DEF Intends, Working, Terminal
  <1>3. rec[j].exec # NoRunner => Intends(Working("stop", j, rec[j], "CANCELLED"), manifest)
    BY <1>1, RecordType DEF Intends, Working, JobRecords
  <1>4. \/ Become(h, Working("update", j, rec[j], "CANCELLED"))
        \/ Become(h, Working("update", j, rec[j], "CANCEL_REQUESTED"))
        \/ rec[j].exec # NoRunner /\ Become(h, Working("stop", j, rec[j], "CANCELLED"))
    BY DEF Cancel
  <1> QED
    BY <1>1, <1>2, <1>3, <1>4, ReadingKeeps DEF Cancel

LEMMA QueryKeeps ==
    ASSUME PlaneInv, NEW h \in Handlers, NEW j \in Jobs, Query(h, j), UNCHANGED runnerVars
    PROVE  PlaneInv'
  <1>1. "manifest" \in Steps \ {"put"} /\ "FAILED" \in JobStatus /\ rec[j] # NoRecord
    BY DEF Steps, JobStatus, Terminal, Query, Has
  <1>2. Intends(Working("manifest", j, rec[j], "FAILED"), manifest)
    BY DEF Intends, Working
  <1> QED
    BY <1>1, <1>2, ReadingKeeps DEF Query

(* A handler that goes on with the copy it has.                            *)
LEMMA GoingOnKeeps ==
    ASSUME PlaneInv, RunnersRest, manifest' = manifest, NEW h \in Handlers,
           handler[h].at \in Steps \ {"put", "enqueue"}, NEW n \in JobStatus,
           LET m == [handler[h] EXCEPT !.at = "update", !.next = n]
           IN  Intends(m, manifest) /\ Become(h, m),
           UNCHANGED <<rec, queue, sends, created, accepted, refused>>
    PROVE  PlaneInv'
  <1> DEFINE m == [handler[h] EXCEPT !.at = "update", !.next = n]
  <1>1. "update" \in Steps
    BY DEF Steps
  <1>2. /\ m \in HandlerStates /\ m.at = "update"
        /\ m.job = handler[h].job /\ m.copy = handler[h].copy
    <2>1. handler[h] \in [at: Steps, job: Jobs, copy: JobRecords, next: JobStatus]
      BY HandlerType
    <2> QED
      BY <1>1, <2>1, MovedType
  <1>3. CopySound(handler[h], rec, manifest)
    BY HandlerType
  <1>4. CopySound(m, rec, manifest)
    BY <1>2, <1>3 DEF CopySound
  <1> QED
    BY <1>2, <1>4, HandlerMoves DEF Answers

LEMMA GivingUpKeeps ==
    ASSUME PlaneInv, RunnersRest, manifest' = manifest, NEW h \in Handlers,
           handler[h].at # "enqueue", Done(h),
           UNCHANGED <<rec, queue, sends, created, accepted, refused>>
    PROVE  PlaneInv'
  BY IdleSound, HandlerMoves DEF Done, Answers

(* The execution a cancellation signals is one it knows.                   *)
LEMMA StopJobKeeps ==
    ASSUME PlaneInv, NEW h \in Handlers, StopJob(h)
    PROVE  PlaneInv'
  <1> DEFINE w == handler[h]
  <1>1. w.at = "stop" /\ w.at \in Steps \ {"put", "enqueue"}
    BY DEF StopJob, At, Steps
  <1>2. w.next = "CANCELLED" /\ w.copy.exec \in Runners
    BY <1>1, HandlerType DEF CopySound, Intends
  <1>3. RunnersRest /\ manifest' = manifest
    <2>1. CASE Signal(w.copy.exec)
      BY <1>2, <2>1, RunnerRests DEF Signal, PlaneInv
    <2>2. CASE UNCHANGED runnerVars
      BY <2>2, RestedRunners DEF PlaneInv
    <2> QED
      BY <2>1, <2>2 DEF StopJob
  <1>4. ASSUME NEW n \in {"CANCELLED", "CANCEL_REQUESTED"},
               Become(h, [w EXCEPT !.at = "update", !.next = n])
        PROVE  PlaneInv'
    <2> DEFINE m == [w EXCEPT !.at = "update", !.next = n]
    <2>1. n \in JobStatus /\ "update" \in Steps
      BY DEF JobStatus, Terminal, Steps
    <2>2. m.at = "update" /\ m.next = n
      <3>1. w \in [at: Steps, job: Jobs, copy: JobRecords, next: JobStatus]
        BY <1>1, HandlerType
      <3> QED
        BY <2>1, <3>1, MovedType
    <2>3. Intends(m, manifest)
      BY <2>2 DEF Intends, Terminal
    <2> QED
      BY <1>1, <1>3, <1>4, <2>1, <2>3, GoingOnKeeps DEF StopJob
  <1>5. CASE Become(h, [w EXCEPT !.at = "update"])
    <2>1. [w EXCEPT !.at = "update"] = [w EXCEPT !.at = "update", !.next = "CANCELLED"]
      BY <1>1, <1>2, HandlerType
    <2> QED
      BY <1>4, <1>5, <2>1
  <1>6. CASE Done(h)
    BY <1>1, <1>3, <1>6, GivingUpKeeps DEF StopJob
  <1> QED
    BY <1>4, <1>5, <1>6 DEF StopJob

(* The reconciler takes SUCCEEDED from a manifest only.                    *)
LEMMA ReconcileKeeps ==
    ASSUME PlaneInv, NEW h \in Handlers, Reconcile(h), UNCHANGED runnerVars
    PROVE  PlaneInv'
  <1> DEFINE w == handler[h]
  <1>1. w.at = "manifest" /\ w.at \in Steps \ {"put", "enqueue"} /\ w.job \in Jobs
    BY HandlerType DEF Reconcile, At, Steps
  <1>2. RunnersRest /\ manifest' = manifest
    BY RestedRunners DEF PlaneInv
  <1>3. ASSUME NEW n \in Terminal,
               n = "SUCCEEDED" => manifest[w.job] # NoManifest /\ manifest[w.job].status = n,
               Become(h, [w EXCEPT !.at = "update", !.next = n])
        PROVE  PlaneInv'
    <2> DEFINE m == [w EXCEPT !.at = "update", !.next = n]
    <2>1. n \in JobStatus /\ "update" \in Steps
      BY DEF JobStatus, Steps
    <2>2. m.at = "update" /\ m.next = n /\ m.job = w.job
      <3>1. w \in [at: Steps, job: Jobs, copy: JobRecords, next: JobStatus]
        BY <1>1, HandlerType
      <3> QED
        BY <2>1, <3>1, MovedType
    <2>3. Intends(m, manifest)
      BY <1>3, <2>2 DEF Intends
    <2> QED
      BY <1>1, <1>2, <1>3, <2>1, <2>3, GoingOnKeeps DEF Reconcile
  <1>4. CASE /\ manifest[w.job] # NoManifest
             /\ Become(h, [w EXCEPT !.at = "update", !.next = manifest[w.job].status])
    <2>1. manifest[w.job].status \in Terminal
      BY <1>1, <1>4 DEF PlaneInv, RunnerInv, RunnerTypeOK, Manifests, Statuses, Terminal
    <2> QED
      BY <1>3, <1>4, <2>1
  <1>5. CASE Become(h, [w EXCEPT !.at = "update"])
    <2>1. w.next = "FAILED"
      BY <1>1, HandlerType DEF CopySound, Intends
    <2>2. [w EXCEPT !.at = "update"] = [w EXCEPT !.at = "update", !.next = "FAILED"]
      BY <1>1, <2>1, HandlerType
    <2> QED
      BY <1>3, <1>5, <2>2 DEF Terminal
  <1>6. CASE Done(h)
    BY <1>1, <1>2, <1>6, GivingUpKeeps DEF Reconcile
  <1> QED
    BY <1>4, <1>5, <1>6 DEF Reconcile

(* A copy written back.                                                    *)
LEMMA WriteUpdateKeeps ==
    ASSUME ControlPlaneAssumption, PlaneInv, NEW h \in Handlers, WriteUpdate(h),
           UNCHANGED runnerVars
    PROVE  PlaneInv'
  <1> DEFINE w == handler[h]
             x == [w.copy EXCEPT !.status = w.next]
  <1>1. /\ w.at = "update" /\ w.at \in Steps \ {"put"}
        /\ w.job \in Jobs /\ w.copy \in JobRecords /\ w.next \in JobStatus
        /\ CopySound(w, rec, manifest)
    BY HandlerType DEF WriteUpdate, At, Steps
  <1>2. x \in JobRecords /\ x.status = w.next /\ x.inputs = w.copy.inputs
    BY <1>1 DEF JobRecords
  <1>3. rec' = [rec EXCEPT ![w.job] = x] /\ Done(h)
    BY DEF WriteUpdate, Update
  <1>4. rec[w.job] # NoRecord /\ x.inputs = rec[w.job].inputs /\ Intends(w, manifest)
    BY <1>1, <1>2 DEF CopySound
  <1>5. RunnersRest /\ manifest' = manifest
    BY RestedRunners DEF PlaneInv
  <1>6. /\ x.status # "QUEUED"
        /\ x.status = "SUCCEEDED" =>
              manifest'[w.job] # NoManifest /\ manifest'[w.job].status = "SUCCEEDED"
    BY <1>1, <1>2, <1>4, <1>5 DEF Intends, Terminal
  <1>7. /\ handler' \in [Handlers -> HandlerStates]
        /\ \A g \in Handlers :
              \/ handler'[g] = handler[g]
              \/ handler[g].at # "enqueue" /\ CopySound(handler'[g], rec', manifest')
    BY <1>1, <1>3, IdleSound DEF Done, Become, PlaneInv, PlaneTypes
  <1>8. queue' \in [Jobs -> 0..MaxSends] /\ queue'[w.job] <= queue[w.job]
        /\ \A k \in Jobs \ {w.job} : queue'[k] = queue[k]
    BY <1>1 DEF WriteUpdate, PlaneInv, PlaneTypes, ControlPlaneAssumption
  <1> HIDE DEF w, x
  <1> QED
    BY <1>1, <1>2, <1>3, <1>4, <1>5, <1>6, <1>7, <1>8, RecordWritten DEF WriteUpdate

(* An approval leaves a queued job and the handler that will send its      *)
(* message.                                                                *)
LEMMA ApproveUpdateKeeps ==
    ASSUME ControlPlaneAssumption, PlaneInv, NEW h \in Handlers, ApproveUpdate(h),
           UNCHANGED runnerVars
    PROVE  PlaneInv'
  <1> DEFINE w == handler[h]
             x == [w.copy EXCEPT !.status = w.next]
             m == [w EXCEPT !.at = "enqueue"]
  <1>1. /\ w.at = "approve" /\ w.at \in Steps \ {"put"}
        /\ w.job \in Jobs /\ w.copy \in JobRecords /\ w.next \in JobStatus
        /\ CopySound(w, rec, manifest)
        /\ w \in [at: Steps, job: Jobs, copy: JobRecords, next: JobStatus]
    BY HandlerType DEF ApproveUpdate, At, Steps
  <1>2. x \in JobRecords /\ x.status = w.next /\ x.inputs = w.copy.inputs
    BY <1>1 DEF JobRecords
  <1>3. rec' = [rec EXCEPT ![w.job] = x] /\ Become(h, m)
    BY DEF ApproveUpdate, Update
  <1>4. rec[w.job] # NoRecord /\ x.inputs = rec[w.job].inputs /\ x.status = "QUEUED"
    BY <1>1, <1>2 DEF CopySound, Intends
  <1>5. RunnersRest /\ manifest' = manifest
    BY RestedRunners DEF PlaneInv
  <1>6. /\ m \in HandlerStates /\ m.at = "enqueue" /\ m.job = w.job
        /\ m.copy = w.copy /\ m.next = w.next
    BY <1>1 DEF HandlerStates, Steps
  <1>7. rec'[w.job] = x /\ x # NoRecord
    BY <1>1, <1>2, <1>3 DEF PlaneInv, PlaneTypes, ControlPlaneAssumption
  <1> HIDE DEF x, m, w
  <1>8. CopySound(m, rec', manifest')
    BY <1>2, <1>6, <1>7 DEF CopySound, Intends
  <1>9. /\ handler' \in [Handlers -> HandlerStates] /\ handler'[h] = m
        /\ \A g \in Handlers :
              \/ handler'[g] = handler[g]
              \/ handler[g].at # "enqueue" /\ CopySound(handler'[g], rec', manifest')
    BY <1>1, <1>3, <1>6, <1>8 DEF Become, PlaneInv, PlaneTypes, w
  <1>10. \E g \in Handlers : At(g, "enqueue")' /\ handler'[g].job = w.job
    BY <1>6, <1>9 DEF At
  <1>11. queue' \in [Jobs -> 0..MaxSends] /\ queue'[w.job] <= queue[w.job]
        /\ \A k \in Jobs \ {w.job} : queue'[k] = queue[k]
    BY <1>1 DEF ApproveUpdate, PlaneInv, PlaneTypes, ControlPlaneAssumption
  <1> QED
    BY <1>1, <1>2, <1>3, <1>4, <1>5, <1>9, <1>10, <1>11, RecordWritten DEF ApproveUpdate

(* Of racing submissions one creates the job; the others are answered with *)
(* it if their inputs are its inputs.                                      *)
LEMMA PutKeeps ==
    ASSUME ControlPlaneAssumption, PlaneInv, NEW h \in Handlers, PutIfNotExists(h),
           UNCHANGED runnerVars
    PROVE  PlaneInv'
  <1> DEFINE w == handler[h]
  <1>1. /\ w.at = "put" /\ w.at \in Steps /\ w.job \in Jobs
        /\ w.copy \in JobRecords /\ w.next \in JobStatus
        /\ CopySound(w, rec, manifest)
        /\ w \in [at: Steps, job: Jobs, copy: JobRecords, next: JobStatus]
    BY HandlerType DEF PutIfNotExists, At, Steps
  <1>0. PICK j \in Jobs : j = w.job
    BY <1>1
  <1>2. RunnersRest /\ manifest' = manifest
    BY RestedRunners DEF PlaneInv
  <1>3. CASE rec[j] # NoRecord
    <2>1. w.copy.inputs \in Inputs
      BY <1>1 DEF JobRecords
    <2>2. Answers
      BY <1>1, <1>0, <1>3, <2>1 DEF PutIfNotExists, Answers
    <2> QED
      BY <1>1, <1>0, <1>2, <1>3, <2>2, IdleSound, HandlerMoves DEF PutIfNotExists, Done
  <1>4. CASE rec[j] = NoRecord
    <2> DEFINE m == [w EXCEPT !.at = "enqueue"]
               x == w.copy
    <2>1. /\ rec' = [rec EXCEPT ![j] = x]
          /\ created' = [created EXCEPT ![j] = @ + 1]
          /\ accepted' = accepted \union {<<j, x.inputs>>}
          /\ IF w.next = "QUEUED" THEN Become(h, m) ELSE Done(h)
          /\ UNCHANGED <<queue, sends, refused>>
      BY <1>0, <1>4 DEF PutIfNotExists
    <2>2. /\ x \in JobRecords /\ x # NoRecord /\ x.inputs \in Inputs
          /\ x.status = w.next /\ w.next \in {"PENDING_APPROVAL", "QUEUED"}
      BY <1>1 DEF ControlPlaneAssumption, CopySound, JobRecords
    <2>3. /\ m \in HandlerStates /\ m.at = "enqueue" /\ m.job = j /\ m.copy = x
      BY <1>1, <1>0 DEF HandlerStates, Steps
    <2>4. /\ rec'[j] = x /\ created'[j] = created[j] + 1
          /\ \A k \in Jobs \ {j} : rec'[k] = rec[k] /\ created'[k] = created[k]
          /\ rec' \in [Jobs -> JobRecords \union {NoRecord}]
          /\ created' \in [Jobs -> Nat]
      BY <1>1, <2>1, <2>2 DEF PlaneInv, PlaneTypes
    <2> HIDE DEF m, x, w
    <2>5. CopySound(m, rec', manifest')
      BY <2>2, <2>3, <2>4 DEF CopySound, Intends
    <2>6. /\ handler' \in [Handlers -> HandlerStates]
          /\ \A g \in Handlers \ {h} : handler'[g] = handler[g]
          /\ CopySound(handler'[h], rec', manifest')
          /\ w.next = "QUEUED" => handler'[h] = m
      BY <2>1, <2>3, <2>5, IdleSound DEF Become, Done, PlaneInv, PlaneTypes
    <2>7. PlaneTypes'
      BY <1>1, <2>1, <2>2, <2>4, <2>6 DEF PlaneTypes, PlaneInv
    <2>8. RecordsStay
      BY <1>4, <2>4 DEF RecordsStay
    <2>9. ASSUME NEW k \in Jobs, k # j PROVE JobSound(k)'
      <3>1. \A g \in Handlers : At(g, "enqueue") => handler'[g] = handler[g]
        BY <1>1, <2>6 DEF At, w
      <3>2. queue[k] \in Nat /\ queue[k] <= sends[k] /\ (rec[k] = NoRecord => queue[k] = 0)
        BY DEF PlaneInv, PlaneTypes, JobSound
      <3>3. \A i \in Inputs : <<k, i>> \in accepted' => <<k, i>> \in accepted
        BY <2>1, <2>9
      <3> QED
        BY <1>2, <2>1, <2>4, <2>9, <3>1, <3>2, <3>3, JobKept DEF RunnersRest
    <2>10. JobSound(j)'
      <3>1. JobSound(j) /\ created[j] = 0 /\ queue[j] = 0
        BY <1>1, <1>4 DEF PlaneInv, JobSound
      <3>2. \A i \in Inputs : <<j, i>> \in accepted' => i = x.inputs
        BY <1>1, <1>4, <2>1, <3>1 DEF JobSound
      <3>3. x.status = "QUEUED" => At(h, "enqueue")' /\ handler'[h].job = j
        BY <2>2, <2>3, <2>6 DEF At
      <3>4. Has(j, {"QUEUED"})' =>
               \E g \in Handlers : At(g, "enqueue")' /\ handler'[g].job = j
        BY <2>4, <3>3 DEF Has
      <3>5. ~Has(j, {"SUCCEEDED"})'
        BY <2>2, <2>4 DEF Has
      <3> QED
        BY <2>1, <2>2, <2>4, <3>1, <3>2, <3>4, <3>5 DEF JobSound
    <2> QED
      BY <1>2, <2>6, <2>7, <2>8, <2>9, <2>10, Assembled
  <1> QED
    BY <1>3, <1>4

LEMMA EnqueueKeeps ==
    ASSUME ControlPlaneAssumption, PlaneInv, NEW h \in Handlers, Enqueue(h),
           UNCHANGED runnerVars
    PROVE  PlaneInv'
  <1>1. /\ handler[h].at = "enqueue" /\ handler[h].at \in Steps \ {"put"}
        /\ handler[h].job \in Jobs /\ rec[handler[h].job] # NoRecord
    BY HandlerType DEF Enqueue, At, Steps, CopySound
  <1>2. PICK j \in Jobs : j = handler[h].job
    BY <1>1
  <1>3. RunnersRest /\ manifest' = manifest /\ RecordsStay
    BY RestedRunners DEF PlaneInv, Enqueue, RecordsStay
  <1>4. /\ handler' \in [Handlers -> HandlerStates]
        /\ \A g \in Handlers \ {h} : handler'[g] = handler[g]
        /\ CopySound(handler'[h], rec', manifest')
    BY IdleSound DEF Enqueue, Done, Become, PlaneInv, PlaneTypes
  <1>5. \A k \in Jobs :
          /\ queue[k] \in Nat /\ sends[k] \in Nat /\ queue[k] <= sends[k]
          /\ sends[k] <= MaxSends /\ (rec[k] = NoRecord => queue[k] = 0)
    BY DEF PlaneInv, PlaneTypes, JobSound, ControlPlaneAssumption
  <1>6. /\ queue' \in [Jobs -> 0..MaxSends] /\ sends' \in [Jobs -> 0..MaxSends]
        /\ \A k \in Jobs : queue'[k] <= sends'[k] /\ queue[k] <= queue'[k]
        /\ \A k \in Jobs \ {j} : queue'[k] = queue[k]
        /\ queue'[j] > 0 \/ j \in refused'
        /\ refused \subseteq refused' /\ refused' \subseteq Jobs
    <2>1. CASE /\ sends[j] < MaxSends
               /\ UNCHANGED refused
               /\ queue' = [queue EXCEPT ![j] = @ + 1]
               /\ sends' = [sends EXCEPT ![j] = @ + 1]
      <3>1. queue[j] + 1 \in 0..MaxSends /\ sends[j] + 1 \in 0..MaxSends
        BY <1>5, <2>1 DEF ControlPlaneAssumption
      <3> QED
        BY <1>5, <2>1, <3>1 DEF PlaneInv, PlaneTypes
    <2>2. CASE refused' = refused \union {j} /\ UNCHANGED <<queue, sends>>
      BY <1>5, <2>2 DEF PlaneInv, PlaneTypes
    <2> QED
      BY <1>2, <2>1, <2>2 DEF Enqueue
  <1>7. PlaneTypes'
    BY <1>4, <1>6 DEF PlaneTypes, PlaneInv, Enqueue
  <1>8. ASSUME NEW k \in Jobs PROVE JobSound(k)'
    <2>1. /\ queue'[k] \in Nat /\ queue'[k] <= sends'[k] /\ (queue[k] > 0 => queue'[k] > 0)
      BY <1>5, <1>6 DEF ControlPlaneAssumption
    <2>2. rec[k] = NoRecord => queue'[k] = 0
      BY <1>1, <1>2, <1>5, <1>6
    <2>3. \A g \in Handlers : At(g, "enqueue") /\ handler[g].job = k =>
             handler'[g] = handler[g] \/ queue'[k] > 0 \/ k \in refused'
      BY <1>2, <1>4, <1>6
    <2>4. /\ rec'[k] = rec[k] /\ created'[k] = created[k]
          /\ \A i \in Inputs : <<k, i>> \in accepted' => <<k, i>> \in accepted
      BY DEF Enqueue
    <2> QED
      BY <1>3, <1>6, <2>1, <2>2, <2>3, <2>4, JobKept DEF RunnersRest
  <1> QED
    BY <1>3, <1>4, <1>7, <1>8, Assembled

(* The platform starts a job for a message that is in the queue, so for a  *)
(* job that is in the table.                                               *)
LEMMA StartKeeps ==
    ASSUME ControlPlaneAssumption, PlaneInv, NEW r \in Runners, NEW j \in Jobs,
           NEW deleted \in BOOLEAN, NEW known \in BOOLEAN, Start(r, j, deleted, known)
    PROVE  PlaneInv'
  <1> DEFINE x == [rec[j] EXCEPT !.status = "RUNNING", !.started = TRUE,
                                 !.exec = IF known THEN r ELSE @]
  <1>1. rec[j] # NoRecord /\ queue[j] \in 0..MaxSends /\ queue[j] > 0
    BY DEF Start, PlaneInv, JobSound, PlaneTypes
  <1>2. x \in JobRecords /\ x.status = "RUNNING" /\ x.inputs = rec[j].inputs
    <2>1. rec[j] \in JobRecords
      BY <1>1, RecordType
    <2> QED
      BY <2>1 DEF JobRecords, JobStatus
  <1>3. RunnersRest
    BY <1>1, LaunchRests DEF Start, Launch, PlaneInv
  <1>4. rec' = [rec EXCEPT ![j] = x]
    BY DEF Start
  <1>5. /\ queue' \in [Jobs -> 0..MaxSends] /\ queue'[j] <= queue[j]
        /\ \A k \in Jobs \ {j} : queue'[k] = queue[k]
    <2>1. queue[j] - 1 \in 0..MaxSends
      BY <1>1 DEF ControlPlaneAssumption
    <2> QED
      BY <1>1, <2>1 DEF Start, PlaneInv, PlaneTypes, ControlPlaneAssumption
  <1>6. handler' \in [Handlers -> HandlerStates] /\ \A h \in Handlers : handler'[h] = handler[h]
    BY DEF Start, PlaneInv, PlaneTypes
  <1> HIDE DEF x
  <1> QED
    BY <1>1, <1>2, <1>3, <1>4, <1>5, <1>6, RecordWritten DEF Start

(* An exit code is believed: it is backed by the manifest.                 *)
LEMMA ReportKeeps ==
    ASSUME ControlPlaneAssumption, PlaneInv, NEW r \in Runners, Report(r),
           UNCHANGED runnerVars
    PROVE  PlaneInv'
  <1> DEFINE Code == IF run[r].pc = "killed" THEN "FAILED"
                     ELSE IF run[r].ret = EXIT_SUCCESS THEN "SUCCEEDED"
                     ELSE IF run[r].ret = EXIT_CANCELLED THEN "CANCELLED"
                     ELSE "FAILED"
             x == [rec[run[r].job] EXCEPT !.status = Code]
  <1>1. run[r].pc \in {"ended", "refused", "killed"} /\ Knows(r) /\ run[r].pc # "idle"
    BY DEF Report, PlaneInv, RunnerInv
  <1>2. PICK j \in Jobs : j = run[r].job
    BY <1>1 DEF Knows
  <1>3. rec[j] # NoRecord /\ rec[j] \in JobRecords
    BY <1>1, <1>2, RecordType DEF PlaneInv, RunsKnown
  <1>4. /\ Code \in Terminal
        /\ Code = "SUCCEEDED" => manifest[j] # NoManifest /\ manifest[j].status = "SUCCEEDED"
    <2>1. Code = "SUCCEEDED" => run[r].pc = "ended" /\ run[r].ret = EXIT_SUCCESS
      BY <1>1 DEF Knows
    <2> QED
      BY <1>1, <1>2, <2>1 DEF Knows, Backed, Terminal
  <1>5. rec' = [rec EXCEPT ![j] = x]
    BY <1>2 DEF Report
  <1> HIDE DEF Code
  <1>6. /\ x \in JobRecords /\ x.status = Code /\ x.inputs = rec[j].inputs
        /\ x.status # "QUEUED"
    BY <1>2, <1>3, <1>4 DEF JobRecords, JobStatus, Terminal
  <1>7. RunnersRest /\ manifest' = manifest
    BY RestedRunners DEF PlaneInv
  <1>8. /\ queue' \in [Jobs -> 0..MaxSends] /\ queue'[j] <= queue[j]
        /\ \A k \in Jobs \ {j} : queue'[k] = queue[k]
    BY DEF Report, PlaneInv, PlaneTypes, ControlPlaneAssumption
  <1>9. handler' \in [Handlers -> HandlerStates] /\ \A h \in Handlers : handler'[h] = handler[h]
    BY DEF Report, PlaneInv, PlaneTypes
  <1> HIDE DEF x
  <1> QED
    BY <1>3, <1>4, <1>5, <1>6, <1>7, <1>8, <1>9, RecordWritten DEF Report

LEMMA ExecutionKeeps ==
    ASSUME ControlPlaneAssumption, PlaneInv, RunnersRest, UNCHANGED planeVars
    PROVE  PlaneInv'
  <1>1. PlaneTypes' /\ RecordsStay /\ \A h \in Handlers : handler'[h] = handler[h]
    BY DEF planeVars, PlaneInv, PlaneTypes, RecordsStay
  <1>2. ASSUME NEW j \in Jobs PROVE JobSound(j)'
    <2>1. queue[j] \in Nat /\ queue[j] <= sends[j] /\ (rec[j] = NoRecord => queue[j] = 0)
      BY DEF PlaneInv, PlaneTypes, JobSound, ControlPlaneAssumption
    <2> QED
      BY <1>1, <2>1, JobKept DEF planeVars, RunnersRest
  <1> QED
    BY <1>1, <1>2, Assembled

------------------------------------------------------------------------------
(* The initial state and every step of the deployment.                     *)
LEMMA PlaneStarts == ASSUME ControlPlaneAssumption, Init PROVE PlaneInv
  <1>1. RunnerInv
    BY RunnerStarts DEF Init
  <1>2. PlaneTypes
    BY IdleSound DEF Init, PlaneTypes, ControlPlaneAssumption
  <1>3. ASSUME NEW h \in Handlers PROVE CopySound(handler[h], rec, manifest)
    BY <1>3, IdleSound DEF Init
  <1>4. RunsKnown
    BY DEF Init, RunnerInit, RunsKnown
  <1>5. ASSUME NEW j \in Jobs PROVE JobSound(j)
    BY DEF Init, JobSound, Has
  <1> QED
    BY <1>1, <1>2, <1>3, <1>4, <1>5 DEF PlaneInv

LEMMA PlaneKeeps ==
    ASSUME ControlPlaneAssumption, PlaneInv, [Next]_vars
    PROVE  PlaneInv'
  <1>1. CASE UNCHANGED vars
    BY <1>1, RestedRunners, ExecutionKeeps DEF vars, PlaneInv
  <1>2. ASSUME NEW h \in Handlers, NEW j \in Jobs, Request(h, j) \/ Query(h, j),
               UNCHANGED runnerVars
        PROVE  PlaneInv'
    BY <1>2, SubmitKeeps, ApproveKeeps, CancelKeeps, QueryKeeps DEF Request
  <1>3. ASSUME NEW h \in Handlers, Handle(h), UNCHANGED runnerVars
        PROVE  PlaneInv'
    BY <1>3, PutKeeps, EnqueueKeeps, ApproveUpdateKeeps, WriteUpdateKeeps, ReconcileKeeps
       DEF Handle
  <1>4. ASSUME NEW r \in Runners, RunnerStep(r) \/ Signal(r) \/ Kill(r), UNCHANGED planeVars
        PROVE  PlaneInv'
    BY <1>4, RunnerRests, ExecutionKeeps DEF PlaneInv
  <1> QED
    BY <1>1, <1>2, <1>3, <1>4, StopJobKeeps, StartKeeps, ReportKeeps DEF Next

LEMMA PlaneInvariance == ControlPlaneAssumption => (Spec => []PlaneInv)
  <1>1. SUFFICES ASSUME ControlPlaneAssumption PROVE Spec => []PlaneInv
    OBVIOUS
  <1>2. Init => PlaneInv
    BY <1>1, PlaneStarts
  <1>3. PlaneInv /\ [Next]_vars => PlaneInv'
    BY <1>1, PlaneKeeps
  <1> QED
    BY <1>2, <1>3, PTL DEF Spec

(* However submissions of one key race, one creates the job and all that   *)
(* are answered with it asked for its inputs; and whatever stale copies,   *)
(* reconciliations and reports are written, a job that has succeeded has a *)
(* committed manifest that says so.                                        *)
THEOREM TableIsSound == ControlPlaneAssumption => (Spec => []JobTableSound)
  <1>1. ASSUME PlaneInv PROVE JobTableSound
    <2>1. TypeOK
      BY <1>1 DEF PlaneInv, PlaneTypes, RunnerInv, TypeOK
    <2>2. KeyMeansInputs
      BY <1>1 DEF PlaneInv, JobSound, KeyMeansInputs
    <2>3. SuccessIsCommitted
      BY <1>1 DEF PlaneInv, JobSound, SuccessIsCommitted
    <2> QED
      BY <2>1, <2>2, <2>3 DEF JobTableSound
  <1> QED
    BY <1>1, PlaneInvariance, PTL

(* While the queue takes messages, a queued job has one, or a request that *)
(* is about to send it, for any number of replicas with copies of any age. *)
THEOREM QueuedJobsServed == ControlPlaneAssumption => (Spec => []QueuedIsServed)
  <1>1. PlaneInv => QueuedIsServed
    BY DEF PlaneInv, JobSound, QueuedIsServed
  <1> QED
    BY <1>1, PlaneInvariance, PTL

(* In the deployment too an execution's exit code is backed by what is     *)
(* committed.                                                              *)
THEOREM DeployedExits == ControlPlaneAssumption => (Spec => []ExitsSound)
  <1>1. PlaneInv => ExitsSound
    BY DEF PlaneInv, RunnerInv, Knows, Backed, ExitCodeTruthful, LeavesManifest, ExitsSound
  <1> QED
    BY <1>1, PlaneInvariance, PTL
=============================================================================
