----------------------------- MODULE CloudRunner -----------------------------
(***************************************************************************)
(* The container that runs one research job in a cloud deployment          *)
(* (src/deploy/runner.py) and the artifact store it commits to             *)
(* (src/deploy/storage.py).  Several executions of one job may exist: the  *)
(* queue delivers at least once and a job may be approved twice.  The      *)
(* manifest is the commit: whoever creates it first decides what the job   *)
(* came to, and every other execution has to live with it.                 *)
(*                                                                         *)
(* The artifacts of a job are one value, the execution whose files lie     *)
(* under the job's keys; the research is one step with either outcome.     *)
(***************************************************************************)
EXTENDS Naturals

CONSTANTS
    Jobs,        \* job ids
    NoJob,       \* the job of an execution that was never launched
    Runners,     \* executions
    NoRunner,    \* no execution
    NoManifest,  \* an absent manifest
    Troubled     \* executions whose requests to the artifact store, or whose
                 \* reads of their own output (build_manifest), may raise

Statuses == {"SUCCEEDED", "FAILED", "CANCELLED"}
Manifests == [status: Statuses, by: Runners]

ASSUME RunnerAssumption ==
    /\ NoJob \notin Jobs
    /\ NoRunner \notin Runners
    /\ NoManifest \notin Manifests
    /\ Troubled \subseteq Runners

VARIABLES
    run,       \* execution |-> state of its process
    manifest,  \* job |-> manifest.json
    stored     \* job |-> execution whose artifacts lie in the store

runnerVars == <<run, manifest, stored>>

EXIT_SUCCESS == 0
EXIT_FAILURE == 1
EXIT_INVALID_SPEC == 2
EXIT_CANCELLED == 130
ExitCodes == {EXIT_SUCCESS, EXIT_FAILURE, EXIT_INVALID_SPEC, EXIT_CANCELLED}

(* Where main is.  "refused" ended before its try block, "killed" by the   *)
(* platform; "ended" returned ret.                                         *)
PCs == {"idle", "setup", "research", "upload", "commit", "late", "failing",
        "finally", "ended", "refused", "killed"}

(* term: _state.cancel_requested.  status: what run_primr came to.         *)
Processes == [pc: PCs, job: Jobs \union {NoJob}, term: BOOLEAN,
              status: Statuses \union {"none"}, ret: ExitCodes]

RunnerTypeOK ==
    /\ run \in [Runners -> Processes]
    /\ manifest \in [Jobs -> Manifests \union {NoManifest}]
    /\ stored \in [Jobs -> Runners \union {NoRunner}]

RunnerInit ==
    /\ run = [r \in Runners |-> [pc |-> "idle", job |-> NoJob, term |-> FALSE,
                                status |-> "none", ret |-> EXIT_SUCCESS]]
    /\ manifest = [j \in Jobs |-> NoManifest]
    /\ stored = [j \in Jobs |-> NoRunner]

------------------------------------------------------------------------------
Alive(r) == run[r].pc \notin {"idle", "ended", "refused", "killed"}

Goto(r, pc) == run' = [run EXCEPT ![r].pc = pc]
Return(r, code) == run' = [run EXCEPT ![r].pc = "finally", ![r].ret = code]

(* The platform starts an execution of j.                                  *)
Launched(r, j) ==
    /\ run[r].pc = "idle"
    /\ run' = [run EXCEPT ![r].pc = "setup", ![r].job = j]

(* main up to its try block: a bad specification or store address ends it  *)
(* without a manifest.                                                     *)
Setup(r) ==
    /\ run[r].pc = "setup"
    /\ \/ Goto(r, "research")
       \/ \E code \in {EXIT_FAILURE, EXIT_INVALID_SPEC} :
             run' = [run EXCEPT ![r].pc = "refused", ![r].ret = code]
    /\ UNCHANGED <<manifest, stored>>

(* handle_sigterm, or the platform's SIGKILL.                              *)
Signal(r) ==
    /\ Alive(r)
    /\ run' = [run EXCEPT ![r].term = TRUE]
    /\ UNCHANGED <<manifest, stored>>

Kill(r) ==
    /\ Alive(r)
    /\ Goto(r, "killed")
    /\ UNCHANGED <<manifest, stored>>

(* main: a requested cancellation overrides what the child returned.       *)
StatusOf(term, ok) ==
    IF term THEN "CANCELLED" ELSE IF ok THEN "SUCCEEDED" ELSE "FAILED"

(* run_primr returns, or something in it raises.                           *)
Research(r) ==
    /\ run[r].pc = "research"
    /\ \/ \E ok \in BOOLEAN :
             run' = [run EXCEPT ![r].pc = "upload",
                                ![r].status = StatusOf(run[r].term, ok)]
       \/ Goto(r, "failing")
    /\ UNCHANGED <<manifest, stored>>

(* _upload_artifacts_to_store overwrites the job's keys and only logs a    *)
(* failure.                                                                *)
Upload(r) ==
    /\ run[r].pc = "upload"
    /\ Goto(r, "commit")
    /\ \/ stored' = [stored EXCEPT ![run[r].job] = r]
       \/ r \in Troubled /\ UNCHANGED stored
    /\ UNCHANGED manifest

(* A manifest write without the if-none-match condition.                   *)
PutManifestUnconditional(r, s) ==
    manifest' = [manifest EXCEPT ![run[r].job] = [status |-> s, by |-> r]]

(* put_manifest: creates the object or finds it there, in one step, as the *)
(* conditional requests of the cloud stores do.  (LocalStore, for testing, *)
(* checks under the lock of one process and renames.)                      *)
PutManifest(r, s) ==
    manifest' = IF manifest[run[r].job] = NoManifest
                THEN [manifest EXCEPT ![run[r].job] = [status |-> s, by |-> r]]
                ELSE manifest

(* A request that fails may have reached the store before it failed; when  *)
(* build_manifest raises there was no request.                             *)
PutFails(r, s) == r \in Troubled /\ (PutManifest(r, s) \/ UNCHANGED manifest)

(* map_exit_code of what run_primr returned.                               *)
ExitCodeOf(s) ==
    CASE s = "SUCCEEDED" -> EXIT_SUCCESS
      [] s = "CANCELLED" -> EXIT_CANCELLED
      [] OTHER -> EXIT_FAILURE

(* The commit: created, already there, or an exception.                    *)
Commit(r) ==
    LET s == run[r].status
        exists == manifest[run[r].job] # NoManifest
    IN  /\ run[r].pc = "commit"
        /\ \/ /\ PutManifest(r, s)
              /\ IF exists THEN Goto(r, "late") ELSE Return(r, ExitCodeOf(s))
           \/ /\ PutFails(r, s)
              /\ Goto(r, "failing")
        /\ UNCHANGED stored

(* A late writer that believes its own outcome.                            *)
LateExitCodeOwn(r) == ExitCodeOf(run[r].status)

LateExitCode(r) ==
    IF manifest[run[r].job].status = "SUCCEEDED" THEN EXIT_SUCCESS
    ELSE EXIT_FAILURE

(* Another execution was first: its manifest decides the exit code.        *)
LateWriter(r) ==
    /\ run[r].pc = "late"
    /\ \/ Return(r, LateExitCode(r))
       \/ r \in Troubled /\ Goto(r, "failing")
    /\ UNCHANGED <<manifest, stored>>

(* The except block: a FAILED manifest if there is none; what raises in    *)
(* build_manifest or in the request is swallowed.                          *)
HandleException(r) ==
    /\ run[r].pc = "failing"
    /\ PutManifest(r, "FAILED") \/ PutFails(r, "FAILED")
    /\ Return(r, EXIT_FAILURE)
    /\ UNCHANGED stored

(* The finally block: a CANCELLED manifest after a signal, if there is     *)
(* none.                                                                   *)
Finally(r) ==
    /\ run[r].pc = "finally"
    /\ IF run[r].term
       THEN PutManifest(r, "CANCELLED") \/ PutFails(r, "CANCELLED")
       ELSE UNCHANGED manifest
    /\ Goto(r, "ended")
    /\ UNCHANGED stored

RunnerStep(r) ==
    \/ Setup(r) \/ Research(r) \/ Upload(r) \/ Commit(r) \/ LateWriter(r)
    \/ HandleException(r) \/ Finally(r)

Launch(r, j) == Launched(r, j) /\ UNCHANGED <<manifest, stored>>

RunnerNext ==
    \E r \in Runners :
        \/ \E j \in Jobs : Launch(r, j)
        \/ RunnerStep(r) \/ Signal(r) \/ Kill(r)

RunnerSpec == RunnerInit /\ [][RunnerNext]_runnerVars

------------------------------------------------------------------------------
(* The exit code tells the orchestrator what was committed, also after a   *)
(* late write, a failed one, or a signal between decision and commit:      *)
(* success and cancellation are reported only when the manifest says so,   *)
(* whoever wrote it.                                                       *)
ExitCodeTruthful ==
    \A r \in Runners : run[r].pc = "ended" =>
        LET m == manifest[run[r].job]
        IN  /\ run[r].ret = EXIT_SUCCESS =>
                    m # NoManifest /\ m.status = "SUCCEEDED"
            /\ run[r].ret = EXIT_CANCELLED =>
                    m # NoManifest /\ m.status = "CANCELLED"

(* An execution that got past its setup and was not killed leaves a        *)
(* manifest behind, whatever went wrong in its research, if the store and  *)
(* its own output can be read: the reconciler need not wait for a timeout. *)
LeavesManifest ==
    \A r \in Runners \ Troubled :
        run[r].pc = "ended" => manifest[run[r].job] # NoManifest

(* What an execution leaves for others to read is what became of it.       *)
ExitsSound == ExitCodeTruthful /\ LeavesManifest

(* A manifest is never replaced: what a client read as the result stays    *)
(* the result, although three places of main write it.                     *)
CommitOnce ==
    [][\A j \in Jobs : manifest[j] # NoManifest => manifest'[j] = manifest[j]]_runnerVars

==============================================================================
