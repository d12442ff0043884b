---------------------------- MODULE ResearchJob ----------------------------
(***************************************************************************)
(* The research job record of src/primr/mcp_server/job_store.py, the rules *)
(* by which it changes stage, and the two decisions the controller makes   *)
(* about what a worker process reports: whether a progress snapshot may    *)
(* replace the canonical record, and whether a terminal event agrees with  *)
(* the exit that was observed.  The module has no state of its own.        *)
(*                                                                         *)
(* Heartbeat, stage clocks, costs, scores and messages are left out.  Of   *)
(* completion_time the model keeps whether it is set, of output_paths      *)
(* whether the terminal manifest is listed.                                *)
(***************************************************************************)
EXTENDS Integers

CONSTANTS
    JobIds,        \* identifiers drawn by uuid4
    Owners,        \* owner_client_id
    MaxProgress,   \* upper clamp of stage_progress_percent, 100 in the code
    NoJob          \* None: no record in memory, no journal file on disk

ASSUME MaxProgressAssumption == MaxProgress \in Nat

(* Working stages in the order of _STAGE_ORDER; completed closes the list. *)
StageRank ==
    [idle |-> 0, accepted |-> 1, scraping |-> 2, extracting |-> 3,
     deep_research |-> 4, writing |-> 5, qa |-> 6, completed |-> 7]

OrderedStages == DOMAIN StageRank
Aborts == {"failed", "cancelled"}
Stages == OrderedStages \union Aborts
TerminalStages == Aborts \union {"completed"}
WorkingStages == Stages \ TerminalStages

CancelReasons == {"user_cancelled", "server_shutdown"}

(* error_type values the controller, its callers and the worker assign.    *)
ErrorTypes ==
    CancelReasons \union
    {"none", "server_restart", "worker_exit", "worker_protocol_error",
     "worker_spawn_failed", "worker_start_cancelled", "worker_error",
     "a2a_request_cancelled_before_worker_start", "a2a_working_event_failed"}

Job == [id: JobIds, owner: Owners, audit: BOOLEAN, stage: Stages,
        progress: 0..MaxProgress, error: ErrorTypes,
        completed: BOOLEAN, manifest: BOOLEAN]

NewJob(i, o) ==
    [id |-> i, owner |-> o, audit |-> FALSE, stage |-> "accepted",
     progress |-> 0, error |-> "none", completed |-> FALSE, manifest |-> FALSE]

IsTerminal(j) == j.stage \in TerminalStages

GetStatus(j) ==
    IF j.stage \in TerminalStages \union {"idle"} THEN j.stage ELSE "in_progress"

Clamp(p) == IF p > MaxProgress THEN MaxProgress ELSE p

CanAdvance(j, s) ==
    /\ ~IsTerminal(j)
    /\ \/ s \in Aborts
       \/ /\ s \in OrderedStages
          /\ j.stage \in OrderedStages
          /\ StageRank[s] > StageRank[j.stage]

(* advance_stage: the record is returned unchanged when it is refused.     *)
AdvanceStage(j, s, p) ==
    IF CanAdvance(j, s)
      THEN [j EXCEPT !.stage = s,
                     !.progress = IF s \in Aborts THEN @ ELSE Clamp(p),
                     !.completed = @ \/ s \in TerminalStages]
      ELSE j

(* The get, advance_stage, error_type sequence of every terminal commit.   *)
Terminated(j, s, e) ==
    IF CanAdvance(j, s) THEN [AdvanceStage(j, s, 0) EXCEPT !.error = e] ELSE j

(***************************************************************************)
(* apply_worker_snapshot.  A snapshot is a Job the worker serialised.      *)
(***************************************************************************)
(* Acceptance that forgets the committed outcome.                          *)
SnapshotAcceptedLate(canonical, snapshot, allowTerminal) ==
    /\ snapshot.id = canonical.id
    /\ IsTerminal(snapshot) /\ allowTerminal

SnapshotAccepted(canonical, snapshot, allowTerminal) ==
    /\ snapshot.id = canonical.id
    /\ ~IsTerminal(canonical)
    /\ \/ IsTerminal(snapshot) /\ allowTerminal
       \/ /\ ~IsTerminal(snapshot)
          /\ \/ StageRank[snapshot.stage] > StageRank[canonical.stage]
             \/ /\ snapshot.stage = canonical.stage
                /\ snapshot.progress >= canonical.progress

MergeSnapshot(canonical, snapshot) ==
    [snapshot EXCEPT !.id = canonical.id,
                     !.owner = canonical.owner,
                     !.audit = canonical.audit,
                     !.completed = IsTerminal(snapshot)]

(***************************************************************************)
(* worker_terminal_policy: what an observed exit may be read as.  Return   *)
(* codes are those of the POSIX build: -15 and -9 are SIGTERM and SIGKILL. *)
(***************************************************************************)
ExitSuccess == 0
ExitFailure == 1
ExitCancelled == 130
Sigterm == -15
Sigkill == -9

IsCancelReturnCode(rc) == rc \in {ExitCancelled, Sigterm, Sigkill}

(* `or "failed"`: the reason of a failure without an error type.           *)
FailureReason(e) == IF e = "none" THEN "failed" ELSE e

(* A policy that believes a "completed" event whatever the return code.    *)
TerminalEventIsBelieved(proposed, exitReason, rc, cancelReason) ==
    proposed.stage = "completed" \/ rc = ExitFailure

TerminalEventIsCompatible(proposed, exitReason, rc, cancelReason) ==
    \/ /\ proposed.stage = "completed"
       /\ rc = ExitSuccess
       /\ exitReason = "completed"
    \/ /\ proposed.stage = "failed"
       /\ rc = ExitFailure
       /\ exitReason = FailureReason(proposed.error)
    \/ /\ proposed.stage = "cancelled"
       /\ cancelReason = "user_cancelled"
       /\ exitReason = "user_cancelled"
       /\ proposed.error = "user_cancelled"
       /\ IsCancelReturnCode(rc)
=============================================================================
