----------------------------- MODULE StatusWait ------------------------------
(***************************************************************************)
(* The long poll wait_for_status_change of the job store and its MCP tool. *)
(* All waiters share one asyncio.Event, and each clears it when it enters  *)
(* and whenever it wakes; a change sets it.  Everything runs on one event  *)
(* loop, so a step here is what happens between two awaits.  asyncio's     *)
(* wait_for starts event.wait() in a task of its own before Python 3.12    *)
(* (the project supports 3.11), so a waiter has checked the status some    *)
(* steps before it is on the event's list.                                 *)
(*                                                                         *)
(* One job is watched; it may be cleared, which is not announced.          *)
(***************************************************************************)
EXTENDS Naturals

CONSTANTS
    Waiters,  \* concurrent calls of the tool
    NoStatus     \* the job is not in the store

VARIABLES
    status,  \* get_status() of the job, or NoJob
    event,   \* the shared event is set
    wait     \* waiter |-> what it is doing

waitVars == <<status, event, wait>>

EndStatuses == {"completed", "failed", "cancelled"}
Statuses == {"queued", "in_progress"} \union EndStatuses

(* The order get_status can follow.                                        *)
Successors(s) ==
    CASE s = "queued" -> {"in_progress"} \union EndStatuses
      [] s = "in_progress" -> EndStatuses
      [] OTHER -> {}

(* at: "arming" checked and not yet on the event's list, "parked" on it,   *)
(* "woken" about to check again.  late: the caller's timeout has passed.   *)
Waiting == {"arming", "parked", "woken"}
Replies == {"changed", "unchanged", "gone"}
WaitStates ==
    [at: {"idle"} \union Waiting \union Replies,
     seen: Statuses, late: BOOLEAN]

WaitTypeOK ==
    /\ status \in Statuses \union {NoStatus}
    /\ event \in BOOLEAN
    /\ wait \in [Waiters -> WaitStates]

WaitInit ==
    /\ status = "queued"
    /\ event = FALSE
    /\ wait = [w \in Waiters |->
                  [at |-> "idle", seen |-> "queued", late |-> FALSE]]

WaitAt(w, at) == wait' = [wait EXCEPT ![w].at = at]

(* The tool reads the status; of a job without an outcome it awaits the    *)
(* change, which clears the event and checks once more.                    *)
Await(w) ==
    /\ wait[w].at = "idle"
    /\ status \in Statuses \ EndStatuses
    /\ wait' = [wait EXCEPT ![w] =
                   [at |-> "arming", seen |-> status, late |-> FALSE]]
    /\ event' = FALSE
    /\ UNCHANGED status

(* event.wait() starts: an event that is set is not waited for.            *)
Arm(w) ==
    /\ wait[w].at = "arming"
    /\ WaitAt(w, IF event THEN "woken" ELSE "parked")
    /\ UNCHANGED <<status, event>>

(* Event.set(): all that are on its list will run, cleared or not.         *)
Wake(v) == [v EXCEPT !.at = IF @ = "parked" THEN "woken" ELSE @]

(* update, apply_worker_snapshot, reconcile and mark_shutdown notify.      *)
Change ==
    /\ status # NoStatus
    /\ status' \in Successors(status)
    /\ event' = TRUE
    /\ wait' = [w \in Waiters |-> Wake(wait[w])]

(* clear, and create over a job with an outcome, do not.                   *)
Remove ==
    /\ status \in EndStatuses
    /\ status' = NoStatus
    /\ UNCHANGED <<event, wait>>

(* A wait that only ends by the event.                                     *)
PollNever(w) == FALSE /\ UNCHANGED waitVars

(* wait_for gives up after five seconds.                                   *)
Poll(w) ==
    /\ wait[w].at \in {"arming", "parked"}
    /\ WaitAt(w, "woken")
    /\ UNCHANGED <<status, event>>

(* The caller's timeout passes; the wait under way is no longer than it.   *)
Expire(w) ==
    /\ wait[w].at \in Waiting
    /\ ~wait[w].late
    /\ wait' = [wait EXCEPT ![w].late = TRUE]
    /\ UNCHANGED <<status, event>>

(* A waiter that looks at its deadline first.                              *)
ReplyHasty(w) ==
    IF wait[w].late THEN "unchanged"
    ELSE IF status = NoStatus THEN "gone"
    ELSE IF status # wait[w].seen THEN "changed"
    ELSE "arming"

(* The check at the head of the loop.                                      *)
Reply(w) ==
    IF status = NoStatus THEN "gone"
    ELSE IF status # wait[w].seen THEN "changed"
    ELSE IF wait[w].late THEN "unchanged"
    ELSE "arming"

(* A waiter runs again: it clears the event and checks.                    *)
Resume(w) ==
    /\ wait[w].at = "woken"
    /\ event' = FALSE
    /\ WaitAt(w, Reply(w))
    /\ UNCHANGED status

(* The tool answers and a new call may come.                               *)
Return(w) ==
    /\ wait[w].at \in Replies
    /\ WaitAt(w, "idle")
    /\ UNCHANGED <<status, event>>

WaiterStep(w) == Arm(w) \/ Poll(w) \/ Resume(w) \/ Return(w)

WaitNext ==
    \/ \E w \in Waiters : Await(w) \/ Expire(w) \/ WaiterStep(w)
    \/ Change
    \/ Remove

WaitSpec == WaitInit /\ [][WaitNext]_waitVars

(* The event loop runs what is ready, and its timers fire.                 *)
WaitFairSpec ==
    /\ WaitSpec
    /\ \A w \in Waiters : WF_waitVars(WaiterStep(w)) /\ WF_waitVars(Expire(w))

------------------------------------------------------------------------------
(* "Timeout, status unchanged" is said only of a job that has the status   *)
(* the caller knows, also when the change and the timeout come together.   *)
UnchangedIsTrue ==
    /\ []WaitTypeOK
    /\ [][\A w \in Waiters :
             wait[w].at # "unchanged" /\ wait'[w].at = "unchanged" =>
                 status = wait[w].seen]_waitVars

(* Every waiter learns of a change of its job: although the event can be   *)
(* cleared by another waiter before this one is on its list, the poll      *)
(* repairs the lost wakeup.                                                *)
ChangeIsAnswered ==
    \A w \in Waiters :
        wait[w].at \in Waiting /\ status # wait[w].seen
            ~> wait[w].at \in {"changed", "gone"}

==============================================================================
