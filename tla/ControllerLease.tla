--------------------------- MODULE ControllerLease ---------------------------
(***************************************************************************)
(* Several controller processes on one journal: ControllerLease of         *)
(* src/primr/mcp_server/job_store.py and controller_lifecycle of           *)
(* server.py.  A controller is entered by one or more co-hosted servers,   *)
(* accepts one job at a time, and gives the lease back when its last       *)
(* server leaves and nothing it started is left.  It may be killed at any  *)
(* time; the operating system then frees the lease while the worker lives  *)
(* on until it notices.                                                    *)
(*                                                                         *)
(* Of a job only its identity and whether it has an outcome is kept (the   *)
(* rest is JobController's and JobSupervisor's subject).                   *)
(***************************************************************************)
EXTENDS Naturals

CONSTANTS
    Controllers,   \* processes that may host servers
    Nobody,        \* no controller
    JobIds,        \* job ids; uuid4 does not repeat
    NoRecord,      \* an absent journal
    MaxUsers       \* bound: co-hosted servers per controller

ASSUME LeaseAssumption ==
    /\ Nobody \notin Controllers
    /\ MaxUsers \in Nat \ {0}
    /\ NoRecord \notin [id: JobIds, active: BOOLEAN]

VARIABLES
    holder,    \* the process whose descriptor holds the lock
    journal,   \* the file
    job,       \* controller |-> _job of its store
    phase,     \* controller |-> _controller_phase
    users,     \* controller |-> _controller_lifecycle_users
    shut,      \* controller |-> shutdown_started of its supervisor
    work,      \* controller |-> how far its job's worker is
    used,      \* job ids drawn so far
    orphans    \* jobs whose worker outlived its controller

vars == <<holder, journal, job, phase, users, shut, work, used, orphans>>

Records == [id: JobIds, active: BOOLEAN]

(* "starting" lasts no longer than one step: entry awaits nothing.         *)
Phases == {"inactive", "ready", "stopping", "failed"}

(* Before the child is asked for, while it is created, while it is, and    *)
(* when its exit was seen but not yet recorded.                            *)
Work == {"none", "admitted", "spawning", "running", "exited"}

TypeOK ==
    /\ holder \in Controllers \union {Nobody}
    /\ journal \in Records \union {NoRecord}
    /\ job \in [Controllers -> Records \union {NoRecord}]
    /\ phase \in [Controllers -> Phases]
    /\ users \in [Controllers -> 0..MaxUsers]
    /\ shut \in [Controllers -> BOOLEAN]
    /\ work \in [Controllers -> Work]
    /\ used \subseteq JobIds
    /\ orphans \subseteq JobIds

Init ==
    /\ holder = Nobody
    /\ journal = NoRecord
    /\ job = [c \in Controllers |-> NoRecord]
    /\ phase = [c \in Controllers |-> "inactive"]
    /\ users = [c \in Controllers |-> 0]
    /\ shut = [c \in Controllers |-> FALSE]
    /\ work = [c \in Controllers |-> "none"]
    /\ used = {}
    /\ orphans = {}

------------------------------------------------------------------------------
IsActive(r) == r # NoRecord /\ r.active

Settled(r) == IF r = NoRecord THEN r ELSE [r EXCEPT !.active = FALSE]

(* What c's store holds goes to the file, or the save fails and is undone. *)
Write(c, r, saved) ==
    IF saved THEN job' = [job EXCEPT ![c] = r] /\ journal' = r
    ELSE UNCHANGED <<job, journal>>

(* A commit or a mark: nothing to do for a job with an outcome.            *)
Settle(c, saved) ==
    IF IsActive(job[c]) THEN Write(c, Settled(job[c]), saved)
    ELSE UNCHANGED <<job, journal>>

------------------------------------------------------------------------------
(* ControllerLease.acquire succeeds only on a free lock; close frees it.   *)
Acquire(c) == holder = Nobody /\ holder' = c
Close(c) == holder' = IF holder = c THEN Nobody ELSE holder

(* controller_lifecycle, entry.  The lifecycle lock is held while the last *)
(* server leaves, so nobody enters then.                                   *)
Refuses(c) == shut[c] \/ holder = c

(* Refused, another holder, a failed preflight, an unreadable journal, or a *)
(* reconciliation that cannot be saved, with the journal already loaded: a *)
(* lease that was taken is given back in the same step.                    *)
EnterFails(c) ==
    /\ users[c] = 0
    /\ phase[c] # "stopping"
    /\ phase' = [phase EXCEPT ![c] = "failed"]
    /\ \/ UNCHANGED job
       \/ /\ ~Refuses(c)
          /\ holder = Nobody
          /\ job' = [job EXCEPT ![c] = journal]
    /\ UNCHANGED <<holder, journal, users, shut, work, used, orphans>>

(* An entry that does not ask for the lease.                               *)
EnterFirstUnleased(c) ==
    /\ users[c] = 0
    /\ phase[c] # "stopping"
    /\ ~Refuses(c)
    /\ holder' = c
    /\ job' = [job EXCEPT ![c] = Settled(journal)]
    /\ journal' = Settled(journal)
    /\ users' = [users EXCEPT ![c] = 1]
    /\ phase' = [phase EXCEPT ![c] = "ready"]
    /\ UNCHANGED <<shut, work, used, orphans>>

(* An entry that takes the journal as it finds it.                         *)
EnterFirstUnreconciled(c) ==
    /\ users[c] = 0
    /\ phase[c] # "stopping"
    /\ ~Refuses(c)
    /\ Acquire(c)
    /\ job' = [job EXCEPT ![c] = journal]
    /\ users' = [users EXCEPT ![c] = 1]
    /\ phase' = [phase EXCEPT ![c] = "ready"]
    /\ UNCHANGED <<journal, shut, work, used, orphans>>

(* Lease, preflight, reload, reconcile.                                    *)
EnterFirst(c) ==
    /\ users[c] = 0
    /\ phase[c] # "stopping"
    /\ ~Refuses(c)
    /\ Acquire(c)
    /\ job' = [job EXCEPT ![c] = Settled(journal)]
    /\ journal' = Settled(journal)
    /\ users' = [users EXCEPT ![c] = 1]
    /\ phase' = [phase EXCEPT ![c] = "ready"]
    /\ UNCHANGED <<shut, work, used, orphans>>

EnterAgain(c) ==
    /\ users[c] \in 1..(MaxUsers - 1)
    /\ users' = [users EXCEPT ![c] = @ + 1]
    /\ UNCHANGED <<holder, journal, job, phase, shut, work, used, orphans>>

------------------------------------------------------------------------------
(* Work while servers are hosted.                                          *)
Accept(c, i, saved) ==
    /\ users[c] > 0
    /\ i \notin used
    /\ ~IsActive(job[c])
    /\ Write(c, [id |-> i, active |-> TRUE], saved)
    /\ used' = used \union {i}
    /\ work' = [work EXCEPT ![c] = IF saved THEN "admitted" ELSE @]
    /\ UNCHANGED <<holder, phase, users, shut, orphans>>

BeginSpawn(c) ==
    /\ work[c] = "admitted"
    /\ ~shut[c]
    /\ work' = [work EXCEPT ![c] = "spawning"]
    /\ UNCHANGED <<holder, journal, job, phase, users, shut, used, orphans>>

(* A child that cannot be created, or a start that is refused or withdrawn *)
(* before there is one.                                                    *)
StartFails(c, saved) ==
    /\ work[c] \in {"admitted", "spawning"}
    /\ Settle(c, saved)
    /\ work' = [work EXCEPT ![c] = "none"]
    /\ UNCHANGED <<holder, phase, users, shut, used, orphans>>

Spawned(c) ==
    /\ work[c] = "spawning"
    /\ work' = [work EXCEPT ![c] = "running"]
    /\ UNCHANGED <<holder, journal, job, phase, users, shut, used, orphans>>

(* The exit is observed and committed; with a failing save the handle is   *)
(* kept, for a later cancellation or the shutdown to commit it.            *)
WorkerExits(c, saved) ==
    /\ work[c] \in {"running", "exited"}
    /\ Settle(c, saved)
    /\ work' = [work EXCEPT ![c] = IF saved THEN "none" ELSE "exited"]
    /\ UNCHANGED <<holder, phase, users, shut, used, orphans>>

Clear(c, saved) ==
    /\ users[c] > 0
    /\ job[c] # NoRecord
    /\ ~IsActive(job[c])
    /\ Write(c, NoRecord, saved)
    /\ UNCHANGED <<holder, phase, users, shut, work, used, orphans>>

------------------------------------------------------------------------------
(* controller_lifecycle, exit.                                             *)

Leave(c) ==
    /\ users[c] > 0
    /\ users' = [users EXCEPT ![c] = @ - 1]
    /\ phase' = [phase EXCEPT ![c] = IF users[c] = 1 THEN "stopping" ELSE @]
    /\ shut' = [shut EXCEPT ![c] = @ \/ users[c] = 1]
    /\ UNCHANGED <<holder, journal, job, work, used, orphans>>

(* A start that holds the lock, or any handle that is kept.                *)
Unreaped(c) == work[c] \in {"spawning", "running", "exited"}

(* Giving the lease back although a worker is left.                        *)
LeaveFailsUnleased(c, saved) ==
    /\ phase[c] = "stopping"
    /\ phase' = [phase EXCEPT ![c] = "failed"]
    /\ Close(c)
    /\ UNCHANGED <<journal, job, users, shut, work, used, orphans>>

(* Workers could not be reaped in time, or the job that is left could not  *)
(* be marked: the lease is kept until the process ends.                    *)
LeaveFails(c, saved) ==
    /\ phase[c] = "stopping"
    /\ Unreaped(c) \/ (IsActive(job[c]) /\ ~saved)
    /\ phase' = [phase EXCEPT ![c] = "failed"]
    /\ UNCHANGED <<holder, journal, job, users, shut, work, used, orphans>>

Left(c) ==
    /\ phase[c] = "stopping"
    /\ ~Unreaped(c)
    /\ Settle(c, TRUE)
    /\ phase' = [phase EXCEPT ![c] = "inactive"]
    /\ Close(c)
    /\ UNCHANGED <<users, shut, work, used, orphans>>

------------------------------------------------------------------------------
(* The process ends, killed or after a failed exit; another may take its   *)
(* place.  A child it had is on its own.                                   *)
Dies(c) ==
    /\ Close(c)
    /\ job' = [job EXCEPT ![c] = NoRecord]
    /\ phase' = [phase EXCEPT ![c] = "inactive"]
    /\ users' = [users EXCEPT ![c] = 0]
    /\ shut' = [shut EXCEPT ![c] = FALSE]
    /\ work' = [work EXCEPT ![c] = "none"]
    /\ orphans' = IF work[c] \in {"spawning", "running"}
                    THEN orphans \union {job[c].id} ELSE orphans
    /\ UNCHANGED <<journal, used>>

(* The watchdog of a worker that lost its parent.                          *)
OrphanEnds(i) ==
    /\ i \in orphans
    /\ orphans' = orphans \ {i}
    /\ UNCHANGED <<holder, journal, job, phase, users, shut, work, used>>

------------------------------------------------------------------------------
Lifecycle(c, saved) ==
    \/ EnterFails(c)
    \/ EnterFirst(c)
    \/ EnterAgain(c)
    \/ Leave(c)
    \/ LeaveFails(c, saved)
    \/ Left(c)

JobStep(c, saved) ==
    \/ \E i \in JobIds : Accept(c, i, saved)
    \/ BeginSpawn(c)
    \/ StartFails(c, saved)
    \/ Spawned(c)
    \/ WorkerExits(c, saved)
    \/ Clear(c, saved)

Next ==
    \/ \E c \in Controllers, saved \in BOOLEAN : Lifecycle(c, saved)
    \/ \E c \in Controllers, saved \in BOOLEAN : JobStep(c, saved)
    \/ \E c \in Controllers : Dies(c)
    \/ \E i \in JobIds : OrphanEnds(i)

Spec == Init /\ [][Next]_vars

------------------------------------------------------------------------------
Retained(c) == work[c] \in {"running", "exited"}

(* Co-hosted servers keep their controller: while one is left, the lease   *)
(* is held and no shutdown has begun (_leave_controller_lifecycle).        *)
HostsAreServed ==
    \A c \in Controllers : users[c] > 0 =>
        phase[c] = "ready" /\ holder = c /\ ~shut[c]

(* "retaining the journal lease": a worker whose exit this process has yet *)
(* to record keeps the lease with it, failed shutdowns included, so no two *)
(* processes supervise work for one journal.                               *)
WorkerKeepsLease == \A c \in Controllers : Retained(c) => holder = c

(* "restart reconciliation is only safe when exactly one controller can    *)
(* own it" (ControllerLease): what a controller at work has in memory is   *)
(* what the file says, so no other process wrote it.                       *)
JournalIsOwn == \A c \in Controllers :
    users[c] > 0 \/ phase[c] = "stopping" \/ Retained(c) => job[c] = journal

(* The lease goes with the work, for as long as there is some.             *)
WorkIsLeased == HostsAreServed /\ WorkerKeepsLease /\ JournalIsOwn

(* A controller that hosts servers never counts a job as running whose     *)
(* worker was left behind by another process.                              *)
OrphansAreSettled == \A c \in Controllers :
    users[c] > 0 /\ IsActive(journal) => journal.id \notin orphans

(* The file changes only in steps of the process that holds the lease when *)
(* the step begins or ends.                                                *)
WrittenUnderLease ==
    [][journal' # journal => \E c \in Controllers :
           {holder, holder'} \ {Nobody} = {c} /\ job'[c] = journal']_vars
=============================================================================
