--------------------------- MODULE MCJobController ---------------------------
(* JobController on two jobs, two owners, two progress values and both     *)
(* surfaces.  The contract is checked on a second store, whose journal is  *)
(* not damaged from outside while it is closed; a behaviour uses one of    *)
(* the two.                                                                *)
EXTENDS JobController

CONSTANTS j1, j2, o1, o2

MCJobIds == {j1, j2}
MCOwners == {o1, o2}

(* Reports of either job, for either owner, at the first and a late stage, *)
(* regressing ones and every outcome included.                             *)
MCSnapshots ==
    {s \in [id: JobIds, owner: Owners, audit: {FALSE},
            stage: {"idle", "accepted", "writing", "completed", "failed", "cancelled"},
            progress: 0..MaxProgress, error: {"none", "worker_error"},
            completed: BOOLEAN, manifest: {FALSE}] :
        s.error = "none" \/ s.stage = "failed"}

VARIABLES
    mayRot,   \* which of the two moves
    job2, persisted2, journal2, healthy2, phase2, used2, own2, holds2, stale2

vars2 == <<job2, persisted2, journal2, healthy2, phase2, used2, own2, holds2, stale2>>

Undamaged == INSTANCE JobController WITH
    JournalMayRot <- FALSE,
    job <- job2, persisted <- persisted2, journal <- journal2, healthy <- healthy2,
    phase <- phase2, used <- used2, own <- own2, holds <- holds2, stale <- stale2

MCInit == mayRot \in BOOLEAN /\ Init /\ Undamaged!Init

MCNext ==
    \/ mayRot /\ Next /\ UNCHANGED <<mayRot, vars2>>
    \/ ~mayRot /\ Undamaged!Next /\ UNCHANGED <<mayRot, vars>>

MCSpec == MCInit /\ [][MCNext]_<<mayRot, vars, vars2>>

(* JobController!ImplementsContract: what a reader of the journal is       *)
(* promised by JobContract holds of every step of the controller.          *)
UndamagedImplementsContract == Undamaged!ImplementsContract
=============================================================================
