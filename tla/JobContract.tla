----------------------------- MODULE JobContract -----------------------------
(***************************************************************************)
(* What a reader of the durable journal is promised, whatever crashes,     *)
(* failed saves and late worker reports happen behind it: a job is         *)
(* accepted, only ever moves forward, gets an outcome and keeps it; only a *)
(* settled job makes room for another or is cleared.  Identity never       *)
(* changes.  `record' is the journal as the next reader finds it.          *)
(*                                                                         *)
(* The promise has one reservation.  While the A2A request that accepted   *)
(* the job has not returned, `pending', it may replace the outcome by a    *)
(* failure or cancellation of its own, once.                               *)
(***************************************************************************)
EXTENDS ResearchJob

VARIABLES record, pending

promised == <<record, pending>>

Settled == record = NoJob \/ IsTerminal(record)

Init == record = NoJob /\ pending = FALSE

(* A request that returns is never pending again.                          *)
MayReturn == pending' \in {pending, FALSE}

Accept == \E i \in JobIds, o \in Owners :
    /\ Settled
    /\ record = NoJob \/ record.id # i
    /\ record' = NewJob(i, o)
    /\ pending' \in BOOLEAN

(* The spend approval is recorded while the job is open and nobody holds   *)
(* an older record of it.                                                  *)
Audit ==
    /\ ~Settled
    /\ ~pending
    /\ UNCHANGED pending
    /\ record' = [record EXCEPT !.audit = TRUE]

Forward(j) ==
    \/ StageRank[j.stage] > StageRank[record.stage]
    \/ j.stage = record.stage /\ j.progress >= record.progress

KeepsIdentity ==
    /\ record' \in Job
    /\ record'.id = record.id
    /\ record'.owner = record.owner
    /\ record'.audit = record.audit
    /\ MayReturn

Advance ==
    /\ ~Settled
    /\ KeepsIdentity
    /\ ~IsTerminal(record')
    /\ ~record'.completed
    /\ Forward(record')

Settle ==
    /\ ~Settled
    /\ KeepsIdentity
    /\ IsTerminal(record')
    /\ record'.completed

(* The one change to a settled record: the exit manifest is listed.        *)
ListManifest ==
    /\ record # NoJob
    /\ record.stage \in Aborts
    /\ record' = [record EXCEPT !.manifest = TRUE]
    /\ MayReturn

(* The reservation: what replaces the outcome is an outcome, of the same   *)
(* job, and there is no second time.                                       *)
Overturn ==
    /\ record # NoJob
    /\ IsTerminal(record)
    /\ pending
    /\ KeepsIdentity
    /\ record'.stage \in Aborts
    /\ record'.completed
    /\ pending' = FALSE

Return ==
    /\ pending
    /\ pending' = FALSE
    /\ UNCHANGED record

Forget ==
    /\ Settled
    /\ record' = NoJob
    /\ MayReturn

Next ==
    \/ Accept
    \/ Audit
    \/ Advance
    \/ Settle
    \/ ListManifest
    \/ Overturn
    \/ Return
    \/ Forget

Spec == Init /\ [][Next]_promised
=============================================================================
