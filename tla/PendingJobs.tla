------------------------------ MODULE PendingJobs ------------------------------
(* The recovery records of accepted provider jobs (ai/job_persistence.py): a  *)
(* registry file that is replaced as a whole, a file of emergency receipts     *)
(* that is appended to when the registry cannot be written, and the processes  *)
(* that save, list and remove records under one advisory lock                  *)
(* (utils/atomic_io.py). A process may die anywhere; its lock dies with it.    *)
EXTENDS FiniteSets

CONSTANTS
    Procs,    \* processes of the machine that use the registry
    Jobs,     \* interactions the provider accepted
    NoProc,   \* nobody holds the lock
    Faults    \* the file operations that may fail

ASSUME NoProcAssumption == NoProc \notin Procs
ASSUME FaultsAssumption == Faults \subseteq {"read", "write", "receipt", "rewrite", "lock"}

VARIABLES
    primary,    \* the records in the registry
    receipts,   \* the records in the receipts
    torn,       \* the receipts end in, or hold, a line that is not a receipt
    lock,       \* the holder of the mutation lock
    at,         \* where each process is
    want,       \* the jobs its operation is about
    jobs,       \* the registry as it has read it
    rest,       \* the receipts as it has read them
    known,      \* the jobs whose records were on disk when it began to list
    listing,    \* the last answer it got from listing
    saved,      \* history: jobs whose save returned
    requested,  \* history: jobs whose removal was asked for
    gone,       \* history: jobs whose removal was confirmed
    misread     \* history: a registry was taken for an empty one

files == <<primary, receipts, torn>>
local == <<at, want, jobs, rest, known, listing>>
history == <<saved, requested, gone, misread>>
vars == <<files, lock, local, history>>

Locked == {"saveRead", "saveWrite", "saveReceipt", "removeRead", "removeWrite",
           "removeReceipts"}
Places == Locked \union {"idle", "save", "remove", "listReceipts"}

TypeOK ==
    /\ primary \subseteq Jobs /\ receipts \subseteq Jobs /\ torn \in BOOLEAN
    /\ lock \in Procs \union {NoProc}
    /\ at \in [Procs -> Places]
    /\ want \in [Procs -> SUBSET Jobs]
    /\ jobs \in [Procs -> SUBSET Jobs]
    /\ rest \in [Procs -> SUBSET Jobs]
    /\ known \in [Procs -> SUBSET Jobs]
    /\ listing \in [Procs -> [ok : BOOLEAN, ids : SUBSET Jobs]]
    /\ saved \subseteq Jobs
    /\ requested \subseteq Jobs /\ gone \subseteq Jobs /\ misread \in BOOLEAN

NoListing == [ok |-> FALSE, ids |-> {}]
NoJobs == [p \in Procs |-> {}]

Init ==
    /\ primary = {} /\ receipts = {} /\ torn = FALSE
    /\ lock = NoProc
    /\ at = [p \in Procs |-> "idle"]
    /\ want = NoJobs /\ jobs = NoJobs /\ rest = NoJobs /\ known = NoJobs
    /\ listing = [p \in Procs |-> NoListing]
    /\ saved = {} /\ requested = {} /\ gone = {} /\ misread = FALSE

Goto(p, place) == at' = [at EXCEPT ![p] = place]

(* A mutation ends and its lock is released.                                 *)
Return(p) == Goto(p, "idle") /\ lock' = NoProc

--------------------------------------------------------------------------------
(* The operations begin.                                                     *)

(* save_pending_job, once for each accepted job.                             *)
BeginSave(p, j) ==
    /\ at[p] = "idle"
    /\ j \notin saved \union requested /\ \A q \in Procs : at[q] # "idle" => j \notin want[q]
    /\ Goto(p, "save")
    /\ want' = [want EXCEPT ![p] = {j}]
    /\ UNCHANGED <<files, lock, jobs, rest, known, listing, history>>

(* remove_pending_jobs: a job after its outputs were checked, or those of the *)
(* last listing, which the operator confirmed.                               *)
BeginRemove(p) ==
    /\ at[p] = "idle"
    /\ \E set \in {{j} : j \in saved} \union {listing[p].ids} :
         /\ set # {}
         /\ want' = [want EXCEPT ![p] = set]
         /\ requested' = requested \union set
    /\ Goto(p, "remove")
    /\ UNCHANGED <<files, lock, jobs, rest, known, listing, saved, gone, misread>>

(* file_mutation_lock. Others wait, at most ten seconds: then a save raises   *)
(* and a removal is refused, with nothing done.                              *)
(* Mutant: a removal starts whoever holds the lock.                          *)
LockForced(p) ==
    /\ at[p] \in {"save", "remove"}
    /\ lock = NoProc \/ at[p] = "remove"
    /\ lock' = p
    /\ Goto(p, IF at[p] = "save" THEN "saveRead" ELSE "removeRead")
    /\ UNCHANGED <<files, want, jobs, rest, known, listing, history>>

Lock(p) ==
    /\ at[p] \in {"save", "remove"}
    /\ lock = NoProc
    /\ lock' = p
    /\ Goto(p, IF at[p] = "save" THEN "saveRead" ELSE "removeRead")
    /\ UNCHANGED <<files, want, jobs, rest, known, listing, history>>

LockTimesOut(p) ==
    /\ at[p] \in {"save", "remove"}
    /\ lock # NoProc \/ "lock" \in Faults
    /\ Goto(p, "idle")
    /\ UNCHANGED <<files, lock, want, jobs, rest, known, listing, history>>

--------------------------------------------------------------------------------
(* save_pending_job.                                                         *)

(* A registry that cannot be read is taken for an empty one.                 *)
SaveReads(p) ==
    /\ at[p] = "saveRead"
    /\ \/ jobs' = [jobs EXCEPT ![p] = primary] /\ UNCHANGED misread
       \/ "read" \in Faults /\ jobs' = [jobs EXCEPT ![p] = {}] /\ misread' = TRUE
    /\ Goto(p, "saveWrite")
    /\ UNCHANGED <<files, lock, want, rest, known, listing, saved, requested, gone>>

(* The new registry is written beside the old one and renamed over it.       *)
SaveWrites(p) ==
    /\ at[p] = "saveWrite"
    /\ primary' = jobs[p] \union want[p]
    /\ saved' = saved \union want[p]
    /\ Return(p)
    /\ UNCHANGED <<receipts, torn, want, jobs, rest, known, listing, requested, gone, misread>>

SaveWriteFails(p) ==
    /\ at[p] = "saveWrite" /\ "write" \in Faults
    /\ Goto(p, "saveReceipt")
    /\ UNCHANGED <<files, lock, want, jobs, rest, known, listing, history>>

SaveAppends(p) ==
    /\ at[p] = "saveReceipt"
    /\ receipts' = receipts \union want[p]
    /\ saved' = saved \union want[p]
    /\ Return(p)
    /\ UNCHANGED <<primary, torn, want, jobs, rest, known, listing, requested, gone, misread>>

(* The receipt fails too, and may leave a part of its line behind; the save   *)
(* raises.                                                                   *)
SaveAppendFails(p) ==
    /\ at[p] = "saveReceipt" /\ "receipt" \in Faults
    /\ torn' \in {torn, TRUE}
    /\ Return(p)
    /\ UNCHANGED <<primary, receipts, want, jobs, rest, known, listing, history>>

--------------------------------------------------------------------------------
(* remove_pending_jobs.                                                      *)

(* Without both files, well-formed, nothing is removed.                      *)
RemoveReads(p) ==
    /\ at[p] = "removeRead"
    /\ ~torn
    /\ want[p] \intersect (primary \union receipts) # {}
    /\ jobs' = [jobs EXCEPT ![p] = primary]
    /\ rest' = [rest EXCEPT ![p] = receipts]
    /\ Goto(p, "removeWrite")
    /\ UNCHANGED <<files, lock, want, known, listing, history>>

RemoveRefused(p) ==
    /\ at[p] = "removeRead"
    /\ torn \/ "read" \in Faults
    /\ Return(p)
    /\ UNCHANGED <<files, want, jobs, rest, known, listing, history>>

RemoveAbsent(p) ==
    /\ at[p] = "removeRead"
    /\ ~torn
    /\ want[p] \intersect (primary \union receipts) = {}
    /\ gone' = gone \union want[p]
    /\ Return(p)
    /\ UNCHANGED <<files, want, jobs, rest, known, listing, saved, requested, misread>>

RemoveWrites(p) ==
    /\ at[p] = "removeWrite"
    /\ primary' = jobs[p] \ want[p]
    /\ Goto(p, "removeReceipts")
    /\ UNCHANGED <<receipts, torn, lock, want, jobs, rest, known, listing, history>>

RemoveWriteFails(p) ==
    /\ at[p] = "removeWrite" /\ "write" \in Faults
    /\ Return(p)
    /\ UNCHANGED <<files, want, jobs, rest, known, listing, history>>

(* Mutant: the receipts are left for later.                                  *)
RemoveRewritesNothing(p) ==
    /\ at[p] = "removeReceipts"
    /\ gone' = gone \union want[p]
    /\ Return(p)
    /\ UNCHANGED <<files, want, jobs, rest, known, listing, saved, requested, misread>>

(* The receipts are replaced by those that are left, or deleted.             *)
RemoveRewrites(p) ==
    /\ at[p] = "removeReceipts"
    /\ receipts' = rest[p] \ want[p] /\ torn' = FALSE
    /\ gone' = gone \union want[p]
    /\ Return(p)
    /\ UNCHANGED <<primary, want, jobs, rest, known, listing, saved, requested, misread>>

RemoveRewriteFails(p) ==
    /\ at[p] = "removeReceipts" /\ "rewrite" \in Faults
    /\ Return(p)
    /\ UNCHANGED <<files, want, jobs, rest, known, listing, history>>

--------------------------------------------------------------------------------
(* get_pending_jobs_with_status: the two files are read one after the other,  *)
(* without the mutation lock.                                                *)

ListReads(p) ==
    /\ at[p] = "idle"
    /\ \/ /\ Goto(p, "listReceipts")
          /\ jobs' = [jobs EXCEPT ![p] = primary]
          /\ known' = [known EXCEPT ![p] = saved]
       \/ "read" \in Faults /\ UNCHANGED <<at, jobs, known>>
    /\ listing' = [listing EXCEPT ![p] = NoListing]
    /\ UNCHANGED <<files, lock, want, rest, history>>

ListReceipts(p) ==
    /\ at[p] = "listReceipts"
    /\ ~torn
    /\ Goto(p, "idle")
    /\ listing' = [listing EXCEPT ![p] = [ok |-> TRUE, ids |-> jobs[p] \union receipts]]
    /\ UNCHANGED <<files, lock, want, jobs, rest, known, history>>

(* A malformed line refuses the whole answer, and a line that is just being   *)
(* appended may look like one.                                               *)
ListRefused(p) ==
    /\ at[p] = "listReceipts"
    /\ torn \/ "read" \in Faults \/ \E q \in Procs : at[q] = "saveReceipt"
    /\ Goto(p, "idle")
    /\ UNCHANGED <<files, lock, want, jobs, rest, known, listing, history>>

(* The process dies and another takes its place; a line being appended may    *)
(* stay in parts.                                                            *)
Crash(p) ==
    /\ at[p] # "idle"
    /\ Goto(p, "idle")
    /\ lock' = IF lock = p THEN NoProc ELSE lock
    /\ torn' \in (IF at[p] = "saveReceipt" THEN {torn, TRUE} ELSE {torn})
    /\ listing' = [listing EXCEPT ![p] = NoListing]
    /\ UNCHANGED <<primary, receipts, want, jobs, rest, known, history>>

Step(p) ==
    \/ \E j \in Jobs : BeginSave(p, j)
    \/ BeginRemove(p) \/ Lock(p) \/ LockTimesOut(p)
    \/ SaveReads(p) \/ SaveWrites(p) \/ SaveWriteFails(p)
    \/ SaveAppends(p) \/ SaveAppendFails(p)
    \/ RemoveReads(p) \/ RemoveRefused(p) \/ RemoveAbsent(p)
    \/ RemoveWrites(p) \/ RemoveWriteFails(p) \/ RemoveRewrites(p) \/ RemoveRewriteFails(p)
    \/ ListReads(p) \/ ListReceipts(p) \/ ListRefused(p)
    \/ Crash(p)

Next == \E p \in Procs : Step(p)

Spec == Init /\ [][Next]_vars

--------------------------------------------------------------------------------
(* Properties.                                                               *)

(* A job whose save returned keeps a record on disk until its removal is asked *)
(* for, whatever the others save and remove meanwhile, whatever write fails    *)
(* and whoever dies.                                                         *)
NotForgotten == saved \ requested \subseteq primary \union receipts

(* A listing that is not refused shows every job that was saved before it     *)
(* began, although it takes no lock and reads two files.                     *)
ListingComplete ==
    \A p \in Procs : listing[p].ok => known[p] \ requested \subseteq listing[p].ids

(* While no registry was taken for an empty one, no unfinished job drops out   *)
(* of sight, on disk or in a listing.                                        *)
RecordsFound == ~misread => NotForgotten /\ ListingComplete

(* A job whose removal was confirmed does not come back.                     *)
RemovedAreGone == gone \intersect (primary \union receipts) = {}

================================================================================
