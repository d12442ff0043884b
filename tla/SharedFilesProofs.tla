--------------------------- MODULE SharedFilesProofs ---------------------------
(* The files that processes change under file_mutation_lock: what PendingJobs  *)
(* promises for any number of processes and jobs, and UsageHistory for any     *)
(* number of processes, threads and records and whatever the older             *)
(* installation's file becomes.                                                *)
EXTENDS PendingJobs, UsageHistory, TLAPS

SavingJob == {"save", "saveRead", "saveWrite", "saveReceipt"}
RemovingJob == {"remove", "removeRead", "removeWrite", "removeReceipts"}

(* Who is inside the mutation has the lock.                                   *)
Mutex == \A p \in Procs : at[p] \in Locked => lock = p

(* What a process holds in memory agrees with the files while it has the lock. *)
Buffers ==
    \A p \in Procs :
       /\ at[p] \in {"saveWrite", "saveReceipt"} => jobs[p] \subseteq primary
       /\ at[p] = "removeWrite" => jobs[p] = primary /\ rest[p] = receipts
       /\ at[p] = "removeReceipts" => rest[p] = receipts /\ want[p] \intersect primary = {}

(* Every record anybody has seen is of a job whose save returned.             *)
SeenAreSaved ==
    /\ primary \union receipts \union requested \union gone \subseteq saved
    /\ \A p \in Procs : /\ jobs[p] \union rest[p] \union listing[p].ids \subseteq saved
                        /\ at[p] \in RemovingJob => want[p] \subseteq requested

(* A job that is being saved is nobody else's business yet.                   *)
SavedOnce ==
    /\ \A p \in Procs : at[p] \in SavingJob => want[p] \intersect saved = {}
    /\ \A p, q \in Procs : p # q /\ at[p] \in SavingJob /\ at[q] \in SavingJob
                              => want[p] \intersect want[q] = {}

Inv == TypeOK /\ Mutex /\ Buffers /\ SeenAreSaved /\ SavedOnce /\ RemovedAreGone

(* While registry and receipts can be read, a process that saves knows all of *)
(* the registry,                                                              *)
ReadAll == \A p \in Procs : at[p] \in {"saveWrite", "saveReceipt"} => jobs[p] = primary

(* and one that lists has seen a record in the registry or will in the        *)
(* receipts.                                                                 *)
ListingCovers ==
    \A p \in Procs :
       /\ known[p] \subseteq saved
       /\ at[p] = "listReceipts" => /\ known[p] \ requested \subseteq jobs[p] \union receipts
                                    /\ ~listing[p].ok

ReadInv == ReadAll /\ NotForgotten /\ ListingCovers /\ ListingComplete

--------------------------------------------------------------------------------
(* The first invariant: types, mutual exclusion and what the records mean.    *)

LEMMA InvInit == Init => Inv
<1> SUFFICES ASSUME Init PROVE Inv
  OBVIOUS
<1>1. TypeOK
  BY DEF Init, TypeOK, NoJobs, NoListing, Places, Locked
<1>2. \A p \in Procs : /\ at[p] = "idle"
                       /\ jobs[p] = {} /\ rest[p] = {} /\ listing[p].ids = {}
  BY DEF Init, NoJobs, NoListing
<1>3. Mutex /\ Buffers /\ SavedOnce
  BY <1>2 DEF Mutex, Buffers, SavedOnce, Locked, SavingJob
<1>4. SeenAreSaved /\ RemovedAreGone
  BY <1>2 DEF Init, SeenAreSaved, RemovedAreGone, RemovingJob
<1> QED BY <1>1, <1>3, <1>4 DEF Inv

(* Every step keeps the types.                                                *)
LEMMA TypeStep == ASSUME TypeOK, [Next]_vars PROVE TypeOK'
<1> USE DEF TypeOK, Places, Locked, Goto, Return, NoListing
<1>1. CASE UNCHANGED vars
  BY <1>1 DEF vars, files, local, history
<1>2. ASSUME NEW p \in Procs, Step(p) PROVE TypeOK'
  <2>1. ASSUME NEW j \in Jobs, BeginSave(p, j) PROVE TypeOK'
    BY <2>1 DEF BeginSave, files, history
  <2>2. CASE BeginRemove(p)
    <3>1. PICK set \in {{j} : j \in saved} \union {listing[p].ids} :
             /\ want' = [want EXCEPT ![p] = set]
             /\ requested' = requested \union set
      BY <2>2 DEF BeginRemove
    <3>2. set \subseteq Jobs
      BY <3>1
    <3> QED BY <2>2, <3>1, <3>2 DEF BeginRemove, files
  <2>3. CASE Lock(p) \/ LockTimesOut(p)
    BY <2>3 DEF Lock, LockTimesOut, files, history
  <2>4. CASE SaveReads(p) \/ SaveWriteFails(p)
    BY <2>4 DEF SaveReads, SaveWriteFails, files, history
  <2>5. CASE SaveWrites(p)
    BY <2>5 DEF SaveWrites
  <2>6. CASE SaveAppends(p)
    BY <2>6 DEF SaveAppends
  <2>7. CASE SaveAppendFails(p)
    BY <2>7 DEF SaveAppendFails, history
  <2>8. CASE RemoveReads(p) \/ RemoveRefused(p) \/ RemoveWriteFails(p) \/ RemoveRewriteFails(p)
    BY <2>8 DEF RemoveReads, RemoveRefused, RemoveWriteFails, RemoveRewriteFails,
         files, history
  <2>9. CASE RemoveAbsent(p)
    BY <2>9 DEF RemoveAbsent, files
  <2>10. CASE RemoveWrites(p)
    BY <2>10 DEF RemoveWrites, history
  <2>11. CASE RemoveRewrites(p)
    BY <2>11 DEF RemoveRewrites
  <2>12. CASE ListReads(p)
    BY <2>12 DEF ListReads, files, history
  <2>13a. CASE ListReceipts(p)
    BY <2>13a DEF ListReceipts, files, history
  <2>13b. CASE ListRefused(p)
    BY <2>13b DEF ListRefused, files, history
  <2>14. CASE Crash(p)
    BY <2>14 DEF Crash, history
  <2> QED BY <1>2, <2>1, <2>2, <2>3, <2>4, <2>5, <2>6, <2>7, <2>8, <2>9, <2>10, <2>11,
             <2>12, <2>13a, <2>13b, <2>14 DEF Step
<1> QED BY <1>1, <1>2 DEF Next

(* Every step keeps the rest of the invariant.                                *)
LEMMA InvStep == ASSUME Inv, [Next]_vars PROVE Inv'
<1>1. TypeOK'
  BY TypeStep DEF Inv
<1>2. CASE UNCHANGED vars
  BY <1>1, <1>2 DEF vars, files, local, history, Inv, Mutex, Buffers, SeenAreSaved,
       SavedOnce,
                    RemovedAreGone
<1>3. ASSUME NEW p \in Procs, Step(p) PROVE Inv'
  <2> USE DEF Inv, Mutex, Buffers, SeenAreSaved, SavedOnce, RemovedAreGone, Goto,
       Return,
              Locked, SavingJob, RemovingJob, NoListing
  <2>t. TypeOK /\ TypeOK'
    BY <1>1
  <2> USE <2>t DEF TypeOK
  <2>1. ASSUME NEW j \in Jobs, BeginSave(p, j) PROVE Inv'
    BY <2>1 DEF BeginSave, files, history
  <2>2. CASE BeginRemove(p)
    BY <2>2 DEF BeginRemove, files
  <2>3a. CASE Lock(p)
    BY <2>3a, NoProcAssumption DEF Lock, files, history
  <2>3b. CASE LockTimesOut(p)
    BY <2>3b, NoProcAssumption DEF LockTimesOut, files, history
  <2>4a. CASE SaveReads(p)
    BY <2>4a DEF SaveReads, files, history
  <2>4b. CASE SaveWriteFails(p)
    BY <2>4b DEF SaveWriteFails, files, history
  <2>5. CASE SaveWrites(p)
    BY <2>5 DEF SaveWrites
  <2>6. CASE SaveAppends(p)
    BY <2>6 DEF SaveAppends
  <2>7. CASE SaveAppendFails(p)
    BY <2>7 DEF SaveAppendFails, history
  <2>8a. CASE RemoveReads(p)
    BY <2>8a DEF RemoveReads, files, history
  <2>8b. CASE RemoveRefused(p)
    BY <2>8b DEF RemoveRefused, files, history
  <2>8c. CASE RemoveWriteFails(p)
    BY <2>8c DEF RemoveWriteFails, files, history
  <2>8d. CASE RemoveRewriteFails(p)
    BY <2>8d DEF RemoveRewriteFails, files, history
  <2>9. CASE RemoveAbsent(p)
    BY <2>9 DEF RemoveAbsent, files
  <2>10. CASE RemoveWrites(p)
    BY <2>10 DEF RemoveWrites, history
  <2>11. CASE RemoveRewrites(p)
    BY <2>11 DEF RemoveRewrites
  <2>12. CASE ListReads(p)
    <3>1. CASE at' = at
      BY <2>12, <3>1 DEF ListReads, files, history
    <3>2. CASE at' # at
      <4>0. /\ at' = [at EXCEPT ![p] = "listReceipts"]
            /\ UNCHANGED <<primary, receipts, lock, want, saved>>
        BY <2>12, <3>2 DEF ListReads, files, history
      <4>1. Mutex' /\ SavedOnce'
        BY <4>0
      <4>2. Buffers'
        BY <2>12, <3>2 DEF ListReads, files, history
      <4>3. SeenAreSaved' /\ RemovedAreGone'
        BY <2>12, <3>2 DEF ListReads, files, history
      <4> QED BY <4>1, <4>2, <4>3
    <3> QED BY <3>1, <3>2
  <2>13a. CASE ListReceipts(p)
    BY <2>13a DEF ListReceipts, files, history
  <2>13b. CASE ListRefused(p)
    BY <2>13b DEF ListRefused, files, history
  <2>14. CASE Crash(p)
    BY <2>14 DEF Crash, history
  <2> QED BY <1>3, <2>1, <2>2, <2>3a, <2>3b, <2>4a, <2>4b, <2>5, <2>6, <2>7, <2>8a,
       <2>8b, <2>8c,
             <2>8d, <2>9, <2>10, <2>11, <2>12, <2>13a, <2>13b, <2>14 DEF Step
<1> QED BY <1>2, <1>3 DEF Next

(* The types hold, and a job whose removal was confirmed does not come back,  *)
(* whatever fails and however many processes use the registry.                *)
THEOREM PendingTypeCorrect == Spec => []TypeOK
<1>1. Inv /\ [Next]_vars => Inv'
  BY InvStep
<1>2. Inv => TypeOK
  BY DEF Inv
<1> QED BY InvInit, <1>1, <1>2, PTL DEF Spec

THEOREM RemovedStayGone == Spec => []RemovedAreGone
<1>1. Inv /\ [Next]_vars => Inv'
  BY InvStep
<1>2. Inv => RemovedAreGone
  BY DEF Inv
<1> QED BY InvInit, <1>1, <1>2, PTL DEF Spec

--------------------------------------------------------------------------------
(* The second invariant, while no registry was taken for an empty one.         *)

LEMMA ReadInvInit == Init => ReadInv
<1> SUFFICES ASSUME Init PROVE ReadInv
  OBVIOUS
<1>1. \A p \in Procs : at[p] = "idle" /\ known[p] = {} /\ ~listing[p].ok
  BY DEF Init, NoJobs, NoListing
<1> QED BY <1>1 DEF Init, ReadInv, ReadAll, NotForgotten, ListingCovers, ListingComplete

LEMMA ReadInvStep ==
  ASSUME Inv, ~misread => ReadInv, [Next]_vars PROVE ~misread' => ReadInv'
<1> SUFFICES ASSUME ~misread' PROVE ReadInv'
  OBVIOUS
<1>0. ReadInv
  <2>1. CASE UNCHANGED vars
    BY <2>1 DEF vars, history
  <2>2. ASSUME NEW p \in Procs, Step(p) PROVE ~misread
    BY <2>2 DEF Step, BeginSave, BeginRemove, Lock, LockTimesOut, SaveReads, SaveWrites,
       SaveWriteFails, SaveAppends, SaveAppendFails, RemoveReads, RemoveRefused,
       RemoveAbsent, RemoveWrites, RemoveWriteFails, RemoveRewrites, RemoveRewriteFails,
       ListReads, ListReceipts, ListRefused, Crash, history
  <2> QED BY <2>1, <2>2 DEF Next
<1>1. TypeOK /\ TypeOK'
  BY TypeStep DEF Inv
<1>2. CASE UNCHANGED vars
  BY <1>0, <1>2 DEF vars, files, local, history, ReadInv, ReadAll, NotForgotten,
       ListingCovers,
              ListingComplete
<1>3. ASSUME NEW p \in Procs, Step(p) PROVE ReadInv'
  <2> USE <1>0, <1>1 DEF Inv, TypeOK, Mutex, Buffers, SeenAreSaved, ReadInv, ReadAll,
       NotForgotten,
                   ListingCovers, ListingComplete, Goto, Return, Locked, RemovingJob,
                        NoListing
  <2>1. ASSUME NEW j \in Jobs, BeginSave(p, j) PROVE ReadInv'
    BY <2>1 DEF BeginSave, files, history
  <2>2. CASE BeginRemove(p)
    BY <2>2 DEF BeginRemove, files
  <2>3. CASE Lock(p)
    BY <2>3 DEF Lock, files, history
  <2>4. CASE LockTimesOut(p)
    BY <2>4 DEF LockTimesOut, files, history
  <2>5. CASE SaveReads(p)
    BY <2>5 DEF SaveReads, files, history
  <2>6. CASE SaveWrites(p)
    BY <2>6 DEF SaveWrites
  <2>7. CASE SaveWriteFails(p)
    BY <2>7 DEF SaveWriteFails, files, history
  <2>8. CASE SaveAppends(p)
    BY <2>8 DEF SaveAppends
  <2>9. CASE SaveAppendFails(p)
    BY <2>9 DEF SaveAppendFails, history
  <2>10. CASE RemoveReads(p)
    BY <2>10 DEF RemoveReads, files, history
  <2>11. CASE RemoveRefused(p)
    BY <2>11 DEF RemoveRefused, files, history
  <2>12. CASE RemoveAbsent(p)
    BY <2>12 DEF RemoveAbsent, files
  <2>13. CASE RemoveWrites(p)
    BY <2>13 DEF RemoveWrites, history
  <2>14. CASE RemoveWriteFails(p)
    BY <2>14 DEF RemoveWriteFails, files, history
  <2>15. CASE RemoveRewrites(p)
    BY <2>15 DEF RemoveRewrites
  <2>16. CASE RemoveRewriteFails(p)
    BY <2>16 DEF RemoveRewriteFails, files, history
  <2>17. CASE ListReads(p)
    BY <2>17 DEF ListReads, files, history
  <2>18. CASE ListReceipts(p)
    BY <2>18 DEF ListReceipts, files, history
  <2>19. CASE ListRefused(p)
    BY <2>19 DEF ListRefused, files, history
  <2>20. CASE Crash(p)
    BY <2>20 DEF Crash, history
  <2> QED BY <1>3, <2>1, <2>2, <2>3, <2>4, <2>5, <2>6, <2>7, <2>8, <2>9, <2>10, <2>11,
       <2>12,
             <2>13, <2>14, <2>15, <2>16, <2>17, <2>18, <2>19, <2>20 DEF Step
<1> QED BY <1>2, <1>3 DEF Next

(* As long as no save has taken a registry it could not read for an empty one, *)
(* no accepted job is forgotten, and a listing, without the lock, shows every  *)
(* job saved before it began.                                                *)
THEOREM RecordsAreFound == Spec => []RecordsFound
<1>1. Init => Inv /\ (~misread => ReadInv)
  BY InvInit, ReadInvInit
<1>2. Inv /\ (~misread => ReadInv) /\ [Next]_vars => Inv' /\ (~misread => ReadInv)'
  BY InvStep, ReadInvStep
<1>3. (~misread => ReadInv) => RecordsFound
  BY DEF ReadInv, RecordsFound
<1> QED BY <1>1, <1>2, <1>3, PTL DEF Spec

--------------------------------------------------------------------------------
(* The usage history.                                                          *)

(* One thread has the file.                                                      *)
OneWriter == \A t,
     u \in Threads : pc[t] \in Holding /\ pc[u] \in Holding => t = u

(* A record is in one place of one session, and before that nowhere.             *)
RecordsDiffer ==
    /\ \A p \in Processes : \A i \in DOMAIN session[p] : session[p][i] \in recorded
    /\ \A p, q \in Processes : \A i \in DOMAIN session[p] : \A j \in DOMAIN session[q] :
          session[p][i] = session[q][j] => p = q /\ i = j
    /\ \A r \in New \ recorded : costs[r] = 0

(* The records with which a thread saves, of those its tracker has not counted.   *)
Batch(t) ==
    LET p == ProcessOf[t] IN {session[p][i] : i \in flushed[p] + 1 .. flushed[p] + batch[t]}

(* The tracker counts what is in the history, but for what its thread has just    *)
(* written.                                                                      *)
Counted ==
    \A p \in Processes :
       /\ flushed[p] <= Len(session[p])
       /\ \A i \in DOMAIN session[p] :
            i > flushed[p] =>
               \/ costs[session[p][i]] = 0
               \/ \E t \in Threads : /\ ProcessOf[t] = p /\ pc[t] = "saveCount"
                                     /\ i <= flushed[p] + batch[t]

(* What a thread has in memory agrees with the file while it has the lock.        *)
Buffered(t) ==
    /\ pc[t] \in {"migrateWrite", "migrateSign"} => batch[t] \in 1..version
    /\ pc[t] = "migrateWrite" => content[t] = Merged(costs, Legacy[batch[t]])
    /\ pc[t] = "migrateSign" =>
         exists /\ \A r \in Old : Legacy[batch[t]][r] <= costs[r]
    /\ pc[t] \in {"saveWrite", "saveCount"} =>
         flushed[ProcessOf[t]] + batch[t] <= Len(session[ProcessOf[t]])
    /\ pc[t] = "saveWrite" => content[t] = With(costs, Batch(t))
    /\ pc[t] = "saveCount" => \A r \in Batch(t) : costs[r] = 1
AllBuffered == \A t \in Threads : Buffered(t)

Promises ==
  /\ ChargedOnce /\ FlushedIsSaved
  /\ ImportedOnce /\ ReceiptsTruthful
ImportsKnown == \A n \in imports : n <= version
UsageInv ==
  /\ UsageTypeOK /\ OneWriter /\ RecordsDiffer /\ Counted /\ AllBuffered
  /\ ImportsKnown /\ Promises

-----------------------------------------------------------------------------------
(* Types, and what the operators yield.                                           *)

LEMMA SessionEntries ==
    ASSUME UsageTypeOK, NEW p \in Processes
    PROVE  /\ Len(session[p]) \in Nat /\ DOMAIN session[p] = 1..Len(session[p])
           /\ \A i \in DOMAIN session[p] : session[p][i] \in New
BY DEF UsageTypeOK

LEMMA MergedBag ==
    ASSUME NEW current \in [Records -> Nat], NEW legacy \in [Old -> Nat]
    PROVE  Merged(current, legacy) \in [Records -> Nat]
BY DEF Merged, Records

LEMMA WithBag ==
    ASSUME NEW current \in [Records -> Nat], NEW added
    PROVE  With(current, added) \in [Records -> Nat]
BY DEF With

(* An import takes nothing from the history, adds no cost of a run, and brings    *)
(* each older record as often as either file has it.                             *)
LEMMA MergedCounts ==
    ASSUME UsageAssumption, NEW current \in [Records -> Nat],
         NEW legacy \in [Old -> Nat]
    PROVE  /\ \A r \in New : Merged(current, legacy)[r] = current[r]
           /\ \A r \in Old : /\ current[r] <= Merged(current, legacy)[r]
                            /\ legacy[r] <= Merged(current, legacy)[r]
                            /\ Merged(current, legacy)[r] \in {current[r],
                                 legacy[r]}
BY DEF UsageAssumption, Merged, Records

LEMMA NothingBag == Nothing \in [Records -> Nat]
BY DEF Nothing

(* A thread that leaves the file keeps the types of what it changes.             *)
LEMMA LeaveTypes ==
    ASSUME UsageAssumption, UsageTypeOK, NEW t \in Threads, Leave(t)
    PROVE  /\ open' \subseteq Processes /\ session' = session
           /\ pc' \in [Threads -> Migrating \union Saving \union {"idle"}]
           /\ content' \in [Threads -> [Records -> Nat]]
           /\ batch' \in [Threads -> Nat]
BY NothingBag DEF UsageAssumption, UsageTypeOK, Leave, MoveTo

LEMMA UsageTypeStep == ASSUME UsageAssumption, UsageTypeOK, Counted,
     AllBuffered, [UsageNext]_usageVars PROVE UsageTypeOK'
<1> USE NothingBag DEF UsageAssumption, UsageTypeOK, MoveTo,
     Migrating, Saving, Waiting, Holding,
        usageFiles, trackers, locals
<1>1. CASE UNCHANGED usageVars
  BY <1>1 DEF usageVars
<1>2. CASE LegacyGrows
  BY <1>2 DEF LegacyGrows
<1>3. ASSUME NEW p \in Processes, Dies(p) PROVE UsageTypeOK'
  BY <1>3 DEF Dies
<1>4. ASSUME NEW t \in Threads, NEW r \in New, RecordUsage(t,
     r) PROVE UsageTypeOK'
  <2>1. session' \in [Processes -> Seq(New)]
    BY <1>4 DEF RecordUsage
  <2> QED BY <1>4, <2>1 DEF RecordUsage
<1>5. ASSUME NEW t \in Threads, ThreadStep(t) PROVE UsageTypeOK'
  <2>1. CASE Resolve(t) \/ Save(t) \/ Enter(t)
    BY <2>1 DEF Resolve, Save, Enter
  <2>2. CASE Fails(t) \/ NothingToImport(t)
    <3>1. Leave(t) /\ UNCHANGED <<version, usageFiles, recorded, flushed>>
      BY <2>2 DEF Fails, NothingToImport
    <3> QED BY <3>1, LeaveTypes
  <2>3. CASE ReadLegacy(t)
    <3>1. Merged(costs, Legacy[version]) \in [Records -> Nat]
      BY MergedBag
    <3> QED BY <2>3, <3>1 DEF ReadLegacy
  <2>4a. CASE WriteMerged(t)
    BY <2>4a DEF WriteMerged
  <2>4b. CASE Replace(t)
    BY <2>4b DEF Replace
  <2>5. CASE WriteReceipt(t)
    <3>1. Leave(t) /\ batch[t] \in 1..Versions
      BY <2>5 DEF WriteReceipt, AllBuffered, Buffered
    <3> QED BY <2>5, <3>1, LeaveTypes DEF WriteReceipt
  <2>6. CASE Reload(t)
    <3>1. With(costs, Unflushed(ProcessOf[t])) \in [Records -> Nat]
      BY WithBag
    <3>2. Len(session[ProcessOf[t]]) - flushed[ProcessOf[t]] \in Nat
      BY SessionEntries DEF Counted
    <3> QED BY <2>6, <3>1, <3>2 DEF Reload
  <2>7. CASE CountFlushed(t)
    BY SMTT(30), <2>7, LeaveTypes DEF CountFlushed
  <2> QED BY <1>5, <2>1, <2>2, <2>3, <2>4a, <2>4b, <2>5, <2>6, <2>7 DEF ThreadStep
<1> QED BY <1>1, <1>2, <1>3, <1>4, <1>5 DEF UsageNext

LEMMA UsageInvInit == ASSUME UsageAssumption, UsageInit PROVE UsageInv
<1>1. UsageTypeOK
  <2>1. session \in [Processes -> Seq(New)]
    BY DEF UsageInit
  <2>2. costs \in [Records -> Nat] /\ content \in [Threads -> [Records -> Nat]]
    BY NothingBag DEF UsageInit
  <2>3. version \in 0..Versions
    BY DEF UsageAssumption, UsageInit
  <2>4. pc \in [Threads -> Migrating \union Saving \union {"idle"}]
    BY DEF UsageInit
  <2>5. flushed \in [Processes -> Nat] /\ batch \in [Threads -> Nat]
    BY DEF UsageInit
  <2> QED BY <2>1, <2>2, <2>3, <2>4, <2>5 DEF UsageInit, UsageTypeOK
<1>2. \A t \in Threads : pc[t] = "idle"
  BY DEF UsageInit
<1>3. \A r \in Records : costs[r] = 0
  BY DEF UsageInit, Nothing
<1>4. \A p \in Processes : session[p] = <<>> /\ flushed[p] = 0
  BY DEF UsageInit
<1>5. OneWriter /\ RecordsDiffer /\ Counted /\ AllBuffered
  BY <1>2, <1>3, <1>4 DEF OneWriter, RecordsDiffer, Counted, AllBuffered, Buffered,
       Holding, Migrating, Saving,
                          Records
<1>6. Promises /\ ImportsKnown
  BY <1>1, <1>3, <1>4 DEF UsageAssumption, Promises, ImportsKnown,
       ChargedOnce, FlushedIsSaved,
     ImportedOnce, ReceiptsTruthful, UsageInit, UsageTypeOK, Records
<1> QED BY <1>1, <1>5, <1>6 DEF UsageInv
-----------------------------------------------------------------------------------
(* Every step keeps the invariant.                                                *)

(* Steps that move one thread, and touch neither the files nor what is recorded.  *)
LEMMA SameFile ==
    ASSUME UsageInv, NEW t \in Threads,
           UNCHANGED <<version, exists, costs, imports, recorded, session, flushed>>,
           \A u \in Threads \ {t} :
              /\ pc'[u] = pc[u] /\ content'[u] = content[u] /\ batch'[u] = batch[u]
              /\ pc[u] \in Holding => pc'[t] \notin Holding,
           pc[t] # "saveCount",
           Buffered(t)'
    PROVE  (/\ OneWriter /\ RecordsDiffer /\ Counted /\ AllBuffered
            /\ ImportsKnown /\ Promises)'
<1>1. OneWriter'
  BY DEF UsageInv, OneWriter
<1>2. Counted'
  BY DEF UsageInv, Counted
<1>3. ASSUME NEW u \in Threads \ {t} PROVE Buffered(u)'
  <2>1. Buffered(u)
    BY DEF UsageInv, AllBuffered
  <2>2. Batch(u)' = Batch(u)
    BY DEF Batch
  <2>3. pc'[u] = pc[u] /\ content'[u] = content[u] /\ batch'[u] = batch[u]
    OBVIOUS
  <2> QED BY <2>1, <2>2, <2>3 DEF Buffered
<1>4. AllBuffered'
  BY <1>3 DEF AllBuffered
<1>5. (RecordsDiffer /\ ImportsKnown /\ Promises)'
  BY DEF UsageInv, RecordsDiffer, ImportsKnown, Promises, ChargedOnce,
       FlushedIsSaved, ImportedOnce,
         ReceiptsTruthful
<1> QED BY <1>1, <1>2, <1>4, <1>5
LEMMA QuietStep ==
    ASSUME UsageAssumption, UsageInv, UsageTypeOK', NEW t \in Threads,
           \/ Resolve(t) \/ Save(t) \/ Enter(t) \/ Fails(t) \/ NothingToImport(t)
           \/ ReadLegacy(t) \/ Reload(t)
    PROVE  UsageInv'
<1> USE DEF MoveTo, Leave, usageFiles, trackers, Holding,
     Migrating, Saving, Waiting
<1>0. UsageTypeOK /\ OneWriter
  BY DEF UsageInv
<1>1. UNCHANGED <<version, exists, costs, imports, recorded, session, flushed>>
  BY DEF Resolve, Save, Enter, Fails, NothingToImport,
       ReadLegacy, Reload
<1>2. pc[t] # "saveCount"
  BY DEF Resolve, Save, Enter, Fails, NothingToImport,
       ReadLegacy, Reload
<1>3. \A u \in Threads \ {t} :
         pc'[u] = pc[u] /\ content'[u] = content[u] /\ batch'[u] = batch[u]
  BY <1>0 DEF UsageTypeOK, Resolve, Save, Enter, Fails,
       NothingToImport, ReadLegacy, Reload
<1>4. ASSUME NEW u \in Threads \ {t},
     pc[u] \in Holding PROVE pc'[t] \notin Holding
  <2>1. pc[t] \notin Holding
    BY <1>0, <1>4 DEF OneWriter
  <2> QED BY <1>0, <1>4, <2>1 DEF UsageTypeOK, Resolve, Save, Enter,
       Fails, NothingToImport,
                               ReadLegacy, Reload
<1>5. Buffered(t)'
  <2>1. CASE Resolve(t) \/ Save(t) \/ Enter(t)
    BY <1>0, <2>1 DEF UsageTypeOK, Resolve, Save, Enter, Buffered
  <2>2. CASE Fails(t) \/ NothingToImport(t)
    BY <1>0, <2>2 DEF UsageTypeOK, Fails, NothingToImport, Buffered
  <2>3. CASE ReadLegacy(t)
    BY <1>0, <2>3 DEF UsageTypeOK, ReadLegacy, Buffered
  <2>4. CASE Reload(t)
    <3> DEFINE p == ProcessOf[t]
    <3>1. p \in Processes
      BY DEF UsageAssumption
    <3>2. flushed[p] \in Nat /\ Len(session[p]) \in Nat /\ flushed[p] <= Len(session[p])
      BY <1>0, <3>1, SessionEntries DEF UsageInv, Counted, UsageTypeOK
    <3>3. /\ pc'[t] = "saveWrite" /\ batch'[t] = Len(session[p]) - flushed[p]
          /\ content'[t] = With(costs, Unflushed(p))
      BY <1>0, <2>4 DEF UsageTypeOK, Reload
    <3>4. Batch(t)' = Unflushed(p)
      BY <1>1, <3>2, <3>3 DEF Batch, Unflushed
    <3>5. content'[t] = With(costs, Batch(t)')
      BY <3>3, <3>4
    <3>6. With(costs, Batch(t)') = With(costs, Batch(t))'
      BY <1>1 DEF With
    <3>7. flushed[p] + batch'[t] <= Len(session[p])
      BY <3>2, <3>3
    <3> QED BY <1>1, <3>3, <3>5, <3>6, <3>7 DEF Buffered
  <2> QED BY <2>1, <2>2, <2>3, <2>4
<1> QED BY <1>1, <1>2, <1>3, <1>4, <1>5, SameFile DEF UsageInv

(* Who has the file is alone with it.                                             *)
LEMMA Alone ==
    ASSUME OneWriter, NEW t \in Threads, pc[t] \in Holding, NEW u \in Threads \ {t}
    PROVE  pc[u] \notin Holding
BY DEF OneWriter

(* Steps of the thread that has the file leave the others as they are, so that     *)
(* only its own memory has to agree with the file afterwards.                     *)
LEMMA OthersOut ==
    ASSUME UsageTypeOK, OneWriter, NEW t \in Threads, pc[t] \in Holding,
           \A u \in Threads \ {t} : pc'[u] = pc[u],
           Buffered(t)'
    PROVE  OneWriter' /\ AllBuffered'
<1>1. \A u \in Threads \ {t} : pc'[u] \notin Holding
  BY Alone
<1>2. OneWriter'
  BY <1>1 DEF OneWriter
<1>3. \A u \in Threads \ {t} : Buffered(u)'
  BY <1>1 DEF Buffered, Holding, Migrating, Saving, Waiting
<1>4. AllBuffered'
  BY <1>3 DEF AllBuffered
<1> QED BY <1>2, <1>4
LEMMA WriteMergedStep ==
    ASSUME UsageAssumption, UsageInv, UsageTypeOK', NEW t \in Threads,
         WriteMerged(t)
    PROVE  UsageInv'
<1>0. UsageTypeOK /\ OneWriter /\ Buffered(t)
  BY DEF UsageInv, AllBuffered
<1>1. /\ pc[t] = "migrateWrite" /\ pc'[t] = "migrateSign" /\ exists'
      /\ \A u \in Threads \ {t} : pc'[u] = pc[u]
      /\ UNCHANGED <<version, imports, recorded, session, flushed, batch>>
  BY <1>0 DEF UsageTypeOK, WriteMerged, MoveTo, trackers
<1>2. batch[t] \in 1..version /\ costs' = Merged(costs, Legacy[batch[t]])
  BY <1>0, <1>1 DEF WriteMerged, Buffered
<1>3. /\ costs \in [Records -> Nat] /\ version \in 0..Versions /\ Versions \in Nat
      /\ Legacy[batch[t]] \in [Old -> Nat] /\ batch[t] \in 0..Versions
  BY <1>0, <1>2 DEF UsageAssumption, UsageTypeOK
<1>4. \A r \in New : costs'[r] = costs[r]
  BY <1>2, <1>3, MergedCounts
<1>5. \A r \in Old : /\ costs[r] <= costs'[r] /\ Legacy[batch[t]][r] <= costs'[r]
                   /\ costs'[r] \in {costs[r], Legacy[batch[t]][r]}
  BY <1>2, <1>3, MergedCounts
<1>6. Buffered(t)'
  BY <1>1, <1>2, <1>5 DEF Buffered
<1>7. OneWriter' /\ AllBuffered'
  BY <1>0, <1>1, <1>6, OthersOut DEF Holding, Migrating, Saving,
       Waiting
<1>8. \A p \in Processes : \A i \in DOMAIN session[p] :
         costs'[session[p][i]] = costs[session[p][i]]
  BY <1>0, <1>4, SessionEntries
<1>9. (RecordsDiffer /\ ImportsKnown /\ ChargedOnce)'
  BY <1>1, <1>4 DEF UsageInv, RecordsDiffer, ImportsKnown, Promises, ChargedOnce
<1>10. Counted'
  BY <1>1, <1>8 DEF UsageInv, Counted
<1>11. FlushedIsSaved'
  BY <1>1, <1>8 DEF UsageInv, Promises, FlushedIsSaved
<1>12. ImportedOnce'
  <2>1. \A r \in Old : Legacy[batch[t]][r] <= Legacy[version][r]
    BY <1>2, <1>3 DEF UsageAssumption
  <2> QED BY <1>1, <1>5, <2>1 DEF UsageInv, Promises, ImportedOnce
<1>13. ReceiptsTruthful'
  <2> SUFFICES ASSUME NEW n \in imports, NEW r \in Old PROVE Legacy[n][r] <= costs'[r]
    BY <1>1 DEF ReceiptsTruthful
  <2>1. Legacy[n][r] <= costs[r]
    BY DEF UsageInv, Promises, ReceiptsTruthful
  <2>2. costs[r] \in Nat /\ costs'[r] \in Nat /\ Legacy[n][r] \in Nat
    BY <1>0 DEF UsageAssumption, UsageTypeOK, Records
  <2> QED BY <1>5, <2>1, <2>2
<1> QED BY <1>7, <1>9, <1>10, <1>11, <1>12, <1>13 DEF UsageInv, Promises

LEMMA WriteReceiptStep ==
    ASSUME UsageAssumption, UsageInv, UsageTypeOK', NEW t \in Threads,
         WriteReceipt(t)
    PROVE  UsageInv'
<1>0. UsageTypeOK /\ OneWriter /\ Buffered(t)
  BY DEF UsageInv, AllBuffered
<1>1. /\ pc[t] = "migrateSign" /\ pc'[t] = "idle"
      /\ imports' = imports \union {batch[t]}
      /\ \A u \in Threads \ {t} : pc'[u] = pc[u] /\ batch'[u] = batch[u]
      /\ UNCHANGED <<version, exists, costs, recorded, session, flushed>>
  BY <1>0 DEF UsageTypeOK, WriteReceipt, Leave, MoveTo
<1>2. /\ batch[t] \in 1..version /\ exists
      /\ \A r \in Old : Legacy[batch[t]][r] <= costs[r]
  BY <1>0, <1>1 DEF Buffered
<1>3. Buffered(t)'
  BY <1>1 DEF Buffered
<1>4. OneWriter' /\ AllBuffered'
  BY <1>0, <1>1, <1>3, OthersOut DEF Holding, Migrating, Saving,
       Waiting
<1>5. Counted'
  BY <1>1 DEF UsageInv, Counted
<1>6. (RecordsDiffer /\ ChargedOnce /\ FlushedIsSaved /\ ImportedOnce)'
  BY <1>1 DEF UsageInv, RecordsDiffer, Promises, ChargedOnce,
       FlushedIsSaved, ImportedOnce
<1>7. ImportsKnown' /\ ReceiptsTruthful'
  BY <1>0, <1>1, <1>2 DEF UsageTypeOK, UsageInv, ImportsKnown, Promises,
       ReceiptsTruthful
<1> QED BY <1>4, <1>5, <1>6, <1>7 DEF UsageInv, Promises

LEMMA ReplaceStep ==
    ASSUME UsageAssumption, UsageInv, UsageTypeOK', NEW t \in Threads,
         Replace(t)
    PROVE  UsageInv'
<1> DEFINE p == ProcessOf[t]
<1>0. UsageTypeOK /\ OneWriter /\ Buffered(t) /\ p \in Processes
  BY DEF UsageAssumption, UsageInv, AllBuffered
<1>1. /\ pc[t] = "saveWrite" /\ pc'[t] = "saveCount" /\ exists'
      /\ \A u \in Threads \ {t} : pc'[u] = pc[u]
      /\ UNCHANGED <<version, imports, recorded, session, flushed, batch>>
  BY <1>0 DEF UsageTypeOK, Replace, MoveTo, trackers
<1>2. /\ costs' = With(costs, Batch(t))
      /\ flushed[p] + batch[t] <= Len(session[p])
  BY <1>0, <1>1 DEF Replace, Buffered
<1>3. \A r \in Records :
         /\ costs[r] \in Nat /\ costs'[r] \in Nat
         /\ r \in Batch(t) => costs'[r] = costs[r] + 1
         /\ r \notin Batch(t) => costs'[r] = costs[r]
  BY <1>0, <1>2 DEF UsageTypeOK, With
<1>4. flushed[p] \in Nat /\ batch[t] \in Nat /\ Len(session[p]) \in Nat
  BY <1>0 DEF UsageTypeOK
<1>5. \A r \in Batch(t) :
         \E i \in DOMAIN session[p] :
            r = session[p][i] /\ i > flushed[p] /\ i <= flushed[p] + batch[t]
  BY <1>0, <1>2, <1>4, SessionEntries DEF Batch
<1>6. \A u \in Threads : pc[u] # "saveCount"
  BY <1>0, <1>1 DEF OneWriter, Holding, Migrating, Saving,
       Waiting
<1>7. \A r \in Batch(t) : r \in New /\ r \in recorded /\ costs[r] = 0 /\ costs'[r] = 1
  <2> SUFFICES ASSUME NEW r \in Batch(t)
               PROVE  r \in New /\ r \in recorded /\ costs[r] = 0 /\ costs'[r] = 1
    OBVIOUS
  <2>1. PICK i \in DOMAIN session[p] : r = session[p][i] /\ i > flushed[p]
    BY <1>5
  <2>2. r \in New /\ r \in recorded
    BY <1>0, <2>1, SessionEntries DEF UsageInv, RecordsDiffer
  <2>3. costs[r] = 0
    BY <1>0, <1>6, <2>1 DEF UsageInv, Counted
  <2> QED BY <1>3, <2>2, <2>3 DEF Records
<1>8. Batch(t)' = Batch(t)
  BY <1>1 DEF Batch
<1>9. Buffered(t)'
  BY <1>1, <1>2, <1>7, <1>8 DEF Buffered
<1>10. OneWriter' /\ AllBuffered'
  BY <1>0, <1>1, <1>9, OthersOut DEF Holding, Migrating, Saving,
       Waiting
<1>11. \A q \in Processes : \A i \in DOMAIN session[q] :
          session[q][i] \in Batch(t) =>
             q = p /\ i > flushed[p] /\ i <= flushed[p] + batch[t]
  BY <1>0, <1>5 DEF UsageInv, RecordsDiffer
<1>12. Counted'
  <2> SUFFICES ASSUME NEW q \in Processes, NEW i \in DOMAIN session[q], i > flushed[q],
                      costs'[session[q][i]] # 0
               PROVE  \E u \in Threads : /\ ProcessOf[u] = q /\ pc'[u] = "saveCount"
                                         /\ i <= flushed[q] + batch[u]
    BY <1>1 DEF UsageInv, Counted
  <2>1. session[q][i] \in New /\ costs[session[q][i]] = 0
    BY <1>0, <1>6, SessionEntries DEF UsageInv, Counted
  <2>2. session[q][i] \in Batch(t)
    BY <1>3, <2>1 DEF Records
  <2> QED BY <1>1, <1>11, <2>2
<1>13. RecordsDiffer' /\ ImportsKnown'
  <2>1. \A r \in New \ recorded : costs'[r] = 0
    BY <1>3, <1>7 DEF UsageInv, RecordsDiffer, Records
  <2> QED BY <1>1, <2>1 DEF UsageInv, RecordsDiffer, ImportsKnown
<1>14. ChargedOnce'
  BY <1>3, <1>7 DEF UsageInv, Promises, ChargedOnce, Records
<1>15. FlushedIsSaved'
  <2> SUFFICES ASSUME NEW q \in Processes, NEW i \in 1..flushed[q]
               PROVE  i \in DOMAIN session[q] /\ costs'[session[q][i]] = 1
    BY <1>1 DEF FlushedIsSaved
  <2>1. i \in DOMAIN session[q] /\ costs[session[q][i]] = 1
    BY DEF UsageInv, Promises, FlushedIsSaved
  <2>2. session[q][i] \in New /\ session[q][i] \notin Batch(t)
    BY <1>0, <1>7, <2>1, SessionEntries
  <2> QED BY <1>3, <2>1, <2>2 DEF Records
<1>16. \A r \in Old : costs'[r] = costs[r]
  BY <1>3, <1>7 DEF UsageAssumption, Records
<1>17. ImportedOnce' /\ ReceiptsTruthful'
  BY <1>1, <1>16 DEF UsageInv, Promises, ImportedOnce, ReceiptsTruthful
<1> QED BY <1>10, <1>12, <1>13, <1>14, <1>15, <1>17 DEF UsageInv, Promises
LEMMA CountFlushedStep ==
    ASSUME UsageAssumption, UsageInv, UsageTypeOK', NEW t \in Threads,
         CountFlushed(t)
    PROVE  UsageInv'
<1> DEFINE p == ProcessOf[t]
<1>0. UsageTypeOK /\ OneWriter /\ Buffered(t) /\ p \in Processes
  BY DEF UsageAssumption, UsageInv, AllBuffered
<1>1. /\ pc[t] = "saveCount" /\ pc'[t] = "idle"
      /\ flushed' = [flushed EXCEPT ![p] = @ + batch[t]]
      /\ \A u \in Threads \ {t} : pc'[u] = pc[u]
      /\ UNCHANGED <<version, exists, costs, imports, recorded, session>>
  BY <1>0 DEF UsageTypeOK, CountFlushed, Leave, MoveTo, usageFiles
<1>2. /\ flushed'[p] = flushed[p] + batch[t]
      /\ \A q \in Processes \ {p} : flushed'[q] = flushed[q]
      /\ \A q \in Processes : flushed[q] \in Nat
      /\ batch[t] \in Nat
  BY <1>0, <1>1 DEF UsageTypeOK
<1>3. flushed'[p] <= Len(session[p]) /\ \A r \in Batch(t) : costs[r] = 1
  BY <1>0, <1>1, <1>2 DEF Buffered
<1>4. Buffered(t)'
  BY <1>1 DEF Buffered
<1>5. OneWriter' /\ AllBuffered'
  BY <1>0, <1>1, <1>4, OthersOut DEF Holding, Migrating, Saving,
       Waiting
<1>6. \A u \in Threads \ {t} : pc[u] # "saveCount"
  BY <1>0, <1>1 DEF OneWriter, Holding, Migrating, Saving,
       Waiting
<1>7. Counted'
  <2>1. ASSUME NEW q \in Processes, NEW i \in DOMAIN session[q], i > flushed'[q]
        PROVE  costs[session[q][i]] = 0
    <3>1. i \in Nat /\ i > flushed[q] /\ (q = p => i > flushed[p] + batch[t])
      BY <1>0, <1>2, <2>1, SessionEntries
    <3>2. \A u \in Threads :
             ProcessOf[u] = q /\ pc[u] = "saveCount" => ~(i <= flushed[q] + batch[u])
      <4> SUFFICES ASSUME ProcessOf[t] = q PROVE ~(i <= flushed[q] + batch[t])
        BY <1>6
      <4> QED BY <1>2, <3>1
    <3> QED BY <3>1, <3>2 DEF UsageInv, Counted
  <2>2. \A q \in Processes : flushed'[q] <= Len(session[q])
    BY <1>2, <1>3 DEF UsageInv, Counted
  <2> QED BY <1>1, <2>1, <2>2 DEF Counted
<1>8. FlushedIsSaved'
  <2> SUFFICES ASSUME NEW q \in Processes, NEW i \in 1..flushed'[q]
               PROVE  i \in DOMAIN session[q] /\ costs[session[q][i]] = 1
    BY <1>1 DEF FlushedIsSaved
  <2>1. CASE i <= flushed[q]
    BY <1>2, <2>1 DEF UsageInv, Promises, FlushedIsSaved
  <2>2. CASE i > flushed[q]
    <3>1. q = p /\ i \in flushed[p] + 1 .. flushed[p] + batch[t]
      BY <1>0, <1>2, <2>2
    <3>2. session[q][i] \in Batch(t)
      BY <3>1 DEF Batch
    <3>3. i \in DOMAIN session[q]
      BY <1>0, <1>2, <1>3, <2>2, <3>1, SessionEntries
    <3> QED BY <1>3, <3>2, <3>3
  <2>3. i \in Nat /\ flushed[q] \in Nat
    BY <1>2
  <2> QED BY <2>1, <2>2, <2>3
<1>9. (/\ RecordsDiffer /\ ImportsKnown /\ ChargedOnce
       /\ ImportedOnce /\ ReceiptsTruthful)'
  BY <1>1 DEF UsageInv, RecordsDiffer, ImportsKnown, Promises, ChargedOnce,
       ImportedOnce, ReceiptsTruthful
<1> QED BY <1>5, <1>7, <1>8, <1>9 DEF UsageInv, Promises

(* A record is added behind those that any thread is writing.                     *)
LEMMA RecordStep ==
    ASSUME UsageAssumption, UsageInv, UsageTypeOK', NEW t \in Threads,
         NEW r \in New, RecordUsage(t, r)
    PROVE  UsageInv'
<1> DEFINE p == ProcessOf[t]
           n == Len(session[p])
<1>0. UsageTypeOK /\ p \in Processes
  BY DEF UsageAssumption, UsageInv
<1>1. /\ r \notin recorded /\ recorded' = recorded \union {r}
      /\ session' = [session EXCEPT ![p] = Append(@, r)]
      /\ UNCHANGED <<version, exists, costs, imports, flushed, pc, content, batch>>
  BY DEF RecordUsage, usageFiles, locals
<1>2. costs[r] = 0 /\ \A q \in Processes : \A i \in DOMAIN session[q] : session[q][i] # r
  BY <1>0, <1>1 DEF UsageInv, RecordsDiffer
<1>3. /\ session'[p] = Append(session[p], r)
      /\ \A q \in Processes \ {p} : session'[q] = session[q]
      /\ session[p] \in Seq(New) /\ n \in Nat
  BY <1>0, <1>1 DEF UsageTypeOK
<1>4. /\ DOMAIN session'[p] = 1 .. n + 1 /\ Len(session'[p]) = n + 1
      /\ session'[p][n + 1] = r
      /\ \A i \in 1..n : session'[p][i] = session[p][i]
  BY <1>3
<1>5. \A q \in Processes :
         /\ Len(session[q]) \in Nat /\ DOMAIN session[q] = 1..Len(session[q])
         /\ flushed[q] \in Nat /\ flushed[q] <= Len(session[q])
  BY <1>0, SessionEntries DEF UsageInv, Counted, UsageTypeOK
<1>6. \A q \in Processes :
         /\ Len(session[q]) <= Len(session'[q])
         /\ \A i \in 1..Len(session[q]) : session'[q][i] = session[q][i]
         /\ \A i \in DOMAIN session'[q] : i \in DOMAIN session[q] \/ (q = p /\ i = n + 1)
  BY <1>3, <1>4, <1>5
<1>7. RecordsDiffer'
  <2>1. \A q \in Processes : \A i \in DOMAIN session'[q] :
           session'[q][i] \in recorded \/ (q = p /\ i = n + 1)
    BY <1>5, <1>6 DEF UsageInv, RecordsDiffer
  <2>2. \A q \in Processes : \A i \in DOMAIN session'[q] : session'[q][i] \in recorded'
    BY <1>1, <1>4, <2>1
  <2>3. ASSUME NEW q1 \in Processes, NEW q2 \in Processes,
               NEW i \in DOMAIN session'[q1], NEW j \in DOMAIN session'[q2],
               session'[q1][i] = session'[q2][j]
        PROVE  q1 = q2 /\ i = j
    <3>1. CASE i \in DOMAIN session[q1] /\ j \in DOMAIN session[q2]
      <4>1. i \in 1..Len(session[q1]) /\ j \in 1..Len(session[q2])
        BY <1>5, <3>1
      <4>2. session'[q1][i] = session[q1][i] /\ session'[q2][j] = session[q2][j]
        BY <1>6, <4>1
      <4>3. session[q1][i] = session[q2][j]
        BY ONLY <2>3, <4>2
      <4> QED BY <3>1, <4>3 DEF UsageInv, RecordsDiffer
    <3>2. CASE i \notin DOMAIN session[q1] \/ j \notin DOMAIN session[q2]
      <4>1. (q1 = p /\ i = n + 1) \/ (q2 = p /\ j = n + 1)
        <5>1. i \in DOMAIN session[q1] \/ (q1 = p /\ i = n + 1)
          BY <1>6
        <5>2. j \in DOMAIN session[q2] \/ (q2 = p /\ j = n + 1)
          BY <1>6
        <5> QED BY <3>2, <5>1, <5>2
      <4>2. session'[q1][i] = r
        BY <1>4, <2>3, <4>1
      <4>3. \A q \in Processes : \A k \in DOMAIN session'[q] :
               session'[q][k] = r => q = p /\ k = n + 1
        BY <1>2, <1>5, <1>6
      <4> QED BY <2>3, <4>2, <4>3
    <3> QED BY <3>1, <3>2
  <2>4. \A x \in New \ recorded' : costs'[x] = 0
    BY <1>1 DEF UsageInv, RecordsDiffer
  <2> QED BY <2>2, <2>3, <2>4 DEF RecordsDiffer
<1>8. Counted'
  <2> SUFFICES ASSUME NEW q \in Processes
               PROVE  /\ flushed[q] <= Len(session'[q])
                      /\ \A i \in DOMAIN session'[q] : i > flushed[q] =>
                            \/ costs[session'[q][i]] = 0
                            \/ \E u \in Threads : /\ ProcessOf[u] = q /\ pc[u] = "saveCount"
                                                  /\ i <= flushed[q] + batch[u]
    BY <1>1 DEF Counted
  <2>1. flushed[q] <= Len(session'[q])
    BY <1>3, <1>4, <1>5
  <2>2. ASSUME NEW i \in DOMAIN session'[q], i > flushed[q], costs[session'[q][i]] # 0
        PROVE  \E u \in Threads : /\ ProcessOf[u] = q /\ pc[u] = "saveCount"
                                  /\ i <= flushed[q] + batch[u]
    <3>1. i \in DOMAIN session[q] /\ session'[q][i] = session[q][i]
      BY <1>2, <1>4, <1>5, <1>6, <2>2
    <3> QED BY <2>2, <3>1 DEF UsageInv, Counted
  <2> QED BY <2>1, <2>2
<1>9. ASSUME NEW u \in Threads PROVE Buffered(u)'
  <2> DEFINE q == ProcessOf[u]
  <2>1. Buffered(u) /\ q \in Processes /\ batch[u] \in Nat
    BY <1>0 DEF UsageAssumption, UsageInv, AllBuffered, UsageTypeOK
  <2>2. CASE pc[u] \in {"saveWrite", "saveCount"}
    <3>1. flushed[q] + batch[u] <= Len(session[q])
      BY <2>1, <2>2 DEF Buffered
    <3>2. \A i \in flushed[q] + 1 .. flushed[q] + batch[u] : session'[q][i] = session[q][i]
      BY SMTT(30), <1>5, <1>6, <2>1, <3>1
    <3>3. Batch(u)' = Batch(u)
      BY <1>1, <3>2 DEF Batch
    <3>4. With(costs, Batch(u))' = With(costs, Batch(u))
      BY <1>1, <3>3 DEF With
    <3>5. flushed[q] + batch[u] <= Len(session'[q])
      BY <1>5, <1>6, <2>1, <3>1, <1>3, <1>4
    <3> QED BY <1>1, <2>1, <2>2, <3>3, <3>4, <3>5 DEF Buffered
  <2>3. CASE pc[u] \notin {"saveWrite", "saveCount"}
    BY <1>1, <2>1, <2>3 DEF Buffered
  <2> QED BY <2>2, <2>3
<1>10. OneWriter' /\ AllBuffered' /\ ImportsKnown'
  BY <1>1, <1>9 DEF UsageInv, OneWriter, AllBuffered, ImportsKnown
<1>11. FlushedIsSaved'
  <2> SUFFICES ASSUME NEW q \in Processes, NEW i \in 1..flushed[q]
               PROVE  i \in DOMAIN session'[q] /\ costs[session'[q][i]] = 1
    BY <1>1 DEF FlushedIsSaved
  <2>1. i \in DOMAIN session[q] /\ costs[session[q][i]] = 1
    BY DEF UsageInv, Promises, FlushedIsSaved
  <2> QED BY <1>3, <1>4, <1>5, <1>6, <2>1
<1>12. (ChargedOnce /\ ImportedOnce /\ ReceiptsTruthful)'
  BY <1>1 DEF UsageInv, Promises, ChargedOnce, ImportedOnce,
       ReceiptsTruthful
<1> QED BY <1>7, <1>8, <1>10, <1>11, <1>12 DEF UsageInv, Promises
(* A process takes its tracker and its memory with it.                            *)
LEMMA DiesStep ==
    ASSUME UsageAssumption, UsageInv, UsageTypeOK', NEW p \in Processes,
         Dies(p)
    PROVE  UsageInv'
<1>0. UsageTypeOK
  BY DEF UsageInv
<1>1. /\ session'[p] = <<>> /\ flushed'[p] = 0
      /\ \A q \in Processes \ {p} : session'[q] = session[q] /\ flushed'[q] = flushed[q]
      /\ UNCHANGED <<version, exists, costs, imports, recorded>>
  BY <1>0 DEF UsageTypeOK, Dies, usageFiles
<1>2. \A t \in Threads :
         \/ ProcessOf[t] = p /\ pc'[t] = "idle"
         \/ /\ ProcessOf[t] # p
            /\ pc'[t] = pc[t] /\ content'[t] = content[t] /\ batch'[t] = batch[t]
  BY <1>0 DEF UsageTypeOK, Dies
<1>3. OneWriter'
  BY <1>2 DEF UsageInv, OneWriter, Holding, Migrating, Saving
<1>4. RecordsDiffer'
  BY <1>1 DEF UsageInv, RecordsDiffer
<1>5. Counted'
  BY <1>1, <1>2 DEF UsageInv, Counted
<1>6. ASSUME NEW t \in Threads PROVE Buffered(t)'
  <2>1. Buffered(t) /\ ProcessOf[t] \in Processes
    BY DEF UsageAssumption, UsageInv, AllBuffered
  <2>2. CASE ProcessOf[t] = p
    BY <1>2, <2>2 DEF Buffered
  <2>3. CASE ProcessOf[t] # p
    <3>1. Batch(t)' = Batch(t)
      BY <1>1, <1>2, <2>1, <2>3 DEF Batch
    <3> QED BY <1>1, <1>2, <2>1, <2>3, <3>1 DEF Buffered, With, Merged
  <2> QED BY <2>2, <2>3
<1>7. AllBuffered' /\ ImportsKnown'
  BY <1>1, <1>6 DEF UsageInv, AllBuffered, ImportsKnown
<1>8. FlushedIsSaved'
  BY <1>1 DEF UsageInv, Promises, FlushedIsSaved
<1>9. (ChargedOnce /\ ImportedOnce /\ ReceiptsTruthful)'
  BY <1>1 DEF UsageInv, Promises, ChargedOnce, ImportedOnce,
       ReceiptsTruthful
<1> QED BY <1>3, <1>4, <1>5, <1>7, <1>8, <1>9 DEF UsageInv, Promises

LEMMA GrowsStep ==
    ASSUME UsageAssumption, UsageInv, UsageTypeOK', LegacyGrows
    PROVE  UsageInv'
<1>0. UsageTypeOK /\ version \in 0..Versions /\ version + 1 \in 0..Versions
  BY DEF UsageInv, UsageTypeOK, LegacyGrows
<1>1. /\ version' = version + 1
      /\ UNCHANGED <<exists, costs, imports, recorded, session, flushed, pc, content,
           batch>>
  BY DEF LegacyGrows, usageFiles, trackers, locals
<1>2. (OneWriter /\ RecordsDiffer /\ Counted)'
  BY <1>1 DEF UsageInv, OneWriter, RecordsDiffer, Counted
<1>3. ASSUME NEW t \in Threads PROVE Buffered(t)'
  <2>1. Buffered(t) /\ Batch(t)' = Batch(t)
    BY <1>1 DEF UsageInv, AllBuffered, Batch
  <2>2. batch[t] \in 1..version => batch[t] \in 1 .. version + 1
    BY <1>0 DEF UsageTypeOK
  <2> QED BY <1>1, <2>1, <2>2 DEF Buffered, With, Merged
<1>4. AllBuffered' /\ ImportsKnown'
  BY <1>0, <1>1, <1>3 DEF UsageInv, AllBuffered, ImportsKnown, UsageTypeOK
<1>5. ImportedOnce'
  <2> SUFFICES ASSUME NEW r \in Old PROVE costs[r] <= Legacy[version + 1][r]
    BY <1>1 DEF ImportedOnce
  <2>1. costs[r] <= Legacy[version][r] /\ Legacy[version][r] <= Legacy[version + 1][r]
    BY <1>0 DEF UsageAssumption, UsageInv, Promises, ImportedOnce
  <2>2. costs[r] \in Nat /\ Legacy[version][r] \in Nat /\ Legacy[version + 1][r] \in Nat
    BY <1>0 DEF UsageAssumption, UsageTypeOK, Records
  <2> QED BY <2>1, <2>2
<1>6. (ChargedOnce /\ FlushedIsSaved /\ ReceiptsTruthful)'
  BY <1>1 DEF UsageInv, Promises, ChargedOnce, FlushedIsSaved,
       ReceiptsTruthful
<1> QED BY <1>2, <1>4, <1>5, <1>6 DEF UsageInv, Promises

LEMMA UsageInvStep == ASSUME UsageAssumption, UsageInv,
     [UsageNext]_usageVars PROVE UsageInv'
<1>1. UsageTypeOK'
  BY UsageTypeStep DEF UsageInv
<1>2. CASE UNCHANGED usageVars
  BY <1>1, <1>2 DEF usageVars, usageFiles, trackers, locals, UsageInv,
       OneWriter, RecordsDiffer, Counted, AllBuffered,
     Buffered, Batch, With, Merged, ImportsKnown, Promises,
          ChargedOnce, FlushedIsSaved, ImportedOnce,
     ReceiptsTruthful
<1>3. CASE LegacyGrows
  BY <1>1, <1>3, GrowsStep
<1>4. ASSUME NEW p \in Processes, Dies(p) PROVE UsageInv'
  BY <1>1, <1>4, DiesStep
<1>5. ASSUME NEW t \in Threads, NEW r \in New, RecordUsage(t, r) PROVE UsageInv'
  BY <1>1, <1>5, RecordStep
<1>6. ASSUME NEW t \in Threads, ThreadStep(t) PROVE UsageInv'
  <2>1. CASE WriteMerged(t)
    BY <1>1, <2>1, WriteMergedStep
  <2>2. CASE WriteReceipt(t)
    BY <1>1, <2>2, WriteReceiptStep
  <2>3. CASE Replace(t)
    BY <1>1, <2>3, ReplaceStep
  <2>4. CASE CountFlushed(t)
    BY <1>1, <2>4, CountFlushedStep
  <2> QED BY <1>1, <1>6, <2>1, <2>2, <2>3, <2>4, QuietStep DEF ThreadStep
<1> QED BY <1>2, <1>3, <1>4, <1>5, <1>6 DEF UsageNext

(* No step takes a record from the history.                                       *)
LEMMA HistoryGrows ==
    ASSUME UsageAssumption, UsageInv, [UsageNext]_usageVars
    PROVE  \A r \in Records : costs[r] <= costs'[r]
<1>1. UsageTypeOK
  BY DEF UsageInv
<1>2. \A r \in Records : costs[r] \in Nat
  BY <1>1 DEF UsageTypeOK
<1>3. CASE UNCHANGED costs
  BY <1>2, <1>3
<1>4. ASSUME NEW t \in Threads,
     WriteMerged(t) PROVE \A r \in Records : costs[r] <= costs'[r]
  <2>1. batch[t] \in 1..version /\ costs' = Merged(costs, Legacy[batch[t]])
    BY <1>4 DEF UsageInv, AllBuffered, Buffered, WriteMerged
  <2>2. costs \in [Records -> Nat] /\ Legacy[batch[t]] \in [Old -> Nat]
    BY <1>1, <2>1 DEF UsageAssumption, UsageTypeOK
  <2>3. /\ \A r \in New : costs'[r] = costs[r]
        /\ \A r \in Old : costs[r] <= costs'[r]
    BY ONLY UsageAssumption, <2>1, <2>2, MergedCounts
  <2> QED BY <1>2, <2>3 DEF Records
<1>5. ASSUME NEW t \in Threads,
     Replace(t) PROVE \A r \in Records : costs[r] <= costs'[r]
  <2>1. costs' = With(costs, Batch(t))
    BY <1>5 DEF UsageInv, AllBuffered, Buffered, Replace
  <2> QED BY <1>2, <2>1 DEF With
<1> QED BY <1>3, <1>4, <1>5 DEF UsageNext, ThreadStep, usageVars, usageFiles,
     LegacyGrows, Dies, RecordUsage, Resolve,
           Save, Enter, Fails, NothingToImport,
                ReadLegacy, WriteReceipt, Reload, CountFlushed

-----------------------------------------------------------------------------------
(* The history of usage_tracker.py is the sum of what was recorded: a run's cost   *)
(* is in it at most once, and once when its tracker takes it for saved; an older   *)
(* installation's records come once, and all of them when a receipt says so; and   *)
(* no step takes a record away.                                                   *)
THEOREM HistoryIsSum == ASSUME UsageAssumption PROVE UsageSpec => UsageSound
<1>1. UsageInit => UsageInv
  BY UsageInvInit
<1>2. UsageInv /\ [UsageNext]_usageVars => UsageInv'
  BY UsageInvStep
<1>3. UsageInv => /\ UsageTypeOK /\ ChargedOnce /\ FlushedIsSaved
                  /\ ImportedOnce /\ ReceiptsTruthful
  BY DEF UsageInv, Promises
<1>4. UsageInv /\ [UsageNext]_usageVars => [\A r \in Records : costs[r] <= costs'[r]]_usageVars
  BY HistoryGrows
<1> QED BY <1>1, <1>2, <1>3, <1>4, PTL DEF UsageSpec, UsageSound,
     NothingForgotten
================================================================================
