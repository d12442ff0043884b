------------------------------ MODULE UsageHistory ------------------------------
(* What runs cost (utils/usage_tracker.py): the records of a process's runs,     *)
(* the history file in which the processes of a user collect them, and the       *)
(* import of the history an older installation wrote. The file is read and       *)
(* replaced under a lock of the process's threads and an advisory file lock      *)
(* (utils/atomic_io.py); both go with the process that dies.                     *)
(* A record is whole JSON, so that the file is a bag of records; those of runs   *)
(* differ by their time. What a record counts is left out, and so is the copy    *)
(* of an unreadable older history, which no code reads.                          *)
EXTENDS Naturals, Sequences

CONSTANTS
    Threads, Processes,
    ProcessOf,      \* the process a thread belongs to
    New,            \* records of runs
    Old,            \* records of the older installation
    Versions,       \* how often that installation may still write its file
    Legacy          \* how often a version of its file has each record; 0: no file

UsageAssumption ==
    /\ ProcessOf \in [Threads -> Processes]
    /\ New \intersect Old = {}
    /\ Versions \in Nat
    /\ Legacy \in [0..Versions -> [Old -> Nat]]
    /\ \A m, n \in 0..Versions : m <= n => \A r \in Old : Legacy[m][r] <= Legacy[n][r]

VARIABLES
    version,    \* of the older installation's file
    exists,     \* there is a history file
    costs,    \* how often it has each record
    imports,   \* the versions for which there is a receipt of their import
    recorded,   \* history: the records made so far
    open,       \* processes that have a tracker
    session,    \* the records of a process's tracker
    flushed,    \* how many of them the tracker takes for saved
    pc,         \* where each thread is
    content,    \* what it is about to write
    batch       \* how many records of the session, or which version, that includes

usageFiles == <<exists, costs, imports>>
trackers == <<open, session, flushed>>
locals == <<pc, content, batch>>
usageVars == <<version, usageFiles, recorded, trackers, locals>>

Records == New \union Old

Migrating == {"migrate", "migrateRead", "migrateWrite", "migrateSign"}
Saving == {"save", "saveRead", "saveWrite", "saveCount"}
Waiting == {"migrate", "save"}
Holding == (Migrating \union Saving) \ Waiting

UsageTypeOK ==
    /\ version \in 0..Versions
    /\ exists \in BOOLEAN
    /\ costs \in [Records -> Nat]
    /\ imports \subseteq 1..Versions
    /\ recorded \subseteq New
    /\ open \subseteq Processes
    /\ session \in [Processes -> Seq(New)]
    /\ flushed \in [Processes -> Nat]
    /\ pc \in [Threads -> Migrating \union Saving \union {"idle"}]
    /\ content \in [Threads -> [Records -> Nat]]
    /\ batch \in [Threads -> Nat]

Nothing == [r \in Records |-> 0]

UsageInit ==
    /\ version = 0
    /\ exists = FALSE /\ costs = Nothing /\ imports = {}
    /\ recorded = {}
    /\ open = {}
    /\ session = [p \in Processes |-> <<>>]
    /\ flushed = [p \in Processes |-> 0]
    /\ pc = [t \in Threads |-> "idle"]
    /\ content = [t \in Threads |-> Nothing]
    /\ batch = [t \in Threads |-> 0]

MoveTo(t, place) == pc' = [pc EXCEPT ![t] = place]

(* A thread leaves the file and its locks; one that resolved its path has the   *)
(* tracker then, whether the import succeeded or not.                          *)
Leave(t) ==
    /\ MoveTo(t, "idle")
    /\ open' = IF pc[t] \in Migrating THEN open \union {ProcessOf[t]} ELSE open
    /\ content' = [content EXCEPT ![t] = Nothing]
    /\ batch' = [batch EXCEPT ![t] = 0]
    /\ UNCHANGED session

-------------------------------------------------------------------------------
(* What happens outside.                                                       *)

(* The older installation adds to its own file.                                *)
LegacyGrows ==
    /\ version < Versions
    /\ version' = version + 1
    /\ UNCHANGED <<usageFiles, recorded, trackers, locals>>

(* A process ends with its records, wherever its threads are.                  *)
Dies(p) ==
    /\ p \in open \/ \E t \in Threads : ProcessOf[t] = p /\ pc[t] # "idle"
    /\ open' = open \ {p}
    /\ session' = [session EXCEPT ![p] = <<>>]
    /\ flushed' = [flushed EXCEPT ![p] = 0]
    /\ pc' = [t \in Threads |-> IF ProcessOf[t] = p THEN "idle" ELSE pc[t]]
    /\ content' = [t \in Threads |-> IF ProcessOf[t] = p THEN Nothing ELSE content[t]]
    /\ batch' = [t \in Threads |-> IF ProcessOf[t] = p THEN 0 ELSE batch[t]]
    /\ UNCHANGED <<version, usageFiles, recorded>>

-------------------------------------------------------------------------------
(* The operations of a tracker.                                                *)

(* get_usage_file, for a tracker that is created or a command that shows it.   *)
Resolve(t) ==
    /\ pc[t] = "idle"
    /\ MoveTo(t, "migrate")
    /\ UNCHANGED <<version, usageFiles, recorded, trackers, content, batch>>

(* record_usage takes no lock: another thread may be saving.                   *)
RecordUsage(t, r) ==
    /\ pc[t] = "idle" /\ ProcessOf[t] \in open
    /\ r \in New \ recorded
    /\ recorded' = recorded \union {r}
    /\ session' = [session EXCEPT ![ProcessOf[t]] = Append(@, r)]
    /\ UNCHANGED <<version, usageFiles, open, flushed, locals>>

Save(t) ==
    /\ pc[t] = "idle" /\ ProcessOf[t] \in open
    /\ MoveTo(t, "save")
    /\ UNCHANGED <<version, usageFiles, recorded, trackers, content, batch>>

(* One thread of a process waits for the file lock or has it, and one process   *)
(* has it.                                                                     *)
Enter(t) ==
    /\ pc[t] \in Waiting
    /\ \A u \in Threads : pc[u] \notin Holding
    /\ MoveTo(t, IF pc[t] = "migrate" THEN "migrateRead" ELSE "saveRead")
    /\ UNCHANGED <<version, usageFiles, recorded, trackers, content, batch>>

(* The lock stays busy too long, a file cannot be read, is no list of records   *)
(* or cannot be replaced: a warning, and nothing is changed.                   *)
Fails(t) ==
    /\ pc[t] \in (Migrating \union Saving) \ {"saveCount"}
    /\ Leave(t)
    /\ UNCHANGED <<version, usageFiles, recorded, flushed>>

(* There is nothing to import.                                                 *)
NothingToImport(t) ==
    /\ pc[t] = "migrateRead"
    /\ version = 0 \/ (version \in imports /\ exists)
    /\ Leave(t)
    /\ UNCHANGED <<version, usageFiles, recorded, flushed>>

(* Each record of the older file takes one equal record of the history for      *)
(* itself; those that find none are added.                                     *)
Merged(current, legacy) ==
    [r \in Records |->
        IF r \in Old /\ legacy[r] > current[r] THEN legacy[r] ELSE current[r]]

ReadLegacy(t) ==
    /\ pc[t] = "migrateRead"
    /\ version > 0 /\ ~(version \in imports /\ exists)
    /\ content' = [content EXCEPT ![t] = Merged(costs, Legacy[version])]
    /\ batch' = [batch EXCEPT ![t] = version]
    /\ MoveTo(t, "migrateWrite")
    /\ UNCHANGED <<version, usageFiles, recorded, trackers>>

WriteMerged(t) ==
    /\ pc[t] = "migrateWrite"
    /\ exists' = TRUE /\ costs' = content[t]
    /\ MoveTo(t, "migrateSign")
    /\ UNCHANGED <<version, imports, recorded, trackers, content, batch>>

WriteReceipt(t) ==
    /\ pc[t] = "migrateSign"
    /\ imports' = imports \union {batch[t]}
    /\ Leave(t)
    /\ UNCHANGED <<version, exists, costs, recorded, flushed>>

(* The history is read again under the lock, and what the tracker has not        *)
(* saved is added to what was read.                                            *)
Unflushed(p) == {session[p][i] : i \in flushed[p] + 1 .. Len(session[p])}
With(current, added) == [r \in Records |-> IF r \in added THEN current[r] + 1 ELSE current[r]]

Reload(t) ==
    LET p == ProcessOf[t] IN
    /\ pc[t] = "saveRead"
    /\ content' = [content EXCEPT ![t] = With(costs, Unflushed(p))]
    /\ batch' = [batch EXCEPT ![t] = Len(session[p]) - flushed[p]]
    /\ MoveTo(t, "saveWrite")
    /\ UNCHANGED <<version, usageFiles, recorded, trackers>>

Replace(t) ==
    /\ pc[t] = "saveWrite"
    /\ exists' = TRUE /\ costs' = content[t]
    /\ MoveTo(t, "saveCount")
    /\ UNCHANGED <<version, imports, recorded, trackers, content, batch>>

(* Only what was written counts, not what was recorded meanwhile.              *)
(* Mutant: all that is recorded counts.                                        *)
CountRecorded(t) ==
    LET p == ProcessOf[t] IN
    /\ pc[t] = "saveCount"
    /\ flushed' = [flushed EXCEPT ![p] = Len(session[p])]
    /\ Leave(t)
    /\ UNCHANGED <<version, usageFiles, recorded>>

CountFlushed(t) ==
    LET p == ProcessOf[t] IN
    /\ pc[t] = "saveCount"
    /\ flushed' = [flushed EXCEPT ![p] = @ + batch[t]]
    /\ Leave(t)
    /\ UNCHANGED <<version, usageFiles, recorded>>

ThreadStep(t) ==
    \/ Resolve(t) \/ Save(t) \/ Enter(t) \/ Fails(t)
    \/ NothingToImport(t) \/ ReadLegacy(t) \/ WriteMerged(t) \/ WriteReceipt(t)
    \/ Reload(t) \/ Replace(t) \/ CountFlushed(t)

UsageNext ==
    \/ LegacyGrows
    \/ \E p \in Processes : Dies(p)
    \/ \E t \in Threads : ThreadStep(t) \/ \E r \in New : RecordUsage(t, r)

UsageSpec == UsageInit /\ [][UsageNext]_usageVars

-------------------------------------------------------------------------------
(* A cost is in the history at most once, whoever saves it, and whatever fails   *)
(* or dies between the replacement and the count.                              *)
ChargedOnce == \A r \in New : costs[r] <= 1

(* What a tracker takes for saved is in the history, also what another thread    *)
(* recorded while it was saved.                                                *)
FlushedIsSaved ==
    \A p \in Processes : \A i \in 1..flushed[p] :
        i \in DOMAIN session[p] /\ costs[session[p][i]] = 1

(* An import that is interrupted and repeated, or repeated because the older     *)
(* file has grown, brings no record more often than that file has it.          *)
ImportedOnce == \A r \in Old : costs[r] <= Legacy[version][r]

(* A receipt, which ends the import of a version for good, is no promise: all    *)
(* that version's records are in the history.                                  *)
ReceiptsTruthful ==
    \A n \in imports : exists /\ \A r \in Old : Legacy[n][r] <= costs[r]

(* No step takes a record away: not one of another process, nor one that was     *)
(* there when the file could not be read.                                      *)
NothingForgotten == [][\A r \in Records : costs[r] <= costs'[r]]_usageVars

(* The history is the sum of what runs and the older installation recorded:      *)
(* ChargedOnce, FlushedIsSaved, ImportedOnce, ReceiptsTruthful, and             *)
(* NothingForgotten.                                                           *)
UsageSound ==
    /\ [](UsageTypeOK /\ ChargedOnce /\ FlushedIsSaved /\ ImportedOnce /\ ReceiptsTruthful)
    /\ NothingForgotten
===============================================================================
