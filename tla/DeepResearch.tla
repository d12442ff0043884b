----------------------------- MODULE DeepResearch -----------------------------
(* One Deep Research job: the client that starts it at the provider and      *)
(* polls it (ai/deep_research.py), the recovery record it leaves, the File    *)
(* Search Store it uploads its context to, and the two other processes that   *)
(* act on both: the operator's `--resume-latest` (core/cli_recovery.py) and   *)
(* the orphan cleanup every other run begins and ends with                    *)
(* (ai/file_search_resources.py).                                             *)
(*                                                                            *)
(* Three ways to run a job are in the code, and differ in what they do with   *)
(* the store when they lose sight of the job:                                 *)
(*   "orchestrator"  DeepResearchOrchestrator.generate_comprehensive_report   *)
(*   "direct"        DeepResearchClient.research                              *)
(*   "resilient"     DeepResearchClient.research_resilient                    *)
(* The registry of records is a set here; PendingJobs models its files.       *)
EXTENDS Integers, FiniteSets

CONSTANTS
    Flows,          \* the ways of running a job that are modelled
    MaxRetries,     \* MAX_RETRIES of the orchestrator
    MaxPollErrors   \* max_poll_errors

DeepResearchAssumption ==
    /\ Flows \subseteq {"orchestrator", "direct", "resilient"}
    /\ MaxRetries \in Nat \ {0} /\ MaxPollErrors \in Nat

VARIABLES
    flow,      \* the way this job is run
    pc,        \* where the client is
    attempt,   \* creations tried
    mine,      \* the interaction the client was told of, or 0
    errors,    \* consecutive poll errors
    inter,     \* the provider's interactions
    record,    \* their recovery records, and whether they name the store
    store,     \* the store
    aged,      \* the store is older than the stale age
    outputs,   \* interactions with durable outputs
    resume,    \* the operator's resume
    cleaner,   \* another run's orphan cleanup
    unheard    \* history: an accepted creation looked like a failure

vars == <<flow, pc, attempt, mine, errors, inter, record, store, aged, outputs,
          resume, cleaner, unheard>>

Ids == 1..MaxRetries
Ended == {"completed", "failed", "expired"}
Final == {"kept", "lost", "published", "unpublished", "crashed"}
Idle == [at |-> "idle", id |-> 0, left |-> {}, named |-> {}]

TypeOK ==
    /\ flow \in Flows
    /\ pc \in {"upload", "create", "backoff", "save", "poll", "sections",
               "publish", "acknowledge"} \union Final
    /\ attempt \in 0..MaxRetries
    /\ mine \in {0} \union Ids
    /\ errors \in 0..MaxPollErrors
    /\ inter \in [Ids -> {"none", "running"} \union Ended]
    /\ record \in [Ids -> {"none", "plain", "named"}]
    /\ store \in {"none", "live", "deleted"}
    /\ aged \in BOOLEAN
    /\ outputs \subseteq Ids
    /\ resume \in [at : {"idle", "next", "output", "store", "remove"},
                   id : {0} \union Ids, left : SUBSET Ids, named : SUBSET Ids]
    /\ cleaner \in {"idle", "protects", "deletes"}
    /\ unheard \in BOOLEAN

Init ==
    /\ flow \in Flows
    /\ pc = "upload"
    /\ attempt = 0 /\ mine = 0 /\ errors = 0
    /\ inter = [i \in Ids |-> "none"]
    /\ record = [i \in Ids |-> "none"]
    /\ store = "none" /\ aged = FALSE
    /\ outputs = {}
    /\ resume = Idle
    /\ cleaner = "idle"
    /\ unheard = FALSE

others == <<resume, cleaner, unheard>>

(* delete_store and _cleanup_file_store: documents first, then the store; an *)
(* error is logged and the store stays. A store that is not there cannot be  *)
(* deleted: the provider answers with an error.                              *)
DeleteStore == store' \in (IF store = "live" THEN {"live", "deleted"} ELSE {store})

(* What the `finally` of the three ways does when the job is over for the    *)
(* client, or the client gives it up: Leave deletes the store, Keep does not. *)
Leave(how) == pc' = how /\ DeleteStore
Keep(how) == pc' = how /\ UNCHANGED store

(* The store is made and filled before anything is spent; without context    *)
(* files there is none. A failed upload removes it.                          *)
Upload ==
    /\ pc = "upload"
    /\ \/ pc' = "create" /\ store' \in {"none", "live"}
       \/ pc' = "lost" /\ store' \in {"none", "live", "deleted"}
    /\ UNCHANGED <<flow, attempt, mine, errors, inter, record, aged, outputs, others>>

(* interactions.create was refused, or its answer was lost. Only the         *)
(* orchestrator tries again (_execute_with_retry), for errors it takes for    *)
(* transient, after a pause.                                                 *)
NotCreated ==
    \/ /\ flow = "orchestrator" /\ attempt + 1 < MaxRetries
       /\ Keep("backoff")
    \/ Leave("lost")

Create ==
    /\ pc = "create"
    /\ attempt' = attempt + 1
    /\ \/ /\ inter' = [inter EXCEPT ![attempt'] = "running"]
          /\ mine' = attempt'
          /\ unheard' = unheard
          /\ Keep("save")
       \/ /\ \/ inter' = inter /\ unheard' = unheard
             \/ inter' = [inter EXCEPT ![attempt'] = "running"] /\ unheard' = TRUE
          /\ mine' = mine
          /\ NotCreated
    /\ UNCHANGED <<flow, errors, record, aged, outputs, resume, cleaner>>

Backoff ==
    /\ pc = "backoff"
    /\ Keep("create") \/ Leave("lost")
    /\ UNCHANGED <<flow, attempt, mine, errors, inter, record, aged, outputs, others>>

(* save_pending_job, which names the store only in the orchestrator. When it *)
(* raises, the orchestrator calls the job's state uncertain and keeps the     *)
(* store (AcceptedInteractionError); the two others give up and delete it.   *)
NamedBy == IF flow = "orchestrator" /\ store = "live" THEN "named" ELSE "plain"

(* Mutant: a job that could not be recorded is tried again.                  *)
SaveRetries ==
    /\ pc = "save"
    /\ \/ record' = [record EXCEPT ![mine] = NamedBy] /\ Keep("poll")
       \/ /\ record' = record
          /\ IF attempt < MaxRetries THEN Keep("backoff") ELSE Leave("lost")
    /\ UNCHANGED <<flow, attempt, mine, errors, inter, aged, outputs, others>>

Save ==
    /\ pc = "save"
    /\ \/ record' = [record EXCEPT ![mine] = NamedBy] /\ Keep("poll")
       \/ /\ record' = record
          /\ IF flow = "orchestrator" THEN Keep("kept") ELSE Leave("lost")
    /\ UNCHANGED <<flow, attempt, mine, errors, inter, aged, outputs, others>>

--------------------------------------------------------------------------------
(* Polling.                                                                  *)

(* The status a way of running takes for the end: `direct` knows only        *)
(* completed and failed, and polls an expired job until its time is up.      *)
SeenEnd == IF flow = "direct" THEN {"completed", "failed"} ELSE Ended

(* An answer: on the end, the orchestrator goes on to write the sections     *)
(* (without a dossier too, when stage one left context) and the others        *)
(* return, deleting the store on their way.                                  *)
PollAnswered ==
    /\ pc = "poll"
    /\ errors' = 0
    /\ IF inter[mine] \notin SeenEnd
       THEN pc' = pc /\ store' = store
       ELSE \/ flow = "orchestrator" /\ Keep("sections")
            \/ flow = "orchestrator" /\ inter[mine] # "completed" /\ Leave("unpublished")
            \/ flow # "orchestrator" /\ inter[mine] = "completed" /\ Leave("publish")
            \/ flow # "orchestrator" /\ inter[mine] # "completed" /\ Leave("unpublished")
    /\ UNCHANGED <<flow, attempt, mine, inter, record, aged, outputs, others>>

PollRetried ==
    /\ pc = "poll"
    /\ errors < MaxPollErrors
    /\ errors' = errors + 1
    /\ UNCHANGED <<flow, pc, attempt, mine, inter, record, store, aged, outputs, others>>

(* The job is lost from sight while the provider may still work on it.       *)
LoseSight(keepers) == IF flow \in keepers THEN Keep("kept") ELSE Leave("lost")

PollTimesOut ==
    /\ pc = "poll"
    /\ LoseSight({"orchestrator", "resilient"})
    /\ UNCHANGED <<flow, attempt, mine, errors, inter, record, aged, outputs, others>>

(* An error that is not transient, or one too many.                          *)
PollFails ==
    /\ pc = "poll"
    /\ LoseSight({"orchestrator"})
    /\ UNCHANGED <<flow, attempt, mine, errors, inter, record, aged, outputs, others>>

(* asyncio.CancelledError.                                                   *)
PollCancelled ==
    /\ pc = "poll"
    /\ LoseSight({"orchestrator", "resilient"})
    /\ UNCHANGED <<flow, attempt, mine, errors, inter, record, aged, outputs, others>>

(* The sections are written from the dossier, and the report assembled; the  *)
(* store goes whatever comes of it, a cancellation included.                 *)
Sections ==
    /\ pc = "sections"
    /\ Leave("publish") \/ Leave("unpublished")
    /\ UNCHANGED <<flow, attempt, mine, errors, inter, record, aged, outputs, others>>

--------------------------------------------------------------------------------
(* The caller writes the report and acknowledges the job                     *)
(* (acknowledge_pending_job_after_outputs, which looks at the files first).  *)

Publish ==
    /\ pc = "publish"
    /\ \/ pc' = "acknowledge" /\ outputs' = outputs \union {mine}
       \/ pc' = "unpublished" /\ outputs' = outputs
    /\ UNCHANGED <<flow, attempt, mine, errors, inter, record, store, aged, others>>

Acknowledge ==
    /\ pc = "acknowledge"
    /\ pc' = "published"
    /\ \/ mine \in outputs /\ record' = [record EXCEPT ![mine] = "none"]
       \/ record' = record
    /\ UNCHANGED <<flow, attempt, mine, errors, inter, store, aged, outputs, others>>

Crash ==
    /\ pc \notin Final
    /\ pc' = "crashed"
    /\ UNCHANGED <<flow, attempt, mine, errors, inter, record, store, aged, outputs, others>>

ClientStep ==
    \/ Upload \/ Create \/ Backoff \/ Save \/ PollAnswered \/ PollRetried
    \/ PollTimesOut \/ PollFails \/ PollCancelled \/ Sections \/ Publish \/ Acknowledge

--------------------------------------------------------------------------------
(* The provider.                                                             *)

client == <<flow, pc, attempt, mine, errors, outputs, unheard>>

InteractionEnds(i) ==
    /\ inter[i] = "running"
    /\ \E end \in Ended : inter' = [inter EXCEPT ![i] = end]
    /\ UNCHANGED <<client, record, store, aged, others>>

(* An hour passes: longer than any client is between the store and the       *)
(* record, or a cleanup between the records and the stores.                  *)
StoreAges ==
    /\ store = "live" /\ ~aged /\ cleaner = "idle"
    /\ pc \notin {"upload", "create", "backoff", "save"}
    /\ aged' = TRUE
    /\ UNCHANGED <<client, inter, record, store, others>>

--------------------------------------------------------------------------------
(* resume_pending_jobs, in a process of its own: the records are read once,  *)
(* then each is looked up and finalized.                                     *)

resumes == <<client, inter, aged, cleaner>>

ResumeBegins ==
    /\ resume.at = "idle"
    /\ \E i \in Ids : record[i] # "none"
    /\ resume' = [at |-> "next", id |-> 0,
                  left |-> {i \in Ids : record[i] # "none"},
                  named |-> {i \in Ids : record[i] = "named"}]
    /\ UNCHANGED <<resumes, record, store>>

(* check_job tells how the job ended.                                        *)
ResumeFinds(i) ==
    /\ resume.at = "next" /\ i \in resume.left
    /\ inter[i] \in Ended
    /\ resume' = [resume EXCEPT !.left = @ \ {i}, !.id = i,
                               !.at = IF inter[i] = "completed" THEN "output" ELSE "store"]
    /\ UNCHANGED <<resumes, record, store>>

(* A running job, one whose look-up fails and one completed without content  *)
(* are left as they are.                                                     *)
ResumeSkips(i) ==
    /\ resume.at = "next" /\ i \in resume.left
    /\ resume' = [resume EXCEPT !.left = @ \ {i}]
    /\ UNCHANGED <<resumes, record, store>>

ResumeDone ==
    /\ resume.at = "next" /\ resume.left = {}
    /\ resume' = Idle
    /\ UNCHANGED <<resumes, record, store>>

(* Mutant: the record goes on to be removed when the outputs failed.         *)
ResumeOutputsAnyway ==
    /\ resume.at = "output"
    /\ resume' = [resume EXCEPT !.at = "store"]
    /\ outputs' \in {outputs, outputs \union {resume.id}}
    /\ UNCHANGED <<flow, pc, attempt, mine, errors, inter, record, store, aged, cleaner,
                   unheard>>

ResumeOutputs ==
    /\ resume.at = "output"
    /\ \/ resume' = [resume EXCEPT !.at = "store"] /\ outputs' = outputs \union {resume.id}
       \/ resume' = [resume EXCEPT !.at = "next"] /\ outputs' = outputs
    /\ UNCHANGED <<flow, pc, attempt, mine, errors, inter, record, store, aged, cleaner,
                   unheard>>

(* _cleanup_pending_store: without a store in the record there is nothing to *)
(* do; otherwise the record is kept unless the deletion was confirmed.       *)
StoreDeleted == store = "live" /\ store' = "deleted"

(* Mutant: every record is taken to be waiting for its store.                *)
ResumeStoreRetained ==
    /\ resume.at = "store"
    /\ store' = store
    /\ resume' = [resume EXCEPT !.at = "next"]
    /\ UNCHANGED <<resumes, record>>

ResumeStore ==
    /\ resume.at = "store"
    /\ \/ resume.id \notin resume.named /\ store' = store /\ resume' = [resume EXCEPT !.at = "remove"]
       \/ resume.id \in resume.named /\ StoreDeleted /\ resume' = [resume EXCEPT !.at = "remove"]
       \/ resume.id \in resume.named /\ store' = store /\ resume' = [resume EXCEPT !.at = "next"]
    /\ UNCHANGED <<resumes, record>>

ResumeRemoves ==
    /\ resume.at = "remove"
    /\ resume' = [resume EXCEPT !.at = "next"]
    /\ \/ record' = [record EXCEPT ![resume.id] = "none"]
       \/ record' = record
    /\ UNCHANGED <<resumes, store>>

(* The resuming process ends between two of its steps.                       *)
ResumeCrashes ==
    /\ resume.at # "idle"
    /\ resume' = Idle
    /\ UNCHANGED <<resumes, record, store>>

ResumeStep ==
    ResumeBegins \/ (\E i \in Ids : ResumeFinds(i) \/ ResumeSkips(i)) \/ ResumeDone \/ ResumeOutputs
    \/ ResumeStore \/ ResumeRemoves

--------------------------------------------------------------------------------
(* cleanup_orphaned_resources, in another run: the stores the records name   *)
(* are read first, then the old stores among the others are deleted.         *)

cleans == <<client, inter, record, aged, resume>>

CleanerReads ==
    /\ cleaner = "idle"
    /\ cleaner' = IF \E i \in Ids : record[i] = "named" THEN "protects" ELSE "deletes"
    /\ UNCHANGED <<cleans, store>>

CleanerDeletes ==
    /\ cleaner # "idle"
    /\ cleaner' = "idle"
    /\ IF cleaner = "deletes" /\ aged THEN DeleteStore ELSE UNCHANGED store
    /\ UNCHANGED cleans

Next ==
    \/ ClientStep \/ Crash
    \/ \E i \in Ids : InteractionEnds(i)
    \/ StoreAges
    \/ ResumeStep \/ ResumeCrashes
    \/ CleanerReads \/ CleanerDeletes

Spec == Init /\ [][Next]_vars

(* The parts of a step that fairness is about.                               *)
SeesEnd == PollAnswered /\ pc' # "poll"
StoreIsDeleted == CleanerDeletes /\ StoreDeleted
OutputsWritten == ResumeOutputs /\ resume'.at = "store"
StoreSettled == ResumeStore /\ resume'.at = "remove"
RecordRemoved == ResumeRemoves /\ record' # record

(* The client and the provider get on; an hour passes; other runs clean up   *)
(* again and again, and the operator resumes again and again. What may fail  *)
(* for a while - a look-up, a deletion, a write - succeeds when it is tried  *)
(* often enough and can succeed at all.                                      *)
Fairness ==
    /\ WF_vars(ClientStep)
    /\ SF_vars(SeesEnd)
    /\ \A i \in Ids : WF_vars(InteractionEnds(i))
    /\ SF_vars(StoreAges)
    /\ WF_vars(CleanerReads)
    /\ WF_vars(CleanerDeletes)
    /\ SF_vars(StoreIsDeleted)
    /\ WF_vars(ResumeStep)
    /\ \A i \in Ids : SF_vars(ResumeFinds(i))
    /\ SF_vars(OutputsWritten)
    /\ SF_vars(StoreSettled)
    /\ SF_vars(RecordRemoved)

FairSpec == Spec /\ Fairness

--------------------------------------------------------------------------------
(* Properties.                                                               *)

(* An interaction primr knows of: it has a record, or its client still       *)
(* follows it.                                                               *)
Known(i) == record[i] # "none" \/ (mine = i /\ pc \notin Final)

(* Nobody - the client that loses sight of the job, the operator's resume or *)
(* another run's cleanup - deletes the store while an interaction primr      *)
(* knows of may still be reading it.                                         *)
StoreKept ==
    store = "live" /\ store' = "deleted" => \A i \in Ids : Known(i) => inter[i] # "running"

StoreKeptWhileRunning == [][StoreKept]_vars

(* A recovery record goes only when the report is on disk or the provider    *)
(* will never deliver one, whoever removes it.                               *)
RecordOutlivesNeed ==
    [][\A i \in Ids : record[i] # "none" /\ record'[i] = "none"
           => i \in outputs \/ inter[i] \in {"failed", "expired"}]_vars

(* What the provider's job needs outlives the need: its record in every way   *)
(* of running it, its store in the way that keeps it.                        *)
NothingGoesEarly ==
    /\ RecordOutlivesNeed
    /\ [][flow = "orchestrator" => StoreKept]_vars

(* However creations are retried, a job is started once - unless the answer   *)
(* to a creation was lost: then its retry may start it a second time.         *)
StartedAtMostOnce == ~unheard => Cardinality({i \in Ids : inter[i] # "none"}) =< 1

(* That, and the types of the variables.                                     *)
OneInteraction == TypeOK /\ StartedAtMostOnce

(* A store does not stay for good: its client, a resume or the cleanup of a  *)
(* later run deletes it, also when the client crashed at the worst moment.   *)
StoreGoes == store = "live" ~> store = "deleted"

(* A record does not stay for good: once the provider is through with the    *)
(* job, resuming it settles it.                                              *)
RecordSettles == \A i \in Ids : record[i] # "none" ~> record[i] = "none"
================================================================================
