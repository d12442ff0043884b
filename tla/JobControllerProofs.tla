------------------------ MODULE JobControllerProofs ------------------------
(***************************************************************************)
(* Theorems about JobController, for every set of jobs, owners, snapshots  *)
(* and every progress bound.  One inductive invariant, IInv, carries the   *)
(* safety results: the store's memory and file agree while it is in use,   *)
(* every id on disk was drawn, and a record on disk has a completion time  *)
(* exactly when it has an outcome.                                         *)
(***************************************************************************)
EXTENDS JobController, TLAPS

(* The records the operations build are jobs.                              *)
LEMMA NewJobType ==
    ASSUME NEW i \in JobIds, NEW o \in Owners
    PROVE  /\ NewJob(i, o) \in Job
           /\ NewJob(i, o).id = i
           /\ ~IsTerminal(NewJob(i, o))
           /\ ~NewJob(i, o).completed
  BY MaxProgressAssumption
  DEF NewJob, Job, Stages, OrderedStages, StageRank, ErrorTypes, IsTerminal,
      TerminalStages, Aborts

LEMMA MergeType ==
    ASSUME NEW c \in Job, NEW s \in Job
    PROVE  /\ MergeSnapshot(c, s) \in Job
           /\ MergeSnapshot(c, s).id = c.id
           /\ MergeSnapshot(c, s).owner = c.owner
           /\ MergeSnapshot(c, s).audit = c.audit
           /\ MergeSnapshot(c, s).stage = s.stage
           /\ MergeSnapshot(c, s).progress = s.progress
           /\ MergeSnapshot(c, s).completed = IsTerminal(s)
  <1>1. IsTerminal(s) \in BOOLEAN
    BY DEF IsTerminal
  <1>2. ASSUME NEW t \in BOOLEAN
        PROVE  LET m == [s EXCEPT !.id = c.id, !.owner = c.owner,
                                  !.audit = c.audit, !.completed = t]
               IN  /\ m \in Job
                   /\ m.id = c.id
                   /\ m.owner = c.owner
                   /\ m.audit = c.audit
                   /\ m.stage = s.stage
                   /\ m.progress = s.progress
                   /\ m.completed = t
    BY DEF Job
  <1>3. QED
    BY <1>1, <1>2 DEF MergeSnapshot

LEMMA TerminatedType ==
    ASSUME NEW c \in Job, ~IsTerminal(c), NEW s \in Aborts, NEW e \in ErrorTypes
    PROVE  /\ Terminated(c, s, e) \in Job
           /\ Terminated(c, s, e).id = c.id
           /\ Terminated(c, s, e).owner = c.owner
           /\ Terminated(c, s, e).audit = c.audit
           /\ Terminated(c, s, e).stage = s
           /\ Terminated(c, s, e).completed = TRUE
  BY DEF Terminated, AdvanceStage, CanAdvance, Job, Stages, Aborts, TerminalStages

FailedBy(c, e) == [c EXCEPT !.stage = "failed", !.error = e, !.completed = TRUE]

LEMMA FailedByType ==
    ASSUME NEW c \in Job, NEW e \in ErrorTypes
    PROVE  /\ FailedBy(c, e) \in Job
           /\ FailedBy(c, e).id = c.id
           /\ FailedBy(c, e).owner = c.owner
           /\ FailedBy(c, e).audit = c.audit
           /\ FailedBy(c, e).stage = "failed"
           /\ FailedBy(c, e).completed = TRUE
  BY DEF FailedBy, Job, Stages, Aborts

LEMMA FieldType ==
    ASSUME NEW c \in Job
    PROVE  /\ [c EXCEPT !.audit = TRUE] \in Job
           /\ [c EXCEPT !.manifest = TRUE] \in Job
  BY DEF Job

------------------------------------------------------------------------------
(***************************************************************************)
(* Type correctness.                                                       *)
(***************************************************************************)
LEMMA SaveType ==
    ASSUME StoreTypeOK, NEW next \in Job \union {NoJob}, NEW saved \in BOOLEAN,
           SaveJournal(next, saved)
    PROVE  StoreTypeOK'
  BY DEF SaveJournal, StoreTypeOK

LEMMA FailActiveType ==
    ASSUME StoreTypeOK, NEW e \in ErrorTypes, NEW saved \in BOOLEAN,
           FailActive(e, saved)
    PROVE  StoreTypeOK'
  <1>1. CASE IsActive(job)
    <2>1. job \in Job
      BY <1>1 DEF IsActive, StoreTypeOK
    <2>2. SaveJournal(FailedBy(job, e), saved)
      BY <1>1 DEF FailActive, FailedBy
    <2>3. QED
      BY <2>1, <2>2, FailedByType, SaveType
  <1>2. CASE ~IsActive(job)
    BY <1>2 DEF FailActive, StoreTypeOK, storeVars
  <1>3. QED
    BY <1>1, <1>2

LEMMA TypeInit == Init => TypeOK
  BY JournalAssumption DEF Init, StoreInit, TypeOK, StoreTypeOK, Phases

(* What the open request holds stays well typed.                           *)
RequestTypeOK ==
    /\ holds \in {"nothing", "current", "stale"}
    /\ stale \in Job \union {NoJob}
    /\ holds = "stale" => stale \in Job

LEMMA RequestType ==
    ASSUME TypeOK, [Next]_vars
    PROVE  RequestTypeOK'
  <1> USE DEF TypeOK, StoreTypeOK, request, RequestTypeOK
  <1>1. ASSUME NEW saved \in BOOLEAN, StoreCall(saved)
        PROVE  \/ UNCHANGED request
               \/ Released
               \/ Detached /\ job \in Job
               \/ holds' \in {"nothing", "current"} /\ stale' = NoJob
    BY <1>1
    DEF StoreCall, Reconcile, Accept, RecordAudit, WorkerReports, CommitOutcome,
        WriteManifest, RegisterArtifacts, ClearJobs, Shutdown, PrelaunchFails,
        OutcomeSetInPlace, ApplyWorkerSnapshot
  <1>2. UNCHANGED request \/ Released \/ \E saved \in BOOLEAN : StoreCall(saved)
    BY DEF Next, Reload, RequestReturns, Restart, Rot, Repair, vars
  <1>3. QED
    BY <1>1, <1>2 DEF Released, Detached

LEMMA HeldObjectType ==
    ASSUME TypeOK, holds # "nothing", NEW outcome \in PrelaunchOutcomes,
           NEW t, t = Terminated(HeldObject, outcome[1], outcome[2]),
           holds = "stale" \/ job # NoJob
    PROVE  t \in Job /\ HeldObject \in Job
  <1>1. HeldObject \in Job
    BY DEF TypeOK, StoreTypeOK, HeldObject
  <1>2. outcome[1] \in Aborts /\ outcome[2] \in ErrorTypes
    BY DEF PrelaunchOutcomes, Aborts, ErrorTypes
  <1>3. CASE IsTerminal(HeldObject)
    BY <1>1, <1>3 DEF Terminated, CanAdvance
  <1>4. CASE ~IsTerminal(HeldObject)
    BY <1>1, <1>2, <1>4, TerminatedType
  <1>5. QED
    BY <1>1, <1>3, <1>4

LEMMA TypeStep == TypeOK /\ [Next]_vars => TypeOK'
  <1> SUFFICES ASSUME TypeOK, [Next]_vars PROVE TypeOK'
    OBVIOUS
  <1>0. RequestTypeOK'
    BY RequestType
  <1> USE <1>0 DEF TypeOK, RequestTypeOK
  <1>1. ASSUME NEW readable \in BOOLEAN, Reload(readable) PROVE TypeOK'
    BY <1>1 DEF Reload, LoadJournal, StoreTypeOK, Phases
  <1>2. ASSUME NEW saved \in BOOLEAN, StoreCall(saved) PROVE TypeOK'
    <2>1. CASE Reconcile(saved)
      BY <2>1, FailActiveType
      DEF Reconcile, ReconcileInterruptedJob, ErrorTypes, Phases
    <2>2. ASSUME NEW i \in JobIds, NEW o \in Owners, NEW surface \in Surfaces,
                 Accept(i, o, surface, saved)
          PROVE  TypeOK'
      BY <2>2, NewJobType, SaveType DEF Accept, Create
    <2>3. CASE RecordAudit(saved)
      <3>1. job \in Job
        BY <2>3 DEF RecordAudit, IsActive, StoreTypeOK
      <3>2. StoreTypeOK'
        BY <2>3, <3>1, FieldType, SaveType
        DEF RecordAudit, Update, storeVars, StoreTypeOK
      <3>3. QED
        BY <2>3, <3>2 DEF RecordAudit
    <2>4. ASSUME NEW s \in Snapshots, NEW allow \in BOOLEAN,
                 WorkerReports(s, allow, saved)
          PROVE  TypeOK'
      <3>1. s \in Job /\ job \in Job
        BY <2>4, SnapshotsAssumption
        DEF WorkerReports, ApplyWorkerSnapshot, StoreTypeOK
      <3>2. QED
        BY <2>4, <3>1, MergeType, SaveType DEF WorkerReports, ApplyWorkerSnapshot
    <2>5. ASSUME NEW s \in Aborts, NEW e \in CommitErrors,
                 CommitOutcome(s, e, saved)
          PROVE  TypeOK'
      <3>1. job \in Job /\ ~IsTerminal(job) /\ Has(job.id)
        BY <2>5 DEF CommitOutcome, IsActive, StoreTypeOK, Has
      <3>2. SaveJournal(Terminated(job, s, e), saved)
        BY <2>5, <3>1 DEF CommitOutcome, CommitTerminal
      <3>3. Terminated(job, s, e) \in Job
        BY <3>1, TerminatedType DEF CommitErrors
      <3>4. QED
        BY <2>5, <3>2, <3>3, SaveType DEF CommitOutcome
    <2>6. CASE WriteManifest(saved)
      <3>1. job \in Job
        BY <2>6 DEF WriteManifest, StoreTypeOK
      <3>2. StoreTypeOK'
        BY <2>6, <3>1, FieldType, SaveType
        DEF WriteManifest, ListManifest, storeVars, StoreTypeOK
      <3>3. QED
        BY <2>6, <3>2 DEF WriteManifest
    <2>7. CASE ClearJobs(saved)
      BY <2>7, SaveType DEF ClearJobs, Clear
    <2>8. CASE Shutdown(saved)
      BY <2>8, FailActiveType
      DEF Shutdown, MarkShutdown, ErrorTypes, CancelReasons, Phases
    <2>9. CASE RegisterArtifacts(saved)
      BY <2>9, SaveType DEF RegisterArtifacts, Update, storeVars, StoreTypeOK
    <2>10. ASSUME NEW outcome \in PrelaunchOutcomes,
                  PrelaunchFails(outcome[1], outcome[2], saved)
           PROVE  TypeOK'
      <3> DEFINE next == Terminated(HeldObject, outcome[1], outcome[2])
      <3>1. CASE Has(next.id)
        <4>1. SaveJournal(next, saved) /\ UNCHANGED <<phase, used, own>>
          BY <2>10, <3>1 DEF PrelaunchFails, Update
        <4>2. next \in Job
          BY <2>10, <3>1, HeldObjectType DEF PrelaunchFails, Has
        <4>3. QED
          BY <4>1, <4>2, SaveType
      <3>2. CASE ~Has(next.id)
        BY <2>10, <3>2 DEF PrelaunchFails, Update, storeVars, StoreTypeOK
      <3>3. QED
        BY <3>1, <3>2
    <2>11. QED
      BY <1>2, <2>1, <2>2, <2>3, <2>4, <2>5, <2>6, <2>7, <2>8, <2>9, <2>10 DEF StoreCall
  <1>3. CASE Restart
    BY <1>3 DEF Restart, StoreTypeOK, Phases
  <1>4. CASE Rot
    BY <1>4 DEF Rot, StoreTypeOK
  <1>5. CASE Repair
    BY <1>5 DEF Repair, StoreTypeOK
  <1>6. CASE UNCHANGED vars
    BY <1>6 DEF vars, StoreTypeOK
  <1>7. CASE RequestReturns
    BY <1>7 DEF RequestReturns, StoreTypeOK
  <1>8. QED
    BY <1>1, <1>2, <1>3, <1>4, <1>5, <1>6, <1>7 DEF Next

(* Every reachable store holds a job record or nothing in memory and for   *)
(* rollback, and a record, nothing or a damaged file on disk.              *)
THEOREM TypeCorrect == Spec => []TypeOK
  BY TypeInit, TypeStep, PTL DEF Spec

------------------------------------------------------------------------------
(***************************************************************************)
(* The operations seen from the journal.  A store call that is in use      *)
(* leaves the file alone or moves it as JobContract allows.                *)
(***************************************************************************)
LEMMA SameVocabulary ==
    /\ Contract!Job = Job
    /\ Contract!Aborts = Aborts
    /\ Contract!StageRank = StageRank
    /\ \A i, o : Contract!NewJob(i, o) = NewJob(i, o)
    /\ \A j : Contract!IsTerminal(j) <=> IsTerminal(j)
  BY DEF Contract!Job, Job, Contract!Aborts, Aborts, Contract!StageRank, StageRank,
         Contract!NewJob, NewJob, Contract!IsTerminal, IsTerminal,
         Contract!Stages, Stages, Contract!OrderedStages, OrderedStages,
         Contract!TerminalStages, TerminalStages, Contract!ErrorTypes, ErrorTypes,
         Contract!CancelReasons, CancelReasons

Agree == job = persisted /\ journal = job

LEMMA SaveKeepsAgreement ==
    ASSUME Agree, NEW next, NEW saved \in BOOLEAN, SaveJournal(next, saved)
    PROVE  /\ Agree'
           /\ journal' = next \/ journal' = journal
           /\ saved => journal' = next
           /\ ~saved => journal' = journal
  BY DEF Agree, SaveJournal

JournalDrawn == journal \in Job => journal.id \in used

(* The open request is A2A's; the object it shares with the store is       *)
(* active; a stale one shows no outcome, and the identity of its job.      *)
SameIdentity(r) ==
    journal \in Job /\ journal.id = r.id =>
        journal.owner = r.owner /\ journal.audit = r.audit

RequestInv ==
    /\ holds # "nothing" =>
          "a2a" \in Surfaces /\ phase \in {"ready", "stuck", "stopped"}
    /\ holds = "current" => IsActive(job)
    /\ holds = "stale" =>
          ~IsTerminal(stale) /\ stale.id \in used /\ SameIdentity(stale)

IInv ==
    /\ TypeOK
    /\ MemoryMatchesJournal
    /\ JournalDrawn
    /\ CompletionIffTerminal
    /\ ActiveJobIsOwn
    /\ RequestInv

(* What every call on a store in use does to the journal, by kind.         *)
Accepted(i, o) == journal' = NewJob(i, o) /\ ~IsActive(journal)
Audited ==
    /\ holds = "nothing"
    /\ IsActive(journal)
    /\ journal' = [journal EXCEPT !.audit = TRUE]
Reported(s) ==
    /\ IsActive(journal)
    /\ \/ IsTerminal(s)
       \/ /\ ~IsTerminal(s)
          /\ \/ StageRank[s.stage] > StageRank[journal.stage]
             \/ s.stage = journal.stage /\ s.progress >= journal.progress
    /\ journal' = MergeSnapshot(journal, s)
Ended ==
    /\ IsActive(journal)
    /\ journal' \in Job
    /\ journal'.id = journal.id
    /\ journal'.owner = journal.owner
    /\ journal'.audit = journal.audit
    /\ IsTerminal(journal')
    /\ journal'.completed = TRUE
Listed ==
    /\ journal # NoJob
    /\ journal.stage \in Aborts
    /\ journal' = [journal EXCEPT !.manifest = TRUE]
Cleared == ~IsActive(journal) /\ journal' = NoJob

(* A request opens only with the job it accepts.                           *)
Quiet == holds = "nothing" => holds' = "nothing"

JournalStep ==
    \/ \E i \in JobIds \ used, o \in Owners : Accepted(i, o) /\ i \in used' /\ i \in own'
    \/ /\ UNCHANGED <<used, own>>
       /\ Quiet
       /\ \/ Audited
          \/ \E s \in Snapshots : Reported(s)
          \/ Ended
          \/ Listed
          \/ Cleared
          \/ journal \in Job /\ Overturned
    \/ UNCHANGED journal /\ used \subseteq used' /\ own \subseteq own' /\ Quiet

LEMMA FailActiveStep ==
    ASSUME IInv, Agree, NEW e \in ErrorTypes, NEW saved \in BOOLEAN,
           FailActive(e, saved)
    PROVE  /\ Agree'
           /\ Ended \/ UNCHANGED journal
           /\ saved \/ ~IsActive(job) => ~IsActive(job')
  <1>1. CASE IsActive(job)
    <2>1. job \in Job
      BY <1>1 DEF IsActive, IInv, TypeOK, StoreTypeOK
    <2>2. SaveJournal(FailedBy(job, e), saved)
      BY <1>1 DEF FailActive, FailedBy
    <2>3. /\ Agree'
          /\ journal' = FailedBy(job, e) \/ journal' = journal
          /\ saved => journal' = FailedBy(job, e)
      BY <2>2, SaveKeepsAgreement
    <2>4. IsTerminal(FailedBy(job, e))
      BY <2>1, FailedByType DEF IsTerminal, TerminalStages, Aborts
    <2>5. journal' = FailedBy(job, e) => Ended
      BY ZenonT(30), <1>1, <2>1, <2>4, FailedByType DEF Ended, Agree
    <2>6. saved => ~IsActive(job')
      BY <2>3, <2>4 DEF Agree, IsActive
    <2>7. QED
      BY <1>1, <2>3, <2>5, <2>6
  <1>2. CASE ~IsActive(job)
    BY <1>2 DEF FailActive, storeVars, Agree, IsActive
  <1>3. QED
    BY <1>1, <1>2

LEMMA StoreCallStep ==
    ASSUME IInv, NEW saved \in BOOLEAN, StoreCall(saved)
    PROVE  /\ Agree'
           /\ JournalStep
           /\ phase \in {"loaded", "ready", "stuck", "stopped"}
           /\ phase = "loaded" /\ phase' = "ready" => ~IsActive(job')
           /\ phase' # phase => journal' = journal \/ Ended
  <1> USE DEF JournalStep
  <1>1. CASE Reconcile(saved)
    <2>1. phase = "loaded" /\ Agree /\ UNCHANGED <<used, own>> /\ Quiet
      BY <1>1 DEF Reconcile, IInv, MemoryMatchesJournal, Agree, request, Quiet
    <2>2. FailActive("server_restart", saved) /\ "server_restart" \in ErrorTypes
      BY <1>1 DEF Reconcile, ReconcileInterruptedJob, ErrorTypes
    <2>3. /\ Agree'
          /\ Ended \/ UNCHANGED journal
          /\ saved \/ ~IsActive(job) => ~IsActive(job')
      BY <2>1, <2>2, FailActiveStep
    <2>4. phase' = "ready" => ~IsActive(job')
      BY <1>1, <2>3 DEF Reconcile
    <2>5. QED
      BY <2>1, <2>3, <2>4
  <1>2. ASSUME NEW i \in JobIds, NEW o \in Owners, NEW surface \in Surfaces,
               Accept(i, o, surface, saved)
        PROVE  /\ phase = "ready" /\ phase' = phase
               /\ Agree'
               /\ JournalStep
    <2>1. Agree /\ i \in JobIds \ used
      BY <1>2 DEF Accept, IInv, MemoryMatchesJournal, Agree
    <2>2. SaveJournal(NewJob(i, o), saved) /\ ~IsActive(job)
      BY <1>2 DEF Accept, Create
    <2>3. /\ Agree' /\ (journal' = NewJob(i, o) \/ journal' = journal)
          /\ saved => journal' = NewJob(i, o)
      BY <2>1, <2>2, SaveKeepsAgreement
    <2>4. CASE journal' = NewJob(i, o)
      <3>1. Accepted(i, o) /\ i \in used' /\ i \in own'
        BY <1>2, <2>1, <2>2, <2>4 DEF Accept, Accepted, Agree
      <3>2. QED
        BY <1>2, <2>1, <2>3, <3>1 DEF Accept
    <2>5. CASE journal' = journal /\ journal' # NewJob(i, o)
      BY <1>2, <2>3, <2>5 DEF Accept, request, Quiet
    <2>6. QED
      BY <1>2, <2>3, <2>4, <2>5 DEF Accept
  <1>3. CASE RecordAudit(saved)
    <2>1. /\ Agree /\ IsActive(job) /\ phase = "ready" /\ UNCHANGED <<phase, used, own>>
          /\ holds = "nothing" /\ Quiet
      BY <1>3 DEF RecordAudit, IInv, MemoryMatchesJournal, Agree, request, Quiet
    <2>2. SaveJournal([job EXCEPT !.audit = TRUE], saved)
      <3>1. job \in Job
        BY <2>1 DEF IsActive, IInv, TypeOK, StoreTypeOK
      <3>2. [job EXCEPT !.audit = TRUE].id = job.id
        BY <3>1 DEF Job
      <3>3. QED
        BY <1>3, <2>1, <3>2 DEF RecordAudit, Update, Has, IsActive
    <2>3. Agree' /\ (journal' = [job EXCEPT !.audit = TRUE] \/ journal' = journal)
      BY <2>1, <2>2, SaveKeepsAgreement
    <2>4. QED
      BY <2>1, <2>3 DEF Audited, Agree
  <1>4. ASSUME NEW s \in Snapshots, NEW allow \in BOOLEAN,
               WorkerReports(s, allow, saved)
        PROVE  /\ phase = "ready" /\ UNCHANGED <<phase, used, own>>
               /\ Agree' /\ Quiet
               /\ Reported(s) \/ UNCHANGED journal
    <2>1. Agree /\ phase = "ready" /\ UNCHANGED <<phase, used, own>> /\ Quiet
      BY <1>4 DEF WorkerReports, IInv, MemoryMatchesJournal, Agree, Detached,
                  request, Quiet
    <2>2. /\ SaveJournal(MergeSnapshot(job, s), saved)
          /\ IsActive(job)
          /\ SnapshotAccepted(job, s, allow)
      BY <1>4 DEF WorkerReports, ApplyWorkerSnapshot, SnapshotAccepted, IsActive
    <2>3. Agree' /\ (journal' = MergeSnapshot(job, s) \/ journal' = journal)
      BY <2>1, <2>2, SaveKeepsAgreement
    <2>4. QED
      BY <2>1, <2>2, <2>3 DEF Reported, Agree, SnapshotAccepted
  <1>5. ASSUME NEW s \in Aborts, NEW e \in CommitErrors, CommitOutcome(s, e, saved)
        PROVE  /\ phase = "ready" /\ UNCHANGED <<phase, used, own>>
               /\ Agree' /\ Quiet
               /\ Ended \/ UNCHANGED journal
    <2>1. Agree /\ phase = "ready" /\ UNCHANGED <<phase, used, own>> /\ Quiet
      BY <1>5 DEF CommitOutcome, IInv, MemoryMatchesJournal, Agree,
                  OutcomeSetInPlace, Released, request, Quiet
    <2>2. job \in Job /\ IsActive(job) /\ ~IsTerminal(job) /\ Has(job.id)
      BY <1>5 DEF CommitOutcome, IsActive, IInv, TypeOK, StoreTypeOK, Has
    <2>3. SaveJournal(Terminated(job, s, e), saved)
      BY <1>5, <2>2 DEF CommitOutcome, CommitTerminal
    <2>4. Agree' /\ (journal' = Terminated(job, s, e) \/ journal' = journal)
      BY <2>1, <2>3, SaveKeepsAgreement
    <2> DEFINE t == Terminated(job, s, e)
    <2>5. /\ t \in Job /\ t.id = job.id /\ t.owner = job.owner /\ t.audit = job.audit
          /\ t.stage = s /\ t.completed = TRUE
      BY <2>2, TerminatedType DEF CommitErrors
    <2>6. IsTerminal(t)
      BY <2>5 DEF IsTerminal, TerminalStages
    <2> HIDE DEF t
    <2>7. journal' = t => Ended
      BY <2>1, <2>2, <2>5, <2>6 DEF Ended, Agree
    <2>8. QED
      BY <2>1, <2>4, <2>7 DEF t
  <1>6. CASE WriteManifest(saved)
    <2>1. /\ Agree /\ job # NoJob /\ phase = "ready" /\ UNCHANGED <<phase, used, own>>
          /\ Quiet
      BY <1>6 DEF WriteManifest, IInv, MemoryMatchesJournal, Agree, request, Quiet
    <2>2. CASE job.stage \in Aborts /\ ~job.manifest
      <3>1. SaveJournal([job EXCEPT !.manifest = TRUE], saved)
        BY <1>6, <2>1, <2>2 DEF WriteManifest, ListManifest, Has
      <3>2. Agree' /\ (journal' = [job EXCEPT !.manifest = TRUE] \/ journal' = journal)
        BY <2>1, <3>1, SaveKeepsAgreement
      <3>3. QED
        BY <2>1, <2>2, <3>2 DEF Listed, Agree
    <2>3. CASE ~(job.stage \in Aborts /\ ~job.manifest)
      BY <1>6, <2>1, <2>3 DEF WriteManifest, ListManifest, storeVars, Agree
    <2>4. QED
      BY <2>2, <2>3
  <1>7. CASE ClearJobs(saved)
    <2>1. /\ Agree /\ ~IsActive(job) /\ phase = "ready" /\ UNCHANGED <<phase, used, own>>
          /\ Quiet
      BY <1>7 DEF ClearJobs, IInv, MemoryMatchesJournal, Agree, IsActive, Released,
                  request, Quiet
    <2>2. Agree' /\ (journal' = NoJob \/ journal' = journal)
      BY <1>7, <2>1, SaveKeepsAgreement DEF ClearJobs, Clear
    <2>3. QED
      BY <2>1, <2>2 DEF Cleared, Agree
  <1>8. CASE Shutdown(saved)
    <2>1. phase = "ready" /\ Agree /\ UNCHANGED <<used, own>> /\ Quiet
      BY <1>8 DEF Shutdown, IInv, MemoryMatchesJournal, Agree, OutcomeSetInPlace,
                  Released, request, Quiet
    <2>2. FailActive("server_shutdown", saved) /\ "server_shutdown" \in ErrorTypes
      BY <1>8 DEF Shutdown, MarkShutdown, ErrorTypes, CancelReasons
    <2>3. Agree' /\ (Ended \/ UNCHANGED journal)
      BY <2>1, <2>2, FailActiveStep
    <2>4. QED
      BY <2>1, <2>3
  <1>9. CASE RegisterArtifacts(saved)
    <2>1. Agree /\ phase = "ready" /\ UNCHANGED <<phase, used, own>> /\ Quiet
      BY <1>9 DEF RegisterArtifacts, IInv, MemoryMatchesJournal, Agree, Detached,
                  request, Quiet
    <2>2. SaveJournal(job, saved)
      BY <1>9 DEF RegisterArtifacts, Update, Has
    <2>3. Agree' /\ journal' = journal
      BY <2>1, <2>2, SaveKeepsAgreement DEF Agree
    <2>4. QED
      BY <2>1, <2>3
  <1>10. ASSUME NEW outcome \in PrelaunchOutcomes,
                PrelaunchFails(outcome[1], outcome[2], saved)
         PROVE  /\ phase \in {"ready", "stuck", "stopped"}
                /\ UNCHANGED <<phase, used, own>>
                /\ Agree'
                /\ JournalStep
    <2>1. /\ Agree /\ phase \in {"ready", "stuck", "stopped"}
          /\ UNCHANGED <<phase, used, own>> /\ Quiet
          /\ holds # "nothing" /\ holds' = "nothing"
      BY <1>10 DEF PrelaunchFails, IInv, MemoryMatchesJournal, Agree, Released, Quiet
    <2> DEFINE t == Terminated(HeldObject, outcome[1], outcome[2])
    <2>2. CASE ~Has(t.id)
      BY <1>10, <2>1, <2>2 DEF PrelaunchFails, Update, storeVars, Agree
    <2>3. CASE Has(t.id)
      <3>1. SaveJournal(t, saved) /\ job # NoJob /\ job.id = t.id
        BY <1>10, <2>3 DEF PrelaunchFails, Update, Has
      <3>2. Agree' /\ (journal' = t \/ journal' = journal)
        BY <2>1, <3>1, SaveKeepsAgreement
      <3>3. t \in Job /\ HeldObject \in Job
        BY <2>1, <3>1, HeldObjectType DEF IInv
      <3>4. ~IsTerminal(HeldObject)
        BY <2>1 DEF IInv, RequestInv, HeldObject, IsActive, TypeOK
      <3>5. /\ outcome[1] \in Aborts /\ outcome[2] \in ErrorTypes
        BY DEF PrelaunchOutcomes, Aborts, ErrorTypes
      <3>6. /\ t.id = HeldObject.id /\ t.owner = HeldObject.owner
            /\ t.audit = HeldObject.audit /\ t.stage = outcome[1] /\ t.completed = TRUE
        BY <3>3, <3>4, <3>5, TerminatedType
      <3>7. IsTerminal(t)
        BY <3>5, <3>6 DEF IsTerminal, TerminalStages
      <3>8. journal \in Job
        BY <2>1, <3>1 DEF Agree, IInv, TypeOK, StoreTypeOK
      <3>9. CASE holds = "current" /\ journal' = t
        <4>1. HeldObject = journal /\ IsActive(journal)
          BY <2>1, <3>9 DEF HeldObject, Agree, IInv, RequestInv
        <4>2. Ended
          BY <3>3, <3>6, <3>7, <3>9, <4>1 DEF Ended
        <4>3. QED
          BY <2>1, <3>2, <4>2
      <3>10. CASE holds = "stale" /\ journal' = t
        <4>1. HeldObject = stale /\ stale.id = journal.id
          BY <2>1, <3>1, <3>6, <3>10 DEF HeldObject, Agree
        <4>2. Overturned
          BY <2>1, <3>4, <3>10, <4>1 DEF Overturned
        <4>3. QED
          BY <2>1, <3>2, <3>8, <4>2
      <3>11. QED
        BY <2>1, <3>2, <3>9, <3>10 DEF IInv, TypeOK
    <2>4. QED
      BY <2>2, <2>3
  <1>11. QED
    BY <1>1, <1>2, <1>3, <1>4, <1>5, <1>6, <1>7, <1>8, <1>9, <1>10 DEF StoreCall

(* What a stale write-back leaves: an outcome of the same job, with its    *)
(* identity.                                                               *)
LEMMA OverturnedType ==
    ASSUME IInv, journal \in Job, Overturned
    PROVE  /\ journal' \in Job /\ journal'.id = journal.id
           /\ journal'.owner = journal.owner /\ journal'.audit = journal.audit
           /\ journal'.stage \in Aborts /\ journal'.completed = TRUE
           /\ IsTerminal(journal')
  <1>1. /\ stale \in Job /\ ~IsTerminal(stale)
        /\ stale.id = journal.id /\ stale.owner = journal.owner
        /\ stale.audit = journal.audit
    BY DEF Overturned, IInv, TypeOK, RequestInv, SameIdentity
  <1>2. PICK outcome \in PrelaunchOutcomes :
           journal' = Terminated(stale, outcome[1], outcome[2])
    BY DEF Overturned
  <1> DEFINE s == outcome[1]
             e == outcome[2]
  <1>3. s \in Aborts /\ e \in ErrorTypes
    BY DEF PrelaunchOutcomes, Aborts, ErrorTypes
  <1>4. journal' = Terminated(stale, s, e)
    BY <1>2
  <1> HIDE DEF s, e
  <1>5. /\ Terminated(stale, s, e) \in Job /\ Terminated(stale, s, e).id = stale.id
        /\ Terminated(stale, s, e).owner = stale.owner
        /\ Terminated(stale, s, e).audit = stale.audit
        /\ Terminated(stale, s, e).stage = s /\ Terminated(stale, s, e).completed = TRUE
    BY <1>1, <1>3, TerminatedType
  <1>6. QED
    BY <1>1, <1>3, <1>4, <1>5 DEF IsTerminal, TerminalStages

LEMMA JournalStepKeeps ==
    ASSUME IInv, Agree, JournalStep
    PROVE  /\ JournalDrawn'
           /\ CompletionIffTerminal'
           /\ IsActive(journal') => \/ (IsActive(journal) /\ journal'.id = journal.id)
                                     \/ journal'.id \in own'
  <1> USE DEF JournalStep
  <1>0. journal \in Job \union {NoJob}
    BY DEF IInv, TypeOK, StoreTypeOK, Agree
  <1>1. ASSUME NEW i \in JobIds, NEW o \in Owners, Accepted(i, o),
               i \in used', i \in own'
        PROVE  /\ JournalDrawn' /\ CompletionIffTerminal'
               /\ journal'.id \in own'
    BY <1>1, NewJobType DEF Accepted, JournalDrawn, CompletionIffTerminal
  <1>2. CASE UNCHANGED <<used, own>> /\ Audited
    <2>1. journal \in Job
      BY <1>0, <1>2 DEF Audited, IsActive
    <2>2. /\ journal'.id = journal.id /\ journal'.stage = journal.stage
          /\ journal'.completed = journal.completed
      BY <1>2, <2>1 DEF Audited, Job
    <2>3. QED
      BY <1>2, <2>1, <2>2
      DEF Audited, IsActive, IsTerminal, IInv, JournalDrawn, CompletionIffTerminal
  <1>3. ASSUME UNCHANGED <<used, own>>, NEW s \in Snapshots, Reported(s)
        PROVE  /\ JournalDrawn' /\ CompletionIffTerminal'
               /\ (IsActive(journal) /\ journal'.id = journal.id)
    <2>1. journal \in Job /\ s \in Job
      BY <1>0, <1>3, SnapshotsAssumption DEF Reported, IsActive
    <2>2. /\ journal' \in Job /\ journal'.id = journal.id
          /\ journal'.stage = s.stage /\ journal'.completed = IsTerminal(s)
      BY <1>3, <2>1, MergeType DEF Reported
    <2>3. IsTerminal(journal') <=> IsTerminal(s)
      BY <2>2 DEF IsTerminal
    <2>4. QED
      BY <1>3, <2>1, <2>2, <2>3
      DEF Reported, IInv, JournalDrawn, CompletionIffTerminal
  <1>4. CASE UNCHANGED <<used, own>> /\ Ended
    BY <1>0, <1>4 DEF Ended, IsActive, IInv, JournalDrawn, CompletionIffTerminal
  <1>5. CASE UNCHANGED <<used, own>> /\ Listed
    <2>1. journal \in Job
      BY <1>0, <1>5 DEF Listed
    <2>2. /\ journal'.id = journal.id /\ journal'.stage = journal.stage
          /\ journal'.completed = journal.completed
      BY <1>5, <2>1 DEF Listed, Job
    <2>3. IsTerminal(journal) /\ IsTerminal(journal')
      BY <1>5, <2>2 DEF Listed, IsTerminal, TerminalStages
    <2>4. QED
      BY <1>5, <2>1, <2>2, <2>3
      DEF IsActive, IInv, JournalDrawn, CompletionIffTerminal
  <1>6. CASE UNCHANGED <<used, own>> /\ Cleared
    BY <1>6, JournalAssumption DEF Cleared, IsActive, JournalDrawn, CompletionIffTerminal
  <1>9. CASE UNCHANGED <<used, own>> /\ journal \in Job /\ Overturned
    BY <1>9, OverturnedType DEF IInv, JournalDrawn, CompletionIffTerminal, IsActive
  <1>7. CASE UNCHANGED journal /\ used \subseteq used' /\ own \subseteq own'
    BY <1>7 DEF IInv, JournalDrawn, CompletionIffTerminal, IsTerminal
  <1>8. QED
    BY <1>1, <1>2, <1>3, <1>4, <1>5, <1>6, <1>7, <1>9

(* The identity a stale object shows stays that of its job.                *)
LEMMA IdentityKept ==
    ASSUME IInv, Agree, JournalStep, holds' = "stale",
           NEW r \in Job, r.id \in used, SameIdentity(r)
    PROVE  SameIdentity(r)'
  <1> SUFFICES ASSUME journal' \in Job, journal'.id = r.id
               PROVE  journal'.owner = r.owner /\ journal'.audit = r.audit
    BY DEF SameIdentity
  <1> USE DEF JournalStep
  <1>0. journal \in Job \union {NoJob}
    BY DEF IInv, TypeOK, StoreTypeOK, Agree
  <1>1. CASE UNCHANGED journal
    BY <1>1 DEF SameIdentity
  <1>2. \A i \in JobIds \ used, o \in Owners : ~Accepted(i, o)
    BY NewJobType DEF Accepted
  <1>3. ~(Quiet /\ Audited) /\ ~Overturned /\ ~Cleared
    BY JournalAssumption DEF Quiet, Audited, Overturned, Cleared
  <1>4. ASSUME NEW s \in Snapshots, Reported(s)
        PROVE  /\ journal \in Job /\ journal'.id = journal.id
               /\ journal'.owner = journal.owner /\ journal'.audit = journal.audit
    <2>1. journal \in Job /\ s \in Job
      BY <1>0, <1>4, SnapshotsAssumption DEF Reported, IsActive
    <2>2. QED
      BY <1>4, <2>1, MergeType DEF Reported
  <1>5. ASSUME Ended \/ Listed
        PROVE  /\ journal \in Job /\ journal'.id = journal.id
               /\ journal'.owner = journal.owner /\ journal'.audit = journal.audit
    BY <1>0, <1>5 DEF Ended, Listed, IsActive, Job
  <1>6. QED
    BY <1>1, <1>2, <1>3, <1>4, <1>5 DEF SameIdentity

(* What a store call does to the open request.                             *)
LEMMA RequestMoves ==
    ASSUME IInv, NEW saved \in BOOLEAN, StoreCall(saved)
    PROVE  \/ Released
           \/ /\ UNCHANGED request
              /\ holds # "nothing" => phase' \in {"ready", "stuck", "stopped"}
              /\ holds = "current" => IsActive(job')
           \/ /\ holds = "current"
              /\ holds' = "stale"
              /\ stale' = job
              /\ phase' = phase
           \/ /\ holds' # "stale"
              /\ holds' = "current" =>
                    "a2a" \in Surfaces /\ phase' = "ready" /\ IsActive(job')
  <1> USE DEF IInv, RequestInv, request
  <1>1. ASSUME Reconcile(saved) PROVE UNCHANGED request /\ holds = "nothing"
    BY <1>1 DEF Reconcile
  <1>2. ASSUME NEW i \in JobIds, NEW o \in Owners, NEW surface \in Surfaces,
               Accept(i, o, surface, saved)
        PROVE  \/ UNCHANGED request /\ phase' = phase /\ holds # "current"
               \/ /\ holds' # "stale"
                  /\ holds' = "current" =>
                        "a2a" \in Surfaces /\ phase' = "ready" /\ IsActive(job')
    <2>1. CASE ~saved
      BY <1>2, <2>1 DEF Accept, Create
    <2>2. CASE saved
      <3>1. job' = NewJob(i, o) /\ phase' = "ready"
        BY <1>2, <2>2 DEF Accept, Create, SaveJournal
      <3>2. IsActive(job')
        BY <3>1, NewJobType, JournalAssumption DEF IsActive
      <3>3. QED
        BY <1>2, <2>2, <3>1, <3>2 DEF Accept
    <2>3. QED
      BY <2>1, <2>2
  <1>3. ASSUME RecordAudit(saved) PROVE UNCHANGED request /\ holds = "nothing"
    BY <1>3 DEF RecordAudit
  <1>4. ASSUME NEW s \in Snapshots, NEW allow \in BOOLEAN, WorkerReports(s, allow, saved)
        PROVE  Detached /\ phase' = phase
    BY <1>4 DEF WorkerReports
  <1>5. ASSUME NEW s \in Aborts, NEW e \in CommitErrors, CommitOutcome(s, e, saved)
        PROVE  OutcomeSetInPlace /\ phase' = phase
    BY <1>5 DEF CommitOutcome
  <1>6. ASSUME WriteManifest(saved)
        PROVE  /\ UNCHANGED request /\ phase' = phase
               /\ holds = "current" => job' = job
    <2>1. holds = "current" => job.stage \notin Aborts
      BY DEF IsActive, IsTerminal, TerminalStages
    <2>2. QED
      BY <1>6, <2>1 DEF WriteManifest, ListManifest, storeVars
  <1>7. ASSUME RegisterArtifacts(saved)
        PROVE  phase' = phase /\ (Detached \/ UNCHANGED <<request, job>>)
    <2>1. saved => job' = job
      BY <1>7 DEF RegisterArtifacts, Update, Has, SaveJournal
    <2>2. QED
      BY <1>7, <2>1 DEF RegisterArtifacts
  <1>8. ASSUME ClearJobs(saved)
        PROVE  Released \/ (UNCHANGED request /\ phase' = phase /\ holds # "current")
    BY <1>8 DEF ClearJobs, IsActive
  <1>9. ASSUME Shutdown(saved)
        PROVE  /\ phase' \in {"stuck", "stopped"}
               /\ \/ OutcomeSetInPlace
                  \/ UNCHANGED request /\ holds # "current"
    BY <1>9 DEF Shutdown, IsActive
  <1>10. ASSUME NEW outcome \in PrelaunchOutcomes,
                PrelaunchFails(outcome[1], outcome[2], saved)
         PROVE  Released
    BY <1>10 DEF PrelaunchFails
  <1>11. ASSUME Detached, phase' = phase
         PROVE  \/ UNCHANGED request /\ holds # "current" /\ phase' = phase
                \/ holds = "current" /\ holds' = "stale" /\ stale' = job /\ phase' = phase
    BY <1>11 DEF Detached
  <1>12. ASSUME OutcomeSetInPlace
         PROVE  Released \/ (UNCHANGED request /\ holds # "current")
    BY <1>12 DEF OutcomeSetInPlace
  <1>13. QED
    BY <1>1, <1>2, <1>3, <1>4, <1>5, <1>6, <1>7, <1>8, <1>9, <1>10, <1>11, <1>12
    DEF StoreCall

LEMMA RequestStep ==
    ASSUME IInv, NEW saved \in BOOLEAN, StoreCall(saved), Agree, JournalStep
    PROVE  RequestInv'
  <1> USE DEF RequestInv
  <1>0. used \subseteq used'
    BY DEF JournalStep, StoreCall, Reconcile, Accept, RecordAudit, WorkerReports,
           CommitOutcome, WriteManifest, RegisterArtifacts, ClearJobs, Shutdown,
           PrelaunchFails
  <1>1. CASE Released
    BY <1>1 DEF Released
  <1>2. CASE /\ UNCHANGED request
             /\ holds # "nothing" => phase' \in {"ready", "stuck", "stopped"}
             /\ holds = "current" => IsActive(job')
    <2>1. holds' = holds /\ stale' = stale
      BY <1>2 DEF request
    <2>2. holds = "stale" => SameIdentity(stale)'
      <3> SUFFICES ASSUME holds = "stale" PROVE SameIdentity(stale)'
        OBVIOUS
      <3>1. stale \in Job /\ stale.id \in used /\ SameIdentity(stale)
        BY DEF IInv, TypeOK
      <3>2. QED
        BY <2>1, <3>1, IdentityKept DEF SameIdentity
    <2>3. QED
      BY <1>0, <1>2, <2>1, <2>2 DEF IInv, IsTerminal
  <1>3. CASE holds = "current" /\ holds' = "stale" /\ stale' = job /\ phase' = phase
    <2>1. job = journal /\ journal \in Job /\ ~IsTerminal(job)
      BY <1>3 DEF Agree, IInv, IsActive, TypeOK, StoreTypeOK
    <2>2. job.id \in used
      BY <2>1 DEF IInv, JournalDrawn
    <2>3. SameIdentity(job)
      BY <2>1 DEF SameIdentity
    <2>4. SameIdentity(stale)'
      BY <1>3, <2>1, <2>2, <2>3, IdentityKept DEF SameIdentity
    <2>5. QED
      BY <1>0, <1>3, <2>1, <2>2, <2>4 DEF IInv, IsTerminal
  <1>4. CASE /\ holds' # "stale"
             /\ holds' = "current" =>
                   "a2a" \in Surfaces /\ phase' = "ready" /\ IsActive(job')
    BY <1>4, RequestType DEF IInv, RequestTypeOK, Next
  <1>5. QED
    BY <1>1, <1>2, <1>3, <1>4, RequestMoves

------------------------------------------------------------------------------
(***************************************************************************)
(* The inductive invariant and what follows from it.                       *)
(***************************************************************************)
LEMMA InductiveInit == Init => IInv
  BY TypeInit, JournalAssumption
  DEF Init, StoreInit, IInv, MemoryMatchesJournal, JournalDrawn,
      CompletionIffTerminal, ActiveJobIsOwn, RequestInv

LEMMA InductiveStep == IInv /\ [Next]_vars => IInv'
<1> SUFFICES ASSUME IInv, [Next]_vars PROVE IInv'
  OBVIOUS
<1>0. TypeOK'
  BY TypeStep DEF IInv
<1>1. ASSUME NEW readable \in BOOLEAN, Reload(readable) PROVE IInv'
  BY <1>0, <1>1
  DEF Reload, LoadJournal, IInv, MemoryMatchesJournal, JournalDrawn,
      CompletionIffTerminal, ActiveJobIsOwn, IsTerminal, RequestInv, request
<1>2. ASSUME NEW saved \in BOOLEAN, StoreCall(saved) PROVE IInv'
  <2>1. /\ Agree'
        /\ JournalStep
        /\ phase \in {"loaded", "ready", "stuck", "stopped"}
        /\ phase = "loaded" /\ phase' = "ready" => ~IsActive(job')
    BY <1>2, StoreCallStep
  <2>2. Agree
    BY <2>1 DEF IInv, MemoryMatchesJournal, Agree
  <2>3. /\ JournalDrawn'
        /\ CompletionIffTerminal'
        /\ IsActive(journal') => \/ (IsActive(journal) /\ journal'.id = journal.id)
                                  \/ journal'.id \in own'
    BY <2>1, <2>2, JournalStepKeeps
  <2>4. MemoryMatchesJournal'
    BY <2>1 DEF Agree, MemoryMatchesJournal
  <2>5. own \subseteq own'
    BY <1>2
    DEF StoreCall, Reconcile, Accept, RecordAudit, WorkerReports, CommitOutcome,
        WriteManifest, RegisterArtifacts, ClearJobs, Shutdown, PrelaunchFails
  <2>6. ActiveJobIsOwn'
    <3> SUFFICES ASSUME phase' = "ready", IsActive(job') PROVE job'.id \in own'
      BY DEF ActiveJobIsOwn
    <3>1. phase = "ready" \/ phase = "loaded"
      BY <1>2
      DEF StoreCall, Reconcile, Accept, RecordAudit, WorkerReports, CommitOutcome,
          WriteManifest, RegisterArtifacts, ClearJobs, Shutdown, PrelaunchFails
    <3>2. phase = "ready" /\ job' = journal' /\ job = journal
      BY <2>1, <2>2, <3>1 DEF Agree
    <3>3. QED
      BY <2>3, <2>5, <3>2 DEF IInv, ActiveJobIsOwn
  <2>7. RequestInv'
    BY <1>2, <2>1, <2>2, RequestStep
  <2>8. QED
    BY <1>0, <2>3, <2>4, <2>6, <2>7 DEF IInv
<1>3. CASE Restart
  BY <1>0, <1>3
  DEF Restart, IInv, MemoryMatchesJournal, JournalDrawn, CompletionIffTerminal,
      ActiveJobIsOwn, IsTerminal, RequestInv, Released
<1>4. CASE Rot
  BY <1>0, <1>4, JournalAssumption
  DEF Rot, IInv, MemoryMatchesJournal, JournalDrawn, CompletionIffTerminal,
      ActiveJobIsOwn, RequestInv, SameIdentity, IsActive, IsTerminal, request
<1>5. CASE Repair
  BY <1>0, <1>5, JournalAssumption
  DEF Repair, IInv, MemoryMatchesJournal, JournalDrawn, CompletionIffTerminal,
      ActiveJobIsOwn, RequestInv, SameIdentity, IsActive, IsTerminal, request
<1>6. CASE UNCHANGED vars
  BY <1>0, <1>6
  DEF vars, IInv, MemoryMatchesJournal, JournalDrawn, CompletionIffTerminal,
      ActiveJobIsOwn, IsActive, IsTerminal, RequestInv, SameIdentity
<1>7. CASE RequestReturns
  BY <1>0, <1>7
  DEF RequestReturns, Released, IInv, MemoryMatchesJournal, JournalDrawn,
      CompletionIffTerminal, ActiveJobIsOwn, IsActive, IsTerminal, RequestInv
<1>8. QED
  BY <1>1, <1>2, <1>3, <1>4, <1>5, <1>6, <1>7 DEF Next

(* The inductive invariant holds in every reachable state.                 *)
THEOREM Inductive == Spec => []IInv
  BY InductiveInit, InductiveStep, PTL DEF Spec

(* Memory, rollback copy and file agree whenever the store is in use, for  *)
(* every order of calls, failed saves and restarts.                        *)
THEOREM MemoryAgrees == Spec => []MemoryMatchesJournal
  BY Inductive, PTL DEF IInv

(* No active job outlives the process that accepted it: a ready controller *)
(* has already failed what a killed one left.                              *)
THEOREM RestartReconciles == Spec => []ActiveJobIsOwn
  BY Inductive, PTL DEF IInv

(* A record on disk has a completion time exactly when it has an outcome.  *)
THEOREM CompletionRecorded == Spec => []CompletionIffTerminal
  BY Inductive, PTL DEF IInv

------------------------------------------------------------------------------
(***************************************************************************)
(* Refinement, and the finality of outcomes.                               *)
(***************************************************************************)
LEMMA RestIsContractStep ==
    ASSUME UNCHANGED journal, Quiet
    PROVE  [Contract!Next]_(Contract!promised)
  <1>1. CASE (holds # "nothing") = (holds' # "nothing")
    BY <1>1 DEF Contract!promised
  <1>2. CASE (holds # "nothing") # (holds' # "nothing")
    <2>1. holds # "nothing" /\ holds' = "nothing"
      BY <1>2 DEF Quiet
    <2>2. Contract!Return
      BY <2>1 DEF Contract!Return
    <2>3. QED
      BY <2>2 DEF Contract!Next
  <1>3. QED
    BY <1>1, <1>2

LEMMA JournalStepIsContractStep ==
    ASSUME IInv, TypeOK', journal \in Job \union {NoJob}, JournalStep
    PROVE  [Contract!Next]_(Contract!promised)
  <1> USE SameVocabulary
  <1>q. Quiet => Contract!MayReturn
    BY DEF Quiet, Contract!MayReturn
  <1> DEFINE Settles == journal = NoJob \/ IsTerminal(journal)
  <1>0. (Contract!Settled <=> Settles) /\ (IsActive(journal) <=> ~Settles)
    BY DEF Contract!Settled, IsActive
  <1>1. ASSUME NEW i \in JobIds \ used, NEW o \in Owners, Accepted(i, o)
        PROVE  Contract!Accept
    <2>1. journal = NoJob \/ journal.id # i
      BY <1>1 DEF IInv, JournalDrawn
    <2>2. QED
      BY <1>0, <1>1, <2>1 DEF Accepted, Contract!Accept
  <1>2. ASSUME Audited, Quiet PROVE Contract!Audit
    BY <1>0, <1>2 DEF Audited, Quiet, Contract!Audit
  <1>3. ASSUME NEW s \in Snapshots, Reported(s), Quiet
        PROVE  Contract!Advance \/ Contract!Settle
    <2>1. journal \in Job /\ s \in Job
      BY <1>3, SnapshotsAssumption DEF Reported, IsActive
    <2>2. /\ journal' \in Job /\ journal'.id = journal.id
          /\ journal'.owner = journal.owner /\ journal'.audit = journal.audit
          /\ journal'.stage = s.stage /\ journal'.progress = s.progress
          /\ journal'.completed = IsTerminal(s)
      BY <1>3, <2>1, MergeType DEF Reported
    <2>3. IsTerminal(journal') <=> IsTerminal(s)
      BY <2>2 DEF IsTerminal
    <2>4. Contract!KeepsIdentity
      BY <1>q, <1>3, <2>2 DEF Contract!KeepsIdentity
    <2>5. CASE IsTerminal(s)
      BY <1>0, <1>3, <2>2, <2>3, <2>4, <2>5 DEF Reported, Contract!Settle
    <2>6. CASE ~IsTerminal(s)
      <3>1. Contract!Forward(journal')
        BY <1>3, <2>2, <2>6 DEF Reported, Contract!Forward
      <3>2. QED
        BY <1>0, <1>3, <2>2, <2>3, <2>4, <2>6, <3>1 DEF Reported, Contract!Advance
    <2>7. QED
      BY <2>5, <2>6
  <1>4. ASSUME Ended, Quiet PROVE Contract!Settle
    BY <1>0, <1>q, <1>4 DEF Ended, Contract!Settle, Contract!KeepsIdentity
  <1>5. ASSUME Listed, Quiet PROVE Contract!ListManifest
    BY <1>q, <1>5 DEF Listed, Contract!ListManifest
  <1>6. ASSUME Cleared, Quiet PROVE Contract!Forget
    BY <1>0, <1>q, <1>6 DEF Cleared, Contract!Forget
  <1>7. ASSUME journal \in Job, Overturned, Quiet
        PROVE  Contract!Settle \/ Contract!Overturn
    <2>1. /\ journal' \in Job /\ journal'.id = journal.id
          /\ journal'.owner = journal.owner /\ journal'.audit = journal.audit
          /\ journal'.stage \in Aborts /\ journal'.completed = TRUE
          /\ IsTerminal(journal')
      BY <1>7, OverturnedType
    <2>2. Contract!KeepsIdentity
      BY <1>q, <1>7, <2>1 DEF Contract!KeepsIdentity
    <2>3. /\ (holds # "nothing") = TRUE
          /\ (holds' # "nothing") = FALSE
      BY <1>7 DEF Overturned
    <2>4. CASE IsTerminal(journal)
      BY <1>7, <2>1, <2>2, <2>3, <2>4, JournalAssumption DEF Contract!Overturn
    <2>5. CASE ~IsTerminal(journal)
      BY <1>0, <1>7, <2>1, <2>2, <2>5, JournalAssumption DEF Contract!Settle
    <2>6. QED
      BY <2>4, <2>5
  <1>8. ASSUME UNCHANGED journal, Quiet PROVE [Contract!Next]_(Contract!promised)
    BY <1>8, RestIsContractStep
  <1>9. QED
    BY <1>1, <1>2, <1>3, <1>4, <1>5, <1>6, <1>7, <1>8 DEF JournalStep, Contract!Next

(* Undamaged == the environment leaves the closed file alone.              *)
Undamaged == journal # Corrupt

LEMMA StaysUndamaged ==
    ASSUME ~JournalMayRot, IInv, Undamaged, [Next]_vars
    PROVE  Undamaged' /\ [Contract!Next]_(Contract!promised)
<1>0. journal \in Job \union {NoJob}
  BY DEF Undamaged, IInv, TypeOK, StoreTypeOK
<1>1. ASSUME NEW saved \in BOOLEAN, StoreCall(saved)
      PROVE  Undamaged' /\ [Contract!Next]_(Contract!promised)
  <2>1. Agree' /\ JournalStep
    BY <1>1, StoreCallStep
  <2>2. TypeOK'
    BY <1>1, TypeStep DEF IInv, Next
  <2>3. journal' # Corrupt
    BY <2>1, <2>2, JournalAssumption DEF Agree, TypeOK, StoreTypeOK
  <2>4. QED
    BY <1>0, <2>1, <2>2, <2>3, JournalStepIsContractStep DEF Undamaged
<1>2. ASSUME UNCHANGED journal, Quiet
      PROVE  Undamaged' /\ [Contract!Next]_(Contract!promised)
  BY <1>2, RestIsContractStep DEF Undamaged
<1>3. \A readable \in BOOLEAN : Reload(readable) => UNCHANGED journal /\ Quiet
  BY DEF Reload, LoadJournal, request, Quiet
<1>4. (Restart \/ RequestReturns \/ UNCHANGED vars) => UNCHANGED journal /\ Quiet
  BY DEF Restart, RequestReturns, Released, vars, Quiet
<1>5. ~Rot /\ ~Repair
  BY DEF Rot, Repair, Undamaged
<1>6. QED
  BY <1>1, <1>2, <1>3, <1>4, <1>5 DEF Next

(* While nobody damages the file, the controller, its failed saves and its *)
(* restarts implement the journal's promise.                               *)
THEOREM Refinement ==
    ASSUME ~JournalMayRot
    PROVE  Spec => ImplementsContract
  <1>1. Init => Contract!Init /\ Undamaged
    BY JournalAssumption DEF Init, Contract!Init, Undamaged
  <1>2. IInv /\ Undamaged /\ [Next]_vars
          => Undamaged' /\ [Contract!Next]_(Contract!promised)
    BY StaysUndamaged
  <1>3. QED
    BY <1>1, <1>2, Inductive, PTL DEF Spec, ImplementsContract, Contract!Spec

(* An outcome on disk is final, whatever happens to the file in between,   *)
(* but for the write-back of a stale object by the A2A request that        *)
(* accepted the job.                                                       *)
LEMMA OutcomeStep ==
    ASSUME IInv, [Next]_vars
    PROVE  OutcomeKept \/ Overturned \/ UNCHANGED vars
  <1> SUFFICES ASSUME Next, ~Overturned, journal \in Job, IsTerminal(journal),
                      journal' \in Job, journal'.id = journal.id
               PROVE  [journal' EXCEPT !.manifest = FALSE]
                        = [journal EXCEPT !.manifest = FALSE]
    BY DEF OutcomeKept
  <1>1. ASSUME NEW saved \in BOOLEAN, StoreCall(saved)
        PROVE  UNCHANGED journal \/ journal' = [journal EXCEPT !.manifest = TRUE]
    <2>1. JournalStep
      BY <1>1, StoreCallStep
    <2>2. ~IsActive(journal) /\ journal.id \in used
      BY DEF IsActive, IInv, JournalDrawn
    <2>3. \A i \in JobIds \ used, o \in Owners : ~Accepted(i, o)
      BY <2>2, NewJobType DEF Accepted
    <2>4. QED
      BY <2>1, <2>2, <2>3, JournalAssumption
      DEF JournalStep, Audited, Reported, Ended, Listed, Cleared
  <1>2. UNCHANGED journal \/ journal' = [journal EXCEPT !.manifest = TRUE]
    BY <1>1, JournalAssumption
    DEF Next, Reload, LoadJournal, RequestReturns, Restart, Rot, Repair, vars
  <1>3. QED
    BY <1>2 DEF Job

THEOREM OutcomesAreFinal == Spec => OnlyItsRequestOverturns
  <1>1. IInv /\ [Next]_vars => [OutcomeKept \/ Overturned]_vars
    BY OutcomeStep
  <1>2. QED
    BY <1>1, Inductive, PTL DEF Spec, OnlyItsRequestOverturns

(* Where research is asked for over MCP alone, no step of any controller   *)
(* replaces an outcome on disk.                                            *)
THEOREM McpOutcomesAreFinal ==
    ASSUME "a2a" \notin Surfaces
    PROVE  Spec => [][OutcomeKept]_vars
  <1>1. IInv /\ [Next]_vars => [OutcomeKept]_vars
    <2> SUFFICES ASSUME IInv, [Next]_vars PROVE OutcomeKept \/ UNCHANGED vars
      OBVIOUS
    <2>1. ~Overturned
      BY DEF Overturned, IInv, RequestInv
    <2>2. QED
      BY <2>1, OutcomeStep
  <1>2. QED
    BY <1>1, Inductive, PTL DEF Spec

(* A damaged journal is never written over nor opened.                     *)
THEOREM DamageSurvives == Spec => DamageIsLeftAlone
  <1>1. IInv /\ [Next]_vars
          => [journal = Corrupt /\ ~Repair => journal' = Corrupt /\ phase' # "ready"]_vars
    <2> SUFFICES ASSUME IInv, Next, journal = Corrupt, ~Repair
                 PROVE  journal' = Corrupt /\ phase' # "ready"
      OBVIOUS
    <2>1. phase \in {"inactive", "failed"}
      BY JournalAssumption DEF IInv, TypeOK, StoreTypeOK, Phases, MemoryMatchesJournal
    <2>2. \A saved \in BOOLEAN : ~StoreCall(saved)
      BY <2>1, StoreCallStep
    <2>3. QED
      BY <2>1, <2>2 DEF Next, Reload, LoadJournal, RequestReturns, Restart, Rot
  <1>2. QED
    BY <1>1, Inductive, PTL DEF Spec, DamageIsLeftAlone
=============================================================================
