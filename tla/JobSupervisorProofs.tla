------------------------ MODULE JobSupervisorProofs ------------------------
(***************************************************************************)
(* Theorems about JobSupervisor, for every set of jobs and owners, every   *)
(* mix of surfaces, any crash code of a worker and any event bound, and    *)
(* whatever saves and cleanups fail.  One inductive invariant, IInv, says  *)
(* of each job how its request, its process, its handle, its monitor, the  *)
(* worker's evidence and the record in the store go together; the safety   *)
(* properties are read off it.                                             *)
(***************************************************************************)
EXTENDS JobSupervisor, TLAPS

(* Between two steps memory, the persisted record and the file agree.      *)
Agreed == persisted = job /\ journal = job

Locking == {"spawning", "withdrawn", "abortingLocked"}

(* A request: the object it holds is its own job, and until a worker is    *)
(* spawned that job stays in the store without an outcome, unless the      *)
(* server has already given it up.                                         *)
CallerSound(i) ==
    /\ call[i].live => Has(i)
    /\ call[i].pc \notin {"none", "closed"} /\ ~call[i].live =>
         call[i].stale \in Job /\ call[i].stale.id = i
    /\ call[i].pc = "none" => ~Has(i)
    /\ call[i].pc = "publishing" => call[i].surface = "a2a"
    /\ call[i].pc \in {"publishing", "admitted"} =>
         /\ Has(i)
         /\ IsTerminal(job) => server = "marked"
         /\ call[i].live \/ server = "unmarked"
    /\ call[i].pc \in {"spawning", "withdrawn"} => call[i].live /\ ~IsTerminal(job)

(* The server stops its workers under the start lock, which is not taken   *)
(* again, and gives a job up only when it holds no worker.                 *)
ServerSound(i) ==
    /\ server \in {"stopping", "reaped", "marked", "unmarked"} => call[i].pc \notin Locking
    /\ server \in {"reaped", "marked", "unmarked"} => ~handle[i].retained

(* A process exists once it is spawned; it is retained until it and its    *)
(* descendants are gone, and what the handle records of its end is so.     *)
WorkerSound(i) ==
    /\ call[i].pc \in {"none", "publishing", "admitted", "spawning", "withdrawn"} =>
         proc[i].state = "absent"
    /\ call[i].pc \in {"starting", "aborting", "abortingLocked"} => proc[i].state # "absent"
    /\ proc[i].state = "absent" => ~handle[i].retained /\ ~proc[i].tree
    /\ proc[i].state # "absent" => handle[i].retained \/ handle[i].done
    /\ Alive(i) \/ proc[i].tree => handle[i].retained
    /\ handle[i].observed => Dead(i)
    /\ handle[i].clean \/ handle[i].done => Dead(i) /\ ~proc[i].tree

MonitorSound(i) ==
    /\ monitor[i] # "none" => proc[i].state # "absent"
    /\ monitor[i] \in {"retrying", "finished", "crashed"} => Dead(i)
    /\ monitor[i] = "finished" => handle[i].done
    /\ monitor[i] = "crashed" /\ call[i].pc # "closed" => handle[i].clean

(* What the worker wrote: its own job, and as an outcome only the one it   *)
(* settled on before it ended.                                             *)
Settled(i) == proc[i].state \in {"exiting", "dead"}

EventSound(e, own, settled) ==
    /\ e.kind = "state" => e.state \in Job
    /\ e.kind = "terminal" => e.state \in Job /\ e.state = own /\ settled

EvidenceSound(i) ==
    /\ proc[i].state # "absent" => local[i] \in Job
    /\ \A n \in 1..Len(events[i]) : EventSound(events[i][n], local[i], Settled(i))
    /\ handle[i].terminal # NoJob => handle[i].terminal = local[i] /\ Settled(i)

OutcomeSound(i) ==
    /\ Has(i) /\ IsTerminal(job) => ~Alive(i) /\ ~proc[i].tree
    /\ Has(i) /\ job.stage = "completed" =>
         local[i].stage = "completed" /\ Dead(i) /\ proc[i].rc = ExitSuccess
    /\ Has(i) /\ job.stage = "cancelled" =>
         \/ Dead(i) /\ client[i].asked
         \/ proc[i].state = "absent" /\ call[i].surface = "a2a"
    /\ Has(i) /\ handle[i].done => IsTerminal(job)
    /\ handle[i].cancelReason = "user_cancelled" => client[i].asked

JobInv(i) ==
    /\ CallerSound(i)
    /\ ServerSound(i)
    /\ WorkerSound(i)
    /\ MonitorSound(i)
    /\ EvidenceSound(i)
    /\ OutcomeSound(i)

IInv == TypeOK /\ Agreed /\ \A i \in JobIds : JobInv(i)

------------------------------------------------------------------------------
(***************************************************************************)
(* The records the operations build.                                       *)
(***************************************************************************)
LEMMA NewJobType ==
    ASSUME NEW i \in JobIds, NEW o \in Owners, NEW a \in BOOLEAN
    PROVE  LET new == [NewJob(i, o) EXCEPT !.audit = a]
           IN  /\ NewJob(i, o) \in Job /\ new \in Job
               /\ NewJob(i, o).id = i /\ new.id = i
               /\ ~IsTerminal(NewJob(i, o)) /\ ~IsTerminal(new)
               /\ NewJob(i, o).stage = "accepted" /\ new.stage = "accepted"
  <1>1. /\ NewJob(i, o) \in Job
        /\ NewJob(i, o).id = i
        /\ NewJob(i, o).stage = "accepted"
    BY MaxProgressAssumption
    DEF NewJob, Job, Stages, OrderedStages, StageRank, ErrorTypes
  <1> DEFINE new == [NewJob(i, o) EXCEPT !.audit = a]
  <1>2. new \in Job /\ new.id = i /\ new.stage = "accepted"
    BY <1>1 DEF Job
  <1>3. QED
    BY <1>1, <1>2 DEF IsTerminal, TerminalStages, Aborts

LEMMA MergeType ==
    ASSUME NEW c \in Job, NEW s \in Job
    PROVE  /\ MergeSnapshot(c, s) \in Job
           /\ MergeSnapshot(c, s).id = c.id
           /\ MergeSnapshot(c, s).stage = s.stage
  <1>1. IsTerminal(s) \in BOOLEAN
    BY DEF IsTerminal
  <1>2. ASSUME NEW t \in BOOLEAN
        PROVE  LET m == [s EXCEPT !.id = c.id, !.owner = c.owner,
                                  !.audit = c.audit, !.completed = t]
               IN  m \in Job /\ m.id = c.id /\ m.stage = s.stage
    BY DEF Job
  <1>3. QED
    BY <1>1, <1>2 DEF MergeSnapshot

LEMMA TerminatedType ==
    ASSUME NEW c \in Job, ~IsTerminal(c), NEW s \in TerminalStages, NEW e \in ErrorTypes
    PROVE  /\ Terminated(c, s, e) \in Job
           /\ Terminated(c, s, e).id = c.id
           /\ s \in Aborts => Terminated(c, s, e).stage = s
  <1>1. c.completed \/ s \in TerminalStages
    OBVIOUS
  <1>2. Clamp(0) \in 0..MaxProgress
    BY MaxProgressAssumption DEF Clamp
  <1>3. CASE CanAdvance(c, s)
    BY <1>1, <1>2, <1>3 DEF Terminated, AdvanceStage, Job, Stages, Aborts,
       TerminalStages, OrderedStages, StageRank
  <1>4. CASE ~CanAdvance(c, s)
    BY <1>4 DEF Terminated, CanAdvance
  <1>5. QED
    BY <1>3, <1>4

LEMMA AdvanceType ==
    ASSUME NEW c \in Job, NEW s \in WorkingStages, NEW p \in 0..MaxProgress
    PROVE  AdvanceStage(c, s, p) \in Job
  <1>1. Clamp(p) \in 0..MaxProgress
    BY MaxProgressAssumption DEF Clamp
  <1>2. (c.completed \/ s \in TerminalStages) \in BOOLEAN
    OBVIOUS
  <1>3. CASE CanAdvance(c, s)
    BY <1>1, <1>2, <1>3 DEF AdvanceStage, Job, WorkingStages
  <1>4. CASE ~CanAdvance(c, s)
    BY <1>4 DEF AdvanceStage
  <1>5. QED
    BY <1>3, <1>4

LEMMA FailedByType ==
    ASSUME NEW c \in Job, NEW e \in ErrorTypes
    PROVE  LET f == [c EXCEPT !.stage = "failed", !.error = e, !.completed = TRUE]
           IN  f \in Job /\ f.id = c.id /\ f.stage = "failed"
  BY DEF Job, Stages, Aborts

LEMMA ManifestType ==
    ASSUME NEW c \in Job
    PROVE  LET m == [c EXCEPT !.manifest = TRUE]
           IN  m \in Job /\ m.id = c.id /\ m.stage = c.stage
  BY DEF Job

------------------------------------------------------------------------------
(***************************************************************************)
(* What one step changes.                                                  *)
(***************************************************************************)
(* The store is left alone, or the record of job i takes a new value.      *)
OwnStore(i) ==
    \/ UNCHANGED storeVars
    \/ /\ Has(i)
       /\ job' \in Job /\ job'.id = i
       /\ persisted' = job' /\ journal' = job'
       /\ healthy' \in BOOLEAN

SameParts(k) ==
    /\ call'[k] = call[k] /\ handle'[k] = handle[k] /\ monitor'[k] = monitor[k]
    /\ proc'[k] = proc[k] /\ local'[k] = local[k] /\ events'[k] = events[k]
    /\ client'[k] = client[k]

LEMMA SaveOwn ==
    ASSUME StoreTypeOK, Agreed, NEW i \in JobIds, Has(i), NEW next \in Job, next.id = i,
           NEW saved \in BOOLEAN, SaveJournal(next, saved)
    PROVE  OwnStore(i) /\ job' = IF saved THEN next ELSE job
  <1>1. job \in Job /\ job.id = i
    BY DEF StoreTypeOK, Has
  <1>2. CASE saved
    BY <1>2 DEF SaveJournal, OwnStore, StoreTypeOK
  <1>3. CASE ~saved
    BY <1>1, <1>3 DEF SaveJournal, OwnStore, Agreed
  <1>4. QED
    BY <1>2, <1>3

LEMMA OwnStoreType ==
    ASSUME StoreTypeOK, Agreed, NEW i \in JobIds, OwnStore(i)
    PROVE  StoreTypeOK' /\ Agreed'
  BY DEF StoreTypeOK, Agreed, OwnStore, storeVars

(* A job that a step does not touch stays sound.                           *)
LEMMA OthersKeep ==
    ASSUME NEW i \in JobIds, NEW k \in JobIds, k # i, JobInv(k), OwnStore(i),
           SameParts(k), server' = server
    PROVE  JobInv(k)'
  <1> USE DEF SameParts
  <1>1. (Has(k)' => Has(k)) /\ (Has(k) => Has(k)' /\ job' = job)
    BY DEF OwnStore, Has, storeVars
  <1>2. CallerSound(k)' /\ ServerSound(k)'
    BY <1>1 DEF JobInv, CallerSound, ServerSound
  <1>3. WorkerSound(k)' /\ MonitorSound(k)'
    BY DEF JobInv, WorkerSound, MonitorSound, Alive, Dead
  <1>4. EvidenceSound(k)'
    BY DEF JobInv, EvidenceSound, EventSound, Settled
  <1>5. OutcomeSound(k)'
    BY <1>1 DEF JobInv, OutcomeSound, Alive, Dead
  <1>6. QED
    BY <1>2, <1>3, <1>4, <1>5 DEF JobInv

LEMMA StepOf ==
    ASSUME IInv, NEW i \in JobIds, OwnStore(i), server' = server,
           \A k \in JobIds : k # i => SameParts(k),
           ProcessTypeOK',
           call' \in [JobIds -> Call], handle' \in [JobIds -> Handle],
           monitor' \in [JobIds -> MonitorPcs],
           stopper' \in [Tasks -> [JobIds -> StopperPcs]],
           client' \in [JobIds -> Client],
           JobInv(i)'
    PROVE  IInv'
  <1>1. TypeOK' /\ Agreed'
    BY OwnStoreType DEF IInv, TypeOK
  <1>2. ASSUME NEW k \in JobIds PROVE JobInv(k)'
    BY <1>2, OthersKeep DEF IInv
  <1>3. QED
    BY <1>1, <1>2 DEF IInv

(* Detaching and closing a call.                                           *)
LEMMA DetachedType ==
    ASSUME call \in [JobIds -> Call], NEW i \in JobIds, NEW v \in Job \union {NoJob}
    PROVE  /\ Detached(i, v) \in [JobIds -> Call]
           /\ Detached(i, v)[i].pc = call[i].pc
           /\ Detached(i, v)[i].surface = call[i].surface
           /\ ~Detached(i, v)[i].live
           /\ Detached(i, v)[i].stale = IF call[i].live THEN v ELSE call[i].stale
           /\ \A k \in JobIds : k # i => Detached(i, v)[k] = call[k]
  BY DEF Detached, Call

LEMMA ClosedType ==
    ASSUME call \in [JobIds -> Call], NEW i \in JobIds
    PROVE  /\ Closed(call, i) \in [JobIds -> Call]
           /\ Closed(call, i)[i].pc = "closed"
           /\ Closed(call, i)[i].surface = call[i].surface
           /\ ~Closed(call, i)[i].live
           /\ \A k \in JobIds : k # i => Closed(call, i)[k] = call[k]
  BY ZenonT(30) DEF Closed, Call, CallPcs

LEMMA SignalledType ==
    ASSUME NEW p \in Process, NEW s \in {"term", "kill"}
    PROVE  /\ Signalled(p, s) \in Process
           /\ Signalled(p, s).state = p.state
           /\ Signalled(p, s).rc = p.rc
           /\ Signalled(p, s).tree = p.tree
  BY DEF Signalled, Process

------------------------------------------------------------------------------
(***************************************************************************)
(* Steps of a worker: it is alive, so nothing is claimed of its end yet,   *)
(* and what it writes is its own job and its own outcome.                  *)
(***************************************************************************)
WorkerFacts(i) ==
    /\ ProcessTypeOK'
    /\ proc'[i].state # "absent"
    /\ proc'[i].tree = proc[i].tree
    /\ \A k \in JobIds : k # i =>
         proc'[k] = proc[k] /\ local'[k] = local[k] /\ events'[k] = events[k]
    /\ EvidenceSound(i)'

LEMMA EmitType ==
    ASSUME events \in [JobIds -> Seq(Event)], NEW i \in JobIds, NEW new \in Seq(Event),
           Emit(i, new)
    PROVE  /\ events' \in [JobIds -> Seq(Event)]
           /\ \A k \in JobIds : k # i => events'[k] = events[k]
           /\ \A n \in 1..Len(events'[i]) :
                \/ \E m \in 1..Len(events[i]) : events'[i][n] = events[i][m]
                \/ \E m \in 1..Len(new) : events'[i][n] = new[m]
  <1>1. events'[i] = events[i] \o new /\ events[i] \in Seq(Event)
    BY DEF Emit
  <1>2. events' \in [JobIds -> Seq(Event)] /\ \A k \in JobIds : k # i => events'[k] = events[k]
    BY DEF Emit
  <1>3. ASSUME NEW n \in 1..Len(events'[i])
        PROVE  \/ \E m \in 1..Len(events[i]) : events'[i][n] = events[i][m]
               \/ \E m \in 1..Len(new) : events'[i][n] = new[m]
    <2>1. CASE n \in 1..Len(events[i])
      BY <1>1, <2>1
    <2>2. CASE n \notin 1..Len(events[i])
      <3>1. n - Len(events[i]) \in 1..Len(new)
        BY <1>1, <1>3, <2>2
      <3>2. events'[i][n] = new[n - Len(events[i])]
        BY <1>1, <1>3, <2>2
      <3>3. QED
        BY <3>1, <3>2
    <2>3. QED
      BY <2>1, <2>2
  <1>4. QED
    BY <1>2, <1>3

LEMMA EmitSound ==
    ASSUME events \in [JobIds -> Seq(Event)], NEW i \in JobIds, NEW new \in Seq(Event),
           Emit(i, new),
           NEW own, NEW settled \in BOOLEAN,
           \A n \in 1..Len(events[i]) : EventSound(events[i][n], own, settled),
           \A n \in 1..Len(new) : EventSound(new[n], own, settled)
    PROVE  \A n \in 1..Len(events'[i]) : EventSound(events'[i][n], own, settled)
  BY EmitType

LEMMA EventTypes ==
    /\ Ready \in Event /\ Garbled \in Event
    /\ \A j \in Job : State(j) \in Event
    /\ \A j \in Job, r \in {"completed", "failed"} \union ErrorTypes : Terminal(j, r) \in Event
  BY DEF Ready, Garbled, State, Terminal, Event

(* The end of a process, however it comes about, leaves what it wrote.     *)
LEMMA DiesFacts ==
    ASSUME IInv, NEW i \in JobIds, Alive(i), NEW rc \in Int, Dies(i, rc), handle' = handle
    PROVE  WorkerFacts(i)
  <1> DEFINE ended == [proc[i] EXCEPT !.state = "dead", !.rc = rc,
                                      !.told = "none", !.signal = "none"]
  <1>1. ProcessTypeOK /\ EvidenceSound(i) /\ proc[i] \in Process
    BY DEF IInv, TypeOK, JobInv, ProcessTypeOK
  <1>2. ended \in Process /\ ended.state = "dead" /\ ended.tree = proc[i].tree
    BY <1>1 DEF Process, ProcessStates
  <1>3. proc' = [proc EXCEPT ![i] = ended]
    BY <1>1 DEF Dies, ProcessTypeOK
  <1>4. /\ late' \in [JobIds -> Job \union {NoJob}]
        /\ control' \in [JobIds -> CancelReasons \union {"none"}]
        /\ local' = local /\ events' = events
    BY <1>1 DEF Dies, ProcessTypeOK
  <1>5. proc' \in [JobIds -> Process] /\ proc'[i] = ended
        /\ \A k \in JobIds : k # i => proc'[k] = proc[k]
    BY <1>1, <1>2, <1>3 DEF ProcessTypeOK
  <1>6. EvidenceSound(i)'
    BY <1>1, <1>2, <1>4, <1>5 DEF EvidenceSound, EventSound, Settled, Alive
  <1>7. ProcessTypeOK'
    BY <1>1, <1>4, <1>5 DEF ProcessTypeOK
  <1>8. QED
    BY <1>2, <1>4, <1>5, <1>6, <1>7 DEF WorkerFacts

(* The other steps; the pipe and the job of a worker that goes on.         *)
LEMMA WritesFacts ==
    ASSUME IInv, NEW i \in JobIds, Alive(i), handle' = handle,
           NEW s \in ProcessStates, s \notin {"absent", "dead"},
           NEW q \in Process, q.state = s, q.tree = proc[i].tree,
           proc' = [proc EXCEPT ![i] = q],
           NEW j \in Job, local' = [local EXCEPT ![i] = j],
           late' \in [JobIds -> Job \union {NoJob}], control' = control,
           NEW new \in Seq(Event), Emit(i, new),
           j # local[i] \/ s # "exiting" => ~Settled(i),
           \A n \in 1..Len(new) : EventSound(new[n], j, s = "exiting")
    PROVE  WorkerFacts(i)
  <1>1. /\ ProcessTypeOK /\ EvidenceSound(i)
        /\ events \in [JobIds -> Seq(Event)]
    BY DEF IInv, TypeOK, JobInv, ProcessTypeOK
  <1>2. /\ proc' \in [JobIds -> Process] /\ proc'[i] = q
        /\ \A k \in JobIds : k # i => proc'[k] = proc[k]
    BY <1>1 DEF ProcessTypeOK
  <1>3. /\ local' \in [JobIds -> Job \union {NoJob}] /\ local'[i] = j
        /\ \A k \in JobIds : k # i => local'[k] = local[k]
    BY <1>1 DEF ProcessTypeOK
  <1>4. events' \in [JobIds -> Seq(Event)] /\ \A k \in JobIds : k # i => events'[k] = events[k]
    BY <1>1, EmitType
  <1>5. ProcessTypeOK'
    BY <1>1, <1>2, <1>3, <1>4 DEF ProcessTypeOK
  <1>6. Settled(i)' <=> s = "exiting"
    BY <1>2 DEF Settled
  <1>7. ASSUME NEW n \in 1..Len(events[i])
        PROVE  EventSound(events[i][n], j, s = "exiting")
    BY <1>1 DEF EvidenceSound, EventSound
  <1>8. \A n \in 1..Len(events'[i]) : EventSound(events'[i][n], j, s = "exiting")
    BY <1>1, <1>7, EmitSound
  <1>9. handle[i].terminal # NoJob => handle[i].terminal = j /\ Settled(i)'
    BY <1>1, <1>6 DEF EvidenceSound
  <1>10. EvidenceSound(i)'
    BY <1>3, <1>6, <1>8, <1>9 DEF EvidenceSound, EventSound
  <1>11. QED
    BY <1>2, <1>3, <1>4, <1>5, <1>10 DEF WorkerFacts

LEMMA WorkerStepFacts ==
    ASSUME IInv, NEW i \in JobIds, WorkerStep(i), handle' = handle
    PROVE  Alive(i) /\ WorkerFacts(i)
  <1>0. Alive(i)
    BY DEF WorkerStep, Boot, Progress, TakeSnapshot, SendSnapshot, TakeCommand, Succeed,
       Fail, Withdraw, Settles, Exit, Crash, TakeSignal, Garble, Alive
  <1>1. /\ proc \in [JobIds -> Process] /\ proc[i] \in Process
        /\ local \in [JobIds -> Job \union {NoJob}] /\ local[i] \in Job
        /\ late \in [JobIds -> Job \union {NoJob}]
        /\ control \in [JobIds -> CancelReasons \union {"none"}]
        /\ events \in [JobIds -> Seq(Event)]
    BY <1>0 DEF IInv, TypeOK, ProcessTypeOK, JobInv, EvidenceSound, Alive
  <1>2. local = [local EXCEPT ![i] = local[i]] /\ proc = [proc EXCEPT ![i] = proc[i]]
    BY <1>1
  <1> DEFINE nothing == <<>>
  <1>3. /\ nothing \in Seq(Event)
        /\ UNCHANGED events => Emit(i, nothing)
        /\ \A n \in 1..Len(nothing) : EventSound(nothing[n], local[i], FALSE)
    <2>1. events[i] \o <<>> = events[i] /\ Len(<<>>) = 0
      BY <1>1
    <2>2. UNCHANGED events => Emit(i, nothing)
      BY <1>1, <2>1 DEF Emit
    <2>3. QED
      BY <2>1, <2>2
  <1> HIDE DEF nothing
  <1>4. ASSUME NEW s \in ProcessStates, Become(i, s)
        PROVE  LET q == [proc[i] EXCEPT !.state = s]
               IN  /\ q \in Process /\ q.state = s /\ q.tree = proc[i].tree
                   /\ proc' = [proc EXCEPT ![i] = q]
    BY <1>1, <1>4 DEF Become, Process
  <1>5. CASE Boot(i)
    <2>1. /\ Ready \in Event /\ State(local[i]) \in Event
          /\ <<Ready, State(local[i])>> \in Seq(Event)
      BY <1>1, EventTypes
    <2>2. /\ EventSound(Ready, local[i], FALSE)
          /\ EventSound(State(local[i]), local[i], FALSE)
      BY <1>1 DEF EventSound, Ready, State
    <2>3. \A n \in 1..Len(<<Ready, State(local[i])>>) :
            EventSound(<<Ready, State(local[i])>>[n], local[i], FALSE)
      <3>1. Len(<<Ready, State(local[i])>>) = 2 /\ 1..2 = {1, 2}
        OBVIOUS
      <3>2. /\ <<Ready, State(local[i])>>[1] = Ready
            /\ <<Ready, State(local[i])>>[2] = State(local[i])
        OBVIOUS
      <3>3. QED
        BY <2>2, <3>1, <3>2, Zenon
    <2>4. "running" \in ProcessStates /\ ~Settled(i)
      BY <1>5 DEF ProcessStates, Boot, Settled
    <2> DEFINE q == [proc[i] EXCEPT !.state = "running"]
    <2>5. /\ q \in Process /\ q.state = "running" /\ q.tree = proc[i].tree
          /\ proc' = [proc EXCEPT ![i] = q]
      BY <1>4, <1>5, <2>4 DEF Boot
    <2>6. /\ Emit(i, <<Ready, State(local[i])>>)
          /\ local' = local /\ late' = late /\ control' = control
      BY <1>5 DEF Boot
    <2> HIDE DEF q
    <2>7. QED
      BY <1>0, <1>1, <1>2, <2>1, <2>3, <2>4, <2>5, <2>6, WritesFacts
  <1>6. CASE Progress(i)
    <2>1. PICK s \in WorkStages, p \in 0..MaxProgress :
            /\ proc[i].state = "running"
            /\ local' = [local EXCEPT ![i] = AdvanceStage(@, s, p)]
            /\ Emit(i, <<State(AdvanceStage(local[i], s, p))>>)
            /\ UNCHANGED <<proc, late, control>>
      BY <1>6 DEF Progress
    <2> DEFINE j == AdvanceStage(local[i], s, p)
    <2>2. j \in Job
      BY <1>1, AdvanceType, WorkerAssumption
    <2>3. State(j) \in Event /\ <<State(j)>> \in Seq(Event)
      BY <2>2, EventTypes
    <2>4. \A n \in 1..Len(<<State(j)>>) : EventSound(<<State(j)>>[n], j, FALSE)
      BY <2>2 DEF EventSound, State
    <2>5. ~Settled(i) /\ proc[i].state \in ProcessStates
      BY <2>1 DEF Settled, ProcessStates
    <2>6. local' = [local EXCEPT ![i] = j]
      BY <1>1, <2>1
    <2> HIDE DEF j
    <2>7. QED
      BY <1>0, <1>1, <1>2, <2>1, <2>2, <2>3, <2>4, <2>5, <2>6, WritesFacts DEF j
  <1>7. CASE TakeSnapshot(i)
    <2>1. late' \in [JobIds -> Job \union {NoJob}]
      BY <1>1, <1>7 DEF TakeSnapshot
    <2>2. ~Settled(i) /\ proc[i].state = "running" /\ "running" \in ProcessStates
      BY <1>7 DEF TakeSnapshot, Settled, ProcessStates
    <2>3. proc' = proc /\ local' = local /\ control' = control /\ Emit(i, nothing)
      BY <1>3, <1>7 DEF TakeSnapshot
    <2>4. QED
      BY <1>0, <1>1, <1>2, <1>3, <2>1, <2>2, <2>3, WritesFacts
  <1>8. CASE SendSnapshot(i)
    <2>1. late' \in [JobIds -> Job \union {NoJob}] /\ late[i] \in Job
      BY <1>1, <1>8 DEF SendSnapshot
    <2>2. State(late[i]) \in Event /\ <<State(late[i])>> \in Seq(Event)
      BY <2>1, EventTypes
    <2>3. \A n \in 1..Len(<<State(late[i])>>) :
            EventSound(<<State(late[i])>>[n], local[i], proc[i].state = "exiting")
      BY <2>1 DEF EventSound, State
    <2>4. /\ proc[i].state \in ProcessStates \ {"absent", "dead"}
          /\ proc[i].state # "exiting" => ~Settled(i)
      BY <1>8 DEF SendSnapshot, ProcessStates, Settled
    <2>5. Emit(i, <<State(late[i])>>) /\ proc' = proc /\ local' = local /\ control' = control
      BY <1>8 DEF SendSnapshot
    <2>6. QED
      BY <1>0, <1>1, <1>2, <2>1, <2>2, <2>3, <2>4, <2>5, WritesFacts
  <1>9. CASE TakeCommand(i)
    <2> DEFINE q == [proc[i] EXCEPT !.told = control[i]]
    <2>1. /\ q \in Process /\ q.state = "running" /\ q.tree = proc[i].tree
          /\ proc' = [proc EXCEPT ![i] = q]
      BY <1>1, <1>9 DEF TakeCommand, Process, CancelReasons
    <2>2. ~Settled(i) /\ "running" \in ProcessStates
      BY <1>9 DEF TakeCommand, Settled, ProcessStates
    <2>3. local' = local /\ late' = late /\ control' = control /\ Emit(i, nothing)
      BY <1>3, <1>9 DEF TakeCommand
    <2> HIDE DEF q
    <2>4. QED
      BY <1>0, <1>1, <1>2, <1>3, <2>1, <2>2, <2>3, WritesFacts
  <1>10. ASSUME NEW s \in TerminalStages, NEW e \in ErrorTypes, Settles(i, s, e),
                s = "cancelled" => proc[i].told # "none"
         PROVE  WorkerFacts(i)
    <2> DEFINE j == Terminated(local[i], s, e)
               t == Terminal(j, TerminalReason(j, proc[i].told))
    <2>1. j \in Job
      BY <1>1, <1>10, TerminatedType DEF Terminated, CanAdvance
    <2>2. TerminalReason(j, proc[i].told) \in {"completed", "failed"} \union ErrorTypes
      <3>1. proc[i].told \in ErrorTypes /\ j.error \in ErrorTypes
        BY <1>1, <2>1 DEF Process, ErrorTypes, Job
      <3>2. QED
        BY <3>1 DEF TerminalReason, FailureReason
    <2>3. t \in Event /\ <<t>> \in Seq(Event)
      BY <2>1, <2>2, EventTypes
    <2>4. t.kind = "terminal" /\ t.state = j
      BY DEF Terminal
    <2>5. ~Settled(i) /\ "exiting" \in ProcessStates
      BY <1>10 DEF Settles, Settled, ProcessStates
    <2>6. /\ local' = [local EXCEPT ![i] = j] /\ Emit(i, <<t>>) /\ Become(i, "exiting")
          /\ late' = late /\ control' = control
      BY <1>10 DEF Settles
    <2> HIDE DEF j, t
    <2>7. \A n \in 1..Len(<<t>>) : EventSound(<<t>>[n], j, TRUE)
      BY <2>1, <2>4 DEF EventSound
    <2>8. QED
      BY <1>0, <1>1, <1>4, <2>1, <2>3, <2>5, <2>6, <2>7, WritesFacts
  <1>11. CASE Succeed(i) \/ Fail(i) \/ Withdraw(i)
    <2>1. /\ {"none", "worker_error", "user_cancelled"} \subseteq ErrorTypes
          /\ {"completed", "failed", "cancelled"} \subseteq TerminalStages
      BY DEF ErrorTypes, CancelReasons, TerminalStages, Aborts
    <2>2. CASE Succeed(i)
      BY <1>0, <1>10, <2>1, <2>2 DEF Succeed
    <2>3. CASE Fail(i)
      BY <1>0, <1>10, <2>1, <2>3 DEF Fail
    <2>4. CASE Withdraw(i)
      BY <1>0, <1>10, <2>1, <2>4 DEF Withdraw
    <2>5. QED
      BY <1>11, <2>2, <2>3, <2>4
  <1>12. CASE Exit(i) \/ Crash(i) \/ TakeSignal(i)
    <2>1. CrashCodes \subseteq Int /\ WorkerReturnCode(i) \in Int /\ Sigkill \in Int /\ Sigterm \in Int
      BY WorkerAssumption
      DEF WorkerReturnCode, ExitSuccess, ExitFailure, ExitCancelled, Sigkill, Sigterm
    <2>2. \E rc \in Int : Dies(i, rc)
      BY <1>12, <2>1 DEF Exit, Crash, TakeSignal
    <2>3. QED
      BY <1>0, <2>2, DiesFacts
  <1>13. CASE Garble(i)
    <2>1. Garbled \in Event /\ <<Garbled>> \in Seq(Event)
      BY EventTypes
    <2>2. \A n \in 1..Len(<<Garbled>>) : EventSound(<<Garbled>>[n], local[i], FALSE)
      BY DEF EventSound, Garbled
    <2>3. ~Settled(i) /\ proc[i].state = "running" /\ "running" \in ProcessStates
      BY <1>13 DEF Garble, Settled, ProcessStates
    <2>4. QED
      BY <1>0, <1>1, <1>2, <1>13, <2>1, <2>2, <2>3, WritesFacts DEF Garble
  <1>14. QED
    BY <1>0, <1>5, <1>6, <1>7, <1>8, <1>9, <1>11, <1>12, <1>13 DEF WorkerStep

LEMMA WorkerKeeps ==
    ASSUME IInv, NEW i \in JobIds, WorkerStep(i), UNCHANGED <<storeVars, supervisorVars>>
    PROVE  IInv'
  <1> USE DEF supervisorVars
  <1>1. Alive(i) /\ WorkerFacts(i)
    BY WorkerStepFacts
  <1>2. JobInv(i) /\ TypeOK
    BY DEF IInv
  <1>3. OwnStore(i) /\ Has(i)' = Has(i)
    BY DEF OwnStore, storeVars, Has
  <1>4. CallerSound(i)' /\ ServerSound(i)'
    BY <1>2, <1>3 DEF JobInv, CallerSound, ServerSound, storeVars
  <1>5. WorkerSound(i)'
    BY <1>1, <1>2 DEF JobInv, WorkerSound, WorkerFacts, Alive, Dead
  <1>6. MonitorSound(i)'
    BY <1>1, <1>2 DEF JobInv, MonitorSound, WorkerFacts, Alive, Dead
  <1>7. OutcomeSound(i)'
    <2>1. ~(Has(i) /\ IsTerminal(job)) /\ ~handle[i].done
      BY <1>1, <1>2 DEF JobInv, OutcomeSound, WorkerSound, Alive, Dead
    <2>2. ~(Has(i) /\ job.stage \in {"completed", "cancelled"})
      BY <2>1 DEF IsTerminal, TerminalStages, Aborts
    <2>3. QED
      BY <1>2, <1>3, <2>1, <2>2 DEF JobInv, OutcomeSound, storeVars
  <1>8. JobInv(i)'
    BY <1>1, <1>4, <1>5, <1>6, <1>7 DEF JobInv, WorkerFacts
  <1>9. \A k \in JobIds : k # i => SameParts(k)
    BY <1>1 DEF WorkerFacts, SameParts
  <1>10. QED
    BY <1>1, <1>2, <1>3, <1>8, <1>9, StepOf DEF WorkerFacts, TypeOK

------------------------------------------------------------------------------
(***************************************************************************)
(* Steps of a start: the request moves on, or closes with or without an    *)
(* outcome committed for its job.                                          *)
(***************************************************************************)
LEMMA CommitTerminalOwn ==
    ASSUME StoreTypeOK, Agreed, NEW i \in JobIds, NEW s \in Aborts, NEW e \in ErrorTypes,
           NEW saved \in BOOLEAN, CommitTerminal(i, s, e, saved)
    PROVE  OwnStore(i) /\ (job' = job \/ job'.stage = s)
  <1>1. CASE Has(i) /\ ~IsTerminal(job)
    <2>1. job \in Job /\ job.id = i /\ s \in TerminalStages
      BY <1>1 DEF Has, StoreTypeOK, TerminalStages
    <2>2. SaveJournal(Terminated(job, s, e), saved)
      BY <1>1 DEF CommitTerminal
    <2>3. QED
      BY <1>1, <2>1, <2>2, TerminatedType, SaveOwn
  <1>2. CASE ~(Has(i) /\ ~IsTerminal(job))
    BY <1>2 DEF CommitTerminal, OwnStore, storeVars
  <1>3. QED
    BY <1>1, <1>2

LEMMA TerminalizeOwn ==
    ASSUME StoreTypeOK, Agreed, NEW i \in JobIds, CallerSound(i),
           call[i].pc \notin {"none", "closed"},
           NEW s \in Aborts, NEW e \in ErrorTypes,
           NEW saved \in BOOLEAN, Terminalize(i, s, e, saved)
    PROVE  OwnStore(i) /\ (job' = job \/ job'.stage = s)
  <1>1. Ref(i) \in Job /\ Ref(i).id = i
    BY DEF CallerSound, Ref, Has, StoreTypeOK
  <1>2. CASE Has(i) /\ Ref(i) # NoJob /\ ~IsTerminal(Ref(i))
    <2> DEFINE next == Terminated(Ref(i), s, e)
    <2>1. next \in Job /\ next.id = i /\ next.stage = s
      BY <1>1, <1>2, TerminatedType DEF TerminalStages
    <2>2. SaveJournal(next, saved)
      BY <1>2, <2>1 DEF Terminalize, Update
    <2>3. QED
      BY <1>2, <2>1, <2>2, SaveOwn
  <1>3. CASE ~(Has(i) /\ Ref(i) # NoJob /\ ~IsTerminal(Ref(i)))
    <2>1. CASE Ref(i) = NoJob \/ IsTerminal(Ref(i))
      BY <2>1 DEF Terminalize, OwnStore, storeVars
    <2>2. CASE Ref(i) # NoJob /\ ~IsTerminal(Ref(i))
      <3>1. Terminated(Ref(i), s, e).id = i
        BY <1>1, <2>2, TerminatedType DEF TerminalStages
      <3>2. QED
        BY <1>3, <2>2, <3>1 DEF Terminalize, Update, OwnStore, storeVars
    <2>3. QED
      BY <2>1, <2>2
  <1>4. QED
    BY <1>2, <1>3

(* The outcome a start may commit: its job has no process.                 *)
Abandons(i) ==
    \/ job' = job
    \/ /\ ~Alive(i) /\ ~proc[i].tree
       /\ \/ job'.stage = "failed"
          \/ job'.stage = "cancelled" /\ proc[i].state = "absent" /\ call[i].surface = "a2a"

LEMMA CallCloses ==
    ASSUME IInv, NEW i \in JobIds, call' = Closed(call, i), call[i].pc # "none",
           OwnStore(i), Abandons(i),
           UNCHANGED <<processVars, handle, monitor, stopper, client, server>>
    PROVE  IInv'
  <1>1. JobInv(i) /\ TypeOK
    BY DEF IInv
  <1>2. /\ call' \in [JobIds -> Call] /\ call'[i].pc = "closed" /\ ~call'[i].live
        /\ call'[i].surface = call[i].surface
        /\ \A k \in JobIds : k # i => call'[k] = call[k]
    BY <1>1, ClosedType DEF TypeOK
  <1>3. CallerSound(i)' /\ ServerSound(i)'
    BY <1>1, <1>2 DEF JobInv, CallerSound, ServerSound, Locking
  <1>4. WorkerSound(i)' /\ MonitorSound(i)'
    BY <1>1, <1>2 DEF JobInv, WorkerSound, MonitorSound, Alive, Dead, processVars
  <1>5. EvidenceSound(i)'
    BY <1>1 DEF JobInv, EvidenceSound, Settled, processVars
  <1>6. OutcomeSound(i)'
    <2>1. CASE job' = job
      BY <1>1, <1>2, <2>1 DEF JobInv, OutcomeSound, Has, Alive, Dead, processVars
    <2>2. CASE job' # job
      <3>1. Has(i)' /\ job'.stage \in Aborts /\ IsTerminal(job')
        BY <2>2, JournalAssumption
        DEF OwnStore, Abandons, Has, storeVars, Aborts, IsTerminal, TerminalStages
      <3>2. QED
        BY <1>1, <1>2, <2>2, <3>1
        DEF JobInv, OutcomeSound, Abandons, Alive, Dead, processVars, IsTerminal
    <2>3. QED
      BY <2>1, <2>2
  <1>7. JobInv(i)'
    BY <1>3, <1>4, <1>5, <1>6 DEF JobInv
  <1>8. \A k \in JobIds : k # i => SameParts(k)
    BY <1>2 DEF SameParts, processVars
  <1>9. QED
    BY <1>1, <1>2, <1>7, <1>8, StepOf DEF TypeOK, ProcessTypeOK, processVars

(* The request goes on, with the store and the processes left alone.       *)
LEMMA CallMoves ==
    ASSUME IInv, NEW i \in JobIds, NEW c \in Call, call' = [call EXCEPT ![i] = c],
           c.live = call[i].live, c.stale = call[i].stale, c.surface = call[i].surface,
           \/ call[i].pc = "publishing" /\ c.pc = "admitted"
           \/ call[i].pc = "admitted" /\ c.pc = "spawning" /\ server = "serving"
           \/ call[i].pc = "spawning" /\ c.pc = "withdrawn",
           UNCHANGED <<storeVars, processVars, handle, monitor, stopper, client, server>>
    PROVE  IInv'
  <1>1. JobInv(i) /\ TypeOK
    BY DEF IInv
  <1>2. /\ call' \in [JobIds -> Call] /\ call'[i] = c
        /\ \A k \in JobIds : k # i => call'[k] = call[k]
    BY <1>1 DEF TypeOK
  <1>3. OwnStore(i) /\ Has(i)' = Has(i)
    BY DEF OwnStore, storeVars, Has
  <1>4. CallerSound(i)' /\ ServerSound(i)'
    BY <1>1, <1>2, <1>3 DEF JobInv, CallerSound, ServerSound, Locking, storeVars
  <1>5. WorkerSound(i)' /\ MonitorSound(i)'
    BY <1>1, <1>2 DEF JobInv, WorkerSound, MonitorSound, Alive, Dead, processVars
  <1>6. EvidenceSound(i)' /\ OutcomeSound(i)'
    BY <1>1, <1>2, <1>3
    DEF JobInv, EvidenceSound, OutcomeSound, Settled, Alive, Dead, processVars, storeVars
  <1>7. JobInv(i)'
    BY <1>4, <1>5, <1>6 DEF JobInv
  <1>8. \A k \in JobIds : k # i => SameParts(k)
    BY <1>2 DEF SameParts, processVars
  <1>9. QED
    BY <1>1, <1>2, <1>3, <1>7, <1>8, StepOf DEF TypeOK, ProcessTypeOK, processVars

(* A spawned child starts with the job of its request.                     *)
LEMMA SpawnKeeps ==
    ASSUME IInv, NEW i \in JobIds, SpawnSucceeds(i)
    PROVE  IInv'
  <1> DEFINE withdrawn == call[i].pc = "withdrawn"
             abort == withdrawn \/ Closing
             child == [proc[i] EXCEPT !.state = "booting", !.start = ~abort, !.tree = TRUE]
             p == IF abort THEN Signalled(child, "kill") ELSE child
             h == [handle[i] EXCEPT !.retained = TRUE, !.accused = withdrawn,
                     !.cancelReason = IF abort /\ ~withdrawn THEN "server_shutdown" ELSE @]
             c == [call[i] EXCEPT !.pc = IF abort THEN "abortingLocked" ELSE "starting"]
  <1>1. JobInv(i) /\ TypeOK /\ call[i].pc \in {"spawning", "withdrawn"}
    BY DEF IInv, SpawnSucceeds
  <1>2. /\ call[i] \in Call /\ handle[i] \in Handle /\ proc[i] \in Process
    BY <1>1 DEF TypeOK, ProcessTypeOK
  <1>3. /\ job \in Job /\ Has(i) /\ ~IsTerminal(job) /\ Ref(i) = job
        /\ call[i].live
        /\ proc[i].state = "absent"
        /\ ~handle[i].observed /\ ~handle[i].clean /\ ~handle[i].done
        /\ server \notin {"stopping", "reaped", "marked", "unmarked"}
    BY <1>1 DEF JobInv, CallerSound, WorkerSound, ServerSound, Locking, Ref, Has, Dead,
       TypeOK, StoreTypeOK
  <1>4. /\ proc' = [proc EXCEPT ![i] = p]
        /\ handle' = [handle EXCEPT ![i] = h]
        /\ call' = [call EXCEPT ![i] = c]
    <2>1. call' = [call EXCEPT ![i] = c]
      BY <1>1 DEF SpawnSucceeds, TypeOK
    <2>2. handle' = [handle EXCEPT ![i] = h]
      BY <1>1 DEF SpawnSucceeds, TypeOK
    <2>3. Spawned(i, ~abort) = [proc EXCEPT ![i] = child]
      BY <1>1 DEF Spawned, TypeOK, ProcessTypeOK
    <2>4. proc' = IF abort THEN [Spawned(i, ~abort) EXCEPT ![i] = Signalled(@, "kill")]
                  ELSE Spawned(i, ~abort)
      BY DEF SpawnSucceeds
    <2>5. proc' = [proc EXCEPT ![i] = p]
      BY <1>1, <2>3, <2>4 DEF TypeOK, ProcessTypeOK
    <2>6. QED
      BY <2>1, <2>2, <2>5
  <1>5. /\ c \in Call /\ c.live = call[i].live /\ c.stale = call[i].stale
        /\ c.pc \in {"abortingLocked", "starting"}
    BY <1>2 DEF Call, CallPcs
  <1>6. abort \in BOOLEAN /\ withdrawn \in BOOLEAN
    BY DEF Closing
  <1>7. /\ h \in Handle /\ h.retained /\ h.terminal = handle[i].terminal
        /\ h.observed = handle[i].observed /\ h.clean = handle[i].clean
        /\ h.done = handle[i].done
        /\ h.cancelReason \in {handle[i].cancelReason, "server_shutdown"}
    <2> HIDE DEF withdrawn, abort
    <2>1. QED
      BY <1>2, <1>6 DEF Handle, CancelReasons
  <1>8. child \in Process /\ child.state = "booting" /\ child.tree = TRUE
    <2> HIDE DEF withdrawn, abort
    <2>1. QED
      BY <1>2, <1>6 DEF Process, ProcessStates
  <1>9. p \in Process /\ p.state = "booting" /\ p.tree = TRUE
    <2> HIDE DEF child
    <2>1. QED
      BY <1>8, SignalledType
  <1> HIDE DEF withdrawn, abort, child, p, h, c
  <1>10. /\ call' \in [JobIds -> Call] /\ call'[i] = c
         /\ handle' \in [JobIds -> Handle] /\ handle'[i] = h
         /\ proc' \in [JobIds -> Process] /\ proc'[i] = p
         /\ monitor' \in [JobIds -> MonitorPcs] /\ monitor'[i] = "reading"
         /\ local' \in [JobIds -> Job \union {NoJob}] /\ local'[i] = job
         /\ \A k \in JobIds : k # i =>
              /\ call'[k] = call[k] /\ handle'[k] = handle[k] /\ proc'[k] = proc[k]
              /\ monitor'[k] = monitor[k] /\ local'[k] = local[k]
         /\ UNCHANGED <<storeVars, late, events, control, stopper, client, server>>
    <2>1. /\ call' \in [JobIds -> Call] /\ call'[i] = c
          /\ handle' \in [JobIds -> Handle] /\ handle'[i] = h
          /\ proc' \in [JobIds -> Process] /\ proc'[i] = p
          /\ \A k \in JobIds : k # i =>
               call'[k] = call[k] /\ handle'[k] = handle[k] /\ proc'[k] = proc[k]
      BY <1>1, <1>4, <1>5, <1>7, <1>9 DEF TypeOK, ProcessTypeOK
    <2>2. /\ monitor' = [monitor EXCEPT ![i] = "reading"]
          /\ local' = [local EXCEPT ![i] = job]
          /\ UNCHANGED <<storeVars, late, events, control, stopper, client, server>>
      BY <1>3 DEF SpawnSucceeds
    <2>3. QED
      BY <1>1, <1>3, <2>1, <2>2 DEF TypeOK, ProcessTypeOK, MonitorPcs
  <1>11. OwnStore(i) /\ Has(i)' /\ job' = job
    BY <1>3, <1>10 DEF OwnStore, storeVars, Has
  <1>12. CallerSound(i)' /\ ServerSound(i)'
    BY <1>3, <1>5, <1>10, <1>11 DEF CallerSound, ServerSound
  <1>13. WorkerSound(i)' /\ MonitorSound(i)'
    BY <1>3, <1>5, <1>7, <1>9, <1>10 DEF WorkerSound, MonitorSound, Alive, Dead
  <1>14. EvidenceSound(i)'
    BY <1>1, <1>3, <1>7, <1>9, <1>10 DEF JobInv, EvidenceSound, EventSound, Settled
  <1>15. OutcomeSound(i)'
    <2>1. job.stage \notin {"completed", "cancelled"}
      BY <1>3 DEF IsTerminal, TerminalStages, Aborts
    <2>2. QED
      BY <1>1, <1>3, <1>7, <1>10, <1>11, <2>1 DEF JobInv, OutcomeSound, IsTerminal
  <1>16. JobInv(i)'
    BY <1>12, <1>13, <1>14, <1>15 DEF JobInv
  <1>17. \A k \in JobIds : k # i => SameParts(k)
    BY <1>10 DEF SameParts
  <1>18. QED
    BY <1>1, <1>10, <1>11, <1>16, <1>17, StepOf DEF TypeOK, ProcessTypeOK

------------------------------------------------------------------------------
(***************************************************************************)
(* Steps that end nothing: a signal, a command, an event that is read, an  *)
(* answer.  The process keeps its state, the handle its hold of it, and    *)
(* the job its outcome or the lack of one.                                 *)
(***************************************************************************)
QuietCaller(i) ==
    /\ OwnStore(i)
    /\ job' # job => ~IsTerminal(job) /\ ~IsTerminal(job')
    /\ call' \in [JobIds -> Call]
    /\ call'[i].surface = call[i].surface
    /\ call'[i].pc # call[i].pc => call[i].pc = "starting" /\ call'[i].pc = "aborting"
    /\ CallerSound(i)'

QuietHandle(i) ==
    /\ handle' \in [JobIds -> Handle]
    /\ handle'[i].retained = handle[i].retained
    /\ handle'[i].observed = handle[i].observed
    /\ handle'[i].clean = handle[i].clean
    /\ handle'[i].done = handle[i].done
    /\ handle'[i].terminal # handle[i].terminal =>
         handle'[i].terminal = local[i] /\ Settled(i)
    /\ handle'[i].cancelReason # handle[i].cancelReason => client'[i].asked

QuietMonitor(i) ==
    /\ monitor' \in [JobIds -> MonitorPcs]
    /\ \/ monitor'[i] = monitor[i]
       \/ monitor[i] = "reading" /\ monitor'[i] = "waiting"
       \/ monitor[i] = "retrying" /\ monitor'[i] = "crashed" /\ call[i].pc = "closed"
       \/ monitor[i] # "none" /\ monitor'[i] = "finished" /\ handle[i].done

QuietProcess(i) ==
    /\ ProcessTypeOK'
    /\ proc'[i].state = proc[i].state
    /\ proc'[i].rc = proc[i].rc
    /\ proc'[i].tree = proc[i].tree
    /\ local'[i] = local[i]
    /\ \A n \in 1..Len(events'[i]) :
         \E m \in 1..Len(events[i]) : events'[i][n] = events[i][m]

QuietClient(i) ==
    /\ client' \in [JobIds -> Client]
    /\ client[i].asked => client'[i].asked
    /\ stopper' \in [Tasks -> [JobIds -> StopperPcs]]
    /\ server' = server

QuietStep(i) ==
    /\ QuietCaller(i) /\ QuietHandle(i) /\ QuietMonitor(i) /\ QuietProcess(i) /\ QuietClient(i)
    /\ \A k \in JobIds : k # i => SameParts(k)

LEMMA QuietKeeps ==
    ASSUME IInv, NEW i \in JobIds, QuietStep(i)
    PROVE  IInv'
  <1> USE DEF QuietStep, QuietCaller, QuietHandle, QuietMonitor, QuietProcess, QuietClient
  <1>1. JobInv(i) /\ TypeOK
    BY DEF IInv
  <1>2. Has(i)' = Has(i)
    BY <1>1, JournalAssumption DEF OwnStore, Has, storeVars
  <1>3. ServerSound(i)'
    BY <1>1 DEF JobInv, ServerSound, Locking
  <1>4. WorkerSound(i)'
    BY <1>1 DEF JobInv, WorkerSound, Alive, Dead
  <1>5. MonitorSound(i)'
    BY <1>1 DEF JobInv, MonitorSound, WorkerSound, Dead
  <1>6. EvidenceSound(i)'
    <2>1. Settled(i)' <=> Settled(i)
      BY DEF Settled
    <2>2. \A n \in 1..Len(events'[i]) : EventSound(events'[i][n], local[i], Settled(i))
      BY <1>1 DEF JobInv, EvidenceSound
    <2>3. handle'[i].terminal # NoJob => handle'[i].terminal = local[i] /\ Settled(i)
      BY <1>1 DEF JobInv, EvidenceSound
    <2>4. QED
      BY <1>1, <2>1, <2>2, <2>3 DEF JobInv, EvidenceSound, EventSound
  <1>7. OutcomeSound(i)'
    <2>1. job' # job => job'.stage \notin {"completed", "cancelled"} /\ ~IsTerminal(job')
      BY DEF IsTerminal, TerminalStages, Aborts
    <2>2. Has(i)' /\ handle'[i].done => IsTerminal(job')
      BY <1>1, <1>2 DEF JobInv, OutcomeSound
    <2>3. QED
      BY <1>1, <1>2, <2>1, <2>2 DEF JobInv, OutcomeSound, Alive, Dead
  <1>8. JobInv(i)'
    BY <1>3, <1>4, <1>5, <1>6, <1>7 DEF JobInv
  <1>9. QED
    BY <1>1, <1>8, StepOf DEF TypeOK

LEMMA KilledType ==
    ASSUME TypeOK, NEW i \in JobIds, NEW s \in {"term", "kill"},
           proc' = [proc EXCEPT ![i] = Signalled(@, s)]
    PROVE  /\ proc' \in [JobIds -> Process]
           /\ proc'[i].state = proc[i].state /\ proc'[i].rc = proc[i].rc
           /\ proc'[i].tree = proc[i].tree
           /\ \A k \in JobIds : k # i => proc'[k] = proc[k]
  <1>1. proc \in [JobIds -> Process] /\ proc[i] \in Process
    BY DEF TypeOK, ProcessTypeOK
  <1>2. QED
    BY <1>1, SignalledType

LEMMA AccusedType ==
    ASSUME TypeOK, NEW i \in JobIds
    PROVE  /\ Accused(i) \in [JobIds -> Handle]
           /\ Accused(i)[i] = [handle[i] EXCEPT !.accused = TRUE]
           /\ Accused(i)[i].retained = handle[i].retained
           /\ Accused(i)[i].observed = handle[i].observed
           /\ Accused(i)[i].clean = handle[i].clean
           /\ Accused(i)[i].done = handle[i].done
           /\ Accused(i)[i].terminal = handle[i].terminal
           /\ Accused(i)[i].cancelReason = handle[i].cancelReason
           /\ \A k \in JobIds : k # i => Accused(i)[k] = handle[k]
  BY ZenonT(30) DEF Accused, TypeOK, Handle

LEMMA StartAbortsKeeps ==
    ASSUME IInv, NEW i \in JobIds, NEW b \in BOOLEAN, call[i].pc = "starting",
           StartAborts(i, b)
    PROVE  IInv'
  <1> DEFINE c == [call[i] EXCEPT !.pc = "aborting", !.cancelled = b]
  <1>1. JobInv(i) /\ TypeOK /\ call[i] \in Call
    BY DEF IInv, TypeOK
  <1>2. /\ c \in Call /\ c.pc = "aborting" /\ c.live = call[i].live
        /\ c.stale = call[i].stale /\ c.surface = call[i].surface
    BY <1>1 DEF Call, CallPcs
  <1>3. call' = [call EXCEPT ![i] = c]
    BY <1>1 DEF StartAborts, TypeOK
  <1> HIDE DEF c
  <1>4. /\ call' \in [JobIds -> Call] /\ call'[i] = c
        /\ \A k \in JobIds : k # i => call'[k] = call[k]
    BY <1>1, <1>2, <1>3 DEF TypeOK
  <1>5. /\ handle' = Accused(i) /\ proc' = [proc EXCEPT ![i] = Signalled(@, "kill")]
        /\ UNCHANGED <<storeVars, local, late, events, control, monitor, stopper, client, server>>
    BY DEF StartAborts, Killed
  <1>6. ProcessTypeOK'
    BY <1>1, <1>5, KilledType DEF TypeOK, ProcessTypeOK
  <1>7. QuietCaller(i)
    <2>1. CallerSound(i)'
      BY <1>1, <1>2, <1>4, <1>5 DEF JobInv, CallerSound, Has, storeVars
    <2>2. QED
      BY <1>2, <1>4, <1>5, <2>1 DEF QuietCaller, OwnStore, storeVars
  <1>8. QuietHandle(i)
    BY <1>1, <1>5, AccusedType DEF QuietHandle
  <1>9. QuietMonitor(i) /\ QuietClient(i)
    BY <1>1, <1>5 DEF QuietMonitor, QuietClient, TypeOK
  <1>10. QuietProcess(i)
    BY <1>1, <1>5, <1>6, KilledType DEF QuietProcess
  <1>11. \A k \in JobIds : k # i => SameParts(k)
    BY ZenonT(30), <1>1, <1>4, <1>5, KilledType, AccusedType DEF SameParts
  <1>12. QED
    BY <1>7, <1>8, <1>9, <1>10, <1>11, QuietKeeps DEF QuietStep

LEMMA StartStepKeeps ==
    ASSUME IInv, NEW i \in JobIds, NEW saved \in BOOLEAN, StartStep(i, saved)
    PROVE  IInv'
  <1>1. /\ JobInv(i) /\ TypeOK /\ StoreTypeOK /\ Agreed /\ CallerSound(i)
        /\ call \in [JobIds -> Call] /\ call[i] \in Call
    BY DEF IInv, TypeOK, JobInv
  <1>2. /\ {"server_shutdown", "worker_spawn_failed", "worker_start_cancelled",
            "a2a_working_event_failed",
            "a2a_request_cancelled_before_worker_start"} \subseteq ErrorTypes
        /\ "failed" \in Aborts /\ "cancelled" \in Aborts
    BY DEF ErrorTypes, CancelReasons, Aborts
  <1>3. ASSUME NEW pc \in CallPcs
        PROVE  LET c == [call[i] EXCEPT !.pc = pc]
               IN  /\ c \in Call /\ c.pc = pc
                   /\ c.live = call[i].live /\ c.stale = call[i].stale
                   /\ c.surface = call[i].surface
                   /\ [call EXCEPT ![i].pc = pc] = [call EXCEPT ![i] = c]
    BY <1>1 DEF Call
  <1>4. {"admitted", "spawning", "withdrawn"} \subseteq CallPcs
    BY DEF CallPcs
  <1>5. call[i].pc \in {"publishing", "admitted", "spawning", "withdrawn"} =>
          proc[i].state = "absent" /\ ~Alive(i) /\ ~proc[i].tree
    BY <1>1 DEF JobInv, WorkerSound, Alive
  (* A start that raises or gives up, with no process left.                *)
  <1>6. ASSUME NEW s \in Aborts, NEW e \in ErrorTypes,
               ~Alive(i), ~proc[i].tree,
               s = "cancelled" => proc[i].state = "absent" /\ call[i].surface = "a2a",
               call[i].pc \notin {"none", "closed"},
               call' = Closed(call, i),
               \/ UNCHANGED storeVars
               \/ Terminalize(i, s, e, saved)
               \/ CommitTerminal(i, s, e, saved),
               UNCHANGED <<processVars, handle, monitor, stopper, client, server>>
        PROVE  IInv'
    <2>1. OwnStore(i) /\ (job' = job \/ job'.stage = s)
      BY <1>1, <1>6, TerminalizeOwn, CommitTerminalOwn DEF OwnStore, storeVars
    <2>2. Abandons(i)
      BY <1>6, <2>1 DEF Abandons, Aborts
    <2>3. QED
      BY <1>6, <2>1, <2>2, CallCloses
  <1>7. CASE Published(i)
    BY <1>3, <1>4, <1>7, CallMoves DEF Published
  <1>8. CASE PublishFails(i, saved)
    <2>1. call[i].pc = "publishing" /\ call[i].surface = "a2a"
      BY <1>1, <1>8 DEF PublishFails, CallerSound
    <2>2. QED
      BY <1>2, <1>5, <1>6, <1>8, <2>1 DEF PublishFails
  <1>9. CASE StartRefused(i, saved)
    BY <1>2, <1>5, <1>6, <1>9 DEF StartRefused, StartGivesUp
  <1>10. CASE BeginSpawn(i)
    BY <1>3, <1>4, <1>10, CallMoves DEF BeginSpawn, Closing
  <1>11. CASE SpawnFails(i, saved)
    BY <1>2, <1>5, <1>6, <1>11 DEF SpawnFails, StartGivesUp
  <1>12. CASE SpawnSucceeds(i)
    BY <1>12, SpawnKeeps
  <1>13. CASE StartReturns(i)
    BY <1>1, <1>13, CallCloses DEF StartReturns, OwnStore, Abandons, storeVars
  <1>14. CASE StartFails(i)
    BY <1>14, StartAbortsKeeps DEF StartFails
  <1>15. CASE StartCancelled(i, saved)
    <2>1. CASE call[i].pc = "starting"
      BY <1>15, <2>1, StartAbortsKeeps DEF StartCancelled
    <2>2. CASE call[i].pc = "spawning"
      <3> DEFINE c == [call[i] EXCEPT !.pc = "withdrawn", !.cancelled = TRUE]
      <3>1. /\ c \in Call /\ c.pc = "withdrawn" /\ c.live = call[i].live
            /\ c.stale = call[i].stale /\ c.surface = call[i].surface
        BY <1>1 DEF Call, CallPcs
      <3>2. call' = [call EXCEPT ![i].pc = "withdrawn", ![i].cancelled = TRUE]
        BY <1>15, <2>2 DEF StartCancelled
      <3>3. call' = [call EXCEPT ![i] = c]
        BY <1>1, <3>2
      <3>4. UNCHANGED <<storeVars, processVars, handle, monitor, stopper, client, server>>
        BY <1>15, <2>2 DEF StartCancelled
      <3> HIDE DEF c
      <3>5. QED
        BY <2>2, <3>1, <3>3, <3>4, CallMoves
    <2>3. CASE call[i].pc = "admitted"
      <3>1. /\ StartRaises(i, "worker_start_cancelled", saved)
            /\ UNCHANGED <<processVars, handle, monitor, stopper, client, server>>
        BY <1>15, <2>3 DEF StartCancelled
      <3>2. QED
        BY <1>2, <1>5, <1>6, <2>3, <3>1 DEF StartRaises
    <2>4. QED
      BY <1>15, <2>1, <2>2, <2>3 DEF StartCancelled
  <1>16. CASE AbortEnds(i, saved)
    <2>1. ~Alive(i) /\ ~proc[i].tree
      BY <1>1, <1>16 DEF AbortEnds, JobInv, MonitorSound, WorkerSound, Alive, Dead
    <2>2. call[i].pc \notin {"none", "closed"}
      BY <1>16 DEF AbortEnds
    <2>3. /\ StartRaises(i, IF call[i].cancelled THEN "worker_start_cancelled"
                            ELSE "worker_spawn_failed", saved)
          /\ UNCHANGED <<processVars, handle, monitor, stopper, client, server>>
      BY <1>16 DEF AbortEnds
    <2>4. QED
      BY <1>2, <1>6, <2>1, <2>2, <2>3 DEF StartRaises
  <1>17. QED
    BY <1>7, <1>8, <1>9, <1>10, <1>11, <1>12, <1>13, <1>14, <1>15, <1>16 DEF StartStep

------------------------------------------------------------------------------
(***************************************************************************)
(* Steps of a monitor before the exit is completed.                        *)
(***************************************************************************)
LEMMA TailFacts ==
    ASSUME NEW S, NEW s \in Seq(S), s # <<>>
    PROVE  /\ Tail(s) \in Seq(S)
           /\ Head(s) = s[1] /\ Head(s) \in S /\ 1 \in 1..Len(s)
           /\ \A n \in 1..Len(Tail(s)) : \E m \in 1..Len(s) : Tail(s)[n] = s[m]
  <1>1. Len(s) \in Nat /\ Len(s) # 0
    OBVIOUS
  <1>2. Tail(s) \in Seq(S) /\ Len(Tail(s)) = Len(s) - 1
    BY <1>1
  <1>3. ASSUME NEW n \in 1..Len(Tail(s))
        PROVE  n + 1 \in 1..Len(s) /\ Tail(s)[n] = s[n + 1]
    BY <1>1, <1>2
  <1>4. QED
    BY <1>1, <1>2, <1>3

(* MonitorFails, as far as a quiet step is concerned.                      *)
LEMMA MonitorFailsQuiet ==
    ASSUME IInv, NEW i \in JobIds, monitor[i] = "reading", MonitorFails(i),
           client' = client
    PROVE  /\ QuietHandle(i) /\ QuietMonitor(i)
           /\ proc' \in [JobIds -> Process]
           /\ proc'[i].state = proc[i].state /\ proc'[i].rc = proc[i].rc
           /\ proc'[i].tree = proc[i].tree
           /\ \A k \in JobIds : k # i =>
                handle'[k] = handle[k] /\ monitor'[k] = monitor[k] /\ proc'[k] = proc[k]
  <1>1. TypeOK
    BY DEF IInv
  <1>2. /\ handle' = Accused(i) /\ proc' = [proc EXCEPT ![i] = Signalled(@, "kill")]
        /\ monitor' = [monitor EXCEPT ![i] = "waiting"]
    BY DEF MonitorFails, Killed
  <1>3. QuietHandle(i) /\ \A k \in JobIds : k # i => handle'[k] = handle[k]
    BY <1>1, <1>2, AccusedType DEF QuietHandle
  <1>4. QuietMonitor(i) /\ \A k \in JobIds : k # i => monitor'[k] = monitor[k]
    BY <1>1, <1>2 DEF QuietMonitor, TypeOK, MonitorPcs
  <1>5. QED
    BY <1>1, <1>2, <1>3, <1>4, KilledType

LEMMA ReadEventKeeps ==
    ASSUME IInv, NEW i \in JobIds, NEW saved \in BOOLEAN, ReadEvent(i, saved)
    PROVE  IInv'
  <1> DEFINE e == Head(events[i])
  <1>1. /\ JobInv(i) /\ TypeOK /\ StoreTypeOK /\ Agreed
        /\ monitor[i] = "reading" /\ events[i] # <<>>
        /\ events' = [events EXCEPT ![i] = Tail(@)]
        /\ UNCHANGED <<local, late, control, stopper, client, server>>
    BY DEF IInv, TypeOK, ReadEvent
  <1>2. /\ call \in [JobIds -> Call] /\ handle \in [JobIds -> Handle]
        /\ monitor \in [JobIds -> MonitorPcs] /\ proc \in [JobIds -> Process]
        /\ events \in [JobIds -> Seq(Event)] /\ events[i] \in Seq(Event)
        /\ handle[i] \in Handle
    BY <1>1 DEF TypeOK, ProcessTypeOK
  <1>3. /\ events' \in [JobIds -> Seq(Event)] /\ events'[i] = Tail(events[i])
        /\ \A k \in JobIds : k # i => events'[k] = events[k]
        /\ \A n \in 1..Len(events'[i]) :
             \E m \in 1..Len(events[i]) : events'[i][n] = events[i][m]
    BY <1>1, <1>2, TailFacts
  <1>4. e \in Event /\ EventSound(e, local[i], Settled(i))
    BY <1>1, <1>2, TailFacts DEF JobInv, EvidenceSound
  <1>5. QuietClient(i)
    BY <1>1 DEF QuietClient, TypeOK
  (* Handle, monitor and process: left alone, told, or made to fail.       *)
  <1>6. ASSUME UNCHANGED <<handle, proc, monitor>> \/ MonitorFails(i)
        PROVE  /\ QuietHandle(i) /\ QuietMonitor(i) /\ QuietProcess(i)
               /\ \A k \in JobIds : k # i =>
                    handle'[k] = handle[k] /\ monitor'[k] = monitor[k] /\ proc'[k] = proc[k]
    <2>1. CASE UNCHANGED <<handle, proc, monitor>>
      BY <1>1, <1>2, <1>3, <2>1
      DEF QuietHandle, QuietMonitor, QuietProcess, TypeOK, ProcessTypeOK
    <2>2. CASE MonitorFails(i)
      BY <1>1, <1>3, <2>2, MonitorFailsQuiet DEF QuietProcess, TypeOK, ProcessTypeOK
    <2>3. QED
      BY <1>6, <2>1, <2>2
  <1>7. ASSUME NEW h \in Handle, handle' = [handle EXCEPT ![i] = h],
               h.retained = handle[i].retained, h.observed = handle[i].observed,
               h.clean = handle[i].clean, h.done = handle[i].done,
               h.cancelReason = handle[i].cancelReason,
               \/ h.terminal = handle[i].terminal
               \/ h.terminal = local[i] /\ Settled(i),
               UNCHANGED <<proc, monitor>>
        PROVE  /\ QuietHandle(i) /\ QuietMonitor(i) /\ QuietProcess(i)
               /\ \A k \in JobIds : k # i =>
                    handle'[k] = handle[k] /\ monitor'[k] = monitor[k] /\ proc'[k] = proc[k]
    <2>1. handle' \in [JobIds -> Handle] /\ handle'[i] = h
          /\ \A k \in JobIds : k # i => handle'[k] = handle[k]
      BY <1>2, <1>7
    <2>2. QED
      BY <1>1, <1>2, <1>3, <1>7, <2>1
      DEF QuietHandle, QuietMonitor, QuietProcess, TypeOK, ProcessTypeOK
  (* Store and call: left alone, or the snapshot merged.                   *)
  <1>8. ASSUME UNCHANGED <<storeVars, call>>
        PROVE  QuietCaller(i) /\ \A k \in JobIds : k # i => call'[k] = call[k]
    <2>1. CallerSound(i)'
      BY <1>1, <1>8 DEF JobInv, CallerSound, Has, storeVars
    <2>2. QED
      BY <1>2, <1>8, <2>1 DEF QuietCaller, OwnStore, storeVars
  <1>9. ASSUME e.kind = "state", Reported(i), ApplyWorkerSnapshot(e.state, FALSE, saved),
               call' = Detached(i, job)
        PROVE  QuietCaller(i) /\ \A k \in JobIds : k # i => call'[k] = call[k]
    <2> DEFINE next == MergeSnapshot(job, e.state)
    <2>1. e.state \in Job /\ Has(i) /\ job \in Job /\ job.id = i
      BY <1>1, <1>4, <1>9 DEF EventSound, Reported, Has, StoreTypeOK
    <2>2. ~IsTerminal(job) /\ ~IsTerminal(e.state)
      BY <1>9 DEF ApplyWorkerSnapshot, SnapshotAccepted
    <2>3. next \in Job /\ next.id = i /\ ~IsTerminal(next)
      BY <2>1, <2>2, MergeType DEF IsTerminal
    <2>4. SaveJournal(next, saved)
      BY <1>9 DEF ApplyWorkerSnapshot
    <2> HIDE DEF next, e
    <2>5. OwnStore(i) /\ job' = IF saved THEN next ELSE job
      BY <1>1, <2>1, <2>3, <2>4, SaveOwn
    <2>6. ~IsTerminal(job') /\ job' \in Job /\ job'.id = i
      BY <2>1, <2>2, <2>3, <2>5
    <2>7. /\ call' \in [JobIds -> Call] /\ call'[i].pc = call[i].pc
          /\ call'[i].surface = call[i].surface /\ ~call'[i].live
          /\ call'[i].stale = IF call[i].live THEN job ELSE call[i].stale
          /\ \A k \in JobIds : k # i => call'[k] = call[k]
      BY <1>2, <1>9, <2>1, DetachedType
    <2>8. call[i].pc \notin {"none", "publishing", "admitted", "spawning", "withdrawn"}
      BY <1>1 DEF JobInv, MonitorSound, WorkerSound
    <2>9. CallerSound(i)'
      BY <1>1, <2>1, <2>7, <2>8 DEF JobInv, CallerSound
    <2>10. QED
      BY <2>2, <2>5, <2>6, <2>7, <2>9 DEF QuietCaller
  <1>10. /\ \/ UNCHANGED <<storeVars, call>>
            \/ /\ e.kind = "state" /\ Reported(i)
               /\ ApplyWorkerSnapshot(e.state, FALSE, saved)
               /\ call' = Detached(i, job)
         /\ \/ UNCHANGED <<handle, proc, monitor>> \/ MonitorFails(i)
            \/ /\ UNCHANGED <<proc, monitor>>
               /\ handle' = [handle EXCEPT ![i].ready = TRUE]
            \/ /\ UNCHANGED <<proc, monitor>> /\ e.kind = "terminal"
               /\ handle' = [handle EXCEPT ![i].terminal = e.state, ![i].reason = e.reason]
    BY DEF ReadEvent
  <1>11. QuietCaller(i) /\ \A k \in JobIds : k # i => call'[k] = call[k]
    BY <1>8, <1>9, <1>10
  <1>12. /\ QuietHandle(i) /\ QuietMonitor(i) /\ QuietProcess(i)
         /\ \A k \in JobIds : k # i =>
              handle'[k] = handle[k] /\ monitor'[k] = monitor[k] /\ proc'[k] = proc[k]
    <2>1. CASE UNCHANGED <<handle, proc, monitor>> \/ MonitorFails(i)
      BY <1>6, <2>1
    <2>2. CASE /\ UNCHANGED <<proc, monitor>>
               /\ handle' = [handle EXCEPT ![i].ready = TRUE]
      <3> DEFINE h == [handle[i] EXCEPT !.ready = TRUE]
      <3>1. /\ h \in Handle /\ h.retained = handle[i].retained
            /\ h.observed = handle[i].observed /\ h.clean = handle[i].clean
            /\ h.done = handle[i].done /\ h.cancelReason = handle[i].cancelReason
            /\ h.terminal = handle[i].terminal
            /\ handle' = [handle EXCEPT ![i] = h]
        BY <1>2, <2>2 DEF Handle
      <3> HIDE DEF h
      <3>2. QED
        BY <1>7, <2>2, <3>1
    <2>3. CASE /\ UNCHANGED <<proc, monitor>> /\ e.kind = "terminal"
               /\ handle' = [handle EXCEPT ![i].terminal = e.state, ![i].reason = e.reason]
      <3> DEFINE h == [handle[i] EXCEPT !.terminal = e.state, !.reason = e.reason]
      <3>1. /\ h \in Handle /\ h.retained = handle[i].retained
            /\ h.observed = handle[i].observed /\ h.clean = handle[i].clean
            /\ h.done = handle[i].done /\ h.cancelReason = handle[i].cancelReason
            /\ h.terminal = e.state
            /\ handle' = [handle EXCEPT ![i] = h]
        BY <1>2, <1>4, <2>3 DEF Handle, Event
      <3>2. e.state = local[i] /\ Settled(i)
        BY <1>4, <2>3 DEF EventSound
      <3> HIDE DEF h, e
      <3>3. QED
        BY <1>7, <2>3, <3>1, <3>2
    <2>4. QED
      BY <1>10, <2>1, <2>2, <2>3
  <1>13. \A k \in JobIds : k # i => SameParts(k)
    BY <1>1, <1>3, <1>11, <1>12 DEF SameParts
  <1>14. QED
    BY <1>5, <1>11, <1>12, <1>13, QuietKeeps DEF QuietStep

LEMMA CancelMonitorKeeps ==
    ASSUME IInv, NEW i \in JobIds, CancelMonitor(i)
    PROVE  IInv'
  <1>1. /\ JobInv(i) /\ TypeOK
        /\ UNCHANGED <<storeVars, local, late, events, control, call, stopper, client, server>>
    BY DEF IInv, CancelMonitor
  <1>2. QuietCaller(i)
    <2>1. CallerSound(i)'
      BY <1>1 DEF JobInv, CallerSound, Has, storeVars
    <2>2. QED
      BY <1>1, <2>1 DEF QuietCaller, OwnStore, storeVars, TypeOK
  <1>3. QuietClient(i)
    BY <1>1 DEF QuietClient, TypeOK
  <1>4. /\ QuietHandle(i) /\ QuietMonitor(i) /\ QuietProcess(i)
        /\ \A k \in JobIds : k # i =>
             handle'[k] = handle[k] /\ monitor'[k] = monitor[k] /\ proc'[k] = proc[k]
    <2>1. CASE monitor[i] = "reading" /\ MonitorFails(i)
      BY <1>1, <2>1, MonitorFailsQuiet DEF QuietProcess, TypeOK, ProcessTypeOK
    <2>2. CASE /\ monitor[i] = "retrying" /\ monitor' = [monitor EXCEPT ![i] = "crashed"]
               /\ UNCHANGED <<handle, proc>>
      BY <1>1, <2>2 DEF QuietHandle, QuietMonitor, QuietProcess, TypeOK, ProcessTypeOK,
         CancelMonitor, MonitorPcs
    <2>3. QED
      BY <2>1, <2>2 DEF CancelMonitor
  <1>5. \A k \in JobIds : k # i => SameParts(k)
    BY <1>1, <1>4 DEF SameParts
  <1>6. QED
    BY <1>2, <1>3, <1>4, <1>5, QuietKeeps DEF QuietStep

------------------------------------------------------------------------------
(***************************************************************************)
(* The completion of an observed exit, by the monitor or by a waiter.      *)
(***************************************************************************)
(* The outcome that is committed is what happened.                         *)
Happened(i, j) ==
    /\ IsTerminal(j)
    /\ j.stage = "completed" => local[i].stage = "completed" /\ proc[i].rc = ExitSuccess
    /\ j.stage = "cancelled" => client[i].asked

LEMMA AcceptedFacts ==
    ASSUME TypeOK, NEW i \in JobIds, JobInv(i), Has(i), AcceptsOutcome(i)
    PROVE  /\ MergeSnapshot(job, handle[i].terminal) \in Job
           /\ MergeSnapshot(job, handle[i].terminal).id = i
           /\ Happened(i, MergeSnapshot(job, handle[i].terminal))
  <1> DEFINE t == handle[i].terminal
  <1>1. job \in Job /\ job.id = i
    BY DEF Has, TypeOK, StoreTypeOK
  <1>2. t \in Job /\ t = local[i]
    BY DEF TypeOK, Handle, AcceptsOutcome, JobInv, EvidenceSound
  <1>3. /\ t.stage \in {"completed", "failed", "cancelled"}
        /\ t.stage = "completed" => proc[i].rc = ExitSuccess
        /\ t.stage = "cancelled" => handle[i].cancelReason = "user_cancelled"
    BY DEF AcceptsOutcome, TerminalEventIsCompatible
  <1>4. t.stage = "cancelled" => client[i].asked
    BY <1>3 DEF JobInv, OutcomeSound
  <1>5. /\ MergeSnapshot(job, t) \in Job /\ MergeSnapshot(job, t).id = i
        /\ MergeSnapshot(job, t).stage = t.stage
    BY <1>1, <1>2, MergeType
  <1> HIDE DEF t
  <1>6. QED
    BY <1>2, <1>3, <1>4, <1>5 DEF Happened, IsTerminal, TerminalStages, Aborts, t

LEMMA FinalFacts ==
    ASSUME TypeOK, NEW i \in JobIds, JobInv(i), NeedsOutcome(i)
    PROVE  /\ FinalRecord(i) \in Job /\ FinalRecord(i).id = i
           /\ Happened(i, FinalRecord(i))
           /\ FinalObject(i) \in Job /\ FinalObject(i).id = i
  <1>1. job \in Job /\ job.id = i /\ ~IsTerminal(job) /\ Has(i)
    BY DEF NeedsOutcome, Has, TypeOK, StoreTypeOK
  <1>2. ASSUME NEW s \in Aborts, NEW e \in ErrorTypes,
               s = "cancelled" => client[i].asked
        PROVE  /\ Terminated(job, s, e) \in Job /\ Terminated(job, s, e).id = i
               /\ Happened(i, Terminated(job, s, e))
    <2>1. /\ Terminated(job, s, e) \in Job /\ Terminated(job, s, e).id = i
          /\ Terminated(job, s, e).stage = s
      BY <1>1, TerminatedType DEF TerminalStages
    <2>2. QED
      BY <1>2, <2>1 DEF Happened, IsTerminal, TerminalStages, Aborts
  <1>3. /\ {"worker_protocol_error", "server_shutdown", "user_cancelled", "worker_exit"}
             \subseteq ErrorTypes
        /\ "failed" \in Aborts /\ "cancelled" \in Aborts
    BY DEF ErrorTypes, CancelReasons, Aborts
  <1>4. handle[i].cancelReason = "user_cancelled" => client[i].asked
    BY DEF JobInv, OutcomeSound
  <1>5. \/ FinalRecord(i) = Terminated(job, "failed", "worker_protocol_error")
        \/ FinalRecord(i) = Terminated(job, "failed", "server_shutdown")
        \/ FinalRecord(i) = Terminated(job, "failed", "worker_exit")
        \/ /\ FinalRecord(i) = Terminated(job, "cancelled", "user_cancelled")
           /\ handle[i].cancelReason = "user_cancelled"
        \/ AcceptsOutcome(i) /\ FinalRecord(i) = MergeSnapshot(job, handle[i].terminal)
    BY DEF FinalRecord, AcceptsOutcome
  <1>6. /\ FinalRecord(i) \in Job /\ FinalRecord(i).id = i
        /\ Happened(i, FinalRecord(i))
    BY <1>1, <1>2, <1>3, <1>4, <1>5, AcceptedFacts
  <1>7. QED
    BY <1>1, <1>6 DEF FinalObject

(* What a completion leaves, whether all of it went through or not.        *)
EndCaller(i) ==
    /\ OwnStore(i)
    /\ job' # job => Happened(i, job')
    /\ call' \in [JobIds -> Call]
    /\ call'[i].pc = call[i].pc
    /\ call'[i].surface = call[i].surface
    /\ CallerSound(i)'
    /\ \A k \in JobIds : k # i => call'[k] = call[k]

EndWorker(i) ==
    /\ handle' \in [JobIds -> Handle]
    /\ handle'[i].observed
    /\ handle'[i].terminal \in {handle[i].terminal, NoJob}
    /\ handle'[i].cancelReason \in {handle[i].cancelReason, "none"}
    /\ handle'[i].retained = handle[i].retained \/ handle'[i].done
    /\ handle'[i].clean \/ handle'[i].done => ~proc'[i].tree
    /\ handle[i].clean => handle'[i].clean
    /\ Has(i)' /\ handle'[i].done => IsTerminal(job)'
    /\ proc' \in [JobIds -> Process]
    /\ proc'[i].state = proc[i].state /\ proc'[i].rc = proc[i].rc
    /\ proc'[i].tree => proc[i].tree /\ job' = job
    /\ handle'[i].retained => handle[i].retained
    /\ \A k \in JobIds : k # i => handle'[k] = handle[k] /\ proc'[k] = proc[k]

Completes(i) == CompleteOk(i) \/ CompleteUnclean(i) \/ CompleteRaises(i)

LEMMA CleanedType ==
    ASSUME TypeOK, NEW i \in JobIds, proc' = Cleaned(i)
    PROVE  /\ proc' \in [JobIds -> Process]
           /\ proc'[i].state = proc[i].state /\ proc'[i].rc = proc[i].rc /\ ~proc'[i].tree
           /\ \A k \in JobIds : k # i => proc'[k] = proc[k]
  <1>1. proc \in [JobIds -> Process]
    BY DEF TypeOK, ProcessTypeOK
  <1>2. QED
    BY <1>1 DEF Cleaned, Process

(* The caller keeps its own job, whatever the store is left with.          *)
LEMMA EndCallerSound ==
    ASSUME IInv, NEW i \in JobIds, Dead(i), OwnStore(i), job' # job => Happened(i, job'),
           NEW v \in Job, v.id = i,
           call' = call \/ call' = Detached(i, v)
    PROVE  EndCaller(i)
  <1>1. JobInv(i) /\ TypeOK /\ call \in [JobIds -> Call]
    BY DEF IInv, TypeOK
  <1>2. Has(i)' = Has(i)
    BY <1>1, JournalAssumption DEF OwnStore, Has, storeVars
  <1>3. call[i].pc \notin {"none", "publishing", "admitted", "spawning", "withdrawn"}
    BY <1>1 DEF JobInv, WorkerSound, Dead
  <1>4. CASE call' = call
    <2>1. CallerSound(i)'
      BY <1>1, <1>2, <1>3, <1>4 DEF JobInv, CallerSound
    <2>2. QED
      BY <1>1, <1>4, <2>1 DEF EndCaller
  <1>5. CASE call' = Detached(i, v)
    <2>1. /\ call' \in [JobIds -> Call] /\ call'[i].pc = call[i].pc
          /\ call'[i].surface = call[i].surface /\ ~call'[i].live
          /\ call'[i].stale = IF call[i].live THEN v ELSE call[i].stale
          /\ \A k \in JobIds : k # i => call'[k] = call[k]
      BY <1>1, <1>5, DetachedType
    <2>2. CallerSound(i)'
      BY <1>1, <1>3, <2>1 DEF JobInv, CallerSound
    <2>3. QED
      BY <2>1, <2>2 DEF EndCaller
  <1>6. QED
    BY <1>4, <1>5

LEMMA CommittedFacts ==
    ASSUME IInv, NEW i \in JobIds, Dead(i), Has(i)
    PROVE  LET final == IF NeedsOutcome(i) THEN FinalRecord(i) ELSE job
           IN  /\ final \in Job /\ final.id = i /\ Happened(i, final)
               /\ [final EXCEPT !.manifest = TRUE] \in Job
               /\ [final EXCEPT !.manifest = TRUE].id = i
               /\ Happened(i, [final EXCEPT !.manifest = TRUE])
  <1> DEFINE final == IF NeedsOutcome(i) THEN FinalRecord(i) ELSE job
  <1>1. JobInv(i) /\ TypeOK /\ job \in Job /\ job.id = i
    BY DEF IInv, TypeOK, StoreTypeOK, Has
  <1>2. final \in Job /\ final.id = i /\ Happened(i, final)
    <2>1. CASE NeedsOutcome(i)
      BY <1>1, <2>1, FinalFacts
    <2>2. CASE ~NeedsOutcome(i)
      BY <1>1, <2>2 DEF NeedsOutcome, Happened, JobInv, OutcomeSound, Dead
    <2>3. QED
      BY <2>1, <2>2
  <1> HIDE DEF final
  <1>3. LET m == [final EXCEPT !.manifest = TRUE]
        IN  m \in Job /\ m.id = i /\ m.stage = final.stage
    BY <1>2, ManifestType
  <1>4. QED
    BY <1>2, <1>3 DEF final, Happened, IsTerminal

LEMMA OkFacts ==
    ASSUME IInv, NEW i \in JobIds, Dead(i), CompleteOk(i)
    PROVE  EndCaller(i) /\ EndWorker(i) /\ handle'[i].done
  <1> DEFINE final == IF NeedsOutcome(i) THEN FinalRecord(i) ELSE job
             r == [NoHandle EXCEPT !.ready = handle[i].ready, !.observed = TRUE,
                                   !.clean = TRUE, !.done = TRUE]
  <1>1. JobInv(i) /\ TypeOK /\ StoreTypeOK /\ Agreed /\ handle[i] \in Handle
    BY DEF IInv, TypeOK
  <1>2. PICK written \in BOOLEAN : CommitsAll(i, final, written)
    BY DEF CompleteOk
  <1>3. OwnStore(i) /\ (job' # job => Happened(i, job')) /\ (Has(i)' => IsTerminal(job'))
    <2>1. CASE Has(i)
      <3> DEFINE listed == IF written /\ Has(i) /\ final.stage \in Aborts
                             THEN [final EXCEPT !.manifest = TRUE] ELSE final
      <3>1. /\ final \in Job /\ final.id = i /\ Happened(i, final)
            /\ [final EXCEPT !.manifest = TRUE] \in Job
            /\ [final EXCEPT !.manifest = TRUE].id = i
            /\ Happened(i, [final EXCEPT !.manifest = TRUE])
        BY <2>1, CommittedFacts
      <3>2. IF listed = job THEN UNCHANGED storeVars ELSE SaveJournal(listed, TRUE)
        BY <1>2 DEF CommitsAll
      <3> HIDE DEF final
      <3>3. listed \in Job /\ listed.id = i /\ Happened(i, listed)
        BY <3>1
      <3> HIDE DEF listed
      <3>4. OwnStore(i) /\ job' = listed
        <4>1. CASE listed = job
          BY <3>2, <4>1 DEF OwnStore, storeVars
        <4>2. CASE listed # job
          BY <1>1, <2>1, <3>2, <3>3, <4>2, SaveOwn
        <4>3. QED
          BY <4>1, <4>2
      <3>5. QED
        BY <3>3, <3>4 DEF Happened
    <2>2. CASE ~Has(i)
      <3>1. UNCHANGED storeVars
        BY <1>2, <2>2 DEF CommitsAll, NeedsOutcome
      <3>2. QED
        BY <2>2, <3>1 DEF OwnStore, storeVars, Has
    <2>3. QED
      BY <2>1, <2>2
  <1>4. EndCaller(i)
    <2>1. CASE NeedsOutcome(i) /\ FinalObject(i) = job
      <3>1. call' = Detached(i, job) /\ job \in Job /\ job.id = i
        BY <1>1, <2>1 DEF CompleteOk, NeedsOutcome, Has, StoreTypeOK
      <3>2. QED
        BY <1>3, <3>1, EndCallerSound
    <2>2. CASE ~(NeedsOutcome(i) /\ FinalObject(i) = job)
      <3>1. call' = call
        BY <2>2 DEF CompleteOk
      <3>2. CASE Has(i)
        BY <1>1, <1>3, <3>1, <3>2, EndCallerSound DEF Has, StoreTypeOK
      <3>3. CASE ~Has(i)
        <4>1. UNCHANGED storeVars
          BY <1>2, <3>3 DEF CommitsAll, NeedsOutcome
        <4>2. CallerSound(i)'
          BY <1>1, <3>1, <4>1, <1>3 DEF JobInv, CallerSound, WorkerSound, Dead, Has, storeVars
        <4>3. QED
          BY <1>1, <1>3, <3>1, <4>1, <4>2 DEF EndCaller, TypeOK
      <3>4. QED
        BY <3>2, <3>3
    <2>3. QED
      BY <2>1, <2>2
  <1>5. r \in Handle /\ ~r.retained /\ r.observed /\ r.clean /\ r.done
        /\ r.terminal = NoJob /\ r.cancelReason = "none"
    BY <1>1 DEF NoHandle, Handle, ErrorTypes
  <1>6. handle' = [handle EXCEPT ![i] = r] /\ proc' = Cleaned(i)
    BY DEF CompleteOk, Released
  <1> HIDE DEF r
  <1>7. handle' \in [JobIds -> Handle] /\ handle'[i] = r
        /\ \A k \in JobIds : k # i => handle'[k] = handle[k]
    BY <1>1, <1>5, <1>6 DEF TypeOK
  <1>8. EndWorker(i)
    BY <1>1, <1>3, <1>5, <1>6, <1>7, CleanedType DEF EndWorker
  <1>9. QED
    BY <1>4, <1>5, <1>7, <1>8

LEMMA UncleanFacts ==
    ASSUME IInv, NEW i \in JobIds, Dead(i), ~handle[i].done, CompleteUnclean(i)
    PROVE  EndCaller(i) /\ EndWorker(i)
  <1> DEFINE h == [handle[i] EXCEPT !.accused = TRUE, !.observed = TRUE]
  <1>1. JobInv(i) /\ TypeOK /\ handle[i] \in Handle
    BY DEF IInv, TypeOK
  <1>2. /\ h \in Handle /\ h.observed /\ h.terminal = handle[i].terminal
        /\ h.cancelReason = handle[i].cancelReason /\ h.retained = handle[i].retained
        /\ h.clean = handle[i].clean /\ h.done = handle[i].done
    BY <1>1 DEF Handle
  <1>3. /\ handle' = [handle EXCEPT ![i] = h]
        /\ UNCHANGED <<storeVars, call, proc>> /\ ~handle[i].clean
    BY <1>1 DEF CompleteUnclean, Accused, TypeOK
  <1> HIDE DEF h
  <1>4. handle' \in [JobIds -> Handle] /\ handle'[i] = h
        /\ \A k \in JobIds : k # i => handle'[k] = handle[k]
    BY <1>1, <1>2, <1>3 DEF TypeOK
  <1>5. EndCaller(i)
    <2>1. CallerSound(i)'
      BY <1>1, <1>3 DEF JobInv, CallerSound, WorkerSound, Dead, Has, storeVars
    <2>2. QED
      BY <1>1, <1>3, <2>1 DEF EndCaller, OwnStore, storeVars, TypeOK
  <1>6. EndWorker(i)
    BY <1>1, <1>2, <1>3, <1>4 DEF EndWorker, TypeOK, ProcessTypeOK, storeVars
  <1>7. QED
    BY <1>5, <1>6

LEMMA RaisesFacts ==
    ASSUME IInv, NEW i \in JobIds, Dead(i), ~handle[i].done, CompleteRaises(i)
    PROVE  EndCaller(i) /\ EndWorker(i) /\ handle'[i].clean
  <1> DEFINE final == IF NeedsOutcome(i) THEN FinalRecord(i) ELSE job
             h == [handle[i] EXCEPT !.clean = TRUE, !.observed = TRUE]
  <1>1. JobInv(i) /\ TypeOK /\ StoreTypeOK /\ Agreed /\ handle[i] \in Handle
    BY DEF IInv, TypeOK
  <1>2. /\ h \in Handle /\ h.observed /\ h.terminal = handle[i].terminal
        /\ h.cancelReason = handle[i].cancelReason /\ h.retained = handle[i].retained
        /\ h.clean /\ h.done = handle[i].done
    BY <1>1 DEF Handle
  <1>3. handle' = [handle EXCEPT ![i] = h] /\ proc' = Cleaned(i)
    BY <1>1 DEF CompleteRaises, TypeOK
  <1>4. /\ Has(i)
        /\ \/ /\ NeedsOutcome(i) /\ SaveJournal(final, FALSE)
              /\ call' = Detached(i, FinalObject(i))
           \/ /\ job' = final /\ persisted' = final /\ journal' = final /\ healthy' = FALSE
              /\ call' = Detached(i, [final EXCEPT !.manifest = TRUE])
    BY DEF CompleteRaises, NeedsOutcome
  <1>5. /\ final \in Job /\ final.id = i /\ Happened(i, final)
        /\ [final EXCEPT !.manifest = TRUE] \in Job
        /\ [final EXCEPT !.manifest = TRUE].id = i
    BY <1>4, CommittedFacts
  <1> HIDE DEF final, h
  <1>6. EndCaller(i)
    <2>1. CASE /\ NeedsOutcome(i) /\ SaveJournal(final, FALSE)
               /\ call' = Detached(i, FinalObject(i))
      <3>1. OwnStore(i) /\ job' = job
        BY <1>1, <1>4, <1>5, <2>1, SaveOwn
      <3>2. QED
        BY <1>1, <2>1, <3>1, FinalFacts, EndCallerSound
    <2>2. CASE /\ job' = final /\ persisted' = final /\ journal' = final /\ healthy' = FALSE
               /\ call' = Detached(i, [final EXCEPT !.manifest = TRUE])
      <3>1. OwnStore(i)
        BY <1>4, <1>5, <2>2 DEF OwnStore
      <3>2. QED
        BY <1>5, <2>2, <3>1, EndCallerSound
    <2>3. QED
      BY <1>4, <2>1, <2>2
  <1>7. handle' \in [JobIds -> Handle] /\ handle'[i] = h
        /\ \A k \in JobIds : k # i => handle'[k] = handle[k]
    BY <1>1, <1>2, <1>3 DEF TypeOK
  <1>8. EndWorker(i)
    BY <1>1, <1>2, <1>3, <1>7, CleanedType DEF EndWorker
  <1>9. QED
    BY <1>2, <1>6, <1>7, <1>8

(* An observed exit keeps every job sound, for whoever completes it.       *)
LEMMA CompletionKeeps ==
    ASSUME IInv, NEW i \in JobIds, Dead(i), ~handle[i].done, Completes(i),
           UNCHANGED <<local, late, events, control, server>>,
           monitor' \in [JobIds -> MonitorPcs],
           \/ monitor'[i] = monitor[i]
           \/ monitor'[i] = "finished" /\ CompleteOk(i)
           \/ monitor'[i] = "retrying"
           \/ monitor'[i] = "crashed" /\ CompleteRaises(i),
           client' \in [JobIds -> Client], client[i].asked => client'[i].asked,
           stopper' \in [Tasks -> [JobIds -> StopperPcs]],
           \A k \in JobIds : k # i => monitor'[k] = monitor[k] /\ client'[k] = client[k]
    PROVE  IInv'
  <1>1. JobInv(i) /\ TypeOK
    BY DEF IInv
  <1>2. /\ EndCaller(i) /\ EndWorker(i)
        /\ CompleteOk(i) => handle'[i].done
        /\ CompleteRaises(i) => handle'[i].clean
    BY OkFacts, UncleanFacts, RaisesFacts DEF Completes
  <1> USE DEF EndCaller, EndWorker
  <1>3. Has(i)' = Has(i)
    BY <1>1, <1>2, JournalAssumption DEF OwnStore, Has, storeVars
  <1>4. Dead(i)' /\ ~Alive(i)' /\ Settled(i)'
    BY <1>2 DEF Dead, Alive, Settled
  <1>5. ServerSound(i)' /\ WorkerSound(i)'
    BY <1>1, <1>2, <1>4 DEF JobInv, ServerSound, WorkerSound, Dead, Alive
  <1>6. MonitorSound(i)'
    BY <1>1, <1>2, <1>4 DEF JobInv, MonitorSound, Dead
  <1>7. EvidenceSound(i)'
    <2>1. Settled(i)
      BY DEF Settled, Dead
    <2>2. QED
      BY <1>1, <1>2, <1>4, <2>1 DEF JobInv, EvidenceSound
  <1>8. OutcomeSound(i)'
    <2>1. CASE job' = job
      BY <1>1, <1>2, <1>3, <1>4, <2>1 DEF JobInv, OutcomeSound, Dead, Alive
    <2>2. CASE job' # job
      BY <1>1, <1>2, <1>3, <1>4, <2>2 DEF JobInv, OutcomeSound, Happened, Dead
    <2>3. QED
      BY <2>1, <2>2
  <1>9. JobInv(i)'
    BY <1>2, <1>5, <1>6, <1>7, <1>8 DEF JobInv
  <1>10. \A k \in JobIds : k # i => SameParts(k)
    BY <1>2 DEF SameParts
  <1>11. ProcessTypeOK'
    BY <1>1, <1>2 DEF TypeOK, ProcessTypeOK
  <1>12. QED
    BY <1>2, <1>9, <1>10, <1>11, StepOf

LEMMA MonitorCompletesKeeps ==
    ASSUME IInv, NEW i \in JobIds, MonitorCompletes(i)
    PROVE  IInv'
  <1>1. /\ JobInv(i) /\ TypeOK /\ monitor[i] # "none"
        /\ UNCHANGED <<local, late, events, control, stopper, client, server>>
    BY DEF IInv, MonitorCompletes
  <1>2. Dead(i)
    BY <1>1 DEF MonitorCompletes, JobInv, MonitorSound
  <1>3. CASE handle[i].done
    <2>1. /\ monitor' = [monitor EXCEPT ![i] = "finished"]
          /\ UNCHANGED <<storeVars, call, handle, proc>>
      BY <1>3 DEF MonitorCompletes
    <2>2. QuietCaller(i)
      <3>1. CallerSound(i)'
        BY <1>1, <2>1 DEF JobInv, CallerSound, Has, storeVars
      <3>2. QED
        BY <1>1, <2>1, <3>1 DEF QuietCaller, OwnStore, storeVars, TypeOK
    <2>3. QuietHandle(i) /\ QuietProcess(i) /\ QuietClient(i)
      BY <1>1, <2>1 DEF QuietHandle, QuietProcess, QuietClient, TypeOK, ProcessTypeOK
    <2>4. QuietMonitor(i) /\ \A k \in JobIds : k # i => monitor'[k] = monitor[k]
      BY <1>1, <1>3, <2>1 DEF QuietMonitor, TypeOK, MonitorPcs
    <2>5. \A k \in JobIds : k # i => SameParts(k)
      BY <1>1, <2>1, <2>4 DEF SameParts
    <2>6. QED
      BY <2>2, <2>3, <2>4, <2>5, QuietKeeps DEF QuietStep
  <1>4. CASE ~handle[i].done
    <2>1. \/ CompleteOk(i) /\ monitor' = [monitor EXCEPT ![i] = "finished"]
          \/ CompleteUnclean(i) /\ monitor' = [monitor EXCEPT ![i] = "retrying"]
          \/ CompleteRaises(i) /\ monitor' = [monitor EXCEPT ![i] = "crashed"]
      BY <1>4 DEF MonitorCompletes
    <2>2. Completes(i)
      BY <2>1 DEF Completes
    <2>3. /\ monitor' \in [JobIds -> MonitorPcs]
          /\ \/ monitor'[i] = "finished" /\ CompleteOk(i)
             \/ monitor'[i] = "retrying"
             \/ monitor'[i] = "crashed" /\ CompleteRaises(i)
          /\ \A k \in JobIds : k # i => monitor'[k] = monitor[k]
      BY <1>1, <2>1 DEF TypeOK, MonitorPcs
    <2>4. QED
      BY <1>1, <1>2, <1>4, <2>2, <2>3, CompletionKeeps DEF TypeOK
  <1>5. QED
    BY <1>3, <1>4

------------------------------------------------------------------------------
(***************************************************************************)
(* Cancellation and the stopping of workers.                               *)
(***************************************************************************)
Statuses == {"completed", "failed", "cancelled", "not_running", "cancellation_failed"}

LEMMA AnsweredType ==
    ASSUME TypeOK, NEW i \in JobIds, NEW status \in Statuses, NEW confirmed \in BOOLEAN
    PROVE  /\ Answered(i, status, confirmed) \in [JobIds -> Client]
           /\ Answered(i, status, confirmed)[i].asked = client[i].asked
           /\ Answered(i, status, confirmed)[i].answer
                = [status |-> status, confirmed |-> confirmed]
           /\ \A k \in JobIds : k # i => Answered(i, status, confirmed)[k] = client[k]
  <1>1. [status |-> status, confirmed |-> confirmed] \in Answers
    BY DEF Answers, Statuses
  <1>2. client \in [JobIds -> Client]
    BY DEF TypeOK
  <1>3. QED
    BY <1>1, <1>2 DEF Answered, Client

LEMMA StatusOfType ==
    ASSUME NEW i, NEW j
    PROVE  StatusOf(i, j) \in {"completed", "failed", "cancelled"}
  BY DEF StatusOf

LEMMA CommandedType ==
    ASSUME TypeOK, NEW i \in JobIds, NEW reason \in CancelReasons
    PROVE  Commanded(i, reason) \in [JobIds -> CancelReasons \union {"none"}]
  BY DEF Commanded, TypeOK, ProcessTypeOK

LEMMA StopperType ==
    ASSUME TypeOK, NEW t \in Tasks, NEW i \in JobIds, NEW pc \in StopperPcs,
           StopperAt(t, i, pc)
    PROVE  stopper' \in [Tasks -> [JobIds -> StopperPcs]]
  BY DEF StopperAt, TypeOK

(* Commands, signals and answers.                                          *)
LEMMA ControlKeeps ==
    ASSUME IInv, NEW i \in JobIds,
           UNCHANGED <<storeVars, local, late, events, call, monitor, server>>,
           control' \in [JobIds -> CancelReasons \union {"none"}],
           stopper' \in [Tasks -> [JobIds -> StopperPcs]],
           client' \in [JobIds -> Client], client[i].asked => client'[i].asked,
           QuietHandle(i),
           \/ proc' = proc
           \/ \E s \in {"term", "kill"} : proc' = [proc EXCEPT ![i] = Signalled(@, s)],
           \A k \in JobIds : k # i => client'[k] = client[k] /\ handle'[k] = handle[k]
    PROVE  IInv'
  <1>1. JobInv(i) /\ TypeOK
    BY DEF IInv
  <1>2. /\ proc' \in [JobIds -> Process]
        /\ proc'[i].state = proc[i].state /\ proc'[i].rc = proc[i].rc
        /\ proc'[i].tree = proc[i].tree
        /\ \A k \in JobIds : k # i => proc'[k] = proc[k]
    <2>1. CASE proc' = proc
      BY <1>1, <2>1 DEF TypeOK, ProcessTypeOK
    <2>2. CASE proc' # proc
      BY <1>1, <2>2, KilledType
    <2>3. QED
      BY <2>1, <2>2
  <1>3. QuietCaller(i)
    <2>1. CallerSound(i)'
      BY <1>1 DEF JobInv, CallerSound, Has, storeVars
    <2>2. QED
      BY <1>1, <2>1 DEF QuietCaller, OwnStore, storeVars, TypeOK
  <1>4. QuietMonitor(i) /\ QuietClient(i)
    BY <1>1 DEF QuietMonitor, QuietClient, TypeOK
  <1>5. QuietProcess(i)
    BY <1>1, <1>2 DEF QuietProcess, TypeOK, ProcessTypeOK
  <1>6. \A k \in JobIds : k # i => SameParts(k)
    BY <1>2 DEF SameParts
  <1>7. QED
    BY <1>3, <1>4, <1>5, <1>6, QuietKeeps DEF QuietStep

LEMMA CancelEntersKeeps ==
    ASSUME IInv, NEW i \in JobIds, CancelEnters(i),
           UNCHANGED <<storeVars, proc, local, late, events, call, monitor, server>>
    PROVE  IInv'
  <1>1. TypeOK
    BY DEF IInv
  <1>2. ASSUME UNCHANGED <<handle, control, stopper>>,
               client' \in [JobIds -> Client], client'[i].asked = client[i].asked,
               \A k \in JobIds : k # i => client'[k] = client[k]
        PROVE  IInv'
    <2>1. QuietHandle(i)
      BY <1>1, <1>2 DEF QuietHandle, TypeOK
    <2>2. QED
      BY <1>1, <1>2, <2>1, ControlKeeps DEF TypeOK, ProcessTypeOK
  <1>3. CASE ~handle[i].retained
    <2>1. UNCHANGED <<handle, control, stopper>>
      BY <1>3 DEF CancelEnters
    <2>2. PICK status \in Statuses, confirmed \in BOOLEAN :
            client' = Answered(i, status, confirmed)
      BY <1>3, StatusOfType DEF CancelEnters, Statuses
    <2>3. /\ client' \in [JobIds -> Client] /\ client'[i].asked = client[i].asked
          /\ \A k \in JobIds : k # i => client'[k] = client[k]
      BY <1>1, <2>2, AnsweredType
    <2>4. QED
      BY <1>2, <2>1, <2>3
  <1>4. CASE handle[i].retained /\ stopper["cancel"][i] \in {"none", "gaveUp", "crashed"}
    <2>1. /\ handle' = [handle EXCEPT ![i].cancelReason = "user_cancelled"]
          /\ control' = Commanded(i, "user_cancelled")
          /\ stopper' = [stopper EXCEPT !["cancel"][i] = "begun"]
          /\ client' = [client EXCEPT ![i].asked = TRUE, ![i].queued = FALSE]
      BY <1>4 DEF CancelEnters
    <2>2. /\ client' \in [JobIds -> Client] /\ client'[i].asked
          /\ \A k \in JobIds : k # i => client'[k] = client[k]
      BY <1>1, <2>1 DEF TypeOK, Client
    <2>3. /\ QuietHandle(i)
          /\ \A k \in JobIds : k # i => handle'[k] = handle[k]
      <3> DEFINE h == [handle[i] EXCEPT !.cancelReason = "user_cancelled"]
      <3>1. /\ handle \in [JobIds -> Handle] /\ handle[i] \in Handle
            /\ handle' = [handle EXCEPT ![i] = h]
        BY <1>1, <2>1 DEF TypeOK
      <3>2. /\ h \in Handle /\ h.retained = handle[i].retained
            /\ h.observed = handle[i].observed /\ h.clean = handle[i].clean
            /\ h.done = handle[i].done /\ h.terminal = handle[i].terminal
        BY <3>1 DEF Handle, CancelReasons
      <3> HIDE DEF h
      <3>3. QED
        BY <2>2, <3>1, <3>2 DEF QuietHandle
    <2>4. control' \in [JobIds -> CancelReasons \union {"none"}]
      BY <1>1, <2>1, CommandedType DEF CancelReasons
    <2>5. stopper' \in [Tasks -> [JobIds -> StopperPcs]]
      BY <1>1, <2>1 DEF TypeOK, Tasks, StopperPcs
    <2>6. QED
      BY <2>2, <2>3, <2>4, <2>5, ControlKeeps
  <1>5. CASE handle[i].retained /\ stopper["cancel"][i] \notin {"none", "gaveUp", "crashed"}
    <2>1. /\ UNCHANGED <<handle, control, stopper>>
          /\ client' = [client EXCEPT ![i].queued = FALSE]
      BY <1>5 DEF CancelEnters
    <2>2. QED
      BY <1>1, <1>2, <2>1 DEF TypeOK, Client
  <1>6. QED
    BY <1>3, <1>4, <1>5

LEMMA CancelKeeps ==
    ASSUME IInv, NEW i \in JobIds, CancelRequest(i) \/ CancelResumes(i)
    PROVE  IInv'
  <1>1. TypeOK
    BY DEF IInv
  <1>2. UNCHANGED <<storeVars, proc, local, late, events, call, monitor, server>>
    BY DEF CancelRequest, CancelResumes
  <1>3. CASE CancelEnters(i)
    BY <1>2, <1>3, CancelEntersKeeps
  <1>4. CASE ~CancelEnters(i)
    <2>1. UNCHANGED <<handle, control, stopper>>
      BY <1>4 DEF CancelRequest, CancelResumes
    <2>2. \/ client' = Answered(i, StatusOf(i, job), job.stage = "cancelled")
          \/ client' = [client EXCEPT ![i].queued = TRUE]
      BY <1>4 DEF CancelRequest, CancelResumes
    <2>3. (job.stage = "cancelled") \in BOOLEAN /\ StatusOf(i, job) \in Statuses
      BY StatusOfType DEF Statuses
    <2>4. /\ client' \in [JobIds -> Client] /\ client'[i].asked = client[i].asked
          /\ \A k \in JobIds : k # i => client'[k] = client[k]
      <3>1. CASE client' = [client EXCEPT ![i].queued = TRUE]
        BY <1>1, <3>1 DEF TypeOK, Client
      <3>2. CASE client' = Answered(i, StatusOf(i, job), job.stage = "cancelled")
        BY <1>1, <2>3, <3>2, AnsweredType
      <3>3. QED
        BY <2>2, <3>1, <3>2
    <2>5. QuietHandle(i)
      BY <1>1, <2>1 DEF QuietHandle, TypeOK
    <2>6. QED
      BY <1>1, <1>2, <2>1, <2>4, <2>5, ControlKeeps DEF TypeOK, ProcessTypeOK
  <1>5. QED
    BY <1>3, <1>4

LEMMA ConfirmsFacts ==
    ASSUME TypeOK, NEW t \in Tasks, NEW i \in JobIds, Confirms(t, i)
    PROVE  /\ stopper' \in [Tasks -> [JobIds -> StopperPcs]]
           /\ client' \in [JobIds -> Client] /\ client'[i].asked = client[i].asked
           /\ \A k \in JobIds : k # i => client'[k] = client[k]
  <1>1. StatusOf(i, job') \in Statuses /\ "over" \in StopperPcs
    BY StatusOfType DEF Statuses, StopperPcs
  <1>2. stopper' \in [Tasks -> [JobIds -> StopperPcs]]
    BY <1>1, StopperType DEF Confirms
  <1>3. CASE t = "cancel"
    BY <1>1, <1>2, <1>3, AnsweredType DEF Confirms
  <1>4. CASE t # "cancel"
    BY <1>2, <1>4 DEF Confirms, TypeOK
  <1>5. QED
    BY <1>3, <1>4

LEMMA WaitsDoneKeeps ==
    ASSUME IInv, NEW t \in Tasks, NEW i \in JobIds, NEW next \in StopperPcs,
           WaitsDone(t, i, next),
           UNCHANGED <<local, late, events, control, monitor, server>>
    PROVE  IInv'
  <1>1. TypeOK /\ JobInv(i)
    BY DEF IInv
  <1>2. CASE handle[i].done
    <2>1. UNCHANGED <<storeVars, call, handle, proc>> /\ Confirms(t, i)
      BY <1>2 DEF WaitsDone
    <2>2. QuietHandle(i)
      BY <1>1, <2>1 DEF QuietHandle, TypeOK
    <2>3. QED
      BY <1>1, <2>1, <2>2, ConfirmsFacts, ControlKeeps DEF TypeOK, ProcessTypeOK
  <1>3. CASE ~handle[i].done
    <2>1. Dead(i) /\ Completes(i)
      BY <1>1, <1>3 DEF WaitsDone, Completes, JobInv, WorkerSound
    <2>2. \/ Confirms(t, i)
          \/ StopperAt(t, i, next) /\ UNCHANGED client
          \/ StopperAt(t, i, "crashed") /\ UNCHANGED client
      BY <1>3 DEF WaitsDone
    <2>3. /\ stopper' \in [Tasks -> [JobIds -> StopperPcs]]
          /\ client' \in [JobIds -> Client] /\ client'[i].asked = client[i].asked
          /\ \A k \in JobIds : k # i => client'[k] = client[k]
      <3>1. CASE Confirms(t, i)
        BY <1>1, <3>1, ConfirmsFacts
      <3>2. CASE ~Confirms(t, i)
        <4>1. "crashed" \in StopperPcs
          BY DEF StopperPcs
        <4>2. QED
          BY <1>1, <2>2, <3>2, <4>1, StopperType DEF TypeOK
      <3>3. QED
        BY <3>1, <3>2
    <2>4. QED
      BY <1>1, <1>3, <2>1, <2>3, CompletionKeeps DEF TypeOK
  <1>4. QED
    BY <1>2, <1>3

LEMMA StopperStepKeeps ==
    ASSUME IInv, NEW t \in Tasks, NEW i \in JobIds, StopperStep(t, i)
    PROVE  IInv'
  <1>1. TypeOK
    BY DEF IInv
  <1>2. {"asking", "terminating", "killing", "over", "gaveUp"} \subseteq StopperPcs
    BY DEF StopperPcs
  (* A step that leaves everything but the client, stopper and a signal.   *)
  <1>3. ASSUME UNCHANGED <<storeVars, local, late, events, control, call, handle, monitor,
                           server>>,
               \/ proc' = proc
               \/ \E s \in {"term", "kill"} : proc' = [proc EXCEPT ![i] = Signalled(@, s)],
               stopper' \in [Tasks -> [JobIds -> StopperPcs]],
               client' \in [JobIds -> Client], client'[i].asked = client[i].asked,
               \A k \in JobIds : k # i => client'[k] = client[k]
        PROVE  IInv'
    <2>1. QuietHandle(i)
      BY <1>1, <1>3 DEF QuietHandle, TypeOK
    <2>2. QED
      BY <1>1, <1>3, <2>1, ControlKeeps DEF TypeOK, ProcessTypeOK
  <1>4. CASE WaitBegins(t, i)
    <2>1. CASE WaitsDone(t, i, "asking")
      BY <1>2, <1>4, <2>1, WaitsDoneKeeps DEF WaitBegins
    <2>2. CASE ~WaitsDone(t, i, "asking")
      <3>1. /\ StopperAt(t, i, "asking")
            /\ UNCHANGED <<storeVars, call, handle, proc, client>>
            /\ UNCHANGED <<local, late, events, control, monitor, server>>
        BY <1>4, <2>2 DEF WaitBegins
      <3>2. QED
        BY <1>1, <1>2, <1>3, <3>1, StopperType DEF TypeOK
    <2>3. QED
      BY <2>1, <2>2
  <1>5. CASE WaitEnds(t, i)
    <2>1. /\ UNCHANGED <<storeVars, processVars, call, handle, monitor, server>>
          /\ Confirms(t, i)
      BY <1>5 DEF WaitEnds
    <2>2. QED
      BY <1>1, <1>3, <2>1, ConfirmsFacts DEF processVars
  <1>6. ASSUME NEW from, NEW signal \in {"term", "kill"}, NEW next \in StopperPcs,
               Escalates(t, i, from, signal, next)
        PROVE  IInv'
    <2>1. UNCHANGED <<local, late, events, control, monitor, server>>
      BY <1>6 DEF Escalates
    <2>2. CASE WaitsDone(t, i, next)
      BY <1>6, <2>1, <2>2, WaitsDoneKeeps
    <2>3. CASE ~WaitsDone(t, i, next)
      <3>1. /\ proc' = [proc EXCEPT ![i] = Signalled(@, signal)]
            /\ StopperAt(t, i, next)
            /\ UNCHANGED <<storeVars, call, handle, client>>
        BY <1>6, <2>3 DEF Escalates
      <3>2. QED
        BY <1>1, <1>3, <1>6, <2>1, <3>1, StopperType DEF TypeOK
    <2>4. QED
      BY <2>2, <2>3
  <1>7. CASE Terminates(t, i) \/ Kills(t, i)
    BY <1>2, <1>6, <1>7 DEF Terminates, Kills
  <1>8. CASE GivesUp(t, i)
    <2>1. /\ StopperAt(t, i, IF t = "cancel" THEN "gaveUp" ELSE "over")
          /\ client' = IF t = "cancel" THEN Answered(i, "cancellation_failed", FALSE)
                       ELSE client
          /\ UNCHANGED <<storeVars, processVars, call, handle, monitor, server>>
      BY <1>8 DEF GivesUp
    <2>2. /\ client' \in [JobIds -> Client] /\ client'[i].asked = client[i].asked
          /\ \A k \in JobIds : k # i => client'[k] = client[k]
      <3>1. "cancellation_failed" \in Statuses
        BY DEF Statuses
      <3>2. CASE t = "cancel"
        BY <1>1, <2>1, <3>1, <3>2, AnsweredType
      <3>3. CASE t # "cancel"
        BY <1>1, <2>1, <3>3 DEF TypeOK
      <3>4. QED
        BY <3>2, <3>3
    <2>3. stopper' \in [Tasks -> [JobIds -> StopperPcs]]
      BY <1>1, <1>2, <2>1, StopperType
    <2>4. QED
      BY <1>3, <2>1, <2>2, <2>3 DEF processVars
  <1>9. QED
    BY <1>4, <1>5, <1>7, <1>8 DEF StopperStep

------------------------------------------------------------------------------
(***************************************************************************)
(* A request for a new job.                                                *)
(***************************************************************************)
LEMMA DisplacedType ==
    ASSUME call \in [JobIds -> Call], job \in Job \union {NoJob}, NEW k \in JobIds
    PROVE  /\ Displaced \in [JobIds -> Call]
           /\ Displaced[k].pc = call[k].pc
           /\ Displaced[k].surface = call[k].surface
           /\ ~Displaced[k].live
           /\ Displaced[k].stale = IF call[k].live THEN job ELSE call[k].stale
  <1>1. ASSUME NEW n \in JobIds
        PROVE  LET d == IF call[n].live THEN [call[n] EXCEPT !.live = FALSE, !.stale = job]
                        ELSE call[n]
               IN  /\ d \in Call /\ d.pc = call[n].pc /\ d.surface = call[n].surface
                   /\ ~d.live /\ d.stale = IF call[n].live THEN job ELSE call[n].stale
    BY DEF Call
  <1>2. QED
    BY <1>1 DEF Displaced

LEMMA RequestKeeps ==
    ASSUME IInv, NEW i \in JobIds, NEW o \in Owners, NEW surface \in {"mcp", "a2a"},
           NEW saved \in BOOLEAN, NEW audited \in BOOLEAN,
           Request(i, o, surface, saved, audited)
    PROVE  IInv'
  <1> DEFINE live == saved /\ (audited \/ surface = "a2a")
             pc == IF ~saved \/ (surface = "mcp" /\ ~audited) THEN "closed"
                   ELSE IF surface = "a2a" THEN "publishing" ELSE "admitted"
             c == [Displaced[i] EXCEPT !.surface = surface, !.live = live, !.pc = pc]
  <1>1. /\ TypeOK /\ StoreTypeOK /\ Agreed /\ \A k \in JobIds : JobInv(k)
        /\ server = "serving" /\ call[i].pc = "none" /\ ~IsActive(job)
        /\ UNCHANGED <<processVars, handle, monitor, stopper, client, server>>
    BY DEF IInv, TypeOK, Request, Closing
  <1>2. /\ call \in [JobIds -> Call] /\ job \in Job \union {NoJob}
        /\ Displaced \in [JobIds -> Call] /\ Displaced[i] \in Call
    BY <1>1, DisplacedType DEF TypeOK, StoreTypeOK
  <1>3. /\ c \in Call /\ c.surface = surface /\ c.live = live /\ c.pc = pc
    <2>1. live \in BOOLEAN /\ pc \in CallPcs
      BY DEF CallPcs
    <2> HIDE DEF live, pc
    <2>2. QED
      BY <1>2, <2>1 DEF Call
  <1>4. call' = [Displaced EXCEPT ![i] = c]
    BY <1>2 DEF Request
  <1> HIDE DEF c
  <1>5. /\ call' \in [JobIds -> Call] /\ call'[i] = c
        /\ \A k \in JobIds : k # i => call'[k] = Displaced[k]
    BY <1>2, <1>3, <1>4
  (* The store: a failed save leaves it, any other puts the new job there. *)
  <1>6. /\ persisted' = job' /\ journal' = job' /\ healthy' \in BOOLEAN
        /\ IF saved THEN job' \in Job /\ job'.id = i /\ ~IsTerminal(job')
                         /\ job'.stage \notin {"completed", "cancelled"}
           ELSE job' = job
    <2> DEFINE n == NewJob(i, o)
               a == [NewJob(i, o) EXCEPT !.audit = TRUE]
    <2>1. /\ n \in Job /\ n.id = i /\ ~IsTerminal(n) /\ n.stage = "accepted"
          /\ a \in Job /\ a.id = i /\ ~IsTerminal(a) /\ a.stage = "accepted"
      BY NewJobType
    <2>2. CASE saved /\ surface = "mcp" /\ audited
      <3>1. SaveJournal(a, TRUE)
        BY <2>2 DEF Request
      <3> HIDE DEF n, a
      <3>2. QED
        BY <1>1, <2>1, <2>2, <3>1 DEF SaveJournal, StoreTypeOK
    <2>3. CASE saved /\ surface = "mcp" /\ ~audited
      <3>1. job' = n /\ persisted' = job' /\ journal' = job' /\ healthy' = FALSE
        BY <2>3 DEF Request
      <3> HIDE DEF n, a
      <3>2. QED
        BY <2>1, <2>3, <3>1
    <2>4. CASE ~(saved /\ surface = "mcp")
      <3>1. SaveJournal(n, saved)
        BY <2>4 DEF Request, Create
      <3> HIDE DEF n, a
      <3>2. QED
        BY <1>1, <2>1, <2>4, <3>1 DEF SaveJournal, StoreTypeOK, Agreed
    <2>5. QED
      BY <2>2, <2>3, <2>4
  <1>7. TypeOK' /\ Agreed'
    BY <1>1, <1>5, <1>6 DEF TypeOK, StoreTypeOK, ProcessTypeOK, Agreed, processVars
  <1>8. JobInv(i)'
    <2>1. proc[i].state = "absent" /\ ~Has(i) /\ monitor[i] = "none" /\ ~handle[i].done
      BY <1>1 DEF JobInv, CallerSound, WorkerSound, MonitorSound, Dead
    <2>2. Has(i)' <=> saved
      BY <1>6, <2>1, JournalAssumption DEF Has
    <2>3. CallerSound(i)'
      BY <1>3, <1>5, <1>6, <2>2 DEF CallerSound
    <2>4. ServerSound(i)' /\ WorkerSound(i)' /\ MonitorSound(i)'
      BY <1>1, <1>3, <1>5, <2>1
      DEF JobInv, ServerSound, WorkerSound, MonitorSound, Alive, Dead, processVars
    <2>5. EvidenceSound(i)'
      BY <1>1 DEF JobInv, EvidenceSound, Settled, processVars
    <2>6. OutcomeSound(i)'
      BY <1>1, <1>6, <2>1, <2>2 DEF JobInv, OutcomeSound, processVars
    <2>7. QED
      BY <2>3, <2>4, <2>5, <2>6 DEF JobInv
  <1>9. ASSUME NEW k \in JobIds, k # i
        PROVE  JobInv(k)'
    <2>1. /\ JobInv(k) /\ CallerSound(k)
          /\ call'[k].pc = call[k].pc /\ call'[k].surface = call[k].surface
          /\ ~call'[k].live
          /\ call'[k].stale = IF call[k].live THEN job ELSE call[k].stale
      BY <1>1, <1>2, <1>5, <1>9, DisplacedType DEF JobInv
    <2>2. Has(k)' => Has(k) /\ job' = job
      BY <1>6, <1>9 DEF Has
    <2>3. Has(k) => IsTerminal(job) /\ job \in Job /\ job.id = k
      BY <1>1, <1>2 DEF Has, IsActive
    <2>4. call[k].pc \notin {"publishing", "admitted", "spawning", "withdrawn"}
      BY <1>1, <2>1, <2>3 DEF CallerSound
    <2>5. CallerSound(k)'
      BY <2>1, <2>2, <2>3, <2>4 DEF CallerSound
    <2>6. ServerSound(k)' /\ WorkerSound(k)' /\ MonitorSound(k)'
      BY <1>1, <2>1
      DEF JobInv, ServerSound, WorkerSound, MonitorSound, Alive, Dead, processVars
    <2>7. EvidenceSound(k)'
      BY <1>1 DEF JobInv, EvidenceSound, Settled, processVars
    <2>8. OutcomeSound(k)'
      BY <1>1, <2>1, <2>2 DEF JobInv, OutcomeSound, Alive, Dead, processVars
    <2>9. QED
      BY <2>5, <2>6, <2>7, <2>8 DEF JobInv
  <1>10. QED
    BY <1>7, <1>8, <1>9 DEF IInv

------------------------------------------------------------------------------
(***************************************************************************)
(* The graceful shutdown.                                                  *)
(***************************************************************************)
(* Up to the mark it signals processes and gives reasons, to every worker  *)
(* at once, and ends nothing.                                              *)
SameProcess(k) ==
    /\ proc'[k].state = proc[k].state
    /\ proc'[k].rc = proc[k].rc
    /\ proc'[k].tree = proc[k].tree

SameHandle(k) ==
    /\ handle'[k].retained = handle[k].retained
    /\ handle'[k].observed = handle[k].observed
    /\ handle'[k].clean = handle[k].clean
    /\ handle'[k].done = handle[k].done
    /\ handle'[k].terminal = handle[k].terminal
    /\ handle'[k].cancelReason \in {handle[k].cancelReason, "server_shutdown"}

LEMMA ServerMoves ==
    ASSUME IInv, server \notin {"marked", "unmarked"},
           server' \in ServerPcs, server' \notin {"marked", "unmarked"},
           UNCHANGED <<storeVars, local, late, events, call, monitor, client>>,
           proc' \in [JobIds -> Process],
           control' \in [JobIds -> CancelReasons \union {"none"}],
           handle' \in [JobIds -> Handle],
           stopper' \in [Tasks -> [JobIds -> StopperPcs]],
           \A k \in JobIds : SameProcess(k) /\ SameHandle(k) /\ ServerSound(k)'
    PROVE  IInv'
  <1>1. TypeOK' /\ Agreed'
    BY DEF IInv, TypeOK, StoreTypeOK, ProcessTypeOK, Agreed, storeVars
  <1>2. ASSUME NEW k \in JobIds PROVE JobInv(k)'
    <2>1. JobInv(k) /\ SameProcess(k) /\ SameHandle(k) /\ ServerSound(k)' /\ Has(k)' = Has(k)
      BY DEF IInv, storeVars, Has
    <2>2. CallerSound(k)'
      BY <2>1 DEF JobInv, CallerSound, storeVars
    <2>3. WorkerSound(k)' /\ MonitorSound(k)'
      BY <2>1 DEF JobInv, WorkerSound, MonitorSound, SameProcess, SameHandle, Alive, Dead
    <2>4. EvidenceSound(k)'
      BY <2>1 DEF JobInv, EvidenceSound, SameProcess, SameHandle, Settled
    <2>5. OutcomeSound(k)'
      BY <2>1 DEF JobInv, OutcomeSound, SameProcess, SameHandle, Alive, Dead, storeVars
    <2>6. QED
      BY <2>1, <2>2, <2>3, <2>4, <2>5 DEF JobInv
  <1>3. QED
    BY <1>1, <1>2 DEF IInv

LEMMA BeginsKeeps ==
    ASSUME IInv, BeginShutdown \/ LockTimesOut \/ WorkersStopped
    PROVE  IInv'
  <1>1. /\ server \in {"serving", "locking", "stopping"}
        /\ server' \in {"locking", "unreaped", "reaped"}
        /\ server' = "reaped" => server = "stopping" /\ Retained = {}
        /\ UNCHANGED <<storeVars, processVars, call, handle, monitor, stopper, client>>
    BY DEF BeginShutdown, LockTimesOut, WorkersStopped
  <1>2. ASSUME NEW k \in JobIds
        PROVE  SameProcess(k) /\ SameHandle(k) /\ ServerSound(k)'
    <2>1. ServerSound(k)
      BY DEF IInv, JobInv
    <2>2. ServerSound(k)'
      BY <1>1, <2>1 DEF ServerSound, Retained
    <2>3. QED
      BY <1>1, <2>2 DEF SameProcess, SameHandle, processVars
  <1>3. QED
    BY <1>1, <1>2, ServerMoves DEF IInv, TypeOK, ProcessTypeOK, processVars, ServerPcs

LEMMA StopWorkersKeeps ==
    ASSUME IInv, StopWorkers
    PROVE  IInv'
  <1>1. TypeOK /\ server = "locking" /\ ~LockHeld
        /\ UNCHANGED <<storeVars, proc, local, late, events, call, monitor, client>>
        /\ server' = IF Retained = {} THEN "reaped" ELSE "stopping"
    BY DEF IInv, StopWorkers
  <1>2. ASSUME NEW k \in JobIds
        PROVE  [handle[k] EXCEPT !.cancelReason = "server_shutdown"] \in Handle
    BY SMTT(30), <1>1 DEF TypeOK, Handle, CancelReasons
  <1>3. handle' \in [JobIds -> Handle] /\ \A k \in JobIds : SameHandle(k)
    <2>1. handle' = [k \in JobIds |->
            IF k \in Retained THEN [handle[k] EXCEPT !.cancelReason = "server_shutdown"]
            ELSE handle[k]]
      BY DEF StopWorkers
    <2>2. ASSUME NEW k \in JobIds PROVE handle'[k] \in Handle /\ SameHandle(k)
      <3>1. CASE k \in Retained
        <4>1. handle'[k] = [handle[k] EXCEPT !.cancelReason = "server_shutdown"]
          BY <2>1, <3>1
        <4>2. QED
          BY <1>1, <1>2, <4>1 DEF SameHandle, TypeOK, Handle
      <3>2. CASE k \notin Retained
        BY <1>1, <2>1, <3>2 DEF SameHandle, TypeOK
      <3>3. QED
        BY <3>1, <3>2
    <2>3. QED
      BY <2>1, <2>2
  <1>4. control' \in [JobIds -> CancelReasons \union {"none"}]
    <2>1. control' = [k \in JobIds |->
            IF k \in Retained THEN Commanded(k, "server_shutdown")[k] ELSE control[k]]
      BY DEF StopWorkers
    <2>2. ASSUME NEW k \in JobIds
          PROVE  Commanded(k, "server_shutdown")[k] \in CancelReasons \union {"none"}
      BY <1>1 DEF Commanded, TypeOK, ProcessTypeOK, CancelReasons
    <2>3. QED
      BY <1>1, <2>1, <2>2 DEF TypeOK, ProcessTypeOK
  <1>5. stopper' \in [Tasks -> [JobIds -> StopperPcs]]
    <2> DEFINE begun == [k \in JobIds |-> IF k \in Retained THEN "begun" ELSE "none"]
    <2>1. begun \in [JobIds -> StopperPcs]
      BY DEF StopperPcs
    <2>2. stopper' = [stopper EXCEPT !["shutdown"] = begun]
      BY DEF StopWorkers
    <2> HIDE DEF begun
    <2>3. QED
      BY <1>1, <2>1, <2>2 DEF TypeOK
  <1>6. ASSUME NEW k \in JobIds PROVE SameProcess(k) /\ ServerSound(k)'
    <2>1. call[k].pc \notin Locking
      BY <1>1 DEF LockHeld, Locking
    <2>2. Retained = {} => ~handle'[k].retained
      BY <1>3 DEF Retained, SameHandle
    <2>3. QED
      BY <1>1, <2>1, <2>2 DEF SameProcess, ServerSound
  <1>7. QED
    BY <1>1, <1>3, <1>4, <1>5, <1>6, ServerMoves DEF TypeOK, ProcessTypeOK, ServerPcs

LEMMA ShutdownExpiresKeeps ==
    ASSUME IInv, ShutdownExpires
    PROVE  IInv'
  <1>1. TypeOK /\ server = "stopping"
        /\ UNCHANGED <<storeVars, local, late, events, control, call, handle, monitor, client, server>>
    BY DEF IInv, ShutdownExpires
  <1>2. proc' \in [JobIds -> Process] /\ \A k \in JobIds : SameProcess(k)
    <2>1. proc' = [k \in JobIds |->
            IF stopper["shutdown"][k] # "none" /\ ~handle[k].done
              THEN Signalled(proc[k], "kill") ELSE proc[k]]
      BY DEF ShutdownExpires
    <2>2. ASSUME NEW k \in JobIds PROVE proc'[k] \in Process /\ SameProcess(k)
      <3>1. proc[k] \in Process
        BY <1>1 DEF TypeOK, ProcessTypeOK
      <3>2. proc'[k] = Signalled(proc[k], "kill") \/ proc'[k] = proc[k]
        BY <2>1
      <3>3. QED
        BY <3>1, <3>2, SignalledType DEF SameProcess
    <2>3. QED
      BY <2>1, <2>2
  <1>3. stopper' \in [Tasks -> [JobIds -> StopperPcs]]
    <2> DEFINE ended == [k \in JobIds |-> IF Stopping(k) THEN "over" ELSE stopper["shutdown"][k]]
    <2>1. "shutdown" \in Tasks
      BY DEF Tasks
    <2>2. ended \in [JobIds -> StopperPcs]
      BY <1>1, <2>1 DEF TypeOK, StopperPcs
    <2>3. stopper' = [stopper EXCEPT !["shutdown"] = ended]
      BY <1>1, <2>1 DEF ShutdownExpires, TypeOK
    <2> HIDE DEF ended
    <2>4. QED
      BY <1>1, <2>2, <2>3 DEF TypeOK
  <1>4. ASSUME NEW k \in JobIds PROVE SameHandle(k) /\ ServerSound(k)'
    <2>1. ServerSound(k)
      BY DEF IInv, JobInv
    <2>2. QED
      BY <1>1, <2>1 DEF SameHandle, ServerSound
  <1>5. QED
    BY <1>1, <1>2, <1>3, <1>4, ServerMoves DEF TypeOK, ProcessTypeOK

(* With every worker reaped, the job in the store has no process, and it   *)
(* gets the outcome; a failed save leaves it without one, and its caller   *)
(* with an object that the store no longer holds.                          *)
LEMMA MarkKeeps ==
    ASSUME IInv, NEW saved \in BOOLEAN, MarkAbandoned(saved)
    PROVE  IInv'
  <1> DEFINE given == [job EXCEPT !.stage = "failed", !.error = "server_shutdown", !.completed = TRUE]
             told == Terminated(job, "failed", "server_shutdown")
  <1>1. /\ TypeOK /\ Agreed
        /\ server = "reaped" /\ server' \in {"marked", "unmarked"}
        /\ UNCHANGED <<processVars, handle, monitor, stopper, client>>
    BY DEF IInv, MarkAbandoned
  <1>2. ASSUME NEW k \in JobIds
        PROVE  /\ JobInv(k)
               /\ call[k].pc \notin Locking
               /\ ~handle[k].retained /\ ~Alive(k) /\ ~proc[k].tree
    BY <1>1 DEF IInv, JobInv, ServerSound, WorkerSound
  <1>3. IsActive(job) =>
          /\ job \in Job /\ job.id \in JobIds /\ ~IsTerminal(job)
          /\ given \in Job /\ given.id = job.id /\ given.stage = "failed"
          /\ told \in Job /\ told.id = job.id
    <2>1. SUFFICES ASSUME IsActive(job) PROVE
            /\ job \in Job /\ job.id \in JobIds /\ ~IsTerminal(job)
            /\ given \in Job /\ given.id = job.id /\ given.stage = "failed"
            /\ told \in Job /\ told.id = job.id
      OBVIOUS
    <2>2. job \in Job /\ ~IsTerminal(job)
      BY <1>1, <2>1 DEF IsActive, TypeOK, StoreTypeOK
    <2>3. job.id \in JobIds
      BY <2>2 DEF Job
    <2>4. "server_shutdown" \in ErrorTypes /\ "failed" \in TerminalStages
      BY DEF ErrorTypes, CancelReasons, TerminalStages, Aborts
    <2>5. QED
      BY <2>2, <2>3, <2>4, FailedByType, TerminatedType
  <1>4. MarkShutdown(saved)
        /\ (server' = IF saved \/ ~IsActive(job) THEN "marked" ELSE "unmarked")
        /\ (call' = IF IsActive(job) /\ ~saved THEN Detached(job.id, told) ELSE call)
    BY DEF MarkAbandoned
  <1>5. \/ /\ IsActive(job) /\ saved
           /\ job' = given /\ persisted' = given /\ journal' = given
           /\ healthy' = healthy /\ call' = call /\ server' = "marked"
        \/ /\ IsActive(job) /\ ~saved
           /\ job' = job /\ persisted' = job /\ journal' = job /\ healthy' = FALSE
           /\ call' = Detached(job.id, told) /\ server' = "unmarked"
        \/ ~IsActive(job) /\ UNCHANGED storeVars /\ call' = call /\ server' = "marked"
    BY <1>1, <1>4 DEF MarkShutdown, FailActive, SaveJournal, Agreed, storeVars
  <1>6. call' \in [JobIds -> Call]
    BY <1>1, <1>3, <1>5, DetachedType DEF TypeOK
  <1>7. TypeOK' /\ Agreed'
    <2>1. StoreTypeOK' /\ Agreed'
      BY <1>1, <1>3, <1>5 DEF TypeOK, StoreTypeOK, Agreed, storeVars
    <2>2. QED
      BY <1>1, <1>6, <2>1 DEF TypeOK, ProcessTypeOK, processVars, ServerPcs
  <1> HIDE DEF given, told
  <1>8. ASSUME NEW k \in JobIds PROVE JobInv(k)'
    <2>1. /\ call'[k].pc = call[k].pc /\ call'[k].surface = call[k].surface
          /\ ServerSound(k)'
      BY <1>1, <1>2, <1>3, <1>5, DetachedType DEF TypeOK, ServerSound
    <2>2. WorkerSound(k)' /\ MonitorSound(k)' /\ EvidenceSound(k)'
      BY <1>1, <1>2, <2>1
      DEF JobInv, WorkerSound, MonitorSound, EvidenceSound, Settled, Alive, Dead, processVars
    <2>3. CASE IsActive(job) /\ saved
      <3>1. /\ Has(k)' <=> Has(k)
            /\ Has(k)' => job'.stage = "failed" /\ IsTerminal(job')
            /\ call' = call /\ server' = "marked"
        BY <1>3, <1>5, <2>3, JournalAssumption
        DEF Has, IsActive, IsTerminal, TerminalStages, Aborts
      <3>2. CallerSound(k)'
        BY <1>1, <1>2, <3>1 DEF JobInv, CallerSound, Locking
      <3>3. OutcomeSound(k)'
        BY <1>1, <1>2, <3>1
        DEF JobInv, OutcomeSound, Alive, Dead, processVars
      <3>4. QED
        BY <2>1, <2>2, <3>2, <3>3 DEF JobInv
    <2>4. CASE IsActive(job) /\ ~saved
      <3>1. job' = job /\ server' = "unmarked" /\ (Has(k)' <=> Has(k)) /\ (Has(k) => k = job.id)
        BY <1>5, <2>4 DEF Has
      <3>2. CallerSound(k)'
        <4>1. CASE k = job.id
          <5>1. /\ ~call'[k].live
                /\ call'[k].stale = IF call[k].live THEN told ELSE call[k].stale
            BY <1>1, <1>3, <1>5, <2>4, <4>1, DetachedType DEF TypeOK
          <5>2. QED
            BY <1>1, <1>2, <1>3, <1>5, <2>1, <2>4, <3>1, <4>1, <5>1
            DEF JobInv, CallerSound, Locking
        <4>2. CASE k # job.id
          <5>1. call'[k] = call[k]
            BY <1>1, <1>3, <1>5, <2>4, <4>2, DetachedType DEF TypeOK
          <5>2. QED
            BY <1>1, <1>2, <1>5, <3>1, <4>2, <5>1 DEF JobInv, CallerSound, Locking
        <4>3. QED
          BY <4>1, <4>2
      <3>3. OutcomeSound(k)'
        BY <1>1, <1>2, <2>1, <3>1 DEF JobInv, OutcomeSound, Alive, Dead, processVars
      <3>4. QED
        BY <2>1, <2>2, <3>2, <3>3 DEF JobInv
    <2>5. CASE ~IsActive(job)
      <3>1. job' = job /\ server' = "marked" /\ call' = call /\ (Has(k)' <=> Has(k))
        BY <1>5, <2>5 DEF Has, storeVars
      <3>2. CallerSound(k)'
        BY <1>1, <1>2, <3>1 DEF JobInv, CallerSound, Locking
      <3>3. OutcomeSound(k)'
        BY <1>1, <1>2, <3>1 DEF JobInv, OutcomeSound, Alive, Dead, processVars
      <3>4. QED
        BY <2>1, <2>2, <3>2, <3>3 DEF JobInv
    <2>6. QED
      BY <2>3, <2>4, <2>5
  <1>9. QED
    BY <1>7, <1>8 DEF IInv

------------------------------------------------------------------------------
LEMMA InitInv ==
    ASSUME Init
    PROVE  IInv
  <1> USE DEF Init, StoreInit, ProcessInit
  <1>1. TypeOK
    <2>1. StoreTypeOK
      BY DEF StoreTypeOK
    <2>2. ProcessTypeOK
      <3>1. proc \in [JobIds -> Process]
        BY DEF Process, ProcessStates
      <3>2. QED
        BY <3>1 DEF ProcessTypeOK
    <2>3. call \in [JobIds -> Call] /\ handle \in [JobIds -> Handle]
      BY DEF Call, CallPcs, Handle, NoHandle
    <2>4. /\ monitor \in [JobIds -> MonitorPcs]
          /\ stopper \in [Tasks -> [JobIds -> StopperPcs]]
          /\ client \in [JobIds -> Client] /\ server \in ServerPcs
      BY DEF MonitorPcs, StopperPcs, Client, NoAnswer, Answers, ServerPcs
    <2>5. QED
      BY <2>1, <2>2, <2>3, <2>4 DEF TypeOK
  <1>2. Agreed
    BY DEF Agreed
  <1>3. ASSUME NEW i \in JobIds PROVE JobInv(i)
    <2>1. /\ ~Has(i) /\ call[i].pc = "none" /\ ~call[i].live
          /\ proc[i].state = "absent" /\ ~proc[i].tree
          /\ handle[i] = NoHandle /\ monitor[i] = "none" /\ server = "serving"
      BY DEF Has
    <2>2. events[i] = <<>>
      OBVIOUS
    <2>3. CallerSound(i) /\ ServerSound(i) /\ MonitorSound(i) /\ WorkerSound(i)
      BY <2>1 DEF CallerSound, ServerSound, MonitorSound, WorkerSound, Alive, Dead, Locking, NoHandle
    <2>4. EvidenceSound(i) /\ OutcomeSound(i)
      BY <2>1, <2>2 DEF EvidenceSound, OutcomeSound, NoHandle
    <2>5. QED
      BY <2>3, <2>4 DEF JobInv
  <1>4. QED
    BY <1>1, <1>2, <1>3 DEF IInv

LEMMA StepInv ==
    ASSUME IInv, [Next]_vars
    PROVE  IInv'
  <1>1. CASE UNCHANGED vars
    <2>1. /\ UNCHANGED <<job, persisted, journal, healthy, proc, local, late, events, control>>
          /\ UNCHANGED <<call, handle, monitor, stopper, client, server>>
      BY <1>1 DEF vars, storeVars, processVars, supervisorVars
    <2>2. TypeOK' /\ Agreed'
      BY <2>1 DEF IInv, TypeOK, StoreTypeOK, ProcessTypeOK, Agreed
    <2>3. ASSUME NEW k \in JobIds PROVE JobInv(k)'
      <3>1. JobInv(k) /\ (Has(k)' <=> Has(k))
        BY <2>1 DEF IInv, Has
      <3>2. CallerSound(k)' /\ ServerSound(k)' /\ WorkerSound(k)' /\ MonitorSound(k)'
        BY <2>1, <3>1
        DEF JobInv, CallerSound, ServerSound, WorkerSound, MonitorSound, Alive, Dead
      <3>3. EvidenceSound(k)' /\ OutcomeSound(k)'
        BY <2>1, <3>1 DEF JobInv, EvidenceSound, OutcomeSound, Settled, Alive, Dead
      <3>4. QED
        BY <3>2, <3>3 DEF JobInv
    <2>4. QED
      BY <2>2, <2>3 DEF IInv
  <1>2. ASSUME NEW i \in JobIds, NEW o \in Owners, NEW surface \in Surfaces,
               NEW saved \in SaveOutcomes, NEW audited \in SaveOutcomes,
               Request(i, o, surface, saved, audited)
        PROVE  IInv'
    BY <1>2, RequestKeeps, SupervisorAssumption
  <1>3. ASSUME NEW i \in JobIds, NEW saved \in SaveOutcomes, StartStep(i, saved)
        PROVE  IInv'
    BY <1>3, StartStepKeeps, SupervisorAssumption
  <1>4. ASSUME NEW i \in JobIds, NEW saved \in SaveOutcomes, MonitorStep(i, saved)
        PROVE  IInv'
    BY <1>4, ReadEventKeeps, CancelMonitorKeeps, MonitorCompletesKeeps, SupervisorAssumption
    DEF MonitorStep
  <1>5. ASSUME NEW i \in JobIds, CancelRequest(i) \/ CancelResumes(i)
        PROVE  IInv'
    BY <1>5, CancelKeeps
  <1>6. ASSUME NEW t \in Tasks, NEW i \in JobIds, StopperStep(t, i)
        PROVE  IInv'
    BY <1>6, StopperStepKeeps
  <1>7. ASSUME NEW saved \in SaveOutcomes, ServerStep(saved)
        PROVE  IInv'
    BY <1>7, BeginsKeeps, StopWorkersKeeps, ShutdownExpiresKeeps, MarkKeeps, SupervisorAssumption
    DEF ServerStep
  <1>8. ASSUME NEW i \in JobIds, WorkerStep(i), UNCHANGED <<storeVars, supervisorVars>>
        PROVE  IInv'
    BY <1>8, WorkerKeeps
  <1>9. QED
    BY <1>1, <1>2, <1>3, <1>4, <1>5, <1>6, <1>7, <1>8 DEF Next

(* Every reachable state is sound for every job: request, process, handle, *)
(* monitor, evidence and record go together.                               *)
THEOREM Invariance == Spec => []IInv
  <1>1. Init => IInv
    BY InitInv
  <1>2. IInv /\ [Next]_vars => IInv'
    BY StepInv
  <1>3. QED
    BY <1>1, <1>2, PTL DEF Spec

(* Commit only after exit: every variable stays in its type, a job with an *)
(* outcome on disk has no process and no descendant of one, and a process  *)
(* that is there is in _handles.                                           *)
THEOREM EveryWorkerAccounted == Spec => []WorkersAccounted
  <1>1. ASSUME IInv PROVE WorkersAccounted
    <2>1. ASSUME NEW i \in JobIds, Outcome(i)
          PROVE  ~Alive(i) /\ ~proc[i].tree
      <3>1. Has(i) /\ IsTerminal(job)
        BY <1>1, <2>1 DEF IInv, Agreed, Outcome, Has
      <3>2. QED
        BY <1>1, <3>1 DEF IInv, JobInv, OutcomeSound
    <2>2. NoOrphan
      BY <1>1 DEF NoOrphan, IInv, JobInv, WorkerSound
    <2>3. QED
      BY <1>1, <2>1, <2>2 DEF WorkersAccounted, TerminalAfterExit, IInv
  <1>2. QED
    BY <1>1, Invariance, PTL

(* The two outcomes _finalize_after_exit claims something by are true:     *)
(* "completed" only if the worker finished and exited with success,        *)
(* "cancelled" only if it is gone and a client asked, or there never was   *)
(* one.  "failed" claims nothing of the worker but its end.                *)
THEOREM OutcomesTruthful == Spec => []OutcomeTruthful
  <1>1. ASSUME IInv PROVE OutcomeTruthful
    <2>1. ASSUME NEW i \in JobIds, Outcome(i)
          PROVE  Has(i) /\ journal = job
      BY <1>1, <2>1 DEF IInv, Agreed, Outcome, Has
    <2>2. ASSUME NEW i \in JobIds PROVE OutcomeSound(i)
      BY <1>1 DEF IInv, JobInv
    <2>3. QED
      BY <2>1, <2>2 DEF OutcomeTruthful, OutcomeSound
  <1>2. QED
    BY <1>1, Invariance, PTL

------------------------------------------------------------------------------
(***************************************************************************)
(* What a step may do to an outcome that is there, and to an answer that   *)
(* was given.                                                              *)
(***************************************************************************)
(* A job enters the store once, while the server serves.  An outcome       *)
(* stays, but for the listing of the manifest, for such a new job, and for *)
(* an A2A start that commits its own.                                      *)
JobEnters(k) == call[k].pc = "none" /\ server = "serving"

OutcomeStays ==
    /\ \A k \in JobIds : Has(k)' => Has(k) \/ JobEnters(k)
    /\ job \in Job /\ IsTerminal(job) =>
         \/ job' \in {job, [job EXCEPT !.manifest = TRUE]}
         \/ server = "serving" /\ job' \in Job /\ job'.id # job.id
         \/ /\ job' \in Job /\ job'.id = job.id /\ IsTerminal(job')
            /\ \E k \in JobIds : call[k].pc # "none" /\ call[k].surface = "a2a"

ToldRightly(k) ==
    /\ client'[k].answer.status = StatusOf(k, job')
    /\ ~handle'[k].done => Has(k)' /\ IsTerminal(job')

Lives(k) ==
    /\ call[k].pc # "none" => call'[k].pc # "none" /\ call'[k].surface = call[k].surface
    /\ call[k].pc = "none" /\ call'[k].pc # "none" =>
         /\ call'[k].surface \in Surfaces
         /\ call'[k].pc = "closed" => FALSE \in SaveOutcomes
    /\ call[k].pc # "none" /\ call'[k].pc # call[k].pc =>
         \E saved \in SaveOutcomes : StartStep(k, saved)
    /\ proc[k].state # "absent" => proc'[k].state # "absent"
    /\ call[k].pc \notin {"spawning", "withdrawn"} =>
         /\ ~Alive(k) => ~Alive(k)'
         /\ ~proc[k].tree => ~proc'[k].tree
    /\ \/ client'[k].answer = client[k].answer
       \/ ~client'[k].answer.confirmed
       \/ ToldRightly(k)

(* A step that leaves the record alone, or changes one without outcome.    *)
LEMMA StoreStays ==
    ASSUME \/ UNCHANGED storeVars
           \/ ~(job \in Job /\ IsTerminal(job)) /\ \E i \in JobIds : OwnStore(i)
    PROVE  OutcomeStays
  BY DEF OutcomeStays, OwnStore, Has, storeVars

LEMMA CommitStays ==
    ASSUME IInv, NEW i \in JobIds, NEW s \in Aborts, NEW e \in ErrorTypes,
           NEW saved \in BOOLEAN, CommitTerminal(i, s, e, saved)
    PROVE  OutcomeStays
  BY CommitTerminalOwn, StoreStays DEF CommitTerminal, IInv, TypeOK

(* A request whose object is not the store's may replace an outcome: only  *)
(* the A2A surface does.                                                   *)
LEMMA TerminalizeStays ==
    ASSUME IInv, NEW i \in JobIds, call[i].pc \notin {"none", "closed"},
           call[i].surface = "a2a",
           NEW s \in Aborts, NEW e \in ErrorTypes, NEW saved \in BOOLEAN,
           Terminalize(i, s, e, saved)
    PROVE  OutcomeStays
  <1>1. StoreTypeOK /\ Agreed /\ CallerSound(i)
    BY DEF IInv, TypeOK, JobInv
  <1>2. OwnStore(i) /\ (job' = job \/ job'.stage = s)
    BY <1>1, TerminalizeOwn
  <1>3. CASE UNCHANGED storeVars
    BY <1>3, StoreStays
  <1>4. CASE ~UNCHANGED storeVars
    <2>1. job' \in Job /\ job'.id = i /\ Has(i)
      BY <1>2, <1>4 DEF OwnStore
    <2>2. CASE job' = job
      BY <2>2 DEF OutcomeStays, Has
    <2>3. CASE job'.stage = s
      BY <2>1, <2>3 DEF OutcomeStays, Has, IsTerminal, TerminalStages, Aborts
    <2>4. QED
      BY <1>2, <2>2, <2>3
  <1>5. QED
    BY <1>3, <1>4

LEMMA StartFacts ==
    ASSUME IInv, NEW i \in JobIds, NEW saved \in SaveOutcomes, StartStep(i, saved)
    PROVE  OutcomeStays /\ \A k \in JobIds : Lives(k)
  <1>1. /\ TypeOK /\ JobInv(i) /\ call \in [JobIds -> Call] /\ call[i] \in Call
        /\ proc \in [JobIds -> Process] /\ saved \in BOOLEAN
    BY SupervisorAssumption DEF IInv, TypeOK, ProcessTypeOK
  <1>2. \E outcome \in SaveOutcomes : StartStep(i, outcome)
    OBVIOUS
  <1> USE DEF StartStep, Published, PublishFails, StartRefused, BeginSpawn, SpawnFails,
              StartGivesUp, StartReturns, StartFails, StartCancelled, AbortEnds, StartRaises
  <1>3. client' = client
    BY DEF SpawnSucceeds, StartAborts
  <1>4. call[i].pc # "none"
    BY DEF SpawnSucceeds
  <1>5. ASSUME NEW k \in JobIds
        PROVE  /\ call[k].pc # "none" => call'[k].pc # "none" /\ call'[k].surface = call[k].surface
               /\ call[k].pc = "none" => call'[k].pc = "none"
               /\ k # i => call'[k] = call[k]
    <2>1. CASE call' = Closed(call, i)
      BY <1>1, <1>4, <2>1, ClosedType
    <2>2. CASE \E pc \in CallPcs \ {"none"}, c \in BOOLEAN :
                 call' = [call EXCEPT ![i].pc = pc, ![i].cancelled = c]
      BY <1>1, <1>4, <2>2 DEF Call
    <2>3. CASE \E pc \in CallPcs \ {"none"} : call' = [call EXCEPT ![i].pc = pc]
      BY <1>1, <1>4, <2>3 DEF Call
    <2>4. QED
      BY <2>1, <2>2, <2>3 DEF SpawnSucceeds, StartAborts, CallPcs
  <1>6. ASSUME NEW k \in JobIds
        PROVE  \/ proc'[k].state = proc[k].state /\ proc'[k].tree = proc[k].tree
               \/ call[k].pc \in {"spawning", "withdrawn"} /\ proc[k].state = "absent"
    <2>1. CASE proc' = proc
      BY <2>1
    <2>2. CASE proc' = [proc EXCEPT ![i] = Signalled(@, "kill")]
      BY <1>1, <2>2, KilledType
    <2>3. CASE SpawnSucceeds(i)
      <3>1. CASE k = i
        BY <1>1, <2>3, <3>1 DEF SpawnSucceeds, JobInv, WorkerSound
      <3>2. CASE k # i
        BY <1>1, <2>3, <3>2 DEF SpawnSucceeds, Spawned
      <3>3. QED
        BY <3>1, <3>2
    <2>4. QED
      BY <2>1, <2>2, <2>3 DEF StartAborts, Killed, processVars
  <1>7. OutcomeStays
    <2>1. /\ {"server_shutdown", "worker_spawn_failed", "worker_start_cancelled",
              "a2a_working_event_failed",
              "a2a_request_cancelled_before_worker_start"} \subseteq ErrorTypes
          /\ "failed" \in Aborts /\ "cancelled" \in Aborts
      BY DEF ErrorTypes, CancelReasons, Aborts
    <2>2. call[i].pc = "publishing" => call[i].surface = "a2a"
      BY <1>1 DEF JobInv, CallerSound
    <2>3. CASE \/ Published(i) \/ BeginSpawn(i) \/ SpawnSucceeds(i) \/ StartReturns(i)
               \/ StartFails(i)
      BY <2>3, StoreStays DEF SpawnSucceeds, StartAborts
    <2>4. CASE StartRefused(i, saved) \/ SpawnFails(i, saved)
      BY <1>1, <2>1, <2>4, CommitStays
    <2>5. CASE PublishFails(i, saved)
      BY <1>1, <2>1, <2>2, <2>5, TerminalizeStays
    <2>6. CASE StartCancelled(i, saved)
      <3>1. CASE call[i].pc = "admitted"
        BY <1>1, <2>1, <2>6, <3>1, TerminalizeStays, StoreStays
      <3>2. CASE call[i].pc # "admitted"
        BY <2>6, <3>2, StoreStays DEF StartAborts
      <3>3. QED
        BY <3>1, <3>2
    <2>7. CASE AbortEnds(i, saved)
      BY <1>1, <2>1, <2>7, TerminalizeStays, StoreStays
    <2>8. QED
      BY <2>3, <2>4, <2>5, <2>6, <2>7
  <1>8. ASSUME NEW k \in JobIds PROVE Lives(k)
    <2> HIDE DEF StartStep
    <2>1. call'[k].pc # call[k].pc => \E outcome \in SaveOutcomes : StartStep(k, outcome)
      BY <1>2, <1>5
    <2>2. QED
      BY <1>3, <1>5, <1>6, <2>1 DEF Lives, Alive
  <1>9. QED
    BY <1>7, <1>8

(* A step that keeps the calls and ends or signals processes only.         *)
LEMMA QuietLives ==
    ASSUME NEW k \in JobIds,
           call'[k].pc = call[k].pc, call'[k].surface = call[k].surface,
           ~Alive(k) => ~Alive(k)', ~proc[k].tree => ~proc'[k].tree,
           proc[k].state # "absent" => proc'[k].state # "absent",
           \/ client'[k].answer = client[k].answer
           \/ ~client'[k].answer.confirmed
           \/ ToldRightly(k)
    PROVE  Lives(k)
  BY DEF Lives

LEMMA CompletionFacts ==
    ASSUME IInv, NEW i \in JobIds, Dead(i), ~handle[i].done, Completes(i)
    PROVE  /\ OutcomeStays
           /\ \A k \in JobIds : /\ call'[k].pc = call[k].pc
                                /\ call'[k].surface = call[k].surface
                                /\ ~Alive(k) => ~Alive(k)'
                                /\ ~proc[k].tree => ~proc'[k].tree
                                /\ proc[k].state # "absent" => proc'[k].state # "absent"
  <1>1. EndCaller(i) /\ EndWorker(i)
    BY OkFacts, UncleanFacts, RaisesFacts DEF Completes
  <1>2. OutcomeStays
    <2>1. CASE ~(job \in Job /\ IsTerminal(job))
      BY <1>1, <2>1, StoreStays DEF EndCaller
    <2>2. CASE job \in Job /\ IsTerminal(job)
      <3>1. ~NeedsOutcome(i)
        BY <2>2 DEF NeedsOutcome
      <3>2. job' \in {job, [job EXCEPT !.manifest = TRUE]}
        <4>1. CASE CompleteOk(i)
          BY <3>1, <4>1 DEF CompleteOk, CommitsAll, SaveJournal, storeVars
        <4>2. CASE CompleteUnclean(i)
          BY <4>2 DEF CompleteUnclean, storeVars
        <4>3. CASE CompleteRaises(i)
          BY <3>1, <4>3 DEF CompleteRaises
        <4>4. QED
          BY <4>1, <4>2, <4>3 DEF Completes
      <3>3. QED
        BY <1>1, <2>2, <3>2 DEF OutcomeStays, EndCaller, OwnStore, Has, storeVars
    <2>3. QED
      BY <2>1, <2>2
  <1>3. QED
    BY <1>1, <1>2 DEF EndCaller, EndWorker, Alive

LEMMA MonitorFacts ==
    ASSUME IInv, NEW i \in JobIds, NEW saved \in BOOLEAN, MonitorStep(i, saved)
    PROVE  OutcomeStays /\ \A k \in JobIds : Lives(k)
  <1>1. /\ TypeOK /\ JobInv(i) /\ call \in [JobIds -> Call] /\ proc \in [JobIds -> Process]
        /\ client' = client
    BY DEF IInv, TypeOK, ProcessTypeOK, MonitorStep, ReadEvent, CancelMonitor, MonitorCompletes
  <1>2. CASE ReadEvent(i, saved) \/ CancelMonitor(i)
    <2>1. /\ \/ UNCHANGED <<storeVars, call>>
             \/ /\ Reported(i) /\ Head(events[i]).kind = "state" /\ events[i] # <<>>
                /\ ApplyWorkerSnapshot(Head(events[i]).state, FALSE, saved)
                /\ call' = Detached(i, job)
          /\ proc' = proc \/ MonitorFails(i)
      BY <1>2 DEF ReadEvent, CancelMonitor
    <2>2. Reported(i) => Has(i) /\ ~IsTerminal(job) /\ job \in Job /\ job.id = i
      BY <1>1 DEF Reported, SnapshotAccepted, Has, TypeOK, StoreTypeOK
    <2>3. OutcomeStays
      <3>1. CASE UNCHANGED storeVars
        BY <3>1, StoreStays
      <3>2. CASE /\ Reported(i) /\ Head(events[i]).kind = "state" /\ events[i] # <<>>
                 /\ ApplyWorkerSnapshot(Head(events[i]).state, FALSE, saved)
        <4> DEFINE e == Head(events[i])
        <4>1. e.state \in Job
          BY <1>1, <3>2, TailFacts DEF JobInv, EvidenceSound, EventSound, TypeOK, ProcessTypeOK
        <4>2. MergeSnapshot(job, e.state) \in Job /\ MergeSnapshot(job, e.state).id = i
          BY <2>2, <3>2, <4>1, MergeType
        <4>3. SaveJournal(MergeSnapshot(job, e.state), saved)
          BY <3>2 DEF ApplyWorkerSnapshot
        <4>4. OwnStore(i)
          BY <1>1, <2>2, <3>2, <4>2, <4>3, SaveOwn DEF IInv, TypeOK
        <4>5. QED
          BY <2>2, <3>2, <4>4, StoreStays
      <3>3. QED
        BY <2>1, <3>1, <3>2
    <2>4. ASSUME NEW k \in JobIds
          PROVE  call'[k].pc = call[k].pc /\ call'[k].surface = call[k].surface
      <3>1. CASE call' = call
        BY <3>1
      <3>2. CASE call' = Detached(i, job) /\ Reported(i)
        BY <1>1, <2>2, <3>2, DetachedType
      <3>3. QED
        BY <2>1, <3>1, <3>2
    <2>5. ASSUME NEW k \in JobIds
          PROVE  proc'[k].state = proc[k].state /\ proc'[k].tree = proc[k].tree
      <3>1. CASE proc' = proc
        BY <3>1
      <3>2. CASE MonitorFails(i)
        BY <1>1, <3>2, KilledType DEF MonitorFails, Killed
      <3>3. QED
        BY <2>1, <3>1, <3>2
    <2>6. QED
      BY <1>1, <2>3, <2>4, <2>5, QuietLives DEF Alive
  <1>3. CASE MonitorCompletes(i)
    <2>1. Dead(i)
      BY <1>1, <1>3 DEF MonitorCompletes, JobInv, MonitorSound
    <2>2. CASE handle[i].done
      <3>1. UNCHANGED <<storeVars, call, handle, proc>>
        BY <1>3, <2>2 DEF MonitorCompletes
      <3>2. QED
        BY <1>1, <3>1, StoreStays, QuietLives DEF Alive
    <2>3. CASE ~handle[i].done
      <3>1. Completes(i)
        BY <1>3, <2>3 DEF MonitorCompletes, Completes
      <3>2. QED
        BY <1>1, <2>1, <2>3, <3>1, CompletionFacts, QuietLives
    <2>4. QED
      BY <2>2, <2>3
  <1>4. QED
    BY <1>2, <1>3 DEF MonitorStep

LEMMA CancelFacts ==
    ASSUME IInv, NEW i \in JobIds, CancelRequest(i) \/ CancelResumes(i)
    PROVE  OutcomeStays /\ \A k \in JobIds : Lives(k)
  <1>1. /\ TypeOK /\ client \in [JobIds -> Client]
        /\ UNCHANGED <<storeVars, proc, call>>
    BY DEF IInv, TypeOK, CancelRequest, CancelResumes
  <1>2. \/ /\ client' = Answered(i, StatusOf(i, job), TRUE)
           /\ Has(i) /\ IsTerminal(job)
        \/ /\ client' = Answered(i, StatusOf(i, job), job.stage = "cancelled")
           /\ Has(i) /\ IsTerminal(job)
        \/ client' = Answered(i, "not_running", FALSE)
        \/ client' = [client EXCEPT ![i].asked = TRUE, ![i].queued = FALSE]
        \/ client' = [client EXCEPT ![i].queued = FALSE]
        \/ client' = [client EXCEPT ![i].queued = TRUE]
    BY DEF CancelRequest, CancelResumes, CancelEnters
  <1>3. StatusOf(i, job) \in Statuses /\ "not_running" \in Statuses
        /\ (job.stage = "cancelled") \in BOOLEAN
    BY StatusOfType DEF Statuses
  <1>4. ASSUME NEW k \in JobIds
        PROVE  \/ client'[k].answer = client[k].answer
               \/ ~client'[k].answer.confirmed
               \/ ToldRightly(k)
    <2>1. CASE \E status \in Statuses, confirmed \in BOOLEAN :
                 /\ client' = Answered(i, status, confirmed)
                 /\ confirmed => status = StatusOf(i, job) /\ Has(i) /\ IsTerminal(job)
      <3>1. PICK status \in Statuses, confirmed \in BOOLEAN :
              /\ client' = Answered(i, status, confirmed)
              /\ confirmed => status = StatusOf(i, job) /\ Has(i) /\ IsTerminal(job)
        BY <2>1
      <3>2. /\ client'[i].answer = [status |-> status, confirmed |-> confirmed]
            /\ k # i => client'[k] = client[k]
        BY <1>1, <3>1, AnsweredType
      <3>3. ASSUME confirmed, k = i PROVE ToldRightly(k)
        <4>1. /\ job' = job /\ Has(i) /\ IsTerminal(job)
              /\ client'[i].answer.status = StatusOf(i, job)
          BY <1>1, <3>1, <3>2, <3>3 DEF storeVars
        <4>2. QED
          BY <3>3, <4>1 DEF ToldRightly, StatusOf, Has
      <3>4. QED
        BY <3>2, <3>3
    <2>2. CASE client' \in {[client EXCEPT ![i].asked = TRUE, ![i].queued = FALSE],
                            [client EXCEPT ![i].queued = FALSE],
                            [client EXCEPT ![i].queued = TRUE]}
      BY <1>1, <2>2 DEF Client
    <2>3. QED
      BY <1>2, <1>3, <2>1, <2>2
  <1>5. QED
    BY <1>1, <1>4, StoreStays, QuietLives DEF Alive

LEMMA ConfirmsTold ==
    ASSUME TypeOK, NEW t \in Tasks, NEW i \in JobIds, Confirms(t, i), handle'[i].done,
           NEW k \in JobIds
    PROVE  client'[k].answer = client[k].answer \/ ToldRightly(k)
  <1>1. StatusOf(i, job') \in Statuses
    BY StatusOfType DEF Statuses
  <1>2. CASE t = "cancel"
    <2>1. /\ client'[i].answer = [status |-> StatusOf(i, job'), confirmed |-> TRUE]
          /\ k # i => client'[k] = client[k]
      BY <1>1, <1>2, AnsweredType DEF Confirms
    <2>2. QED
      BY <2>1 DEF ToldRightly, StatusOf
  <1>3. CASE t # "cancel"
    BY <1>3 DEF Confirms
  <1>4. QED
    BY <1>2, <1>3

LEMMA WaitsDoneFacts ==
    ASSUME IInv, NEW t \in Tasks, NEW i \in JobIds, NEW next, WaitsDone(t, i, next)
    PROVE  OutcomeStays /\ \A k \in JobIds : Lives(k)
  <1>1. TypeOK /\ JobInv(i)
    BY DEF IInv
  <1>2. CASE handle[i].done
    <2>1. UNCHANGED <<storeVars, call, handle, proc>> /\ Confirms(t, i)
      BY <1>2 DEF WaitsDone
    <2>2. QED
      BY <1>1, <1>2, <2>1, ConfirmsTold, StoreStays, QuietLives DEF Alive
  <1>3. CASE ~handle[i].done
    <2>1. Dead(i) /\ Completes(i)
      BY <1>1, <1>3 DEF WaitsDone, Completes, JobInv, WorkerSound
    <2>2. client' # client => CompleteOk(i) /\ Confirms(t, i)
      BY <1>3 DEF WaitsDone
    <2>3. ASSUME NEW k \in JobIds
          PROVE  client'[k].answer = client[k].answer \/ ToldRightly(k)
      BY <1>1, <2>1, <2>2, OkFacts, ConfirmsTold
    <2>4. QED
      BY <1>3, <2>1, <2>3, CompletionFacts, QuietLives
  <1>4. QED
    BY <1>2, <1>3

LEMMA StopperFacts ==
    ASSUME IInv, NEW t \in Tasks, NEW i \in JobIds, StopperStep(t, i)
    PROVE  OutcomeStays /\ \A k \in JobIds : Lives(k)
  <1>1. TypeOK
    BY DEF IInv
  <1>2. CASE \E next \in StopperPcs : WaitsDone(t, i, next)
    BY <1>2, WaitsDoneFacts
  <1>3. CASE WaitEnds(t, i)
    <2>1. /\ UNCHANGED <<storeVars, processVars, call, handle>> /\ handle[i].done
          /\ Confirms(t, i)
      BY <1>3 DEF WaitEnds
    <2>2. QED
      BY <1>1, <2>1, ConfirmsTold, StoreStays, QuietLives DEF Alive, processVars
  <1>4. CASE GivesUp(t, i)
    <2>1. /\ UNCHANGED <<storeVars, processVars, call>>
          /\ client' \in {client, Answered(i, "cancellation_failed", FALSE)}
      BY <1>4 DEF GivesUp
    <2>2. ASSUME NEW k \in JobIds
          PROVE  client'[k].answer = client[k].answer \/ ~client'[k].answer.confirmed
      <3>1. "cancellation_failed" \in Statuses /\ FALSE \in BOOLEAN
        BY DEF Statuses
      <3>2. CASE client' = client
        BY <3>2
      <3>3. CASE client' = Answered(i, "cancellation_failed", FALSE)
        <4>1. /\ client'[i].answer = [status |-> "cancellation_failed", confirmed |-> FALSE]
              /\ k # i => client'[k] = client[k]
          BY <1>1, <3>1, <3>3, AnsweredType
        <4>2. QED
          BY <4>1
      <3>4. QED
        BY <2>1, <3>2, <3>3
    <2>3. QED
      BY <2>1, <2>2, StoreStays, QuietLives DEF Alive, processVars
  <1>5. CASE /\ UNCHANGED <<storeVars, call, client>>
             /\ \/ proc' = proc
                \/ \E s \in {"term", "kill"} : proc' = [proc EXCEPT ![i] = Signalled(@, s)]
    <2>1. ASSUME NEW k \in JobIds
          PROVE  proc'[k].state = proc[k].state /\ proc'[k].tree = proc[k].tree
      BY <1>1, <1>5, KilledType
    <2>2. QED
      BY <1>5, <2>1, StoreStays, QuietLives DEF Alive
  <1>6. QED
    BY <1>2, <1>3, <1>4, <1>5
    DEF StopperStep, WaitBegins, Terminates, Kills, Escalates, StopperPcs

LEMMA ServerFacts ==
    ASSUME IInv, NEW saved \in BOOLEAN, ServerStep(saved)
    PROVE  OutcomeStays /\ \A k \in JobIds : Lives(k)
  <1>1. TypeOK /\ client' = client
    BY DEF IInv, ServerStep, BeginShutdown, LockTimesOut, StopWorkers, ShutdownExpires,
       WorkersStopped, MarkAbandoned
  <1>2. ASSUME NEW k \in JobIds
        PROVE  proc'[k].state = proc[k].state /\ proc'[k].tree = proc[k].tree
    <2>1. CASE proc' = proc
      BY <2>1
    <2>2. CASE ShutdownExpires
      <3>1. proc[k] \in Process
        BY <1>1 DEF TypeOK, ProcessTypeOK
      <3>2. proc'[k] = Signalled(proc[k], "kill") \/ proc'[k] = proc[k]
        BY <2>2 DEF ShutdownExpires
      <3>3. QED
        BY <3>1, <3>2, SignalledType
    <2>3. QED
      BY <2>1, <2>2
      DEF ServerStep, BeginShutdown, LockTimesOut, StopWorkers, WorkersStopped, MarkAbandoned,
          processVars
  <1>3. CASE MarkAbandoned(saved)
    <2>1. OutcomeStays
      <3>1. CASE IsActive(job)
        <4> DEFINE given == [job EXCEPT !.stage = "failed", !.error = "server_shutdown",
                                        !.completed = TRUE]
        <4>1. job \in Job /\ ~IsTerminal(job)
          BY <1>1, <3>1 DEF IsActive, TypeOK, StoreTypeOK
        <4>2. job.id \in JobIds /\ Has(job.id)
          BY <3>1, <4>1 DEF Job, Has, IsActive
        <4>3. given \in Job /\ given.id = job.id
          BY <4>1, FailedByType DEF ErrorTypes, CancelReasons
        <4>4. SaveJournal(given, saved)
          BY <1>3, <3>1 DEF MarkAbandoned, MarkShutdown, FailActive
        <4> HIDE DEF given
        <4>5. OwnStore(job.id)
          BY <4>2, <4>3, <4>4, SaveOwn DEF IInv, TypeOK
        <4>6. QED
          BY <4>1, <4>2, <4>5, StoreStays
      <3>2. CASE ~IsActive(job)
        BY <1>3, <3>2, StoreStays DEF MarkAbandoned, MarkShutdown, FailActive
      <3>3. QED
        BY <3>1, <3>2
    <2>2. ASSUME NEW k \in JobIds
          PROVE  call'[k].pc = call[k].pc /\ call'[k].surface = call[k].surface
      <3>1. CASE call' = call
        BY <3>1
      <3>2. CASE call' # call
        <4>1. /\ call' = Detached(job.id, Terminated(job, "failed", "server_shutdown"))
              /\ job \in Job /\ ~IsTerminal(job)
          BY <1>1, <1>3, <3>2 DEF MarkAbandoned, IsActive, TypeOK, StoreTypeOK
        <4>2. job.id \in JobIds
          BY <4>1 DEF Job
        <4>3. "server_shutdown" \in ErrorTypes /\ "failed" \in TerminalStages
          BY DEF ErrorTypes, CancelReasons, TerminalStages, Aborts
        <4>4. Terminated(job, "failed", "server_shutdown") \in Job
          BY <4>1, <4>3, TerminatedType
        <4>5. QED
          BY <1>1, <4>1, <4>2, <4>4, DetachedType DEF TypeOK
      <3>3. QED
        BY <3>1, <3>2
    <2>3. QED
      BY <1>1, <1>2, <2>1, <2>2, QuietLives DEF Alive
  <1>4. CASE ~MarkAbandoned(saved)
    <2>1. UNCHANGED <<storeVars, call>>
      BY <1>4 DEF ServerStep, BeginShutdown, LockTimesOut, StopWorkers, ShutdownExpires,
         WorkersStopped
    <2>2. QED
      BY <1>1, <1>2, <2>1, StoreStays, QuietLives DEF Alive
  <1>5. QED
    BY <1>3, <1>4

LEMMA WorkerLives ==
    ASSUME IInv, NEW i \in JobIds, WorkerStep(i), UNCHANGED <<storeVars, supervisorVars>>
    PROVE  OutcomeStays /\ \A k \in JobIds : Lives(k)
  <1>1. Alive(i)
    BY DEF WorkerStep, Boot, Progress, TakeSnapshot, SendSnapshot, TakeCommand, Succeed, Fail,
       Withdraw, Settles, Exit, Crash, TakeSignal, Garble, Alive
  <1>2. /\ proc'[i].tree = proc[i].tree /\ proc'[i].state # "absent"
        /\ \A k \in JobIds : k # i => proc'[k] = proc[k]
    BY WorkerStepFacts DEF WorkerFacts, supervisorVars
  <1>3. UNCHANGED <<call, client>>
    BY DEF supervisorVars
  <1>4. QED
    BY <1>1, <1>2, <1>3, StoreStays, QuietLives DEF Alive

LEMMA RequestFacts ==
    ASSUME IInv, NEW i \in JobIds, NEW o \in Owners, NEW surface \in Surfaces,
           NEW saved \in SaveOutcomes, NEW audited \in SaveOutcomes,
           Request(i, o, surface, saved, audited)
    PROVE  OutcomeStays /\ \A k \in JobIds : Lives(k)
  <1>1. /\ TypeOK /\ Agreed /\ CallerSound(i) /\ call[i].pc = "none" /\ server = "serving"
        /\ UNCHANGED <<processVars, handle, client>>
        /\ saved \in BOOLEAN /\ audited \in BOOLEAN
    BY SupervisorAssumption DEF IInv, JobInv, Request, Closing
  <1>2. OutcomeStays
    <2>1. NewJob(i, o) \in Job /\ NewJob(i, o).id = i
          /\ [NewJob(i, o) EXCEPT !.audit = TRUE] \in Job
          /\ [NewJob(i, o) EXCEPT !.audit = TRUE].id = i
      BY NewJobType
    <2>2. job' \in {job, NewJob(i, o), [NewJob(i, o) EXCEPT !.audit = TRUE]}
      BY <1>1 DEF Request, Create, SaveJournal, Agreed
    <2>3. job \in Job => job.id # i
      BY <1>1, JournalAssumption DEF CallerSound, Has
    <2>4. CASE job' = job
      BY <2>4 DEF OutcomeStays, Has
    <2>5. CASE job' # job
      <3>1. job' \in Job /\ job'.id = i
        BY <2>1, <2>2, <2>5
      <3>2. QED
        BY <1>1, <2>3, <3>1 DEF OutcomeStays, JobEnters, Has
    <2>6. QED
      BY <2>4, <2>5
  <1>3. ASSUME NEW k \in JobIds PROVE Lives(k)
    <2>1. /\ Displaced \in [JobIds -> Call]
          /\ Displaced[k].pc = call[k].pc /\ Displaced[k].surface = call[k].surface
      BY <1>1, DisplacedType DEF TypeOK, StoreTypeOK
    <2>2. CASE k # i
      <3>1. call'[k] = Displaced[k]
        BY <2>1, <2>2 DEF Request
      <3>2. QED
        BY <1>1, <2>1, <3>1, QuietLives DEF Alive, processVars
    <2>3. CASE k = i
      <3>1. call'[k].surface = surface /\ (call'[k].pc = "closed" => FALSE \in SaveOutcomes)
        BY <1>1, <2>1, <2>3 DEF Request, Call
      <3>2. QED
        BY <1>1, <2>3, <3>1 DEF Lives, Alive, processVars
    <2>4. QED
      BY <2>2, <2>3
  <1>4. QED
    BY <1>2, <1>3

LEMMA StepFacts ==
    ASSUME IInv, [Next]_vars
    PROVE  OutcomeStays /\ \A k \in JobIds : Lives(k)
  <1>1. CASE UNCHANGED vars
    BY <1>1, StoreStays, QuietLives
    DEF vars, storeVars, processVars, supervisorVars, Alive
  <1>2. ASSUME NEW i \in JobIds, NEW o \in Owners, NEW surface \in Surfaces,
               NEW saved \in SaveOutcomes, NEW audited \in SaveOutcomes,
               Request(i, o, surface, saved, audited)
        PROVE  OutcomeStays /\ \A k \in JobIds : Lives(k)
    BY <1>2, RequestFacts, SupervisorAssumption
  <1>3. ASSUME NEW i \in JobIds, NEW saved \in SaveOutcomes,
               StartStep(i, saved) \/ MonitorStep(i, saved)
        PROVE  OutcomeStays /\ \A k \in JobIds : Lives(k)
    BY <1>3, StartFacts, MonitorFacts, SupervisorAssumption
  <1>4. ASSUME NEW i \in JobIds, CancelRequest(i) \/ CancelResumes(i)
        PROVE  OutcomeStays /\ \A k \in JobIds : Lives(k)
    BY <1>4, CancelFacts
  <1>5. ASSUME NEW t \in Tasks, NEW i \in JobIds, StopperStep(t, i)
        PROVE  OutcomeStays /\ \A k \in JobIds : Lives(k)
    BY <1>5, StopperFacts
  <1>6. ASSUME NEW saved \in SaveOutcomes, ServerStep(saved)
        PROVE  OutcomeStays /\ \A k \in JobIds : Lives(k)
    BY <1>6, ServerFacts, SupervisorAssumption
  <1>7. ASSUME NEW i \in JobIds, WorkerStep(i), UNCHANGED <<storeVars, supervisorVars>>
        PROVE  OutcomeStays /\ \A k \in JobIds : Lives(k)
    BY <1>7, WorkerLives
  <1>8. QED
    BY <1>1, <1>2, <1>3, <1>4, <1>5, <1>6, <1>7 DEF Next

------------------------------------------------------------------------------
(***************************************************************************)
(* What the supervisor reports.                                            *)
(***************************************************************************)
Marked == server = "marked" => ~IsActive(job)

(* A request speaks the surface it came by.                                *)
SurfaceKnown == \A i \in JobIds : call[i].pc # "none" => call[i].surface \in Surfaces

AnswerSound(i) ==
    client[i].answer.confirmed =>
      /\ call[i].pc # "none"
      /\ ~Alive(i)
      /\ ~proc[i].tree
      /\ Has(i) => IsTerminal(job) /\ StatusOf(i, job) = client[i].answer.status

(* The listing of a manifest changes nothing else that is reported.        *)
LEMMA ListedSame ==
    ASSUME NEW j \in Job, NEW i
    PROVE  LET m == [j EXCEPT !.manifest = TRUE]
           IN  /\ m \in Job /\ m.id = j.id /\ IsTerminal(m) = IsTerminal(j)
               /\ StatusOf(i, m) = StatusOf(i, j)
               /\ [m EXCEPT !.manifest = FALSE] = [j EXCEPT !.manifest = FALSE]
  <1> DEFINE m == [j EXCEPT !.manifest = TRUE]
  <1>1. m \in Job /\ m.id = j.id /\ m.stage = j.stage
    BY ManifestType
  <1>2. [m EXCEPT !.manifest = FALSE] = [j EXCEPT !.manifest = FALSE]
    BY DEF Job
  <1>3. m # NoJob /\ j # NoJob
    BY <1>1, JournalAssumption
  <1> HIDE DEF m
  <1>4. IsTerminal(m) = IsTerminal(j) /\ StatusOf(i, m) = StatusOf(i, j)
    BY <1>1, <1>3 DEF IsTerminal, StatusOf, GetStatus
  <1>5. QED
    BY <1>1, <1>2, <1>4 DEF m

(* Only the shutdown moves the server.                                     *)
LEMMA ServerMovesItself ==
    ASSUME [Next]_vars, server' # server
    PROVE  \E saved \in SaveOutcomes : ServerStep(saved)
  <1>1. ASSUME NEW i \in JobIds, NEW o, NEW surface, NEW saved, NEW audited,
               Request(i, o, surface, saved, audited)
        PROVE  FALSE
    BY <1>1 DEF Request
  <1>2. ASSUME NEW i \in JobIds, NEW saved, StartStep(i, saved)
        PROVE  FALSE
    BY <1>2
    DEF StartStep, Published, PublishFails, StartRefused, BeginSpawn, SpawnFails, SpawnSucceeds,
        StartGivesUp, StartReturns, StartFails, StartCancelled, StartAborts, AbortEnds
  <1>3. ASSUME NEW i \in JobIds, NEW saved, MonitorStep(i, saved)
        PROVE  FALSE
    BY <1>3 DEF MonitorStep, ReadEvent, CancelMonitor, MonitorCompletes
  <1>4. ASSUME NEW i \in JobIds, CancelRequest(i) \/ CancelResumes(i)
        PROVE  FALSE
    BY <1>4 DEF CancelRequest, CancelResumes
  <1>5. ASSUME NEW t \in Tasks, NEW i \in JobIds, StopperStep(t, i)
        PROVE  FALSE
    BY <1>5 DEF StopperStep, WaitBegins, WaitEnds, Terminates, Kills, Escalates, GivesUp
  <1>6. QED
    BY <1>1, <1>2, <1>3, <1>4, <1>5 DEF Next, vars, supervisorVars

LEMMA MarkedStep ==
    ASSUME IInv, IInv', Marked, [Next]_vars
    PROVE  Marked'
  <1>1. CASE server = "marked"
    <2>1. SUFFICES ASSUME job' # NoJob, ~IsTerminal(job') PROVE FALSE
      BY DEF Marked, IsActive
    <2>2. PICK k \in JobIds : job' \in Job /\ job'.id = k /\ Has(k)'
      BY <2>1 DEF IInv, TypeOK, StoreTypeOK, Job, Has
    <2>3. OutcomeStays
      BY StepFacts
    <2>4. Has(k)
      BY <1>1, <2>2, <2>3 DEF OutcomeStays, JobEnters
    <2>5. job \in Job /\ job.id = job'.id /\ IsTerminal(job)
      BY <1>1, <2>2, <2>4 DEF Marked, IsActive, Has, IInv, TypeOK, StoreTypeOK
    <2>6. job' \in {job, [job EXCEPT !.manifest = TRUE]} \/ IsTerminal(job')
      BY <1>1, <2>3, <2>5 DEF OutcomeStays
    <2>7. QED
      BY <2>1, <2>5, <2>6, ListedSame
  <1>2. CASE server # "marked"
    <2>1. SUFFICES ASSUME server' = "marked" PROVE ~IsActive(job')
      BY DEF Marked
    <2>2. PICK saved \in SaveOutcomes : ServerStep(saved)
      BY <1>2, <2>1, ServerMovesItself
    <2>3. MarkAbandoned(saved)
      BY <1>2, <2>1, <2>2
      DEF ServerStep, BeginShutdown, LockTimesOut, StopWorkers, ShutdownExpires, WorkersStopped
    <2>4. CASE IsActive(job)
      <3>1. saved /\ MarkShutdown(saved)
        BY <2>1, <2>3, <2>4 DEF MarkAbandoned
      <3>2. job \in Job
        BY <2>4 DEF IsActive, IInv, TypeOK, StoreTypeOK
      <3>3. job'.stage = "failed"
        BY <2>4, <3>1, <3>2 DEF MarkShutdown, FailActive, SaveJournal, Job
      <3>4. QED
        BY <3>3 DEF IsActive, IsTerminal, TerminalStages, Aborts
    <2>5. CASE ~IsActive(job)
      BY <2>3, <2>5 DEF MarkAbandoned, MarkShutdown, FailActive, storeVars, IsActive
    <2>6. QED
      BY <2>4, <2>5
  <1>3. QED
    BY <1>1, <1>2

LEMMA SurfaceStep ==
    ASSUME IInv, SurfaceKnown, [Next]_vars
    PROVE  SurfaceKnown'
  <1>1. \A k \in JobIds : Lives(k)
    BY StepFacts
  <1>2. QED
    BY <1>1 DEF SurfaceKnown, Lives

LEMMA AnswerStep ==
    ASSUME Surfaces \subseteq {"mcp"}, IInv, IInv', SurfaceKnown,
           NEW i \in JobIds, AnswerSound(i), [Next]_vars
    PROVE  AnswerSound(i)'
  <1>1. OutcomeStays /\ Lives(i)
    BY StepFacts
  <1>2. /\ CallerSound(i) /\ WorkerSound(i) /\ job \in Job \union {NoJob}
        /\ CallerSound(i)' /\ WorkerSound(i)' /\ OutcomeSound(i)'
        /\ job' \in Job \union {NoJob}
    BY DEF IInv, JobInv, TypeOK, StoreTypeOK
  <1>3. SUFFICES ASSUME client'[i].answer.confirmed
                 PROVE  /\ call'[i].pc # "none" /\ ~Alive(i)' /\ ~proc'[i].tree
                        /\ Has(i)' => /\ IsTerminal(job')
                                      /\ StatusOf(i, job') = client'[i].answer.status
    BY DEF AnswerSound
  (* An answer that was just given.                                        *)
  <1>4. CASE ToldRightly(i)
    <2>1. CASE handle'[i].done
      <3>1. Dead(i)' /\ ~proc'[i].tree
        BY <1>2, <2>1 DEF WorkerSound
      <3>2. call'[i].pc # "none" /\ ~Alive(i)'
        BY <1>2, <3>1 DEF WorkerSound, Dead, Alive
      <3>3. Has(i)' => IsTerminal(job')
        BY <1>2, <2>1 DEF OutcomeSound
      <3>4. QED
        BY <1>4, <3>1, <3>2, <3>3 DEF ToldRightly
    <2>2. CASE ~handle'[i].done
      <3>1. Has(i)' /\ IsTerminal(job')
        BY <1>4, <2>2 DEF ToldRightly
      <3>2. call'[i].pc # "none" /\ ~Alive(i)' /\ ~proc'[i].tree
        BY <1>2, <3>1 DEF CallerSound, OutcomeSound
      <3>3. QED
        BY <1>4, <3>1, <3>2 DEF ToldRightly
    <2>3. QED
      BY <2>1, <2>2
  (* One that was given before.                                            *)
  <1>5. CASE client'[i].answer = client[i].answer
    <2>1. /\ call[i].pc # "none" /\ ~Alive(i) /\ ~proc[i].tree
          /\ Has(i) => IsTerminal(job) /\ StatusOf(i, job) = client[i].answer.status
      BY <1>3, <1>5 DEF AnswerSound
    <2>2. call[i].pc \notin {"spawning", "withdrawn"}
      BY <1>2, <2>1 DEF CallerSound
    <2>3. call'[i].pc # "none" /\ ~Alive(i)' /\ ~proc'[i].tree
      BY <1>1, <2>1, <2>2 DEF Lives
    <2>4. ASSUME Has(i)'
          PROVE  IsTerminal(job') /\ StatusOf(i, job') = client'[i].answer.status
      <3>1. Has(i)
        BY <1>1, <2>1, <2>4 DEF OutcomeStays, JobEnters
      <3>2. job \in Job /\ job.id = i /\ job'.id = i /\ IsTerminal(job)
        BY <1>2, <2>1, <2>4, <3>1 DEF Has
      <3>3. ~\E k \in JobIds : call[k].pc # "none" /\ call[k].surface = "a2a"
        BY DEF SurfaceKnown
      <3>4. job' \in {job, [job EXCEPT !.manifest = TRUE]}
        BY <1>1, <3>2, <3>3 DEF OutcomeStays
      <3>5. IsTerminal(job') /\ StatusOf(i, job') = StatusOf(i, job)
        BY <3>2, <3>4, ListedSame
      <3>6. QED
        BY <1>5, <2>1, <3>1, <3>5
    <2>5. QED
      BY <2>3, <2>4
  <1>6. QED
    BY <1>1, <1>3, <1>4, <1>5 DEF Lives

(* While every save succeeds the server never has to leave a job behind.   *)
SavesServe == server # "unmarked"

(* An A2A request that ends without a worker leaves its job an outcome.    *)
ClosedSound(i) ==
    call[i].pc = "closed" /\ proc[i].state = "absent" /\ Has(i) => IsTerminal(job)

LEMMA OutcomeRemains ==
    ASSUME OutcomeStays, NEW i \in JobIds, Has(i), Has(i)', job \in Job, IsTerminal(job)
    PROVE  IsTerminal(job')
  <1>1. job.id = i /\ job'.id = i
    BY DEF Has
  <1>2. job' \in {job, [job EXCEPT !.manifest = TRUE]} \/ IsTerminal(job')
    BY <1>1 DEF OutcomeStays
  <1>3. QED
    BY <1>2, ListedSame

(* The saved outcome of a start that ends.                                 *)
LEMMA SavedTerminal ==
    ASSUME NEW j \in Job, ~IsTerminal(j), NEW s \in Aborts, NEW e \in ErrorTypes,
           SaveJournal(Terminated(j, s, e), TRUE)
    PROVE  IsTerminal(job')
  <1>1. Terminated(j, s, e).stage = s
    BY TerminatedType DEF TerminalStages
  <1>2. QED
    BY <1>1 DEF SaveJournal, IsTerminal, TerminalStages

LEMMA StartCloses ==
    ASSUME IInv, Surfaces \subseteq {"a2a"}, SurfaceKnown, SavesServe,
           NEW i \in JobIds, StartStep(i, TRUE),
           call'[i].pc = "closed", proc'[i].state = "absent", Has(i), ~IsTerminal(job)
    PROVE  IsTerminal(job')
  <1>1. /\ TypeOK /\ CallerSound(i) /\ WorkerSound(i) /\ job \in Job /\ job.id = i
        /\ call \in [JobIds -> Call] /\ call[i] \in Call /\ proc \in [JobIds -> Process]
    BY DEF IInv, JobInv, TypeOK, StoreTypeOK, ProcessTypeOK, Has
  <1>2. call[i].pc \in {"publishing", "admitted", "spawning", "withdrawn"}
    <2>1. call[i].pc \in {"starting", "aborting", "abortingLocked"} => proc[i].state # "absent"
      BY <1>1 DEF WorkerSound
    <2>2. CASE StartAborts(i, FALSE) \/ StartAborts(i, TRUE)
      <3>1. call'[i].pc = "aborting"
        BY <1>1, <2>2 DEF StartAborts, Call
      <3>2. QED
        BY <3>1
    <2>3. CASE ~(StartAborts(i, FALSE) \/ StartAborts(i, TRUE))
      <3>1. SUFFICES ASSUME call[i].pc \notin {"publishing", "admitted", "spawning", "withdrawn"}
                     PROVE  FALSE
        OBVIOUS
      <3>2. StartReturns(i) \/ AbortEnds(i, TRUE)
        BY <2>3, <3>1
        DEF StartStep, Published, PublishFails, StartRefused, BeginSpawn, SpawnFails,
            SpawnSucceeds, StartFails, StartCancelled
      <3>3. /\ proc' = proc
            /\ call[i].pc \in {"starting", "aborting", "abortingLocked"}
        BY <3>2 DEF StartReturns, AbortEnds, processVars
      <3>4. QED
        BY <2>1, <3>3
    <2>4. QED
      BY <2>2, <2>3
  <1>3. Ref(i) = job /\ call[i].surface = "a2a"
    BY <1>1, <1>2 DEF CallerSound, SavesServe, SurfaceKnown, Ref
  <1>4. /\ {"server_shutdown", "worker_spawn_failed", "worker_start_cancelled",
            "a2a_working_event_failed",
            "a2a_request_cancelled_before_worker_start"} \subseteq ErrorTypes
        /\ "failed" \in Aborts /\ "cancelled" \in Aborts
    BY DEF ErrorTypes, CancelReasons, Aborts
  <1>5. ASSUME NEW s \in Aborts, NEW e \in ErrorTypes, Terminalize(i, s, e, TRUE)
        PROVE  IsTerminal(job')
    <2>1. Terminated(job, s, e).id = i
      BY <1>1, TerminatedType DEF TerminalStages
    <2>2. SaveJournal(Terminated(job, s, e), TRUE)
      BY <1>1, <1>3, <1>5, <2>1, JournalAssumption DEF Terminalize, Update
    <2>3. QED
      BY <1>1, <2>2, SavedTerminal
  <1>6. ASSUME NEW s \in Aborts, NEW e \in ErrorTypes, CommitTerminal(i, s, e, TRUE)
        PROVE  IsTerminal(job')
    BY <1>1, <1>6, SavedTerminal DEF CommitTerminal
  <1>7. CASE PublishFails(i, TRUE)
    BY <1>4, <1>5, <1>7 DEF PublishFails
  <1>8. CASE StartRefused(i, TRUE) \/ SpawnFails(i, TRUE)
    BY <1>4, <1>6, <1>8 DEF StartRefused, SpawnFails, StartGivesUp
  <1>9. CASE StartCancelled(i, TRUE)
    <2>1. CASE call[i].pc = "admitted"
      <3>1. StartRaises(i, "worker_start_cancelled", TRUE)
        BY <1>9, <2>1 DEF StartCancelled
      <3>2. QED
        BY <1>3, <1>4, <1>5, <3>1 DEF StartRaises
    <2>2. CASE call[i].pc = "spawning"
      <3>1. call'[i].pc = "withdrawn"
        BY <1>1, <1>9, <2>2 DEF StartCancelled, Call
      <3>2. QED
        BY <3>1
    <2>3. QED
      BY <1>2, <1>9, <2>1, <2>2 DEF StartCancelled
  <1>10. CASE Published(i) \/ BeginSpawn(i) \/ SpawnSucceeds(i)
    <2>1. call'[i].pc \in {"admitted", "spawning", "abortingLocked", "starting"}
      BY <1>1, <1>10 DEF Published, BeginSpawn, SpawnSucceeds, Call
    <2>2. QED
      BY <2>1
  <1>11. QED
    BY <1>2, <1>7, <1>8, <1>9, <1>10
    DEF StartStep, StartReturns, StartFails, AbortEnds

LEMMA SavesServeStep ==
    ASSUME SaveOutcomes \subseteq {TRUE}, SavesServe, [Next]_vars
    PROVE  SavesServe'
  <1>1. SUFFICES ASSUME server' = "unmarked", server' # server PROVE FALSE
    BY DEF SavesServe
  <1>2. PICK saved \in SaveOutcomes : ServerStep(saved)
    BY <1>1, ServerMovesItself
  <1>3. saved = TRUE
    BY <1>2
  <1>4. QED
    BY <1>1, <1>2, <1>3
    DEF ServerStep, BeginShutdown, LockTimesOut, StopWorkers, ShutdownExpires, WorkersStopped,
        MarkAbandoned

LEMMA ClosedStep ==
    ASSUME Surfaces \subseteq {"a2a"}, SaveOutcomes \subseteq {TRUE},
           IInv, SurfaceKnown, SavesServe, NEW i \in JobIds, ClosedSound(i), [Next]_vars
    PROVE  ClosedSound(i)'
  <1>1. OutcomeStays /\ Lives(i)
    BY StepFacts
  <1>2. SUFFICES ASSUME call'[i].pc = "closed", proc'[i].state = "absent", Has(i)'
                 PROVE  IsTerminal(job')
    BY DEF ClosedSound
  <1>3. call[i].pc # "none" /\ proc[i].state = "absent"
    BY <1>1, <1>2 DEF Lives
  <1>4. Has(i) /\ job \in Job
    BY <1>1, <1>2, <1>3 DEF OutcomeStays, JobEnters, IInv, TypeOK, StoreTypeOK, Has
  <1>5. CASE IsTerminal(job)
    BY <1>1, <1>2, <1>4, <1>5, OutcomeRemains
  <1>6. CASE ~IsTerminal(job)
    <2>1. call'[i].pc # call[i].pc
      BY <1>2, <1>3, <1>4, <1>6 DEF ClosedSound
    <2>2. StartStep(i, TRUE)
      BY <1>1, <1>3, <2>1 DEF Lives
    <2>3. QED
      BY <1>2, <1>4, <1>6, <2>2, StartCloses
  <1>7. QED
    BY <1>5, <1>6

------------------------------------------------------------------------------
LEMMA InitReports ==
    ASSUME Init
    PROVE  /\ Marked /\ SurfaceKnown /\ SavesServe
           /\ \A i \in JobIds : AnswerSound(i) /\ ClosedSound(i)
  BY DEF Init, StoreInit, ProcessInit, Marked, SurfaceKnown, SavesServe, AnswerSound,
     ClosedSound, NoAnswer

(* Every request is one of the surfaces the controller serves.             *)
THEOREM SurfacesKnown == Spec => []SurfaceKnown
  <1>1. Init => SurfaceKnown
    BY InitReports
  <1>2. IInv /\ SurfaceKnown /\ [Next]_vars => SurfaceKnown'
    BY SurfaceStep
  <1>3. QED
    BY <1>1, <1>2, Invariance, PTL DEF Spec

(* A graceful shutdown that reports its workers reaped leaves no process   *)
(* and no active job, on every surface and whatever fails.                 *)
THEOREM StopsCleanly == Spec => []CleanStop
  <1>1. Init => Marked
    BY InitReports
  <1>2. IInv /\ IInv' /\ Marked /\ [Next]_vars => Marked'
    BY MarkedStep
  <1>3. IInv /\ Marked => CleanStop
    BY DEF CleanStop, Marked, IInv, Agreed, JobInv, ServerSound, WorkerSound
  <1>4. QED
    BY <1>1, <1>2, <1>3, Invariance, PTL DEF Spec

(* On the MCP surface, what a client is told of a confirmed exit is so and *)
(* stays what the journal says, and a shutdown that reports its workers    *)
(* reaped leaves none and no active job.                                   *)
THEOREM ReportsAreHonest == Surfaces \subseteq {"mcp"} => (Spec => []ReportsHonest)
  <1> DEFINE AnswersSound == \A i \in JobIds : AnswerSound(i)
  <1>1. SUFFICES ASSUME Surfaces \subseteq {"mcp"} PROVE Spec => []ReportsHonest
    OBVIOUS
  <1>2. Init => AnswersSound
    BY InitReports
  <1>3. IInv /\ IInv' /\ SurfaceKnown /\ AnswersSound /\ [Next]_vars => AnswersSound'
    BY <1>1, AnswerStep
  <1>4. IInv /\ AnswersSound => AnswerHonest
    BY DEF AnswerHonest, AnswerSound, IInv, Agreed, Has
  <1>5. AnswerHonest /\ CleanStop => ReportsHonest
    BY DEF ReportsHonest
  <1> HIDE DEF AnswersSound
  <1>6. QED
    BY <1>2, <1>3, <1>4, <1>5, Invariance, SurfacesKnown, StopsCleanly, PTL DEF Spec

(* On the MCP surface a committed outcome is never replaced, whatever      *)
(* fails and in whatever order start, monitor, cancellation and shutdown   *)
(* come to it.                                                             *)
THEOREM OutcomesFinal == Surfaces \subseteq {"mcp"} => (Spec => OutcomeIsFinal)
  <1>1. SUFFICES ASSUME Surfaces \subseteq {"mcp"} PROVE Spec => OutcomeIsFinal
    OBVIOUS
  <1>2. IInv /\ IInv' /\ SurfaceKnown /\ [Next]_vars => [OutcomeKept]_vars
    <2>1. SUFFICES ASSUME IInv, IInv', SurfaceKnown, [Next]_vars, job \in Job, IsTerminal(job)
                   PROVE  \/ job' \notin Job
                          \/ job'.id # job.id
                          \/ [job' EXCEPT !.manifest = FALSE] = [job EXCEPT !.manifest = FALSE]
      BY DEF OutcomeKept, IInv, Agreed
    <2>2. ~\E k \in JobIds : call[k].pc # "none" /\ call[k].surface = "a2a"
      BY <1>1, <2>1 DEF SurfaceKnown
    <2>3. \/ job' \in {job, [job EXCEPT !.manifest = TRUE]}
          \/ job'.id # job.id
      BY <2>1, <2>2, StepFacts DEF OutcomeStays
    <2>4. QED
      BY <2>1, <2>3, ListedSame
  <1>3. QED
    BY <1>2, Invariance, SurfacesKnown, PTL DEF Spec, OutcomeIsFinal

(* On the A2A surface and with a journal that can be saved, an active job  *)
(* has a request that is still starting it or a worker that will be waited *)
(* for: admission is never blocked for nothing.                            *)
THEOREM ActiveJobsServed ==
    Surfaces \subseteq {"a2a"} /\ SaveOutcomes \subseteq {TRUE} => (Spec => []ActiveIsServed)
  <1> DEFINE Served == SavesServe /\ \A i \in JobIds : ClosedSound(i)
  <1>1. SUFFICES ASSUME Surfaces \subseteq {"a2a"}, SaveOutcomes \subseteq {TRUE}
                 PROVE  Spec => []ActiveIsServed
    OBVIOUS
  <1>2. Init => Served
    BY InitReports
  <1>3. IInv /\ SurfaceKnown /\ Served /\ [Next]_vars => Served'
    BY <1>1, SavesServeStep, ClosedStep
  <1>4. IInv /\ Served => ActiveIsServed
    <2>1. SUFFICES ASSUME IInv, Served, NEW i \in JobIds, Has(i), ~IsTerminal(job),
                          call[i].pc \in {"none", "closed"}
                   PROVE  handle[i].retained
      BY DEF ActiveIsServed, IsActive
    <2>2. CallerSound(i) /\ WorkerSound(i) /\ OutcomeSound(i) /\ ClosedSound(i)
      BY <2>1 DEF IInv, JobInv
    <2>3. proc[i].state # "absent" /\ ~handle[i].done
      BY <2>1, <2>2 DEF CallerSound, ClosedSound, OutcomeSound
    <2>4. QED
      BY <2>2, <2>3 DEF WorkerSound
  <1> HIDE DEF Served
  <1>5. QED
    BY <1>2, <1>3, <1>4, Invariance, SurfacesKnown, PTL DEF Spec
=============================================================================
