------------------------ MODULE ControllerLeaseProofs ------------------------
(***************************************************************************)
(* The properties of ControllerLease, for any set of controllers and jobs  *)
(* and any bound on co-hosted servers.                                     *)
(*                                                                         *)
(* The lease excludes a second controller only while its holder is at      *)
(* work, so the invariant says who must hold it: a controller that hosts   *)
(* servers, one that is stopping, and one with a start or worker under     *)
(* way.  With one holder, what is in its memory is what is on disk.        *)
(***************************************************************************)
EXTENDS ControllerLease, TLAPS

(* A start that may still spawn, a child, or an exit to record.            *)
UnderWay(c) ==
    \/ work[c] \in {"spawning", "running", "exited"}
    \/ work[c] = "admitted" /\ ~shut[c]

StopsUnderLease ==
    \A c \in Controllers : phase[c] = "stopping" =>
        users[c] = 0 /\ holder = c /\ shut[c]

WorkUnderLease ==
    \A c \in Controllers : UnderWay(c) => holder = c /\ IsActive(job[c])

(* A start that has not noticed the shutdown has nothing left to commit.   *)
LateStartsAreSettled ==
    \A c \in Controllers :
        work[c] = "admitted" /\ holder # c => ~IsActive(job[c])

HolderAgrees == \A c \in Controllers : holder = c => job[c] = journal

JobsAreUsed ==
    /\ journal # NoRecord => journal.id \in used
    /\ \A c \in Controllers : job[c] # NoRecord => job[c].id \in used
    /\ orphans \subseteq used

IInv ==
    /\ TypeOK
    /\ HostsAreServed
    /\ StopsUnderLease
    /\ WorkUnderLease
    /\ LateStartsAreSettled
    /\ HolderAgrees
    /\ JobsAreUsed
    /\ OrphansAreSettled

------------------------------------------------------------------------------
(* What is written, and that a write leaves other controllers alone.       *)
LEMMA SettledRecord ==
    ASSUME NEW r \in Records \union {NoRecord}
    PROVE  /\ Settled(r) \in Records \union {NoRecord}
           /\ ~IsActive(Settled(r))
           /\ Settled(r) = NoRecord <=> r = NoRecord
           /\ r # NoRecord => Settled(r).id = r.id
BY LeaseAssumption DEF Settled, IsActive, Records

LEMMA SettleWrites ==
    ASSUME TypeOK, NEW c \in Controllers, NEW saved \in BOOLEAN, Settle(c, saved)
    PROVE  \/ UNCHANGED <<job, journal>>
           \/ /\ saved
              /\ IsActive(job[c])
              /\ job' = [job EXCEPT ![c] = Settled(job[c])]
              /\ journal' = Settled(job[c])
BY DEF Settle, Write

(* No controller has been entered.                                         *)
LEMMA InitInv == Init => IInv
BY LeaseAssumption
   DEF Init, IInv, TypeOK, HostsAreServed, StopsUnderLease, WorkUnderLease,
       UnderWay, LateStartsAreSettled, HolderAgrees, JobsAreUsed,
       OrphansAreSettled, Phases, Work, Records, IsActive

(* A failed entry may load the journal; nothing is under way then.         *)
LEMMA EnterFailsPreserves ==
    ASSUME IInv, NEW c \in Controllers, EnterFails(c)
    PROVE  IInv'
<1> USE LeaseAssumption DEF IInv, UnderWay, Retained
<1>1. TypeOK'
  BY DEF EnterFails, TypeOK, Phases
<1>2. HostsAreServed'
  BY DEF EnterFails, HostsAreServed
<1>3. StopsUnderLease'
  BY DEF EnterFails, StopsUnderLease
<1>4. WorkUnderLease'
  BY DEF EnterFails, WorkUnderLease
<1>5. LateStartsAreSettled'
  BY DEF EnterFails, LateStartsAreSettled, TypeOK, WorkUnderLease, Refuses
<1>6. HolderAgrees'
  BY DEF EnterFails, HolderAgrees
<1>7. JobsAreUsed'
  BY DEF EnterFails, JobsAreUsed, TypeOK
<1>8. OrphansAreSettled'
  BY DEF EnterFails, OrphansAreSettled
<1> QED BY <1>1, <1>2, <1>3, <1>4, <1>5, <1>6, <1>7, <1>8

(* The lease was free, so no other process had anything under way.         *)
LEMMA EnterFirstPreserves ==
    ASSUME IInv, NEW c \in Controllers, EnterFirst(c)
    PROVE  IInv'
<1> USE LeaseAssumption DEF IInv, UnderWay, Retained
<1>0. /\ Settled(journal) \in Records \union {NoRecord}
      /\ ~IsActive(Settled(journal))
      /\ Settled(journal) = NoRecord <=> journal = NoRecord
      /\ journal # NoRecord => Settled(journal).id = journal.id
  BY SettledRecord DEF TypeOK
<1>1. TypeOK'
  BY <1>0 DEF EnterFirst, Acquire, TypeOK, Phases
<1>2. HostsAreServed'
  BY <1>0 DEF EnterFirst, Acquire, HostsAreServed, TypeOK, Refuses
<1>3. StopsUnderLease'
  BY DEF EnterFirst, Acquire, StopsUnderLease
<1>4. WorkUnderLease'
  BY DEF EnterFirst, Acquire, WorkUnderLease
<1>5. LateStartsAreSettled'
  BY DEF EnterFirst, Acquire, LateStartsAreSettled
<1>6. HolderAgrees'
  BY <1>0 DEF EnterFirst, Acquire, HolderAgrees, TypeOK
<1>7. JobsAreUsed'
  BY <1>0 DEF EnterFirst, Acquire, JobsAreUsed, TypeOK
<1>8. OrphansAreSettled'
  BY <1>0 DEF EnterFirst, Acquire, OrphansAreSettled, TypeOK
<1> QED BY <1>1, <1>2, <1>3, <1>4, <1>5, <1>6, <1>7, <1>8

(* One more server of a controller that hosts some.                        *)
LEMMA EnterAgainPreserves ==
    ASSUME IInv, NEW c \in Controllers, EnterAgain(c)
    PROVE  IInv'
<1> USE LeaseAssumption DEF IInv, UnderWay, Retained
<1>1. TypeOK'
  BY DEF EnterAgain, TypeOK
<1>2. HostsAreServed'
  BY DEF EnterAgain, HostsAreServed
<1>3. StopsUnderLease'
  BY DEF EnterAgain, StopsUnderLease
<1>4. WorkUnderLease'
  BY DEF EnterAgain, WorkUnderLease
<1>5. LateStartsAreSettled'
  BY DEF EnterAgain, LateStartsAreSettled
<1>6. HolderAgrees'
  BY DEF EnterAgain, HolderAgrees
<1>7. JobsAreUsed'
  BY DEF EnterAgain, JobsAreUsed
<1>8. OrphansAreSettled'
  BY DEF EnterAgain, OrphansAreSettled
<1> QED BY <1>1, <1>2, <1>3, <1>4, <1>5, <1>6, <1>7, <1>8

(* The hosted controller's store and the file take the job together.       *)
LEMMA AcceptPreserves ==
    ASSUME IInv, NEW c \in Controllers, NEW i \in JobIds, NEW saved \in BOOLEAN, Accept(c, i, saved)
    PROVE  IInv'
<1> USE LeaseAssumption DEF IInv, UnderWay, Retained
<1>0. holder = c /\ job[c] = journal /\ ~shut[c]
  BY DEF Accept, HostsAreServed, HolderAgrees
<1>r. /\ [id |-> i, active |-> TRUE] \in Records
      /\ [id |-> i, active |-> TRUE] # NoRecord
  <2>1. [id |-> i, active |-> TRUE] \in Records
    BY DEF Records
  <2>2. NoRecord \notin Records
    BY DEF Records
  <2> QED BY <2>1, <2>2
<1>w. /\ saved => /\ job'[c] = [id |-> i, active |-> TRUE]
                  /\ journal' = [id |-> i, active |-> TRUE]
      /\ ~saved => UNCHANGED <<job, journal, work>>
      /\ \A d \in Controllers : d # c => job'[d] = job[d] /\ work'[d] = work[d]
  BY DEF Accept, Write, TypeOK
<1>1. TypeOK'
  BY ZenonT(30), <1>r DEF Accept, Write, TypeOK, Work
<1>2. HostsAreServed'
  BY DEF Accept, Write, HostsAreServed
<1>3. StopsUnderLease'
  BY DEF Accept, Write, StopsUnderLease
<1>4. WorkUnderLease'
  <2>1. ASSUME NEW d \in Controllers, UnderWay(d)'
        PROVE  holder' = d /\ IsActive(job'[d])
    <3>1. CASE d = c /\ saved
      BY <1>0, <1>r, <1>w, <3>1 DEF Accept, IsActive
    <3>2. CASE d # c \/ ~saved
      BY <1>w, <2>1, <3>2 DEF Accept, WorkUnderLease
    <3> QED BY <3>1, <3>2
  <2> QED BY <2>1 DEF WorkUnderLease, IsActive
<1>5. LateStartsAreSettled'
  BY <1>0, <1>w DEF Accept, LateStartsAreSettled
<1>6. HolderAgrees'
  BY <1>0, <1>w DEF Accept, HolderAgrees
<1>7. JobsAreUsed'
  BY <1>w DEF Accept, JobsAreUsed, TypeOK
<1>8. OrphansAreSettled'
  BY <1>w DEF Accept, OrphansAreSettled, JobsAreUsed, TypeOK, IsActive
<1> QED BY <1>1, <1>2, <1>3, <1>4, <1>5, <1>6, <1>7, <1>8

(* Only a start that was not overtaken by the shutdown spawns.             *)
LEMMA BeginSpawnPreserves ==
    ASSUME IInv, NEW c \in Controllers, BeginSpawn(c)
    PROVE  IInv'
<1> USE LeaseAssumption DEF IInv, UnderWay, Retained
<1>1. TypeOK'
  BY DEF BeginSpawn, TypeOK, Work
<1>2. HostsAreServed'
  BY DEF BeginSpawn, HostsAreServed
<1>3. StopsUnderLease'
  BY DEF BeginSpawn, StopsUnderLease
<1>4. WorkUnderLease'
  BY DEF BeginSpawn, WorkUnderLease
<1>5. LateStartsAreSettled'
  BY DEF BeginSpawn, LateStartsAreSettled
<1>6. HolderAgrees'
  BY DEF BeginSpawn, HolderAgrees
<1>7. JobsAreUsed'
  BY DEF BeginSpawn, JobsAreUsed
<1>8. OrphansAreSettled'
  BY DEF BeginSpawn, OrphansAreSettled
<1> QED BY <1>1, <1>2, <1>3, <1>4, <1>5, <1>6, <1>7, <1>8

(* A late start finds its job settled, any other holds the lease.          *)
LEMMA StartFailsPreserves ==
    ASSUME IInv, NEW c \in Controllers, NEW saved \in BOOLEAN, StartFails(c, saved)
    PROVE  IInv'
<1> USE LeaseAssumption DEF IInv, UnderWay, Retained
<1>0. \/ UNCHANGED <<job, journal>>
      \/ /\ saved
         /\ IsActive(job[c])
         /\ job' = [job EXCEPT ![c] = Settled(job[c])]
         /\ journal' = Settled(job[c])
  BY SettleWrites DEF StartFails
<1>s. /\ Settled(job[c]) \in Records \union {NoRecord}
      /\ ~IsActive(Settled(job[c]))
      /\ Settled(job[c]) = NoRecord <=> job[c] = NoRecord
      /\ job[c] # NoRecord => Settled(job[c]).id = job[c].id
  BY SettledRecord DEF TypeOK
<1>1. TypeOK'
  BY <1>0, <1>s DEF StartFails, TypeOK, Work
<1>2. HostsAreServed'
  BY DEF StartFails, HostsAreServed
<1>3. StopsUnderLease'
  BY DEF StartFails, StopsUnderLease
<1>4. WorkUnderLease'
  BY <1>0, <1>s DEF StartFails, WorkUnderLease, TypeOK
<1>5. LateStartsAreSettled'
  BY <1>0, <1>s DEF StartFails, LateStartsAreSettled, TypeOK
<1>6. HolderAgrees'
  BY <1>0, <1>s DEF StartFails, HolderAgrees, TypeOK, WorkUnderLease, LateStartsAreSettled
<1>7. JobsAreUsed'
  BY <1>0, <1>s DEF StartFails, JobsAreUsed, TypeOK
<1>8. OrphansAreSettled'
  BY <1>0, <1>s DEF StartFails, OrphansAreSettled, TypeOK
<1> QED BY <1>1, <1>2, <1>3, <1>4, <1>5, <1>6, <1>7, <1>8

(* The child takes the place of the spawn under way.                       *)
LEMMA SpawnedPreserves ==
    ASSUME IInv, NEW c \in Controllers, Spawned(c)
    PROVE  IInv'
<1> USE LeaseAssumption DEF IInv, UnderWay, Retained
<1>1. TypeOK'
  BY DEF Spawned, TypeOK, Work
<1>2. HostsAreServed'
  BY DEF Spawned, HostsAreServed
<1>3. StopsUnderLease'
  BY DEF Spawned, StopsUnderLease
<1>4. WorkUnderLease'
  BY DEF Spawned, WorkUnderLease
<1>5. LateStartsAreSettled'
  BY DEF Spawned, LateStartsAreSettled
<1>6. HolderAgrees'
  BY DEF Spawned, HolderAgrees
<1>7. JobsAreUsed'
  BY DEF Spawned, JobsAreUsed
<1>8. OrphansAreSettled'
  BY DEF Spawned, OrphansAreSettled
<1> QED BY <1>1, <1>2, <1>3, <1>4, <1>5, <1>6, <1>7, <1>8

(* The outcome is written under the lease, or the handle is kept.          *)
LEMMA WorkerExitsPreserves ==
    ASSUME IInv, NEW c \in Controllers, NEW saved \in BOOLEAN, WorkerExits(c, saved)
    PROVE  IInv'
<1> USE LeaseAssumption DEF IInv, UnderWay, Retained
<1>0. \/ UNCHANGED <<job, journal>>
      \/ /\ saved
         /\ IsActive(job[c])
         /\ job' = [job EXCEPT ![c] = Settled(job[c])]
         /\ journal' = Settled(job[c])
  BY SettleWrites DEF WorkerExits
<1>s. /\ Settled(job[c]) \in Records \union {NoRecord}
      /\ ~IsActive(Settled(job[c]))
      /\ Settled(job[c]) = NoRecord <=> job[c] = NoRecord
      /\ job[c] # NoRecord => Settled(job[c]).id = job[c].id
  BY SettledRecord DEF TypeOK
<1>1. TypeOK'
  BY <1>0, <1>s DEF WorkerExits, TypeOK, Work
<1>2. HostsAreServed'
  BY DEF WorkerExits, HostsAreServed
<1>3. StopsUnderLease'
  BY DEF WorkerExits, StopsUnderLease
<1>4. WorkUnderLease'
  BY <1>0, <1>s DEF WorkerExits, WorkUnderLease, TypeOK
<1>5. LateStartsAreSettled'
  BY <1>0, <1>s DEF WorkerExits, LateStartsAreSettled, TypeOK
<1>6. HolderAgrees'
  BY <1>0, <1>s DEF WorkerExits, HolderAgrees, TypeOK, WorkUnderLease, HostsAreServed
<1>7. JobsAreUsed'
  BY <1>0, <1>s DEF WorkerExits, JobsAreUsed, TypeOK
<1>8. OrphansAreSettled'
  BY <1>0, <1>s DEF WorkerExits, OrphansAreSettled, TypeOK
<1> QED BY <1>1, <1>2, <1>3, <1>4, <1>5, <1>6, <1>7, <1>8

(* A cleared job was settled, so nothing was under way for it.             *)
LEMMA ClearPreserves ==
    ASSUME IInv, NEW c \in Controllers, NEW saved \in BOOLEAN, Clear(c, saved)
    PROVE  IInv'
<1> USE LeaseAssumption DEF IInv, UnderWay, Retained
<1>1. TypeOK'
  BY DEF Clear, Write, TypeOK
<1>2. HostsAreServed'
  BY DEF Clear, Write, HostsAreServed
<1>3. StopsUnderLease'
  BY DEF Clear, Write, StopsUnderLease
<1>4. WorkUnderLease'
  BY DEF Clear, Write, WorkUnderLease, TypeOK
<1>5. LateStartsAreSettled'
  BY DEF Clear, Write, LateStartsAreSettled, TypeOK, HostsAreServed
<1>6. HolderAgrees'
  BY DEF Clear, Write, HolderAgrees, TypeOK, HostsAreServed
<1>7. JobsAreUsed'
  BY DEF Clear, Write, JobsAreUsed, TypeOK
<1>8. OrphansAreSettled'
  BY DEF Clear, Write, OrphansAreSettled, IsActive
<1> QED BY <1>1, <1>2, <1>3, <1>4, <1>5, <1>6, <1>7, <1>8

(* Only the last server to leave closes admission.                         *)
LEMMA LeavePreserves ==
    ASSUME IInv, NEW c \in Controllers, Leave(c)
    PROVE  IInv'
<1> USE LeaseAssumption DEF IInv, UnderWay, Retained
<1>1. TypeOK'
  BY DEF Leave, TypeOK, Phases
<1>2. HostsAreServed'
  BY DEF Leave, HostsAreServed, TypeOK
<1>3. StopsUnderLease'
  <2>1. ASSUME NEW d \in Controllers, phase'[d] = "stopping"
        PROVE  users'[d] = 0 /\ holder' = d /\ shut'[d]
    <3>1. CASE d = c
      <4>1. users[c] = 1
        BY <2>1, <3>1 DEF Leave, HostsAreServed, TypeOK
      <4>2. users'[c] = 0 /\ holder' = c
        BY <4>1 DEF Leave, HostsAreServed, TypeOK
      <4>3. shut'[c]
        BY <4>1, Zenon DEF Leave, TypeOK
      <4> QED BY <3>1, <4>2, <4>3
    <3>2. CASE d # c
      BY <2>1, <3>2 DEF Leave, StopsUnderLease, TypeOK
    <3> QED BY <3>1, <3>2
  <2> QED BY <2>1 DEF StopsUnderLease
<1>4. WorkUnderLease'
  BY DEF Leave, WorkUnderLease, TypeOK
<1>5. LateStartsAreSettled'
  BY DEF Leave, LateStartsAreSettled
<1>6. HolderAgrees'
  BY DEF Leave, HolderAgrees
<1>7. JobsAreUsed'
  BY DEF Leave, JobsAreUsed
<1>8. OrphansAreSettled'
  BY DEF Leave, OrphansAreSettled
<1> QED BY <1>1, <1>2, <1>3, <1>4, <1>5, <1>6, <1>7, <1>8

(* A failed exit keeps the lease.                                          *)
LEMMA LeaveFailsPreserves ==
    ASSUME IInv, NEW c \in Controllers, NEW saved \in BOOLEAN, LeaveFails(c, saved)
    PROVE  IInv'
<1> USE LeaseAssumption DEF IInv, UnderWay, Retained
<1>1. TypeOK'
  BY DEF LeaveFails, TypeOK, Phases
<1>2. HostsAreServed'
  BY DEF LeaveFails, HostsAreServed
<1>3. StopsUnderLease'
  BY DEF LeaveFails, StopsUnderLease
<1>4. WorkUnderLease'
  BY DEF LeaveFails, WorkUnderLease
<1>5. LateStartsAreSettled'
  BY DEF LeaveFails, LateStartsAreSettled
<1>6. HolderAgrees'
  BY DEF LeaveFails, HolderAgrees
<1>7. JobsAreUsed'
  BY DEF LeaveFails, JobsAreUsed
<1>8. OrphansAreSettled'
  BY DEF LeaveFails, OrphansAreSettled
<1> QED BY <1>1, <1>2, <1>3, <1>4, <1>5, <1>6, <1>7, <1>8

(* The lease is given back with the job settled and no worker left.        *)
LEMMA LeftPreserves ==
    ASSUME IInv, NEW c \in Controllers, Left(c)
    PROVE  IInv'
<1> USE LeaseAssumption DEF IInv, UnderWay, Retained
<1>0. \/ UNCHANGED <<job, journal>>
      \/ /\ TRUE
         /\ IsActive(job[c])
         /\ job' = [job EXCEPT ![c] = Settled(job[c])]
         /\ journal' = Settled(job[c])
  BY SettleWrites DEF Left
<1>s. /\ Settled(job[c]) \in Records \union {NoRecord}
      /\ ~IsActive(Settled(job[c]))
      /\ Settled(job[c]) = NoRecord <=> job[c] = NoRecord
      /\ job[c] # NoRecord => Settled(job[c]).id = job[c].id
  BY SettledRecord DEF TypeOK
<1>1. TypeOK'
  BY <1>0, <1>s DEF Left, Close, Unreaped, TypeOK, Phases
<1>2. HostsAreServed'
  BY <1>0, <1>s DEF Left, Close, Unreaped, HostsAreServed, StopsUnderLease
<1>3. StopsUnderLease'
  BY <1>0, <1>s DEF Left, Close, Unreaped, StopsUnderLease, TypeOK
<1>4. WorkUnderLease'
  BY <1>0, <1>s DEF Left, Close, Unreaped, WorkUnderLease, StopsUnderLease
<1>5. LateStartsAreSettled'
  <2>1. ASSUME NEW d \in Controllers, work'[d] = "admitted"
        PROVE  ~IsActive(job'[d])
    <3>1. CASE d = c
      BY <1>0, <1>s, <3>1 DEF Left, Settle, Write, TypeOK
    <3>2. CASE d # c
      <4>1. holder = c
        BY DEF Left, StopsUnderLease
      <4>2. job'[d] = job[d]
        BY <1>0, <3>2 DEF TypeOK
      <4> QED BY <2>1, <3>2, <4>1, <4>2 DEF Left, Close, LateStartsAreSettled
    <3> QED BY <3>1, <3>2
  <2> QED BY <2>1 DEF LateStartsAreSettled, IsActive
<1>6. HolderAgrees'
  BY DEF Left, Close, HolderAgrees, StopsUnderLease
<1>7. JobsAreUsed'
  BY <1>0, <1>s DEF Left, Close, Unreaped, JobsAreUsed, TypeOK
<1>8. OrphansAreSettled'
  BY <1>0, <1>s DEF Left, Close, Unreaped, OrphansAreSettled, TypeOK
<1> QED BY <1>1, <1>2, <1>3, <1>4, <1>5, <1>6, <1>7, <1>8

(* An orphan's job is its dead holder's: nobody else hosts a server.       *)
LEMMA DiesPreserves ==
    ASSUME IInv, NEW c \in Controllers, Dies(c)
    PROVE  IInv'
<1> USE LeaseAssumption DEF IInv, UnderWay, Retained
<1>1. TypeOK'
  <2>1. work[c] \in {"spawning", "running"} => job[c] \in Records
    BY DEF WorkUnderLease, IsActive, TypeOK
  <2>2. orphans' \subseteq JobIds
    BY <2>1 DEF Dies, Close, TypeOK, Records
  <2> QED BY <2>2 DEF Dies, Close, TypeOK, Phases, Work
<1>2. HostsAreServed'
  BY DEF Dies, Close, HostsAreServed, TypeOK
<1>3. StopsUnderLease'
  BY DEF Dies, Close, StopsUnderLease, TypeOK
<1>4. WorkUnderLease'
  BY DEF Dies, Close, WorkUnderLease, TypeOK
<1>5. LateStartsAreSettled'
  BY DEF Dies, Close, LateStartsAreSettled, TypeOK
<1>6. HolderAgrees'
  BY DEF Dies, Close, HolderAgrees
<1>7. JobsAreUsed'
  BY DEF Dies, Close, JobsAreUsed, WorkUnderLease, IsActive
<1>8. OrphansAreSettled'
  BY DEF Dies, Close, OrphansAreSettled, TypeOK, WorkUnderLease, HostsAreServed
<1> QED BY <1>1, <1>2, <1>3, <1>4, <1>5, <1>6, <1>7, <1>8

(* A worker that ends by itself touches nothing.                           *)
LEMMA OrphanEndsPreserves ==
    ASSUME IInv, NEW i \in JobIds, OrphanEnds(i)
    PROVE  IInv'
<1> USE LeaseAssumption DEF IInv, UnderWay, Retained
<1>1. TypeOK'
  BY DEF OrphanEnds, TypeOK
<1>2. HostsAreServed'
  BY DEF OrphanEnds, HostsAreServed
<1>3. StopsUnderLease'
  BY DEF OrphanEnds, StopsUnderLease
<1>4. WorkUnderLease'
  BY DEF OrphanEnds, WorkUnderLease
<1>5. LateStartsAreSettled'
  BY DEF OrphanEnds, LateStartsAreSettled
<1>6. HolderAgrees'
  BY DEF OrphanEnds, HolderAgrees
<1>7. JobsAreUsed'
  BY DEF OrphanEnds, JobsAreUsed
<1>8. OrphansAreSettled'
  BY DEF OrphanEnds, OrphansAreSettled
<1> QED BY <1>1, <1>2, <1>3, <1>4, <1>5, <1>6, <1>7, <1>8

------------------------------------------------------------------------------
(* A stuttering step.                                                      *)
LEMMA StutterPreserves ==
    ASSUME IInv, UNCHANGED vars
    PROVE  IInv'
BY DEF IInv, vars, TypeOK, HostsAreServed, StopsUnderLease, WorkUnderLease,
       UnderWay, LateStartsAreSettled, HolderAgrees, JobsAreUsed, OrphansAreSettled

(* Every step preserves the invariant.                                     *)
LEMMA StepPreserves ==
    ASSUME IInv, [Next]_vars
    PROVE  IInv'
<1>1. ASSUME NEW c \in Controllers, NEW saved \in BOOLEAN, Lifecycle(c, saved)
      PROVE  IInv'
  BY <1>1, EnterFailsPreserves, EnterFirstPreserves, EnterAgainPreserves,
     LeavePreserves, LeaveFailsPreserves, LeftPreserves DEF Lifecycle
<1>2. ASSUME NEW c \in Controllers, NEW saved \in BOOLEAN, JobStep(c, saved)
      PROVE  IInv'
  BY <1>2, AcceptPreserves, BeginSpawnPreserves, StartFailsPreserves,
     SpawnedPreserves, WorkerExitsPreserves, ClearPreserves DEF JobStep
<1>3. ASSUME NEW c \in Controllers, Dies(c)
      PROVE  IInv'
  BY <1>3, DiesPreserves
<1>4. ASSUME NEW i \in JobIds, OrphanEnds(i)
      PROVE  IInv'
  BY <1>4, OrphanEndsPreserves
<1>5. CASE UNCHANGED vars
  BY <1>5, StutterPreserves
<1> QED BY <1>1, <1>2, <1>3, <1>4, <1>5 DEF Next

(* The inductive invariant holds in every reachable state.                 *)
THEOREM Invariance == Spec => []IInv
BY InitInv, StepPreserves, PTL DEF Spec

------------------------------------------------------------------------------
(* ControllerLease is well typed: no controller counts more servers than   *)
(* it hosts or fewer than none (_controller_lifecycle_users).              *)
THEOREM TypeCorrect == Spec => []TypeOK
<1>1. IInv => TypeOK
  BY DEF IInv
<1> QED BY <1>1, Invariance, PTL

(* While a co-hosted server is left its controller keeps the lease and is  *)
(* not shut down (_leave_controller_lifecycle).                            *)
THEOREM HostsServed == Spec => []HostsAreServed
<1>1. IInv => HostsAreServed
  BY DEF IInv
<1> QED BY <1>1, Invariance, PTL

(* A worker whose exit is not recorded keeps its controller's lease, so    *)
(* two processes never supervise work for one journal.                     *)
THEOREM WorkersKeepLease == Spec => []WorkerKeepsLease
<1>1. IInv => WorkerKeepsLease
  BY DEF IInv, WorkUnderLease, UnderWay, WorkerKeepsLease, Retained
<1> QED BY <1>1, Invariance, PTL

(* At most one process at a time supervises a worker.                      *)
THEOREM OneSupervisor ==
    Spec => [](\A c, d \in Controllers : Retained(c) /\ Retained(d) => c = d)
<1>1. IInv => \A c, d \in Controllers : Retained(c) /\ Retained(d) => c = d
  BY DEF IInv, WorkUnderLease, UnderWay, Retained
<1> QED BY <1>1, Invariance, PTL

(* The journal of a controller at work is changed by nobody else: restart  *)
(* reconciliation is safe (ControllerLease's own comment).                 *)
THEOREM JournalOwned == Spec => []JournalIsOwn
<1>1. IInv => JournalIsOwn
  BY DEF IInv, HostsAreServed, StopsUnderLease, WorkUnderLease, UnderWay,
         Retained, HolderAgrees, JournalIsOwn
<1> QED BY <1>1, Invariance, PTL

(* Together: a controller that hosts servers, stops or has a worker is the *)
(* one that holds the lease, and the journal is its own.                   *)
THEOREM WorkLeased == Spec => []WorkIsLeased
<1>1. HostsAreServed /\ WorkerKeepsLease /\ JournalIsOwn => WorkIsLeased
  BY DEF WorkIsLeased
<1> QED BY <1>1, HostsServed, WorkersKeepLease, JournalOwned, PTL

(* A worker left behind by a killed controller never belongs to a job that *)
(* a later controller takes for running (reconcile_interrupted_job).       *)
THEOREM OrphansSettled == Spec => []OrphansAreSettled
<1>1. IInv => OrphansAreSettled
  BY DEF IInv
<1> QED BY <1>1, Invariance, PTL

------------------------------------------------------------------------------
Writer(c) == {holder, holder'} \ {Nobody} = {c} /\ job'[c] = journal'

(* Job steps write under the lease they hold throughout.                   *)
LEMMA JobStepWrites ==
    ASSUME IInv, NEW c \in Controllers, NEW saved \in BOOLEAN,
           JobStep(c, saved), journal' # journal
    PROVE  Writer(c)
<1>1. ASSUME NEW i \in JobIds, Accept(c, i, saved)
      PROVE  holder = c /\ holder' = holder /\ job'[c] = journal'
  BY <1>1, journal' # journal DEF Accept, Write, IInv, HostsAreServed, TypeOK
<1>2. ASSUME Clear(c, saved)
      PROVE  holder = c /\ holder' = holder /\ job'[c] = journal'
  BY <1>2, journal' # journal DEF Clear, Write, IInv, HostsAreServed, TypeOK
<1>3. ASSUME StartFails(c, saved) \/ WorkerExits(c, saved)
      PROVE  holder = c /\ holder' = holder /\ job'[c] = journal'
  <2>1. Settle(c, saved) /\ holder' = holder
    BY <1>3 DEF StartFails, WorkerExits
  <2>2. IsActive(job[c]) /\ job'[c] = journal'
    BY <2>1, journal' # journal, SettleWrites DEF IInv, TypeOK
  <2>3. holder = c
    BY <1>3, <2>2
       DEF StartFails, WorkerExits, IInv, WorkUnderLease, UnderWay, LateStartsAreSettled
  <2> QED BY <2>1, <2>2, <2>3
<1>4. holder = c /\ holder' = holder /\ job'[c] = journal'
  BY <1>1, <1>2, <1>3, journal' # journal DEF JobStep, BeginSpawn, Spawned
<1> QED BY <1>4, LeaseAssumption DEF Writer

(* Reconciliation writes as the lease is taken, the mark as it is freed.   *)
LEMMA LifecycleWrites ==
    ASSUME IInv, NEW c \in Controllers, NEW saved \in BOOLEAN,
           Lifecycle(c, saved), journal' # journal
    PROVE  Writer(c)
<1>1. EnterFirst(c) \/ Left(c)
  BY journal' # journal DEF Lifecycle, EnterFails, EnterAgain, Leave, LeaveFails
<1>2. CASE EnterFirst(c)
  BY <1>2, LeaseAssumption DEF EnterFirst, Acquire, Writer, IInv, TypeOK
<1>3. CASE Left(c)
  <2>1. holder = c /\ holder' = Nobody
    BY <1>3 DEF Left, Close, IInv, StopsUnderLease
  <2>2. job'[c] = journal'
    BY <1>3, journal' # journal, SettleWrites DEF Left, Close, IInv, TypeOK
  <2> QED BY <2>1, <2>2, LeaseAssumption DEF Writer
<1> QED BY <1>1, <1>2, <1>3

(* Whoever writes the journal holds the lease when the step begins or when *)
(* it ends, failed shutdowns and late exits included.                      *)
THEOREM WritesAreLeased == Spec => WrittenUnderLease
<1>1. IInv /\ [Next]_vars =>
        (journal' # journal => \E c \in Controllers : Writer(c))
  <2> SUFFICES ASSUME IInv, Next, journal' # journal
               PROVE  \E c \in Controllers : Writer(c)
    BY DEF vars
  <2> QED BY JobStepWrites, LifecycleWrites DEF Next, Dies, OrphanEnds
<1> QED BY <1>1, Invariance, PTL DEF Spec, WrittenUnderLease, Writer
=============================================================================
