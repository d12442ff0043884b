----------------------------- MODULE ResumeLease -----------------------------
(* The ownership record of one working folder - a company's or a run's       *)
(* (core/workspace.py). A process claims the folder by hard-linking a file    *)
(* with its host, pid and a fresh token to a fixed name; a claim that finds   *)
(* the name taken reads the record and either refuses or unlinks it and tries *)
(* again; a release reads the record, compares its token and unlinks the      *)
(* name. No lock spans the reading and the unlinking. A command claims in its *)
(* main thread and the MCP server in its event loop, so that the tasks of one *)
(* process change places only while one works; the guard around               *)
(* perform_research releases at exit what its thread has taken.               *)
EXTENDS Integers, FiniteSets

CONSTANTS
    Tasks, Processes, Hosts, Pids,
    ProcessOf,    \* the process of each task
    HostOf,       \* the host of each process
    PidOf,        \* its pid there; a later process may get a dead one's
    FirstRunning, \* the processes running at the start
    NoToken,
    Faults,       \* the file operations that may be refused: "read", "unlink"
    MaxFaults,    \* bounds the refusals
    MaxCrashes,   \* bounds the processes that die
    MaxClaims     \* bounds the leases a process may hold before it asks for another

ASSUME ShapeAssumption ==
    /\ ProcessOf \in [Tasks -> Processes]
    /\ HostOf \in [Processes -> Hosts] /\ PidOf \in [Processes -> Pids]
    /\ FirstRunning \subseteq Processes
ASSUME PidsAssumption ==
    \A p, q \in FirstRunning : HostOf[p] = HostOf[q] /\ PidOf[p] = PidOf[q] => p = q
ASSUME FaultsAssumption == Faults \subseteq {"read", "unlink"}
ASSUME BoundsAssumption == MaxFaults \in Nat /\ MaxCrashes \in Nat /\ MaxClaims \in Nat

Tokens == [process : Processes, n : Nat \ {0}]
ASSUME NoTokenAssumption == NoToken \notin Tokens

VARIABLES
    life,      \* of each process
    lease,     \* the token in the lease file, or NoToken
    tokens,    \* _RESUME_LEASE_TOKENS of each process
    pending,   \* _RESUME_LEASE_RELEASE_PENDING: the processes that have the key in it
    mine,      \* _THREAD_RESUME_LEASES of their main threads: likewise
    pc,        \* where each task is
    kind,      \* whether its operation runs under the guard or in a with block
    before,    \* owned_before of its guard
    seen,      \* the record it read, or the token it expects
    tries,     \* its tries at the claim
    ret,       \* where its call of release_resume_lease returns to
    minted,    \* the leases each process has published
    faults, crashes,
    unread,    \* history: the processes whose last release could not read the record
    overtaken  \* history: a reclaim has unlinked another record than the one it read

vars == <<life, lease, tokens, pending, mine, pc, kind, before, seen, tries, ret, minted,
          faults, crashes, unread, overtaken>>

Claiming == {"link", "note", "read", "judge", "clear", "cleared", "reclaim"}
Releasing == {"release", "compare", "unlink", "forget"}
Returns == {"cleared", "finish", "end"}
Me(t) == ProcessOf[t]
Running(h, pid) == \E p \in Processes : life[p] = "alive" /\ HostOf[p] = h /\ PidOf[p] = pid
Owners == {t \in Tasks : pc[t] = "working"}

TypeOK ==
    /\ life \in [Processes -> {"unborn", "alive", "dead"}]
    /\ lease \in Tokens \union {NoToken}
    /\ tokens \in [Processes -> Tokens \union {NoToken}]
    /\ pending \subseteq Processes /\ mine \subseteq Processes
    /\ pc \in [Tasks -> {"idle", "body", "active", "refused", "finish", "guard", "end", "working"}
                          \union Claiming \union Releasing]
    /\ kind \in [Tasks -> {"guarded", "scoped"}]
    /\ before \in [Tasks -> Tokens \union {NoToken}]
    /\ seen \in [Tasks -> Tokens \union {NoToken}]
    /\ tries \in [Tasks -> 0..3]
    /\ ret \in [Tasks -> Returns]
    /\ minted \in [Processes -> Nat]
    /\ faults \in 0..MaxFaults /\ crashes \in 0..MaxCrashes
    /\ unread \subseteq Processes /\ overtaken \in BOOLEAN

Init ==
    /\ life = [p \in Processes |-> IF p \in FirstRunning THEN "alive" ELSE "unborn"]
    /\ lease = NoToken
    /\ tokens = [p \in Processes |-> NoToken]
    /\ pending = {} /\ mine = {}
    /\ pc = [t \in Tasks |-> "idle"]
    /\ kind = [t \in Tasks |-> "guarded"]
    /\ before = [t \in Tasks |-> NoToken]
    /\ seen = [t \in Tasks |-> NoToken]
    /\ tries = [t \in Tasks |-> 0]
    /\ ret = [t \in Tasks |-> "end"]
    /\ minted = [p \in Processes |-> 0]
    /\ faults = 0 /\ crashes = 0
    /\ unread = {} /\ overtaken = FALSE

memory == <<tokens, pending, mine>>
leaseHistory == <<unread, overtaken>>
world == <<life, minted, faults, crashes, leaseHistory>>
(* The tasks of a process share one thread: a claim and a release are plain   *)
(* calls, and so is the whole of a guarded operation.                        *)
Blocks(u) == pc[u] \in Claiming \union Releasing \union {"cleared"}
             \/ (kind[u] = "guarded" /\ pc[u] # "idle")
At(t, place) ==
    /\ pc[t] = place /\ life[Me(t)] = "alive"
    /\ \A u \in Tasks \ {t} : Me(u) = Me(t) => ~Blocks(u)
Goto(t, place) == pc' = [pc EXCEPT ![t] = place]
(* A file operation of kind k is refused.                                    *)
Refuses(k) == k \in Faults /\ faults < MaxFaults /\ faults' = faults + 1

----------------------------------------------------------------------------
(* An operation: perform_research under its guard, or a `with` block that    *)
(* claims and releases itself.                                               *)

(* The guard notes the tokens of the leases this thread already holds.       *)
BeginGuarded(t) ==
    /\ At(t, "idle")
    /\ kind' = [kind EXCEPT ![t] = "guarded"]
    /\ before' = [before EXCEPT ![t] = IF Me(t) \in mine THEN tokens[Me(t)] ELSE NoToken]
    /\ Goto(t, "body")
    /\ UNCHANGED <<lease, memory, seen, tries, ret, world>>

BeginScoped(t) ==
    /\ At(t, "idle") /\ minted[Me(t)] < MaxClaims
    /\ kind' = [kind EXCEPT ![t] = "scoped"]
    /\ Goto(t, "link")
    /\ tries' = [tries EXCEPT ![t] = 0]
    /\ UNCHANGED <<lease, memory, before, seen, ret, world>>

(* The operation is about this folder ...                                    *)
Claim(t) ==
    /\ At(t, "body") /\ minted[Me(t)] < MaxClaims
    /\ Goto(t, "link")
    /\ tries' = [tries EXCEPT ![t] = 0]
    /\ UNCHANGED <<lease, memory, kind, before, seen, ret, world>>

(* ... or about another one.                                                 *)
Elsewhere(t) ==
    /\ At(t, "body")
    /\ Goto(t, "guard")
    /\ UNCHANGED <<lease, memory, kind, before, seen, tries, ret, world>>

(* The work is over: a terminal event or the end of the `with` block         *)
(* releases the lease, ...                                                   *)
Release(t) ==
    /\ At(t, "working")
    /\ Goto(t, "release")
    /\ ret' = [ret EXCEPT ![t] = "finish"]
    /\ UNCHANGED <<lease, memory, kind, before, seen, tries, world>>

(* ... or, under the guard, an error leaves that to the guard.               *)
LeaveToGuard(t) ==
    /\ At(t, "working") /\ kind[t] = "guarded"
    /\ Goto(t, "guard")
    /\ UNCHANGED <<lease, memory, kind, before, seen, tries, ret, world>>

Finish(t) ==
    /\ \E place \in {"finish", "active", "refused"} : At(t, place)
    /\ Goto(t, IF kind[t] = "guarded" THEN "guard" ELSE "idle")
    /\ UNCHANGED <<lease, memory, kind, before, seen, tries, ret, world>>

(* The guard releases the leases of this thread whose token has changed.     *)
Guard(t) ==
    /\ At(t, "guard")
    /\ IF Me(t) \in mine /\ before[t] # tokens[Me(t)]
       THEN Goto(t, "release") /\ ret' = [ret EXCEPT ![t] = "end"]
       ELSE Goto(t, "end") /\ UNCHANGED ret
    /\ UNCHANGED <<lease, memory, kind, before, seen, tries, world>>

End(t) ==
    /\ At(t, "end")
    /\ Goto(t, "idle")
    /\ UNCHANGED <<lease, memory, kind, before, seen, tries, ret, world>>

----------------------------------------------------------------------------
(* acquire_resume_lease.                                                     *)

(* Mutant: the link replaces what is there.                                  *)
LinkOver(t) ==
    LET token == [process |-> Me(t), n |-> minted[Me(t)] + 1] IN
    /\ At(t, "link") /\ tries[t] < 3
    /\ lease' = token /\ minted' = [minted EXCEPT ![Me(t)] = @ + 1]
    /\ seen' = [seen EXCEPT ![t] = token]
    /\ Goto(t, "note")
    /\ UNCHANGED <<memory, kind, before, tries, ret, life, faults, crashes, leaseHistory>>

(* The record is linked to its name, unless the name is taken.               *)
Link(t) ==
    LET token == [process |-> Me(t), n |-> minted[Me(t)] + 1] IN
    /\ At(t, "link") /\ tries[t] < 3
    /\ \/ /\ lease = NoToken
          /\ lease' = token /\ minted' = [minted EXCEPT ![Me(t)] = @ + 1]
          /\ seen' = [seen EXCEPT ![t] = token]
          /\ Goto(t, "note")
       \/ /\ lease # NoToken
          /\ Goto(t, "read")
          /\ UNCHANGED <<lease, minted, seen>>
    /\ UNCHANGED <<memory, kind, before, tries, ret, life, faults, crashes, leaseHistory>>

(* The third try found the name taken as well.                               *)
GiveUp(t) ==
    /\ At(t, "link") /\ tries[t] = 3
    /\ Goto(t, "refused")
    /\ UNCHANGED <<lease, memory, kind, before, seen, tries, ret, world>>

Note(t) ==
    /\ At(t, "note")
    /\ tokens' = [tokens EXCEPT ![Me(t)] = seen[t]]
    /\ pending' = pending \ {Me(t)} /\ mine' = mine \union {Me(t)}
    /\ Goto(t, "working")
    /\ UNCHANGED <<lease, kind, before, seen, tries, ret, world>>

(* _clear_or_refuse_existing_lease reads the record; one that is gone by     *)
(* now, or cannot be read, is a refusal.                                     *)
Read(t) ==
    /\ At(t, "read")
    /\ \/ /\ lease # NoToken
          /\ seen' = [seen EXCEPT ![t] = lease]
          /\ Goto(t, "judge")
          /\ UNCHANGED faults
       \/ /\ IF lease = NoToken THEN UNCHANGED faults ELSE Refuses("read")
          /\ Goto(t, "refused")
          /\ UNCHANGED seen
    /\ UNCHANGED <<lease, memory, kind, before, tries, ret, life, minted, crashes,
                   leaseHistory>>

(* Its own lease whose release failed is released again; one of another      *)
(* host, or of a pid that is in use, is refused; the rest are reclaimed.     *)
Judge(t) ==
    LET host == HostOf[seen[t].process]
        pid == PidOf[seen[t].process]
        own == host = HostOf[Me(t)] /\ pid = PidOf[Me(t)]
               /\ seen[t] = tokens[Me(t)] /\ Me(t) \in pending IN
    /\ At(t, "judge")
    /\ Goto(t, IF own THEN "clear"
               ELSE IF host # HostOf[Me(t)] THEN "refused"
               ELSE IF Running(host, pid) THEN "active"
               ELSE "reclaim")
    /\ UNCHANGED <<lease, memory, kind, before, seen, tries, ret, world>>

Clear(t) ==
    /\ At(t, "clear")
    /\ Goto(t, "release")
    /\ ret' = [ret EXCEPT ![t] = "cleared"]
    /\ UNCHANGED <<lease, memory, kind, before, seen, tries, world>>

Cleared(t) ==
    /\ At(t, "cleared")
    /\ IF lease # NoToken
       THEN Goto(t, "refused") /\ UNCHANGED tries
       ELSE Goto(t, "link") /\ tries' = [tries EXCEPT ![t] = @ + 1]
    /\ UNCHANGED <<lease, memory, kind, before, seen, ret, world>>

(* The name is unlinked, whatever record it leads to by now.                 *)
Reclaim(t) ==
    /\ At(t, "reclaim")
    /\ \/ /\ lease' = NoToken
          /\ overtaken' = (overtaken \/ lease \notin {seen[t], NoToken})
          /\ Goto(t, "link") /\ tries' = [tries EXCEPT ![t] = @ + 1]
          /\ UNCHANGED faults
       \/ /\ lease # NoToken /\ Refuses("unlink")
          /\ Goto(t, "refused")
          /\ UNCHANGED <<lease, tries, overtaken>>
    /\ UNCHANGED <<memory, kind, before, seen, ret, life, minted, crashes, unread>>

----------------------------------------------------------------------------
(* release_resume_lease.                                                     *)

(* What it forgets when the lease is gone.                                   *)
Forgotten(t) ==
    /\ tokens' = [tokens EXCEPT ![Me(t)] = NoToken]
    /\ pending' = pending \ {Me(t)} /\ mine' = mine \ {Me(t)}
    /\ unread' = unread \ {Me(t)}

Expect(t) ==
    /\ At(t, "release")
    /\ seen' = [seen EXCEPT ![t] = tokens[Me(t)]]
    /\ Goto(t, IF tokens[Me(t)] = NoToken THEN ret[t] ELSE "compare")
    /\ UNCHANGED <<lease, memory, kind, before, tries, ret, world>>

(* A record that is gone or has another token is no longer this process's;   *)
(* one that cannot be read is left.                                          *)
Compare(t) ==
    /\ At(t, "compare")
    /\ \/ /\ lease = seen[t]
          /\ Goto(t, "unlink")
          /\ UNCHANGED <<memory, faults, unread>>
       \/ /\ lease # seen[t]
          /\ Forgotten(t)
          /\ Goto(t, ret[t])
          /\ UNCHANGED faults
       \/ /\ lease # NoToken /\ Refuses("read")
          /\ unread' = unread \union {Me(t)}
          /\ Goto(t, ret[t])
          /\ UNCHANGED memory
    /\ UNCHANGED <<lease, kind, before, seen, tries, ret, life, minted, crashes, overtaken>>

(* Mutant: a refused unlink is not remembered.                               *)
UnlinkOnce(t) ==
    /\ At(t, "unlink")
    /\ \/ lease' = NoToken /\ Goto(t, "forget") /\ UNCHANGED faults
       \/ /\ lease # NoToken /\ Refuses("unlink")
          /\ Goto(t, ret[t])
          /\ UNCHANGED lease
    /\ UNCHANGED <<memory, kind, before, seen, tries, ret, life, minted, crashes,
                   leaseHistory>>

Unlink(t) ==
    /\ At(t, "unlink")
    /\ \/ /\ lease' = NoToken
          /\ Goto(t, "forget")
          /\ UNCHANGED <<pending, faults>>
       \/ /\ lease # NoToken /\ Refuses("unlink")
          /\ pending' = pending \union {Me(t)}
          /\ Goto(t, ret[t])
          /\ UNCHANGED lease
    /\ UNCHANGED <<tokens, mine, kind, before, seen, tries, ret, life, minted, crashes,
                   leaseHistory>>

Forget(t) ==
    /\ At(t, "forget")
    /\ Forgotten(t)
    /\ Goto(t, ret[t])
    /\ UNCHANGED <<lease, kind, before, seen, tries, ret, life, minted, faults, crashes,
                   overtaken>>

----------------------------------------------------------------------------
(* A process dies, and with it its tables; a later one starts, perhaps with  *)
(* a pid that has become free.                                               *)

Crash(p) ==
    /\ life[p] = "alive" /\ crashes < MaxCrashes
    /\ crashes' = crashes + 1
    /\ life' = [life EXCEPT ![p] = "dead"]
    /\ tokens' = [tokens EXCEPT ![p] = NoToken]
    /\ pending' = pending \ {p}
    /\ mine' = mine \ {p}
    /\ unread' = unread \ {p}
    /\ pc' = [t \in Tasks |-> IF Me(t) = p THEN "idle" ELSE pc[t]]
    /\ UNCHANGED <<lease, kind, before, seen, tries, ret, minted, faults, overtaken>>

Start(p) ==
    /\ life[p] = "unborn" /\ ~Running(HostOf[p], PidOf[p])
    /\ life' = [life EXCEPT ![p] = "alive"]
    /\ UNCHANGED <<lease, memory, pc, kind, before, seen, tries, ret, minted, faults,
                   crashes, leaseHistory>>

Acquire(t) ==
    \/ Link(t) \/ GiveUp(t) \/ Note(t) \/ Read(t) \/ Judge(t)
    \/ Clear(t) \/ Cleared(t) \/ Reclaim(t)
Releases(t) == Expect(t) \/ Compare(t) \/ Unlink(t) \/ Forget(t)
Operation(t) ==
    \/ BeginGuarded(t) \/ BeginScoped(t) \/ Claim(t) \/ Elsewhere(t)
    \/ Release(t) \/ LeaveToGuard(t) \/ Finish(t) \/ Guard(t) \/ End(t)

Next ==
    \/ \E t \in Tasks : Acquire(t) \/ Releases(t) \/ Operation(t)
    \/ \E p \in Processes : Crash(p) \/ Start(p)

Spec == Init /\ [][Next]_vars

----------------------------------------------------------------------------
(* One operation at a time works in the folder: "Hold exclusive publication  *)
(* ownership for one company target" (workspace.py:502).                     *)
OneOwner == Cardinality(Owners) <= 1

(* An operation that works has its lease on disk, under the token its        *)
(* process knows: nobody else's release or reclaim has removed it.           *)
OwnerHasLease == \A t \in Owners : lease = tokens[Me(t)] /\ lease # NoToken

(* Whoever dies and whatever file operations are refused, only one step can  *)
(* make a folder have two owners, or one without its lease: a process that   *)
(* reclaims a dead one's lease unlinks the name (workspace.py:340) when it   *)
(* leads to another record by then.  Until that happens, one operation at a  *)
(* time works in the folder, under the lease on disk.                        *)
ExclusiveUntilOvertaken == overtaken \/ (OneOwner /\ OwnerHasLease)

(* A process none of whose tasks is in an operation has left no lease,       *)
(* unless the unlink was refused, and then it knows that it was, or the      *)
(* record could not be read (workspace.py:428-436), which is not remembered. *)
NothingLeft ==
    \A p \in Processes :
        life[p] = "alive" /\ (\A t \in Tasks : Me(t) = p => pc[t] = "idle")
        => \/ lease = NoToken \/ lease.process # p
           \/ p \in pending \union unread /\ tokens[p] = lease

(* "Raised when a verified live process owns a run or company workspace"     *)
(* (workspace.py:191): a claim is refused for an active owner only if        *)
(* another process took the lease and lives, if the process's own other task *)
(* works or its last release could not read the record, or if the dead       *)
(* owner's pid is in use again, be it by the process that claims.            *)
RefusedForCause ==
    \A t \in Tasks : pc[t] = "judge" /\ pc'[t] = "active" =>
        LET owner == seen[t].process IN
        \/ owner # Me(t) /\ life[owner] = "alive"
        \/ /\ owner = Me(t)
           /\ \/ owner \in unread
              \/ \E u \in Tasks : u # t /\ Me(u) = owner /\ pc[u] = "working"
        \/ life[owner] = "dead" /\ Running(HostOf[owner], PidOf[owner])

RefusalsSound == [][RefusedForCause]_vars

(* A lease is unlinked by its own process or, its process dead, by one of    *)
(* the same host, until a reclaim has overtaken another.                     *)
RemovedByRight ==
    lease # NoToken /\ lease' = NoToken /\ ~overtaken' =>
       \E t \in Tasks : /\ pc[t] \in {"unlink", "reclaim"} /\ pc'[t] # pc[t]
                        /\ \/ Me(t) = lease.process
                           \/ /\ life[lease.process] = "dead"
                              /\ HostOf[Me(t)] = HostOf[lease.process]

RemovalsSound == [][RemovedByRight]_vars
=============================================================================
