--------------------------- MODULE RecoveredOutputs ---------------------------
(* How `--resume-latest` puts a recovered report on disk                     *)
(* (_save_recovered_outputs and _publish_recovered_bundle in                 *)
(* core/cli_recovery.py): the artifacts are written to a staging directory,   *)
(* the outputs they replace are moved to a backup directory inside it, the    *)
(* staged files are moved to their names, and any failure moves everything    *)
(* back. Each move is one rename; what is in memory about it (`backups`,      *)
(* `published`) is noted in a step of its own, and an interrupt - Ctrl-C      *)
(* raises KeyboardInterrupt between any two steps - may come in between.      *)
EXTENDS Integers, FiniteSets, Sequences

CONSTANTS
    Artifacts,      \* the artifacts in the order in which they are moved
    MaxInterrupts   \* bounds the interrupts

RecoveredOutputsAssumption ==
    /\ Len(Artifacts) \in Nat \ {0}
    /\ \A k, l \in 1..Len(Artifacts) : Artifacts[k] = Artifacts[l] => k = l
    /\ MaxInterrupts \in Nat

VARIABLES
    place,       \* where _save_recovered_outputs is
    turn,        \* the artifact it is at
    final,       \* what is under each canonical name
    before,      \* what was there at the start
    backup,      \* what is in the backup directory
    staged,      \* the artifacts in the staging directory
    stage,       \* the staging directory
    backups,     \* in memory: the artifacts known to have been moved away
    published,   \* in memory: the artifacts known to have been put in place
    failed,      \* whether the roll-back had errors
    interrupts

bundleVars == <<place, turn, final, before, backup, staged, stage, backups, published,
                failed, interrupts>>

Names == {Artifacts[k] : k \in 1..Len(Artifacts)}
Current == Artifacts[turn]
Files == {"none", "old", "new"}
Trying == {"render", "move", "noteMove", "promote", "notePromote", "verify"}
Stopped == {"done", "raised", "crashed"}

BundleTypeOK ==
    /\ place \in Trying \union {"unpublish", "restore", "cleanup", "finish"} \union Stopped
    /\ turn \in 1..Len(Artifacts)
    /\ final \in [Names -> Files] /\ before \in [Names -> {"none", "old"}]
    /\ backup \in [Names -> Files]
    /\ staged \subseteq Names /\ stage \in {"live", "removed"}
    /\ backups \subseteq Names /\ published \subseteq Names
    /\ failed \in BOOLEAN
    /\ interrupts \in 0..MaxInterrupts

BundleInit ==
    /\ place = "render" /\ turn = 1
    /\ before \in [Names -> {"none", "old"}]
    /\ final = before
    /\ backup = [a \in Names |-> "none"]
    /\ staged = {} /\ stage = "live"
    /\ backups = {} /\ published = {}
    /\ failed = FALSE
    /\ interrupts = 0

files == <<final, backup, staged, stage>>
memory == <<backups, published, failed>>

(* From an artifact to the next, and after the last one on to `then`.        *)
Advance(again, then) ==
    IF turn < Len(Artifacts)
    THEN place' = again /\ turn' = turn + 1
    ELSE place' = then /\ turn' = 1

RollBack == place' = "unpublish" /\ turn' = 1

(* The three artifacts are rendered into the stage and checked. A failure    *)
(* here needs no roll-back: nothing has been moved.                          *)
Render ==
    /\ place = "render"
    /\ \/ place' = "move" /\ staged' = Names
       \/ place' = "cleanup" /\ staged' \in SUBSET Names
    /\ UNCHANGED <<turn, final, backup, stage, before, memory, interrupts>>

(* What is under the canonical name is moved to the backup directory.        *)
MoveAway ==
    /\ place = "move"
    /\ \/ /\ final[Current] = "none"
          /\ Advance("move", "promote")
          /\ UNCHANGED <<final, backup>>
       \/ /\ final[Current] # "none"
          /\ backup' = [backup EXCEPT ![Current] = final[Current]]
          /\ final' = [final EXCEPT ![Current] = "none"]
          /\ place' = "noteMove" /\ turn' = turn
       \/ RollBack /\ UNCHANGED <<final, backup>>
    /\ UNCHANGED <<before, staged, stage, memory, interrupts>>

NoteMove ==
    /\ place = "noteMove"
    /\ backups' = backups \union {Current}
    /\ Advance("move", "promote")
    /\ UNCHANGED <<before, files, published, failed, interrupts>>

Promote ==
    /\ place = "promote"
    /\ \/ /\ final' = [final EXCEPT ![Current] = "new"]
          /\ staged' = staged \ {Current}
          /\ place' = "notePromote" /\ turn' = turn
       \/ RollBack /\ UNCHANGED <<final, staged>>
    /\ UNCHANGED <<before, backup, stage, memory, interrupts>>

NotePromote ==
    /\ place = "notePromote"
    /\ published' = published \union {Current}
    /\ Advance("promote", "verify")
    /\ UNCHANGED <<before, files, backups, failed, interrupts>>

(* The canonical files are looked at once more.                              *)
Verify ==
    /\ place = "verify"
    /\ \/ place' = "finish" /\ turn' = turn
       \/ RollBack
    /\ UNCHANGED <<before, files, memory, interrupts>>

(* Published files are deleted, then what was moved away is moved back; an   *)
(* error on one artifact does not stop the others.                           *)
Unpublish ==
    /\ place = "unpublish"
    /\ Advance("unpublish", "restore")
    /\ \/ Current \notin published /\ UNCHANGED <<final, failed>>
       \/ Current \in published /\ final' = [final EXCEPT ![Current] = "none"] /\ failed' = failed
       \/ Current \in published /\ final' = final /\ failed' = TRUE
    /\ UNCHANGED <<before, backup, staged, stage, backups, published, interrupts>>

Restore ==
    /\ place = "restore"
    /\ Advance("restore", "cleanup")
    /\ \/ Current \notin backups /\ UNCHANGED <<final, backup, failed>>
       \/ /\ Current \in backups
          /\ final' = [final EXCEPT ![Current] = backup[Current]]
          /\ backup' = [backup EXCEPT ![Current] = "none"]
          /\ failed' = failed
       \/ Current \in backups /\ failed' = TRUE /\ UNCHANGED <<final, backup>>
    /\ UNCHANGED <<before, staged, stage, backups, published, interrupts>>

(* The stage is removed with everything in it, or what could be removed of   *)
(* it - but not when the roll-back was incomplete.                           *)
Removal ==
    /\ stage' = "removed"
    /\ staged' \in {{}, staged}
    /\ \E gone \in SUBSET Names :
         backup' = [a \in Names |-> IF a \in gone THEN "none" ELSE backup[a]]

(* Mutant: the stage goes whatever came of the roll-back.                    *)
CleanupAlways ==
    /\ \/ place = "finish" /\ place' = "done"
       \/ place = "cleanup" /\ place' = "raised"
    /\ Removal
    /\ UNCHANGED <<turn, final, before, memory, interrupts>>

Cleanup ==
    /\ \/ place = "finish" /\ place' = "done"
       \/ place = "cleanup" /\ place' = "raised"
    /\ IF failed THEN UNCHANGED <<backup, staged, stage>> ELSE Removal
    /\ UNCHANGED <<turn, final, before, memory, interrupts>>

(* KeyboardInterrupt in the try block.                                       *)
Interrupt ==
    /\ interrupts < MaxInterrupts
    /\ interrupts' = interrupts + 1
    /\ \/ place = "render" /\ place' = "cleanup" /\ turn' = turn
       \/ place \in Trying \ {"render"} /\ RollBack
    /\ UNCHANGED <<before, files, memory>>

(* The process dies.                                                         *)
SaverDies ==
    /\ place \notin Stopped
    /\ place' = "crashed"
    /\ UNCHANGED <<turn, before, files, memory, interrupts>>

BundleNext ==
    \/ Render \/ MoveAway \/ NoteMove \/ Promote \/ NotePromote \/ Verify
    \/ Unpublish \/ Restore \/ Cleanup \/ Interrupt \/ SaverDies

BundleSpec == BundleInit /\ [][BundleNext]_bundleVars

--------------------------------------------------------------------------------
(* Properties.                                                               *)

(* When the outputs are reported as saved, every one of them is the new one. *)
DoneMeansAll == place = "done" => \A a \in Names : final[a] = "new"

(* When saving fails in a process that lives, what was there is there again, *)
(* and nothing else, unless the failure said that the roll-back was           *)
(* incomplete.                                                               *)
RestoredAfterFailure == place = "raised" /\ ~failed => final = before

(* Whatever happens, also when the process dies between two moves, an        *)
(* earlier output is under its name or in the backup directory, until the    *)
(* whole new set is in place.                                                *)
NothingLost ==
    \/ \A a \in Names : final[a] = "new"
    \/ \A a \in Names : before[a] = "old" => "old" \in {final[a], backup[a]}

(* Promoting the outputs of a recovered report destroys none, as long as no   *)
(* interrupt has come in between, and never reports as saved what is not.     *)
OutputsKept ==
    /\ BundleTypeOK /\ DoneMeansAll
    /\ interrupts = 0 => RestoredAfterFailure /\ NothingLost
================================================================================
