------------------------------ MODULE MCRecovery ------------------------------
(* A Deep Research job and its store, and the outputs of a recovered report,  *)
(* on small instances. They share no variable, so one run checks one after     *)
(* the other: the scenario chosen at the start says which of them moves.       *)
EXTENDS DeepResearch, RecoveredOutputs

CONSTANT Scenarios   \* those that are explored

VARIABLE scenario

job == <<flow, pc, attempt, mine, errors, inter, record, store, aged, outputs,
         resume, cleaner, unheard>>
bundle == <<place, turn, final, before, backup, staged, stage, backups, published,
            failed, interrupts>>
recoveryVars == <<scenario, job, bundle>>

(* The three artifacts of a report.                                           *)
MCArtifacts == <<"md", "txt", "docx">>

ASSUME DeepResearchAssumption /\ RecoveredOutputsAssumption

RecoveryInit ==
    /\ scenario \in Scenarios
    /\ Init /\ BundleInit
    /\ scenario = "job" => \A a \in Names : before[a] = "old"
    /\ scenario = "outputs" => flow = "orchestrator"

RecoveryNext ==
    \/ scenario = "job" /\ Next /\ UNCHANGED <<scenario, bundle>>
    \/ scenario = "outputs" /\ BundleNext /\ UNCHANGED <<scenario, job>>

RecoverySpec == RecoveryInit /\ [][RecoveryNext]_recoveryVars

(* The fairness of DeepResearch.                                              *)
RecoveryFairSpec ==
    /\ RecoverySpec
    /\ WF_job(scenario = "job" /\ ClientStep)
    /\ SF_job(scenario = "job" /\ SeesEnd)
    /\ \A k \in Ids : WF_job(scenario = "job" /\ InteractionEnds(k))
    /\ SF_job(scenario = "job" /\ StoreAges)
    /\ WF_job(scenario = "job" /\ CleanerReads)
    /\ WF_job(scenario = "job" /\ CleanerDeletes)
    /\ SF_job(scenario = "job" /\ StoreIsDeleted)
    /\ WF_job(scenario = "job" /\ ResumeStep)
    /\ \A k \in Ids : SF_job(scenario = "job" /\ ResumeFinds(k))
    /\ SF_job(scenario = "job" /\ OutputsWritten)
    /\ SF_job(scenario = "job" /\ StoreSettled)
    /\ SF_job(scenario = "job" /\ RecordRemoved)

--------------------------------------------------------------------------------
(* DeepResearch!OneInteraction, DeepResearch!NothingGoesEarly and             *)
(* RecoveredOutputs!OutputsKept are checked as they stand; what is left is     *)
(* that nothing stays for good.                                               *)

(* StoreGoes, whatever the way of running the job, and RecordSettles, in the  *)
(* two ways whose records name no store.                                      *)
EverythingGoes ==
    /\ StoreGoes
    /\ \A k \in Ids : flow # "orchestrator" /\ record[k] # "none" ~> record[k] = "none"
================================================================================
