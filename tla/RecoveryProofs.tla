----------------------------- MODULE RecoveryProofs -----------------------------
(* What a Deep Research job leaves behind, and what finds it again: DeepResearch *)
(* for any number of retries and poll errors, RecoveredOutputs for any set of    *)
(* artifacts. Below them the two guards of a model call: CircuitBreaker for any  *)
(* callers and threshold, ModelFallback for any chain of models.                 *)
EXTENDS DeepResearch, RecoveredOutputs, CircuitBreaker, ModelFallback, FiniteSetTheorems, TLAPS

Early == {"upload", "create", "backoff", "save"}
InTime(k) == inter[k] \in Ended
Settled(k) == k \in outputs \/ inter[k] \in {"failed", "expired"}

(* The client: what it knows at each place, and that only the interaction it     *)
(* was told of has a record.                                                    *)
ClientKnows ==
    /\ pc = "upload" => attempt = 0 /\ store = "none"
    /\ pc \in {"create", "backoff"} => attempt < MaxRetries
    /\ pc \in Early => \A k \in Ids : record[k] = "none"
    /\ pc \in {"upload", "create", "backoff"} => mine = 0
    /\ pc \in {"save", "poll", "sections", "publish", "acknowledge"} => mine # 0
    /\ pc \in {"sections", "publish", "acknowledge"} => InTime(mine)
    /\ \A k \in Ids : record[k] # "none" => k = mine

(* The resume of another process: it is about that interaction, and goes on to   *)
(* its record when nobody needs it any more.                                    *)
ResumeKnows ==
    /\ resume.left \union resume.named \subseteq {mine}
    /\ resume.at \in {"output", "store", "remove"} =>
          resume.id \in Ids /\ resume.id = mine /\ InTime(mine)
    /\ resume.at \in {"store", "remove"} => Settled(mine)
    /\ resume.left # {} \/ resume.at \in {"output", "store", "remove"} => pc \notin Early

(* A job that runs with a store, and is known, is known by its record.           *)
RecordNames ==
    /\ aged => pc \notin Early
    /\ pc \in {"poll", "sections", "publish", "acknowledge"} /\ record[mine] = "none"
          => InTime(mine)
    /\ flow = "orchestrator" /\ store = "live"
          => \A k \in Ids : record[k] # "plain"

(* The cleanup that found no record deletes nothing that is needed.              *)
CleanerKnows ==
    cleaner = "deletes" /\ aged /\ flow = "orchestrator" /\ store = "live"
        => \A k \in Ids : Known(k) => inter[k] # "running"

ResearchInv == TypeOK /\ ClientKnows /\ ResumeKnows /\ RecordNames /\ CleanerKnows

(* As long as answers arrived, the client was told of every interaction.         *)
ToldOfAll == ~unheard => \A k \in Ids : inter[k] # "none" => k = mine

---------------------------------------------------------------------------------
(* Every step keeps the types, and each part of the invariant.                  *)
LEMMA ResearchTypeStep ==
  ASSUME DeepResearchAssumption, ResearchInv, [Next]_vars PROVE TypeOK'
<1> USE DEF DeepResearchAssumption, ResearchInv, ClientKnows, TypeOK, Ids, Final, Ended, Idle,
            LoseSight, NotCreated, NamedBy, StoreDeleted, SeenEnd, others, client, resumes, cleans, Leave, Keep, DeleteStore
<1>1. CASE Upload
  BY <1>1 DEF Upload
<1>2. CASE Create
  <2>1. attempt' \in 0..MaxRetries /\ attempt' \in Ids
    BY <1>2 DEF Create
  <2>2. unheard' \in BOOLEAN /\ mine' \in {0} \union Ids
    BY <1>2, <2>1 DEF Create
  <2>3. inter' \in [Ids -> {"none", "running"} \union Ended]
    BY <1>2, <2>1 DEF Create
  <2>4. pc' \in {"save", "backoff", "lost"} /\ store' \in {"none", "live", "deleted"}
    BY <1>2 DEF Create
  <2> QED BY <1>2, <2>1, <2>2, <2>3, <2>4 DEF Create
<1>3. CASE Backoff
  BY <1>3 DEF Backoff
<1>4. CASE Save
  BY <1>4 DEF Save
<1>5. CASE PollAnswered
  BY <1>5 DEF PollAnswered
<1>6. CASE PollRetried
  BY <1>6 DEF PollRetried
<1>7. CASE PollTimesOut
  BY <1>7 DEF PollTimesOut
<1>8. CASE PollFails
  BY <1>8 DEF PollFails
<1>9. CASE PollCancelled
  BY <1>9 DEF PollCancelled
<1>10. CASE Sections
  BY <1>10 DEF Sections
<1>11. CASE Publish
  BY ZenonT(30), <1>11 DEF Publish
<1>12. CASE Acknowledge
  BY <1>12 DEF Acknowledge
<1>13. CASE Crash
  BY <1>13 DEF Crash
<1>14. ASSUME NEW i \in Ids, InteractionEnds(i) PROVE TypeOK'
  BY <1>14 DEF InteractionEnds
<1>15. CASE StoreAges
  BY <1>15 DEF StoreAges
<1>16. CASE ResumeBegins
  BY <1>16 DEF ResumeBegins
<1>17. ASSUME NEW i \in Ids, ResumeFinds(i) PROVE TypeOK'
  BY ZenonT(30), <1>17 DEF ResumeFinds
<1>18. ASSUME NEW i \in Ids, ResumeSkips(i) PROVE TypeOK'
  BY <1>18 DEF ResumeSkips
<1>19. CASE ResumeDone
  BY <1>19 DEF ResumeDone
<1>20. CASE ResumeOutputs
  BY <1>20 DEF ResumeOutputs, ResumeKnows
<1>21. CASE ResumeStore
  BY <1>21 DEF ResumeStore
<1>22. CASE ResumeRemoves
  BY SMTT(30), <1>22 DEF ResumeRemoves
<1>23. CASE ResumeCrashes
  BY <1>23 DEF ResumeCrashes
<1>24. CASE CleanerReads
  BY <1>24 DEF CleanerReads
<1>25. CASE CleanerDeletes
  BY <1>25 DEF CleanerDeletes
<1>26. CASE UNCHANGED vars
  BY <1>26 DEF vars
<1> QED BY <1>1, <1>2, <1>3, <1>4, <1>5, <1>6, <1>7, <1>8, <1>9, <1>10, <1>11,
           <1>12, <1>13, <1>14, <1>15, <1>16, <1>17, <1>18, <1>19, <1>20, <1>21,
           <1>22, <1>23, <1>24, <1>25, <1>26
       DEF Next, ClientStep, ResumeStep

LEMMA ClientKnowsStep ==
  ASSUME DeepResearchAssumption, ResearchInv, [Next]_vars PROVE ClientKnows'
<1> USE DEF DeepResearchAssumption, ResearchInv, TypeOK, ClientKnows, Early, InTime, Ended,
            Final, LoseSight, NotCreated, NamedBy, StoreDeleted, SeenEnd, others, client, resumes, cleans, Leave, Keep, DeleteStore
<1>1. CASE Upload
  BY <1>1 DEF Upload
<1>2. CASE Create
  BY <1>2 DEF Create
<1>3. CASE Backoff
  BY <1>3 DEF Backoff
<1>4. CASE Save
  BY <1>4 DEF Save
<1>5. CASE PollAnswered
  BY <1>5 DEF PollAnswered
<1>6. CASE PollRetried
  BY <1>6 DEF PollRetried
<1>7. CASE PollTimesOut
  BY <1>7 DEF PollTimesOut
<1>8. CASE PollFails
  BY <1>8 DEF PollFails
<1>9. CASE PollCancelled
  BY <1>9 DEF PollCancelled
<1>10. CASE Sections
  BY <1>10 DEF Sections
<1>11. CASE Publish
  BY <1>11 DEF Publish
<1>12. CASE Acknowledge
  BY <1>12 DEF Acknowledge
<1>13. CASE Crash
  BY <1>13 DEF Crash
<1>14. ASSUME NEW i \in Ids, InteractionEnds(i) PROVE ClientKnows'
  BY <1>14 DEF InteractionEnds
<1>15. CASE StoreAges
  BY <1>15 DEF StoreAges
<1>16. CASE ResumeBegins
  BY <1>16 DEF ResumeBegins
<1>17. ASSUME NEW i \in Ids, ResumeFinds(i) PROVE ClientKnows'
  BY <1>17 DEF ResumeFinds
<1>18. ASSUME NEW i \in Ids, ResumeSkips(i) PROVE ClientKnows'
  BY <1>18 DEF ResumeSkips
<1>19. CASE ResumeDone
  BY <1>19 DEF ResumeDone
<1>20. CASE ResumeOutputs
  BY <1>20 DEF ResumeOutputs
<1>21. CASE ResumeStore
  BY <1>21 DEF ResumeStore
<1>22. CASE ResumeRemoves
  BY <1>22 DEF ResumeRemoves
<1>23. CASE ResumeCrashes
  BY <1>23 DEF ResumeCrashes
<1>24. CASE CleanerReads
  BY <1>24 DEF CleanerReads
<1>25. CASE CleanerDeletes
  BY <1>25 DEF CleanerDeletes
<1>26. CASE UNCHANGED vars
  BY <1>26 DEF vars
<1> QED BY <1>1, <1>2, <1>3, <1>4, <1>5, <1>6, <1>7, <1>8, <1>9, <1>10, <1>11,
           <1>12, <1>13, <1>14, <1>15, <1>16, <1>17, <1>18, <1>19, <1>20, <1>21,
           <1>22, <1>23, <1>24, <1>25, <1>26
       DEF Next, ClientStep, ResumeStep

LEMMA ResumeKnowsStep ==
  ASSUME DeepResearchAssumption, ResearchInv, [Next]_vars PROVE ResumeKnows'
<1> USE DEF DeepResearchAssumption, ResearchInv, TypeOK, ClientKnows, ResumeKnows, Early,
            InTime, Settled, Ended, Final, Idle, LoseSight, NotCreated, NamedBy, StoreDeleted, SeenEnd, others, client, resumes, cleans, Leave, Keep, DeleteStore
<1>1. CASE Upload
  BY <1>1 DEF Upload
<1>2. CASE Create
  <2>1. resume.left = {} /\ resume.named = {}
    BY <1>2 DEF Create, Ids
  <2> QED BY <1>2, <2>1 DEF Create
<1>3. CASE Backoff
  BY <1>3 DEF Backoff
<1>4. CASE Save
  BY <1>4 DEF Save
<1>5. CASE PollAnswered
  BY <1>5 DEF PollAnswered
<1>6. CASE PollRetried
  BY <1>6 DEF PollRetried
<1>7. CASE PollTimesOut
  BY <1>7 DEF PollTimesOut
<1>8. CASE PollFails
  BY <1>8 DEF PollFails
<1>9. CASE PollCancelled
  BY <1>9 DEF PollCancelled
<1>10. CASE Sections
  BY <1>10 DEF Sections
<1>11. CASE Publish
  BY <1>11 DEF Publish
<1>12. CASE Acknowledge
  BY <1>12 DEF Acknowledge
<1>13. CASE Crash
  BY <1>13 DEF Crash
<1>14. ASSUME NEW i \in Ids, InteractionEnds(i) PROVE ResumeKnows'
  BY <1>14 DEF InteractionEnds
<1>15. CASE StoreAges
  BY <1>15 DEF StoreAges
<1>16. CASE ResumeBegins
  BY <1>16 DEF ResumeBegins
<1>17. ASSUME NEW i \in Ids, ResumeFinds(i) PROVE ResumeKnows'
  BY <1>17 DEF ResumeFinds
<1>18. ASSUME NEW i \in Ids, ResumeSkips(i) PROVE ResumeKnows'
  BY <1>18 DEF ResumeSkips
<1>19. CASE ResumeDone
  BY <1>19 DEF ResumeDone
<1>20. CASE ResumeOutputs
  BY <1>20 DEF ResumeOutputs
<1>21. CASE ResumeStore
  BY <1>21 DEF ResumeStore
<1>22. CASE ResumeRemoves
  BY <1>22 DEF ResumeRemoves
<1>23. CASE ResumeCrashes
  BY <1>23 DEF ResumeCrashes
<1>24. CASE CleanerReads
  BY <1>24 DEF CleanerReads
<1>25. CASE CleanerDeletes
  BY <1>25 DEF CleanerDeletes
<1>26. CASE UNCHANGED vars
  BY <1>26 DEF vars
<1> QED BY <1>1, <1>2, <1>3, <1>4, <1>5, <1>6, <1>7, <1>8, <1>9, <1>10, <1>11,
           <1>12, <1>13, <1>14, <1>15, <1>16, <1>17, <1>18, <1>19, <1>20, <1>21,
           <1>22, <1>23, <1>24, <1>25, <1>26
       DEF Next, ClientStep, ResumeStep

LEMMA RecordNamesStep ==
  ASSUME DeepResearchAssumption, ResearchInv, [Next]_vars PROVE RecordNames'
<1> USE DEF DeepResearchAssumption, ResearchInv, TypeOK, ClientKnows, ResumeKnows, RecordNames,
            Early, InTime, Ended, Final, LoseSight, NotCreated, NamedBy, StoreDeleted, SeenEnd, others, client, resumes, cleans, Leave, Keep, DeleteStore
<1>1. CASE Upload
  BY <1>1 DEF Upload
<1>2. CASE Create
  BY <1>2 DEF Create
<1>3. CASE Backoff
  BY <1>3 DEF Backoff
<1>4. CASE Save
  BY <1>4 DEF Save
<1>5. CASE PollAnswered
  BY <1>5 DEF PollAnswered
<1>6. CASE PollRetried
  BY <1>6 DEF PollRetried
<1>7. CASE PollTimesOut
  BY <1>7 DEF PollTimesOut
<1>8. CASE PollFails
  BY <1>8 DEF PollFails
<1>9. CASE PollCancelled
  BY <1>9 DEF PollCancelled
<1>10. CASE Sections
  BY <1>10 DEF Sections
<1>11. CASE Publish
  BY <1>11 DEF Publish
<1>12. CASE Acknowledge
  BY <1>12 DEF Acknowledge
<1>13. CASE Crash
  BY <1>13 DEF Crash
<1>14. ASSUME NEW i \in Ids, InteractionEnds(i) PROVE RecordNames'
  BY <1>14 DEF InteractionEnds
<1>15. CASE StoreAges
  BY <1>15 DEF StoreAges
<1>16. CASE ResumeBegins
  BY <1>16 DEF ResumeBegins
<1>17. ASSUME NEW i \in Ids, ResumeFinds(i) PROVE RecordNames'
  BY <1>17 DEF ResumeFinds
<1>18. ASSUME NEW i \in Ids, ResumeSkips(i) PROVE RecordNames'
  BY <1>18 DEF ResumeSkips
<1>19. CASE ResumeDone
  BY <1>19 DEF ResumeDone
<1>20. CASE ResumeOutputs
  BY <1>20 DEF ResumeOutputs
<1>21. CASE ResumeStore
  BY <1>21 DEF ResumeStore
<1>22. CASE ResumeRemoves
  BY <1>22 DEF ResumeRemoves
<1>23. CASE ResumeCrashes
  BY <1>23 DEF ResumeCrashes
<1>24. CASE CleanerReads
  BY <1>24 DEF CleanerReads
<1>25. CASE CleanerDeletes
  BY <1>25 DEF CleanerDeletes
<1>26. CASE UNCHANGED vars
  BY <1>26 DEF vars
<1> QED BY <1>1, <1>2, <1>3, <1>4, <1>5, <1>6, <1>7, <1>8, <1>9, <1>10, <1>11,
           <1>12, <1>13, <1>14, <1>15, <1>16, <1>17, <1>18, <1>19, <1>20, <1>21,
           <1>22, <1>23, <1>24, <1>25, <1>26
       DEF Next, ClientStep, ResumeStep

LEMMA CleanerKnowsStep ==
  ASSUME DeepResearchAssumption, ResearchInv, [Next]_vars PROVE CleanerKnows'
<1> USE DEF DeepResearchAssumption, ResearchInv, TypeOK, ClientKnows, RecordNames, CleanerKnows,
            Early, InTime, Ended, Final, Known, LoseSight, NotCreated, NamedBy, StoreDeleted, SeenEnd, others, client, resumes, cleans, Leave, Keep, DeleteStore
<1>1. CASE Upload
  BY <1>1 DEF Upload
<1>2. CASE Create
  BY <1>2 DEF Create
<1>3. CASE Backoff
  BY <1>3 DEF Backoff
<1>4. CASE Save
  BY <1>4 DEF Save
<1>5. CASE PollAnswered
  BY <1>5 DEF PollAnswered
<1>6. CASE PollRetried
  BY <1>6 DEF PollRetried
<1>7. CASE PollTimesOut
  BY <1>7 DEF PollTimesOut
<1>8. CASE PollFails
  BY <1>8 DEF PollFails
<1>9. CASE PollCancelled
  BY <1>9 DEF PollCancelled
<1>10. CASE Sections
  BY <1>10 DEF Sections
<1>11. CASE Publish
  BY <1>11 DEF Publish
<1>12. CASE Acknowledge
  BY <1>12 DEF Acknowledge
<1>13. CASE Crash
  BY <1>13 DEF Crash
<1>14. ASSUME NEW i \in Ids, InteractionEnds(i) PROVE CleanerKnows'
  BY <1>14 DEF InteractionEnds
<1>15. CASE StoreAges
  BY <1>15 DEF StoreAges
<1>16. CASE ResumeBegins
  BY <1>16 DEF ResumeBegins
<1>17. ASSUME NEW i \in Ids, ResumeFinds(i) PROVE CleanerKnows'
  BY <1>17 DEF ResumeFinds
<1>18. ASSUME NEW i \in Ids, ResumeSkips(i) PROVE CleanerKnows'
  BY <1>18 DEF ResumeSkips
<1>19. CASE ResumeDone
  BY <1>19 DEF ResumeDone
<1>20. CASE ResumeOutputs
  BY <1>20 DEF ResumeOutputs
<1>21. CASE ResumeStore
  BY <1>21 DEF ResumeStore
<1>22. CASE ResumeRemoves
  BY <1>22 DEF ResumeRemoves
<1>23. CASE ResumeCrashes
  BY <1>23 DEF ResumeCrashes
<1>24. CASE CleanerReads
  BY <1>24 DEF CleanerReads
<1>25. CASE CleanerDeletes
  BY <1>25 DEF CleanerDeletes
<1>26. CASE UNCHANGED vars
  BY <1>26 DEF vars
<1> QED BY <1>1, <1>2, <1>3, <1>4, <1>5, <1>6, <1>7, <1>8, <1>9, <1>10, <1>11,
           <1>12, <1>13, <1>14, <1>15, <1>16, <1>17, <1>18, <1>19, <1>20, <1>21,
           <1>22, <1>23, <1>24, <1>25, <1>26
       DEF Next, ClientStep, ResumeStep

LEMMA ResearchInvInit == ASSUME DeepResearchAssumption, Init PROVE ResearchInv
<1> USE DEF DeepResearchAssumption, Init, Idle
<1>1. TypeOK
  <2>1. Idle \in [at : {"idle", "next", "output", "store", "remove"},
                  id : {0} \union Ids, left : SUBSET Ids, named : SUBSET Ids]
    OBVIOUS
  <2>2. attempt \in 0..MaxRetries /\ errors \in 0..MaxPollErrors
    OBVIOUS
  <2>3. /\ inter \in [Ids -> {"none", "running"} \union Ended]
        /\ record \in [Ids -> {"none", "plain", "named"}]
    OBVIOUS
  <2>4. resume \in [at : {"idle", "next", "output", "store", "remove"},
                   id : {0} \union Ids, left : SUBSET Ids, named : SUBSET Ids]
    BY <2>1
  <2>5. /\ flow \in Flows /\ mine \in {0} \union Ids /\ store \in {"none", "live", "deleted"}
        /\ aged \in BOOLEAN /\ outputs \subseteq Ids /\ pc = "upload" /\ cleaner = "idle"
        /\ unheard \in BOOLEAN
    OBVIOUS
  <2> HIDE DEF Init
  <2> QED BY <2>2, <2>3, <2>4, <2>5 DEF TypeOK
<1>2. ClientKnows /\ ResumeKnows /\ RecordNames /\ CleanerKnows
  BY <1>1 DEF TypeOK, ClientKnows, ResumeKnows, RecordNames, CleanerKnows, Early, Ids
<1> QED BY <1>1, <1>2 DEF ResearchInv

LEMMA ResearchInvStep ==
  ASSUME DeepResearchAssumption, ResearchInv, [Next]_vars PROVE ResearchInv'
<1> QED BY ResearchTypeStep, ClientKnowsStep, ResumeKnowsStep, RecordNamesStep, CleanerKnowsStep
        DEF ResearchInv

(* Who removes a record knows that it is settled,                               *)
LEMMA RecordsOutlive ==
  ASSUME DeepResearchAssumption, ResearchInv, [Next]_vars,
         NEW k \in Ids, record[k] # "none", record'[k] = "none"
  PROVE  Settled(k)
<1> USE DEF DeepResearchAssumption, ResearchInv, TypeOK, ClientKnows, Early, Settled,
            others, client, resumes, cleans, Leave, Keep
<1>1. CASE Acknowledge
  BY <1>1 DEF Acknowledge
<1>2. CASE ResumeRemoves
  BY <1>2 DEF ResumeRemoves, ResumeKnows
<1>3. CASE Save
  BY <1>3 DEF Save, NamedBy
<1>4. CASE record' = record
  BY <1>4
<1>5. CASE \/ ClientStep /\ ~Save /\ ~Acknowledge
           \/ Crash \/ StoreAges \/ \E i \in Ids : InteractionEnds(i)
  <2>1. record' = record
    BY <1>5 DEF ClientStep, Upload, Create, Backoff, PollAnswered, PollRetried, PollTimesOut,
                PollFails, PollCancelled, Sections, Publish, Crash, StoreAges, InteractionEnds
  <2> QED BY <1>4, <2>1
<1>6. CASE \/ ResumeStep /\ ~ResumeRemoves
           \/ ResumeCrashes \/ CleanerReads \/ CleanerDeletes
  <2>1. record' = record
    BY <1>6 DEF ResumeStep, ResumeBegins, ResumeFinds, ResumeSkips, ResumeDone, ResumeOutputs,
                ResumeStore, ResumeCrashes, CleanerReads, CleanerDeletes
  <2> QED BY <1>4, <2>1
<1>7. CASE UNCHANGED vars
  BY <1>7 DEF vars
<1> QED BY <1>1, <1>2, <1>3, <1>5, <1>6, <1>7 DEF Next

(* and who deletes a store that is kept, that nobody known is working with it.  *)
LEMMA StoresKept ==
  ASSUME DeepResearchAssumption, ResearchInv, [Next]_vars, flow = "orchestrator",
         store = "live", store' = "deleted", NEW k \in Ids, Known(k)
  PROVE  inter[k] # "running"
<1> USE DEF DeepResearchAssumption, ResearchInv, TypeOK, ClientKnows, Early, Known, InTime, Ended,
            Ids, others, client, resumes, cleans, Leave, Keep, DeleteStore
<1>1. k = mine
  OBVIOUS
<1>2. CASE Upload \/ Create \/ Backoff
  BY <1>1, <1>2 DEF Upload, Create, Backoff, NotCreated
<1>3. CASE Save \/ PollTimesOut \/ PollFails \/ PollCancelled
  BY <1>3 DEF Save, PollTimesOut, PollFails, PollCancelled, LoseSight
<1>4. CASE PollAnswered \/ Sections
  BY <1>1, <1>4 DEF PollAnswered, Sections, SeenEnd
<1>5. CASE ResumeStore
  BY <1>1, <1>5 DEF ResumeStore, ResumeKnows
<1>6. CASE CleanerDeletes
  BY <1>6 DEF CleanerDeletes, CleanerKnows
<1>7. CASE PollRetried \/ Publish \/ Acknowledge \/ Crash \/ StoreAges
  BY <1>7 DEF PollRetried, Publish, Acknowledge, Crash, StoreAges
<1>8. CASE ResumeStep /\ ~ResumeStore
  BY <1>8 DEF ResumeStep, ResumeBegins, ResumeFinds, ResumeSkips, ResumeDone, ResumeOutputs,
              ResumeRemoves
<1>9. CASE ResumeCrashes \/ CleanerReads \/ \E i \in Ids : InteractionEnds(i)
  BY <1>9 DEF ResumeCrashes, CleanerReads, InteractionEnds
<1>10. CASE UNCHANGED vars
  BY <1>10 DEF vars
<1> QED BY <1>2, <1>3, <1>4, <1>5, <1>6, <1>7, <1>8, <1>9, <1>10 DEF Next, ClientStep

(* The types hold in every way of running a job, however often it is retried.   *)
THEOREM ResearchTypeCorrect == DeepResearchAssumption => (Spec => []TypeOK)
<1> SUFFICES ASSUME DeepResearchAssumption PROVE Spec => []TypeOK
  OBVIOUS
<1>1. Init => ResearchInv
  BY ResearchInvInit
<1>2. ResearchInv /\ [Next]_vars => ResearchInv'
  BY ResearchInvStep
<1>3. ResearchInv => TypeOK
  BY DEF ResearchInv
<1> QED BY <1>1, <1>2, <1>3, PTL DEF Spec

(* Client, resume and cleanup, in any order and dying anywhere, remove a record *)
(* only when its report is on disk or will never come, and - in the way that    *)
(* keeps it - the store only when no known interaction is reading it; also when *)
(* the answer to a creation is lost.                                            *)
THEOREM NeedsAreMet == DeepResearchAssumption => (Spec => NothingGoesEarly)
<1> SUFFICES ASSUME DeepResearchAssumption PROVE Spec => NothingGoesEarly
  OBVIOUS
<1> DEFINE Outlives == \A i \in Ids : record[i] # "none" /\ record'[i] = "none"
                          => i \in outputs \/ inter[i] \in {"failed", "expired"}
           Kept == flow = "orchestrator" => StoreKept
<1>1. Init => ResearchInv
  BY ResearchInvInit
<1>2. ResearchInv /\ [Next]_vars => ResearchInv'
  BY ResearchInvStep
<1>3. ResearchInv /\ [Next]_vars => [Outlives]_vars
  BY RecordsOutlive DEF Settled
<1>4. ResearchInv /\ [Next]_vars => [Kept]_vars
  BY StoresKept DEF StoreKept
<1>5. Spec => RecordOutlivesNeed
  BY <1>1, <1>2, <1>3, PTL DEF Spec, RecordOutlivesNeed
<1>6. Spec => [][Kept]_vars
  BY <1>1, <1>2, <1>4, PTL DEF Spec
<1> QED BY <1>5, <1>6, PTL DEF NothingGoesEarly

LEMMA ToldStep ==
  ASSUME DeepResearchAssumption, ResearchInv, ToldOfAll, [Next]_vars
  PROVE  ToldOfAll'
<1> USE DEF DeepResearchAssumption, ResearchInv, TypeOK, ClientKnows, ToldOfAll, Ids,
            others, client, resumes, cleans, Leave, Keep
<1>1. CASE Create
  <2> SUFFICES ASSUME ~unheard' PROVE ToldOfAll'
    OBVIOUS
  <2>1. ~unheard /\ \A k \in Ids : inter[k] = "none"
    BY <1>1 DEF Create
  <2>2. CASE inter' = [inter EXCEPT ![attempt'] = "running"] /\ mine' = attempt'
    BY <2>1, <2>2
  <2>3. CASE inter' = inter
    BY <2>1, <2>3
  <2> QED BY <1>1, <2>2, <2>3 DEF Create
<1>2. ASSUME NEW i \in Ids, InteractionEnds(i) PROVE ToldOfAll'
  BY <1>2 DEF InteractionEnds
<1>3. CASE \/ ClientStep /\ ~Create
           \/ Crash \/ StoreAges
  BY <1>3 DEF ClientStep, Upload, Backoff, Save, PollAnswered, PollRetried, PollTimesOut,
              PollFails, PollCancelled, Sections, Publish, Acknowledge, Crash, StoreAges
<1>4. CASE ResumeStep \/ ResumeCrashes \/ CleanerReads \/ CleanerDeletes
  BY <1>4 DEF ResumeStep, ResumeBegins, ResumeFinds, ResumeSkips, ResumeDone, ResumeOutputs,
              ResumeStore, ResumeRemoves, ResumeCrashes, CleanerReads, CleanerDeletes
<1>5. CASE UNCHANGED vars
  BY <1>5 DEF vars
<1> QED BY <1>1, <1>2, <1>3, <1>4, <1>5 DEF Next

(* As long as the answers to creations have arrived, retries start a job once.  *)
THEOREM StartedOnce == DeepResearchAssumption => (Spec => []OneInteraction)
<1> SUFFICES ASSUME DeepResearchAssumption PROVE Spec => []OneInteraction
  OBVIOUS
<1>1. Init => ResearchInv /\ ToldOfAll
  <2>1. Init => ResearchInv
    BY ResearchInvInit
  <2>2. Init => ToldOfAll
    BY DEF Init, ToldOfAll
  <2> QED BY <2>1, <2>2
<1>2. ResearchInv /\ ToldOfAll /\ [Next]_vars => ResearchInv' /\ ToldOfAll'
  BY ResearchInvStep, ToldStep
<1>3. ResearchInv /\ ToldOfAll => OneInteraction
  <2> SUFFICES ASSUME ToldOfAll, ~unheard PROVE StartedAtMostOnce
    BY DEF OneInteraction, StartedAtMostOnce, ResearchInv
  <2> DEFINE begun == {k \in Ids : inter[k] # "none"}
  <2>1. begun \subseteq {mine}
    BY DEF ToldOfAll
  <2>2. Cardinality(begun) <= Cardinality({mine}) /\ IsFiniteSet({mine})
    BY <2>1, FS_Singleton, FS_Subset
  <2>3. Cardinality({mine}) = 1
    BY FS_Singleton
  <2> QED BY <2>2, <2>3 DEF StartedAtMostOnce
<1> QED BY <1>1, <1>2, <1>3, PTL DEF Spec

-------------------------------------------------------------------------------
(* The outputs of a recovered report. The artifacts are taken one by one, so an *)
(* invariant says how each of them stands before and after its turn.            *)

Slots == 1..Len(Artifacts)

(* In place are the new artifacts whose turn is over, whoever interrupts.       *)
InPlace ==
    /\ place = "promote" => \A k \in Slots : k < turn => final[Artifacts[k]] = "new"
    /\ place = "notePromote" => \A k \in Slots : k <= turn => final[Artifacts[k]] = "new"
    /\ place \in {"verify", "finish", "done"} => \A k \in Slots : final[Artifacts[k]] = "new"

(* How an output may stand: as it was, out of the way, or replaced.             *)
Untouched(a) == final[a] = before[a] /\ backup[a] = "none" /\ a \notin backups
Away(a) == before[a] = "old" /\ final[a] = "none" /\ backup[a] = "old" /\ a \in backups
Unnoted(a) == before[a] = "old" /\ final[a] = "none" /\ backup[a] = "old" /\ a \notin backups
Moved(a) ==
    \/ before[a] = "none" /\ Untouched(a)
    \/ Away(a)
Put(a) ==
    /\ final[a] = "new"
    /\ IF before[a] = "old" THEN backup[a] = "old" /\ a \in backups
       ELSE backup[a] = "none" /\ a \notin backups

(* What a roll-back finds, what it leaves of the new, and what it ends with.    *)
Found(a) ==
    \/ Put(a) /\ a \in published
    \/ Untouched(a) /\ a \notin published
    \/ Away(a) /\ a \notin published
Rolled(a) ==
    /\ ~failed => Untouched(a) \/ Away(a)
    /\ before[a] = "old" => IF a \in backups THEN backup[a] = "old" ELSE final[a] = "old"
Restored(a) ==
    /\ ~failed => final[a] = before[a]
    /\ before[a] = "old" => "old" \in {final[a], backup[a]}

(* An artifact a, its turn over, under way or to come, where the saving is.     *)
Before(a) ==
    /\ place \in {"render", "move", "noteMove"} => Untouched(a) /\ a \notin published
    /\ place \in {"promote", "notePromote"} => Moved(a) /\ a \notin published
    /\ place = "unpublish" => Found(a)
    /\ place = "restore" => Rolled(a)
During(a) ==
    /\ place \in {"render", "move"} => Untouched(a) /\ a \notin published
    /\ place = "noteMove" => Unnoted(a) /\ a \notin published
    /\ place = "promote" => Moved(a) /\ a \notin published
    /\ place = "notePromote" => Put(a) /\ a \notin published
    /\ place = "unpublish" => Found(a)
    /\ place = "restore" => Rolled(a)
After(a) ==
    /\ place \in {"move", "noteMove"} => Moved(a) /\ a \notin published
    /\ place \in {"promote", "notePromote"} => Put(a) /\ a \in published
    /\ place = "unpublish" => Rolled(a)
    /\ place = "restore" => Restored(a)

Always(a) ==
    /\ place \in {"verify", "finish"} => Put(a) /\ a \in published
    /\ place = "cleanup" => Restored(a)
    /\ place = "raised" /\ ~failed => final[a] = before[a]

Stands(k) ==
    LET a == Artifacts[k]
    IN  /\ k > turn => Before(a)
        /\ k = turn => During(a)
        /\ k < turn => After(a)
        /\ Always(a)

OutputsInv ==
    /\ BundleTypeOK
    /\ place \in Trying => ~failed
    /\ place = "render" => turn = 1
    /\ \A k \in Slots : Stands(k)
    /\ NothingLost

(* Each artifact has a name of its own.                                         *)
LEMMA NamesDiffer ==
  ASSUME RecoveredOutputsAssumption, NEW k \in Slots, NEW l \in Slots, k # l
  PROVE  Artifacts[k] # Artifacts[l] /\ Artifacts[k] \in Names
  BY DEF RecoveredOutputsAssumption, Names, Slots

LEMMA OutputsTypeStep ==
  ASSUME RecoveredOutputsAssumption, BundleTypeOK, [BundleNext]_bundleVars
  PROVE  BundleTypeOK'
<1> USE DEF RecoveredOutputsAssumption, BundleTypeOK, Files,
            Advance, RollBack, Current, files, memory, Removal,
            Trying, Stopped
<1>c. Current \in Names
  BY DEF Names
<1> USE <1>c
<1>1. CASE Render
  BY <1>1 DEF Render
<1>2. CASE MoveAway
  BY <1>2 DEF MoveAway
<1>3. CASE NoteMove
  BY <1>3 DEF NoteMove
<1>4. CASE Promote
  BY <1>4 DEF Promote
<1>5. CASE NotePromote
  BY <1>5 DEF NotePromote
<1>6. CASE Verify
  BY <1>6 DEF Verify
<1>7. CASE Unpublish
  <2>1. place' \in {"unpublish", "restore"} /\ turn' \in 1..Len(Artifacts)
    BY <1>7 DEF Unpublish
  <2>2. final' \in [Names -> Files] /\ failed' \in BOOLEAN
    BY <1>7 DEF Unpublish
  <2> QED BY <1>7, <2>1, <2>2 DEF Unpublish
<1>8. CASE Restore
  <2>1. place' \in {"restore", "cleanup"} /\ turn' \in 1..Len(Artifacts)
    BY <1>8 DEF Restore
  <2>2. /\ final' \in [Names -> Files] /\ failed' \in BOOLEAN
        /\ backup' \in [Names -> Files]
    BY ZenonT(30), <1>8 DEF Restore
  <2> QED BY <1>8, <2>1, <2>2 DEF Restore
<1>9. CASE Cleanup
  BY <1>9 DEF Cleanup
<1>10. CASE Interrupt
  BY <1>10 DEF Interrupt
<1>11. CASE SaverDies
  BY <1>11 DEF SaverDies
<1>12. CASE UNCHANGED bundleVars
  BY <1>12 DEF bundleVars
<1> QED BY <1>1, <1>2, <1>3, <1>4, <1>5, <1>6, <1>7, <1>8, <1>9, <1>10, <1>11, <1>12
       DEF BundleNext

(* A step of the saving puts in place one more, or leaves them all.             *)
LEMMA InPlaceStep ==
  ASSUME RecoveredOutputsAssumption, BundleTypeOK, InPlace, [BundleNext]_bundleVars
  PROVE  InPlace'
<1> USE DEF RecoveredOutputsAssumption, BundleTypeOK, InPlace, Slots,
            Advance, RollBack, Current, files, memory, Removal,
            Trying, Stopped
<1>1. CASE Render
  BY <1>1 DEF Render
<1>2. CASE MoveAway
  BY <1>2 DEF MoveAway
<1>3. CASE NoteMove
  BY <1>3 DEF NoteMove
<1>4. CASE Promote
  <2>1. Artifacts[turn] \in Names
    BY DEF Names
  <2>2. \A k \in Slots : k < turn => final'[Artifacts[k]] = "new"
    BY <1>4, <2>1, NamesDiffer DEF Promote
  <2>3. place' = "notePromote" => turn' = turn /\ final'[Artifacts[turn]] = "new"
    BY <1>4, <2>1 DEF Promote
  <2> QED BY <1>4, <2>2, <2>3 DEF Promote
<1>5. CASE NotePromote
  BY <1>5 DEF NotePromote
<1>6. CASE Verify
  BY <1>6 DEF Verify
<1>7. CASE Unpublish
  <2>1. place' \in {"unpublish", "restore"}
    BY <1>7 DEF Unpublish
  <2> QED BY <2>1
<1>8. CASE Restore
  <2>1. place' \in {"restore", "cleanup"}
    BY <1>8 DEF Restore
  <2> QED BY <2>1
<1>9. CASE Cleanup
  BY <1>9 DEF Cleanup
<1>10. CASE Interrupt
  BY <1>10 DEF Interrupt
<1>11. CASE SaverDies
  BY <1>11 DEF SaverDies
<1>12. CASE UNCHANGED bundleVars
  BY <1>12 DEF bundleVars
<1> QED BY <1>1, <1>2, <1>3, <1>4, <1>5, <1>6, <1>7, <1>8, <1>9, <1>10, <1>11, <1>12
       DEF BundleNext

(* Uninterrupted, a step moves an artifact from one side of its turn to the      *)
(* other, and leaves the others as they stand.                                  *)
LEMMA StandsStep ==
  ASSUME RecoveredOutputsAssumption, OutputsInv, interrupts' = 0,
         [BundleNext]_bundleVars
  PROVE  \A k \in Slots : Stands(k)'
<1> TAKE k \in Slots
<1> USE DEF RecoveredOutputsAssumption, BundleTypeOK, OutputsInv, Slots, Stands, Before,
            During, After, Always, Found, Rolled, Restored, Moved, Put, Unnoted, Away, Untouched,
            Files,
            Advance, RollBack, Current, files, memory, Removal,
            Trying, Stopped
<1>n. Artifacts[k] \in Names /\ Artifacts[turn] \in Names /\ turn \in Slots
  BY DEF Names
<1>t. BundleTypeOK'
  BY OutputsTypeStep
<1> USE <1>n, <1>t
<1>1. CASE Render
  BY <1>1 DEF Render
<1>2. CASE MoveAway
  <2>1. CASE k = turn
    BY <1>2, <2>1 DEF MoveAway
  <2>2. CASE k # turn
    <3>1. Artifacts[k] # Artifacts[turn]
      BY <2>2, NamesDiffer
    <3> QED BY <1>2, <2>2, <3>1 DEF MoveAway
  <2> QED BY <2>1, <2>2
<1>3. CASE NoteMove
  <2>1. CASE k = turn
    BY <1>3, <2>1 DEF NoteMove
  <2>2. CASE k # turn
    <3>1. Artifacts[k] # Artifacts[turn]
      BY <2>2, NamesDiffer
    <3> QED BY <1>3, <2>2, <3>1 DEF NoteMove
  <2> QED BY <2>1, <2>2
<1>4. CASE Promote
  <2>1. CASE k = turn
    BY <1>4, <2>1 DEF Promote
  <2>2. CASE k # turn
    <3>1. Artifacts[k] # Artifacts[turn]
      BY <2>2, NamesDiffer
    <3> QED BY <1>4, <2>2, <3>1 DEF Promote
  <2> QED BY <2>1, <2>2
<1>5. CASE NotePromote
  <2>1. CASE k = turn
    BY <1>5, <2>1 DEF NotePromote
  <2>2. CASE k # turn
    <3>1. Artifacts[k] # Artifacts[turn]
      BY <2>2, NamesDiffer
    <3> QED BY <1>5, <2>2, <3>1 DEF NotePromote
  <2> QED BY <2>1, <2>2
<1>6. CASE Verify
  BY <1>6 DEF Verify
<1>7. CASE Unpublish
  <2>1. CASE k = turn
    BY <1>7, <2>1 DEF Unpublish
  <2>2. CASE k # turn
    <3>1. Artifacts[k] # Artifacts[turn]
      BY <2>2, NamesDiffer
    <3> QED BY <1>7, <2>2, <3>1 DEF Unpublish
  <2> QED BY <2>1, <2>2
<1>8. CASE Restore
  <2>1. CASE k = turn
    BY <1>8, <2>1 DEF Restore
  <2>2. CASE k # turn
    <3>1. Artifacts[k] # Artifacts[turn]
      BY <2>2, NamesDiffer
    <3> QED BY <1>8, <2>2, <3>1 DEF Restore
  <2> QED BY <2>1, <2>2
<1>9. CASE Cleanup
  BY <1>9 DEF Cleanup
<1>10. CASE Interrupt
  BY <1>10 DEF Interrupt
<1>11. CASE SaverDies
  BY <1>11 DEF SaverDies
<1>12. CASE UNCHANGED bundleVars
  BY <1>12 DEF bundleVars
<1> QED BY <1>1, <1>2, <1>3, <1>4, <1>5, <1>6, <1>7, <1>8, <1>9, <1>10, <1>11, <1>12
       DEF BundleNext

(* Nothing has failed while the process still tries, and nothing has been tried  *)
(* while it renders.                                                            *)
LEMMA TryingStep ==
  ASSUME RecoveredOutputsAssumption, OutputsInv, interrupts' = 0,
         [BundleNext]_bundleVars
  PROVE  /\ place' \in Trying => ~failed'
         /\ place' = "render" => turn' = 1
<1> USE DEF RecoveredOutputsAssumption, OutputsInv, BundleTypeOK, Advance,
            RollBack, memory, Trying, Stopped
<1>1. CASE Render \/ MoveAway \/ NoteMove
  BY <1>1 DEF Render, MoveAway, NoteMove
<1>2. CASE Promote \/ NotePromote \/ Verify
  BY <1>2 DEF Promote, NotePromote, Verify
<1>3. CASE \/ Unpublish \/ Restore \/ Cleanup
           \/ Interrupt \/ SaverDies
  <2>1. place' \notin Trying
    BY <1>3 DEF Unpublish, Restore, Cleanup, Interrupt,
                SaverDies
  <2> QED BY <2>1
<1>4. CASE UNCHANGED bundleVars
  BY <1>4 DEF bundleVars
<1> QED BY <1>1, <1>2, <1>3, <1>4 DEF BundleNext

(* Before the process has stopped, how the artifacts stand says where the       *)
(* earlier outputs are; when it is about to end well, the new ones are in place. *)
LEMMA OutputsFound ==
  ASSUME RecoveredOutputsAssumption, OutputsInv, interrupts' = 0,
         [BundleNext]_bundleVars
  PROVE  NothingLost'
<1>1. BundleTypeOK' /\ \A k \in Slots : Stands(k)'
  BY OutputsTypeStep, StandsStep DEF OutputsInv
<1>2. CASE place' \notin Stopped
  <2> SUFFICES ASSUME NEW a \in Names, before'[a] = "old", place' # "finish",
                      place' # "verify"
               PROVE  "old" \in {final'[a], backup'[a]}
    <3>1. CASE place' \in {"finish", "verify"}
      <4>1. \A k \in Slots : final'[Artifacts[k]] = "new"
        BY <1>1, <3>1 DEF Stands, Always, Put
      <4> QED BY <4>1 DEF NothingLost, Names, Slots
    <3> QED BY <3>1 DEF NothingLost
  <2>1. PICK k \in Slots : a = Artifacts[k]
    BY DEF Names, Slots
  <2>2. Stands(k)' /\ turn' \in Slots
    BY <1>1 DEF BundleTypeOK, Slots
  <2>3. k \in Int /\ turn' \in Int
    BY <2>2 DEF Slots
  <2>4. CASE k > turn'
    <3>1. Before(a)'
      BY <2>1, <2>2, <2>4 DEF Stands
    <3> QED BY <1>1, <1>2, <2>1, <2>2, <3>1
         DEF Stands, Before, Always, Found, Rolled, Restored, Moved, Put, Away, Untouched,
             BundleTypeOK, Trying, Stopped
  <2>5. CASE k = turn'
    <3> QED BY <1>1, <1>2, <2>1, <2>2, <2>5
         DEF Stands, During, Always, Found, Rolled, Restored, Moved, Put, Unnoted, Away,
             Untouched, BundleTypeOK, Trying, Stopped
  <2>6. CASE k < turn'
    <3>1. place' # "render"
      BY <2>2, <2>6, TryingStep DEF Slots
    <3> QED BY <1>1, <1>2, <2>1, <2>2, <2>6, <3>1
         DEF Stands, After, Always, Rolled, Restored, Moved, Put, Away, Untouched,
             BundleTypeOK, Trying, Stopped
  <2> QED BY <2>3, <2>4, <2>5, <2>6
<1>3. CASE Cleanup
  <2>1. CASE place = "finish"
    <3>1. \A k \in Slots : final'[Artifacts[k]] = "new"
      BY <1>3, <2>1 DEF OutputsInv, Stands, Always, Put, Cleanup
    <3> QED BY <3>1 DEF NothingLost, Names, Slots
  <2>2. CASE place = "cleanup" /\ failed
    BY <1>3, <2>2 DEF Cleanup, OutputsInv, NothingLost
  <2>3. CASE place = "cleanup" /\ ~failed
    <3>1. \A k \in Slots : final'[Artifacts[k]] = before'[Artifacts[k]]
      BY <1>3, <2>3 DEF OutputsInv, Stands, Always, Restored, Cleanup
    <3> QED BY <3>1 DEF NothingLost, Names, Slots
  <2> QED BY <1>3, <2>1, <2>2, <2>3 DEF Cleanup
<1>4. CASE UNCHANGED <<final, before, backup>>
  BY <1>4 DEF OutputsInv, NothingLost
<1>5. CASE \/ SaverDies \/ Interrupt \/ UNCHANGED bundleVars
  BY <1>4, <1>5 DEF SaverDies, Interrupt, bundleVars, files
<1>6. CASE \/ Render \/ MoveAway \/ NoteMove \/ Promote
           \/ NotePromote \/ Verify \/ Unpublish \/ Restore
  <2>1. place' \notin Stopped
    BY <1>6 DEF Render, MoveAway, NoteMove, Promote,
                NotePromote, Verify, Unpublish, Restore,
                Advance, RollBack, Stopped
  <2> QED BY <1>2, <2>1
<1> QED BY <1>3, <1>5, <1>6 DEF BundleNext

(* Interrupts are not taken back.                                               *)
LEMMA InterruptsStay ==
  ASSUME BundleTypeOK, [BundleNext]_bundleVars, interrupts' = 0
  PROVE  interrupts = 0
<1> USE DEF BundleTypeOK
<1>1. CASE Interrupt
  BY <1>1 DEF Interrupt
<1>2. CASE ~Interrupt
  BY <1>2 DEF BundleNext, Render, MoveAway, NoteMove, Promote, NotePromote, Verify, Unpublish,
              Restore, Cleanup, SaverDies, bundleVars
<1> QED BY <1>1, <1>2

LEMMA OutputsInvInit == ASSUME RecoveredOutputsAssumption, BundleInit
                        PROVE  OutputsInv /\ InPlace
<1> USE DEF BundleInit, RecoveredOutputsAssumption
<1>1. BundleTypeOK
  <2>1. before \in [Names -> {"none", "old"}] /\ final = before
    OBVIOUS
  <2>2. final \in [Names -> Files]
    BY <2>1 DEF Files
  <2>3. backup \in [Names -> Files]
    BY DEF Files
  <2>4. turn \in 1..Len(Artifacts) /\ interrupts \in 0..MaxInterrupts
    OBVIOUS
  <2> QED BY <2>1, <2>2, <2>3, <2>4 DEF BundleTypeOK, Trying
<1>2. \A k \in Slots : Stands(k)
  <2> TAKE k \in Slots
  <2>1. Artifacts[k] \in Names /\ k \in Int /\ k >= turn
    BY DEF Names, Slots
  <2>2. Untouched(Artifacts[k]) /\ Artifacts[k] \notin published
    BY <2>1 DEF Untouched
  <2> QED BY <2>1, <2>2 DEF Stands, Before, During, Always
<1>3. NothingLost /\ InPlace
  BY DEF NothingLost, InPlace
<1> QED BY <1>1, <1>2, <1>3 DEF OutputsInv

(* For any set of artifacts and wherever the process fails or dies: outputs that *)
(* are reported as saved are all in place; and when no interrupt comes in        *)
(* between, a failure that is not reported as an incomplete roll-back leaves     *)
(* what was there, and an earlier output is never lost before all new ones are   *)
(* there.                                                                       *)
THEOREM OutputsAreKept ==
  RecoveredOutputsAssumption => (BundleSpec => []OutputsKept)
<1> SUFFICES ASSUME RecoveredOutputsAssumption
             PROVE  BundleSpec => []OutputsKept
  OBVIOUS
<1> DEFINE Inv == BundleTypeOK /\ InPlace /\ (interrupts = 0 => OutputsInv)
<1>1. BundleInit => Inv
  BY OutputsInvInit DEF OutputsInv
<1>2. Inv /\ [BundleNext]_bundleVars => Inv'
  <2> SUFFICES ASSUME Inv, [BundleNext]_bundleVars PROVE Inv'
    OBVIOUS
  <2>1. BundleTypeOK' /\ InPlace'
    BY OutputsTypeStep, InPlaceStep
  <2>2. ASSUME interrupts' = 0 PROVE OutputsInv'
    <3>1. interrupts = 0
      BY <2>2, InterruptsStay
    <3>2. OutputsInv
      BY <3>1
    <3> HIDE DEF Inv
    <3> QED BY <2>1, <2>2, <3>2, TryingStep, StandsStep, OutputsFound DEF OutputsInv
  <2> QED BY <2>1, <2>2
<1>3. Inv => OutputsKept
  <2> SUFFICES ASSUME Inv PROVE OutputsKept
    OBVIOUS
  <2>1. DoneMeansAll
    BY DEF InPlace, DoneMeansAll, Names, Slots
  <2>2. ASSUME OutputsInv PROVE RestoredAfterFailure
    <3> SUFFICES ASSUME place = "raised", ~failed PROVE final = before
      BY DEF RestoredAfterFailure
    <3>1. \A a \in Names : final[a] = before[a]
      BY <2>2 DEF OutputsInv, Stands, Always, Names, Slots
    <3> QED BY <3>1 DEF BundleTypeOK
  <2> QED BY <2>1, <2>2 DEF OutputsKept, OutputsInv
<1> QED BY <1>1, <1>2, <1>3, PTL DEF BundleSpec

-------------------------------------------------------------------------------
(* The circuit. While it is tried, every success was a probe, and fewer have    *)
(* been seen than close it.                                                     *)

(* In a trial each success counted is of a call made in it, or the one of a     *)
(* caller that was out when it began and is back.                               *)
TrialCounts ==
    /\ trial.late \subseteq trial.overdue
    /\ trial.tried <= successes
    /\ successes <= trial.tried + Cardinality(trial.overdue \ trial.late)

CircuitInv ==
    /\ CircuitTypeOK
    /\ CountsConsecutive
    /\ state = "HALF_OPEN" => probes = successes /\ successes < SuccessThreshold
    /\ state = "CLOSED" => probes = 0
    /\ state = "HALF_OPEN" => TrialCounts

(* The clock of the circuit is a Boolean.                                       *)
LEMMA ClockStep ==
  ASSUME waited \in BOOLEAN, [CircuitNext]_circuitVars PROVE waited' \in BOOLEAN
<1>1. ASSUME NEW new, NEW f, NEW s, NEW p, To(new, f, s, p) PROVE waited' \in BOOLEAN
  BY <1>1 DEF To
<1>2. ASSUME NEW f, NEW s, NEW p, Stay(f, s, p) PROVE waited' \in BOOLEAN
  BY <1>2 DEF Stay
<1>3. CASE Age
  BY <1>3 DEF Age
<1>4. CASE Reset
  BY <1>1, <1>4 DEF Reset
<1>5. ASSUME NEW c \in Callers, Pass(c) PROVE waited' \in BOOLEAN
  BY <1>1, <1>5 DEF Pass
<1>6. ASSUME NEW c \in Callers, Succeed(c) PROVE waited' \in BOOLEAN
  BY <1>1, <1>2, <1>6 DEF Succeed
<1>7. ASSUME NEW c \in Callers, Fail(c) PROVE waited' \in BOOLEAN
  BY <1>1, <1>2, <1>7 DEF Fail, OutcomeOfFailure
<1>8. ASSUME NEW c \in Callers, Abandon(c) PROVE waited' \in BOOLEAN
  BY <1>8 DEF Abandon
<1>9. CASE UNCHANGED circuitVars
  BY <1>9 DEF circuitVars
<1> QED BY <1>3, <1>4, <1>5, <1>6, <1>7, <1>8, <1>9 DEF CircuitNext, Ends

(* A caller that is back counts among those that are.                           *)
LEMMA BackCounts ==
  ASSUME NEW O, NEW L \in SUBSET O, IsFiniteSet(O), NEW c
  PROVE  /\ Cardinality(O \ L) \in Nat /\ Cardinality(O) \in Nat
         /\ Cardinality(O \ L) <= Cardinality(O)
         /\ Cardinality(O \ L) <= Cardinality(O \ (L \ {c}))
         /\ c \in L => Cardinality(O \ (L \ {c})) = Cardinality(O \ L) + 1
         /\ Cardinality(O \ (L \ {c})) \in Nat
         /\ Cardinality(O \ (L \ {c})) <= Cardinality(O)
<1>1. /\ IsFiniteSet(O \ L) /\ IsFiniteSet(O \ (L \ {c}))
      /\ Cardinality(O \ L) <= Cardinality(O)
      /\ Cardinality(O \ (L \ {c})) <= Cardinality(O)
  BY FS_Subset
<1>2. Cardinality(O \ L) <= Cardinality(O \ (L \ {c}))
  BY <1>1, FS_Subset, O \ L \subseteq O \ (L \ {c})
<1>3. ASSUME c \in L PROVE Cardinality(O \ (L \ {c})) = Cardinality(O \ L) + 1
  <2>1. O \ (L \ {c}) = (O \ L) \union {c} /\ c \notin O \ L
    BY <1>3
  <2> QED BY <1>1, <2>1, FS_AddElement
<1> QED BY <1>1, <1>2, <1>3, FS_CardinalityType

(* The history of the trial is typed, and counts.                               *)
LEMMA TrialStep ==
  ASSUME BreakerAssumption, CircuitInv, [CircuitNext]_circuitVars
  PROVE  /\ trial' \in [overdue : SUBSET Callers, late : SUBSET Callers,
                        tried : 0..SuccessThreshold]
         /\ state' = "HALF_OPEN" => TrialCounts'
<1> DEFINE Typed(t) == t \in [overdue : SUBSET Callers, late : SUBSET Callers,
                              tried : 0..SuccessThreshold]
           Kept == UNCHANGED <<state, successes, trial>>
<1>0. /\ Typed(trial) /\ SuccessThreshold \in Nat /\ IsFiniteSet(Callers)
      /\ successes \in Nat /\ trial.tried \in Nat /\ trial.overdue \subseteq Callers
      /\ state = "HALF_OPEN" => TrialCounts /\ successes < SuccessThreshold
  BY DEF CircuitInv, CircuitTypeOK, BreakerAssumption
<1>1. ASSUME NEW new, NEW f, NEW s, NEW p, To(new, f, s, p)
      PROVE  Typed(trial') /\ (state' = "HALF_OPEN" => TrialCounts')
  <2>1. CASE new # "HALF_OPEN"
    BY <1>0, <1>1, <2>1 DEF To, TrialOf, NoTrial
  <2>2. CASE new = "HALF_OPEN"
    <3>1. trial' = [overdue |-> Out, late |-> Out, tried |-> 0] /\ successes' = 0
      BY <1>1, <2>2 DEF To, TrialOf
    <3>2. Out \subseteq Callers /\ Out \ Out = {}
      BY DEF Out
    <3>3. Typed(trial')
      BY <1>0, <3>1, <3>2
    <3>4. /\ trial'.late = Out /\ trial'.overdue = Out /\ trial'.tried = 0
      BY <3>1
    <3>5. Cardinality(trial'.overdue \ trial'.late) = 0
      BY <3>2, <3>4, FS_EmptySet
    <3> QED BY <3>1, <3>3, <3>4, <3>5 DEF TrialCounts
  <2> QED BY <2>1, <2>2
<1>2. ASSUME Kept PROVE Typed(trial') /\ (state' = "HALF_OPEN" => TrialCounts')
  BY <1>0, <1>2 DEF TrialCounts
<1>3. ASSUME NEW c \in Callers, NEW n \in {0, 1}, Back(c, n), state' = state,
             state = "HALF_OPEN" =>
                \/ n = 0 /\ successes' = successes
                \/ /\ successes' = successes + 1 /\ successes' < SuccessThreshold
                   /\ n = IF c \in trial.late THEN 0 ELSE 1,
             state # "HALF_OPEN" => n = 0
      PROVE  Typed(trial') /\ (state' = "HALF_OPEN" => TrialCounts')
  <2>1. /\ trial'.overdue = trial.overdue /\ trial'.late = trial.late \ {c}
        /\ trial'.tried = trial.tried + n
        /\ trial' = [overdue |-> trial'.overdue, late |-> trial'.late, tried |-> trial'.tried]
    BY <1>0, <1>3 DEF Back
  <2>2. trial.tried + n <= SuccessThreshold
    <3>1. CASE state = "HALF_OPEN"
      BY <1>0, <1>3, <3>1 DEF TrialCounts
    <3>2. CASE state # "HALF_OPEN"
      BY <1>0, <1>3, <3>2
    <3> QED BY <3>1, <3>2
  <2>3. trial.tried + n \in 0..SuccessThreshold
    BY <1>0, <1>3, <2>2
  <2>4. trial'.overdue \in SUBSET Callers /\ trial'.late \in SUBSET Callers
    BY <1>0, <2>1
  <2>5. Typed(trial')
    BY <2>1, <2>3, <2>4
  <2>6. ASSUME state = "HALF_OPEN" PROVE TrialCounts'
    <3>1. trial.late \in SUBSET trial.overdue /\ IsFiniteSet(trial.overdue)
      BY <1>0, <2>6, FS_Subset DEF TrialCounts
    <3> DEFINE a == Cardinality(trial.overdue \ trial.late)
               b == Cardinality(trial.overdue \ (trial.late \ {c}))
    <3>2. a \in Nat /\ b \in Nat /\ a <= b /\ (c \in trial.late => b = a + 1)
      BY <3>1, BackCounts
    <3>3. trial.tried <= successes /\ successes <= trial.tried + a
      BY <1>0, <2>6 DEF TrialCounts
    <3>4. Cardinality(trial'.overdue \ trial'.late) = b
      BY <2>1
    <3> HIDE DEF a, b
    <3>5. /\ trial.tried + n <= successes'
          /\ successes' <= trial.tried + n + b
      BY <1>0, <1>3, <2>6, <3>2, <3>3
    <3> QED BY <2>1, <3>1, <3>4, <3>5 DEF TrialCounts
  <2> QED BY <1>3, <2>5, <2>6
<1>4. CASE Age
  BY <1>4 DEF Age, CircuitTypeOK, CircuitInv, TrialCounts
<1>5. CASE Reset
  BY <1>1, <1>5 DEF Reset
<1>6. ASSUME NEW c \in Callers, Pass(c)
      PROVE  Typed(trial') /\ (state' = "HALF_OPEN" => TrialCounts')
  <2>1. Kept \/ To("HALF_OPEN", failures, successes, probes)
    BY <1>6 DEF Pass
  <2> QED BY <1>1, <1>2, <2>1
<1>7. ASSUME NEW c \in Callers, Succeed(c)
      PROVE  Typed(trial') /\ (state' = "HALF_OPEN" => TrialCounts')
  <2> DEFINE s == Least(successes + 1, SuccessThreshold)
  <2>1. \/ state = "HALF_OPEN" /\ s = SuccessThreshold /\ To("CLOSED", failures, s, probes)
        \/ /\ state = "HALF_OPEN" /\ s # SuccessThreshold /\ state' = state /\ successes' = s
           /\ Back(c, IF c \in trial.late THEN 0 ELSE 1)
        \/ state \in {"OPEN", "CLOSED"} /\ state' = state /\ Back(c, 0)
    BY <1>7 DEF Succeed, Stay
  <2>2. s # SuccessThreshold => s = successes + 1 /\ s < SuccessThreshold
    BY <1>0 DEF Least
  <2> HIDE DEF s
  <2>3. CASE state = "HALF_OPEN" /\ s = SuccessThreshold /\ To("CLOSED", failures, s, probes)
    BY <1>1, <2>3
  <2>4. CASE /\ state = "HALF_OPEN" /\ s # SuccessThreshold /\ state' = state
             /\ successes' = s /\ Back(c, IF c \in trial.late THEN 0 ELSE 1)
    <3> DEFINE n == IF c \in trial.late THEN 0 ELSE 1
    <3>1. n \in {0, 1} /\ Back(c, n)
      BY <2>4
    <3> QED BY <1>3, <2>2, <2>4, <3>1
  <2>5. CASE state \in {"OPEN", "CLOSED"} /\ state' = state /\ Back(c, 0)
    BY <1>3, <2>5
  <2> QED BY <2>1, <2>3, <2>4, <2>5
<1>8. ASSUME NEW c \in Callers, Fail(c)
      PROVE  Typed(trial') /\ (state' = "HALF_OPEN" => TrialCounts')
  <2> DEFINE f == Least(failures + 1, FailureThreshold)
  <2>1. \/ To("OPEN", f, successes, probes)
        \/ state # "HALF_OPEN" /\ state' = state /\ UNCHANGED trial
    BY <1>8 DEF Fail, OutcomeOfFailure, Stay
  <2> HIDE DEF f
  <2> QED BY <1>0, <1>1, <2>1
<1>9. ASSUME NEW c \in Callers, Abandon(c)
      PROVE  Typed(trial') /\ (state' = "HALF_OPEN" => TrialCounts')
  <2>1. Back(c, 0) /\ state' = state /\ successes' = successes
    BY <1>9 DEF Abandon
  <2> QED BY <1>3, <2>1
<1>10. CASE UNCHANGED circuitVars
  BY <1>2, <1>10 DEF circuitVars
<1> QED BY <1>4, <1>5, <1>6, <1>7, <1>8, <1>9, <1>10 DEF CircuitNext, Ends

LEMMA CircuitStep ==
  ASSUME BreakerAssumption, CircuitInv, [CircuitNext]_circuitVars PROVE CircuitInv'
<1> USE DEF BreakerAssumption, CircuitInv, CircuitTypeOK, CountsConsecutive, States, Admit, To,
            Stay, Least
<1>0. /\ waited' \in BOOLEAN
      /\ trial' \in [overdue : SUBSET Callers, late : SUBSET Callers,
                     tried : 0..SuccessThreshold]
      /\ state' = "HALF_OPEN" => TrialCounts'
  <2>1. waited' \in BOOLEAN
    BY ClockStep
  <2> QED BY <2>1, TrialStep
<1> USE <1>0
<1>1. CASE Age
  BY <1>1 DEF Age
<1>2. CASE Reset
  BY <1>2 DEF Reset
<1>3. ASSUME NEW c \in Callers, Pass(c) PROVE CircuitInv'
  BY <1>3 DEF Pass
<1>4. ASSUME NEW c \in Callers, Succeed(c) PROVE CircuitInv'
  <2>1. CASE state = "HALF_OPEN"
    BY <1>4, <2>1 DEF Succeed
  <2>2. CASE state = "CLOSED"
    BY <1>4, <2>2 DEF Succeed
  <2>3. CASE state = "OPEN"
    BY <1>4, <2>3 DEF Succeed
  <2> QED BY <2>1, <2>2, <2>3
<1>5. ASSUME NEW c \in Callers, Fail(c) PROVE CircuitInv'
  <2>1. CASE state = "HALF_OPEN"
    BY <1>5, <2>1 DEF Fail, OutcomeOfFailure
  <2>2. CASE state = "CLOSED"
    BY <1>5, <2>2 DEF Fail, OutcomeOfFailure
  <2>3. CASE state = "OPEN"
    BY <1>5, <2>3 DEF Fail, OutcomeOfFailure
  <2> QED BY <2>1, <2>2, <2>3
<1>6. ASSUME NEW c \in Callers, Abandon(c) PROVE CircuitInv'
  BY <1>6 DEF Abandon
<1>7. CASE UNCHANGED circuitVars
  BY <1>7 DEF circuitVars
<1> QED BY <1>1, <1>2, <1>3, <1>4, <1>5, <1>6, <1>7 DEF CircuitNext, Ends

(* Who opens a closed circuit has seen the failures, and who fails in one that  *)
(* is tried opens it again.                                                     *)
LEMMA OpeningStep ==
  ASSUME BreakerAssumption, CircuitInv, [CircuitNext]_circuitVars
  PROVE  /\ state = "CLOSED" /\ state' = "OPEN" => streak' >= FailureThreshold
         /\ state = "HALF_OPEN" /\ (\E c \in Callers : Fail(c)) => state' = "OPEN"
<1> USE DEF BreakerAssumption, CircuitInv, CircuitTypeOK, CountsConsecutive, States, To, Stay,
            Least
<1>1. ASSUME NEW c \in Callers, Fail(c), state = "HALF_OPEN" PROVE state' = "OPEN"
  BY <1>1 DEF Fail, OutcomeOfFailure
<1>2. ASSUME state = "CLOSED", state' = "OPEN" PROVE streak' >= FailureThreshold
  <2>1. ASSUME NEW c \in Callers, Fail(c) PROVE streak' >= FailureThreshold
    BY <1>2, <2>1 DEF Fail, OutcomeOfFailure
  <2>2. ASSUME NEW c \in Callers, Succeed(c) PROVE FALSE
    BY <1>2, <2>2 DEF Succeed
  <2>3. CASE Age \/ Reset \/ (\E c \in Callers : Pass(c) \/ Abandon(c)) \/ UNCHANGED circuitVars
    BY <1>2, <2>3 DEF Age, Reset, Pass, Abandon, circuitVars
  <2> QED BY <2>1, <2>2, <2>3 DEF CircuitNext, Ends
<1> QED BY <1>1, <1>2

(* Who closes one that is tried has counted the trial.                          *)
LEMMA ClosingStep ==
  ASSUME BreakerAssumption, CircuitInv, [CircuitNext]_circuitVars, NEW c \in Callers,
         state = "HALF_OPEN", state' = "CLOSED", call'[c] # call[c]
  PROVE  trial.tried + Cardinality(trial.overdue)
             + (IF c \in trial.late THEN 0 ELSE 1) >= SuccessThreshold
<1>1. \E d \in Callers : Succeed(d)
  <2>1. ~Age /\ ~Reset /\ ~UNCHANGED circuitVars
    BY DEF Age, Reset, circuitVars
  <2>2. \A d \in Callers : ~Pass(d) /\ ~Abandon(d)
    BY DEF Pass, Abandon, To
  <2>3. \A d \in Callers : ~Fail(d)
    BY DEF Fail, OutcomeOfFailure, To, Stay
  <2> QED BY <2>1, <2>2, <2>3 DEF CircuitNext, Ends
<1>2. PICK d \in Callers : Succeed(d)
  BY <1>1
<1>3. d = c
  BY <1>2 DEF Succeed, Admit, CircuitInv, CircuitTypeOK
<1>4. Least(successes + 1, SuccessThreshold) = SuccessThreshold
  BY <1>2 DEF Succeed, Stay
<1>5. /\ successes \in Nat /\ SuccessThreshold \in Nat /\ trial.tried \in Nat
      /\ TrialCounts /\ IsFiniteSet(Callers) /\ trial.overdue \subseteq Callers
  BY DEF CircuitInv, CircuitTypeOK, BreakerAssumption
<1>6. successes + 1 >= SuccessThreshold
  BY <1>4, <1>5 DEF Least
<1>7. trial.late \in SUBSET trial.overdue /\ IsFiniteSet(trial.overdue)
  BY <1>5, FS_Subset DEF TrialCounts
<1> DEFINE a == Cardinality(trial.overdue \ trial.late)
           b == Cardinality(trial.overdue \ (trial.late \ {c}))
           n == Cardinality(trial.overdue)
<1>8. /\ a \in Nat /\ b \in Nat /\ n \in Nat /\ a <= n /\ b <= n
      /\ c \in trial.late => b = a + 1
  BY <1>7, BackCounts
<1>9. successes <= trial.tried + a
  BY <1>5 DEF TrialCounts
<1> HIDE DEF a, b
<1>10. CASE c \in trial.late
  BY <1>5, <1>6, <1>8, <1>9, <1>10
<1>11. CASE c \notin trial.late
  BY <1>5, <1>6, <1>8, <1>9, <1>11
<1> QED BY <1>10, <1>11

(* For any thresholds, any number of callers and both ways of asking: a closed  *)
(* circuit has counted fewer failures than open it, and no more than have come  *)
(* in a row; one that is not closed has counted them all; only failures in a    *)
(* row open it, any failure opens it while it is tried, and it closes on the    *)
(* successes of the trial, but for one of each caller that was out before it.   *)
THEOREM CircuitIsSound == BreakerAssumption => (CircuitSpec => CircuitSound)
<1> SUFFICES ASSUME BreakerAssumption PROVE CircuitSpec => CircuitSound
  OBVIOUS
<1> DEFINE Opening == /\ state = "CLOSED" /\ state' = "OPEN" => streak' >= FailureThreshold
                      /\ state = "HALF_OPEN" /\ (\E c \in Callers : Fail(c)) => state' = "OPEN"
<1>1. CircuitInit => CircuitInv
  <2> SUFFICES ASSUME CircuitInit PROVE CircuitInv
    OBVIOUS
  <2>1. waited \in BOOLEAN
    BY DEF CircuitInit
  <2>2. trial \in [overdue : SUBSET Callers, late : SUBSET Callers, tried : 0..SuccessThreshold]
    BY DEF CircuitInit, NoTrial, BreakerAssumption
  <2> QED BY <2>1, <2>2 DEF CircuitInit, CircuitInv, CircuitTypeOK, CountsConsecutive, States,
                      BreakerAssumption
<1>2. CircuitInv /\ [CircuitNext]_circuitVars => CircuitInv'
  BY CircuitStep
<1>3. CircuitInv /\ [CircuitNext]_circuitVars => [Opening]_circuitVars
  BY OpeningStep
<1> DEFINE Closing ==
      \A c \in Callers :
        (state = "HALF_OPEN" /\ state' = "CLOSED" /\ call'[c] # call[c]) =>
            trial.tried + Cardinality(trial.overdue)
                + (IF c \in trial.late THEN 0 ELSE 1) >= SuccessThreshold
<1>7. CircuitInv /\ [CircuitNext]_circuitVars => [Closing]_circuitVars
  BY ClosingStep
<1>8. CircuitSpec => ClosesOnTrial
  BY <1>1, <1>2, <1>7, PTL DEF CircuitSpec, ClosesOnTrial
<1>4. CircuitInv => CircuitTypeOK /\ CountsConsecutive
  BY DEF CircuitInv
<1>5. CircuitSpec => OpensOnStreak
  BY <1>1, <1>2, <1>3, PTL DEF CircuitSpec, OpensOnStreak
<1>6. CircuitSpec => [](CircuitTypeOK /\ CountsConsecutive)
  BY <1>1, <1>2, <1>4, PTL DEF CircuitSpec
<1> QED BY <1>5, <1>6, <1>8, PTL DEF CircuitSound

-------------------------------------------------------------------------------
(* The failover. A thread that looks at a model looks at one of the chain.       *)

InChain ==
    \A t \in Threads : run[t].at \in {"scan", "drop", "call", "mark"} => run[t].i <= Len(Chain)

(* Up to the first midnight no mark is taken for expired, so a thread has        *)
(* refusals and calls behind it only where there is a mark, or where it is about *)
(* to set one; and it has passed over nothing but what is marked or has no key.  *)
Asking(t) == run[t].at \in {"call", "mark"}
MarkedToday(p) == mark[p] = 0
Remembers(t) ==
    /\ run[t].day = 0 /\ run[t].expired = {}
    /\ \A p \in refused[t] : MarkedToday(p) \/ (run[t].at = "mark" /\ p = Provider(t))
    /\ \A m \in run[t].tried : MarkedToday(ProviderOf[m]) \/ (Asking(t) /\ m = Model(t))
    /\ \A j \in 1..Len(Chain) :
          j < run[t].i /\ ProviderOf[Chain[j]] \in Keyed => MarkedToday(ProviderOf[Chain[j]])
    /\ run[t].at = "call" => Provider(t) \notin refused[t]
FirstDay ==
    today = 0 =>
        /\ \A p \in Providers : mark[p] \in {None, 0}
        /\ \A t \in Threads : Remembers(t)

FallbackInv == FallbackTypeOK /\ InChain /\ FirstDay

LEMMA ChainModels ==
  ASSUME FallbackAssumption, NEW k \in 1..Len(Chain)
  PROVE  Chain[k] \in Models /\ ProviderOf[Chain[k]] \in Providers
  BY DEF FallbackAssumption, Models

LEMMA MarkedCount ==
  ASSUME FallbackAssumption PROVE Cardinality(Marked) \in 0..Cardinality(Providers)
<1>1. Marked \subseteq Providers
  BY DEF Marked
<1> QED BY <1>1, FS_Subset, FS_CardinalityType DEF FallbackAssumption

LEMMA NewRunIsRun ==
  ASSUME FallbackAssumption, NEW at \in {"idle", "select"} \union Over
  PROVE  [NewRun EXCEPT !.at = at] \in Runs
<1>1. 0 \in 0..Cardinality(Providers)
  BY FS_CardinalityType DEF FallbackAssumption
<1> QED BY <1>1 DEF FallbackAssumption, NewRun, Runs, Days, Over

(* Another record for one thread.                                               *)
LEMMA RunReplaced ==
  ASSUME run \in [Threads -> Runs], NEW t \in Threads, NEW r \in Runs,
         run' = [run EXCEPT ![t] = r]
  PROVE  /\ run' \in [Threads -> Runs]
         /\ run'[t] = r
         /\ \A u \in Threads : u # t => run'[u] = run[u]
  OBVIOUS

(* What each step makes of the thread's own record.                              *)
Becomes(t, at, k, models, day, providers) ==
    /\ run' \in [Threads -> Runs]
    /\ \A u \in Threads : u # t => run'[u] = run[u]
    /\ run'[t].at = at /\ run'[t].i = k /\ run'[t].tried = models
    /\ run'[t].day = day /\ run'[t].expired = providers

LEMMA RunBecomes ==
  ASSUME run \in [Threads -> Runs], NEW t \in Threads, NEW r \in Runs,
         run' = [run EXCEPT ![t] = r],
         NEW at, NEW k, NEW models, NEW day, NEW providers,
         r.at = at, r.i = k, r.tried = models, r.day = day, r.expired = providers
  PROVE  Becomes(t, at, k, models, day, providers)
  BY RunReplaced DEF Becomes

LEMMA NewFields ==
  ASSUME NEW x
  PROVE  /\ [NewRun EXCEPT !.at = x].at = x /\ [NewRun EXCEPT !.at = x].i = 1
         /\ [NewRun EXCEPT !.at = x].tried = {} /\ [NewRun EXCEPT !.at = x].day = 0
         /\ [NewRun EXCEPT !.at = x].expired = {}
  BY DEF NewRun

LEMMA EndsRun ==
  ASSUME FallbackAssumption, FallbackTypeOK, NEW t \in Threads, NEW at \in Over, End(t, at)
  PROVE  Becomes(t, at, 1, {}, 0, {})
<1> DEFINE r == [NewRun EXCEPT !.at = at]
<1>1. r \in Runs
  BY NewRunIsRun
<1>2. run' = [run EXCEPT ![t] = r]
  BY DEF End
<1>3. r.at = at /\ r.i = 1 /\ r.tried = {} /\ r.day = 0 /\ r.expired = {}
  BY NewFields
<1> HIDE DEF r
<1> QED BY <1>1, <1>2, <1>3, RunBecomes DEF FallbackTypeOK

LEMMA BeginsRun ==
  ASSUME FallbackAssumption, FallbackTypeOK, NEW t \in Threads, Begin(t)
  PROVE  Becomes(t, "select", 1, {}, 0, {})
<1> DEFINE r == [NewRun EXCEPT !.at = "select"]
<1>1. r \in Runs
  BY NewRunIsRun
<1>2. run' = [run EXCEPT ![t] = r]
  BY DEF Begin
<1>3. r.at = "select" /\ r.i = 1 /\ r.tried = {} /\ r.day = 0 /\ r.expired = {}
  BY NewFields
<1> HIDE DEF r
<1> QED BY <1>1, <1>2, <1>3, RunBecomes DEF FallbackTypeOK

LEMMA TriesNext ==
  ASSUME FallbackAssumption, FallbackTypeOK, NEW t \in Threads, run[t].i <= Len(Chain),
         TryNext(t)
  PROVE  Becomes(t, "select", run[t].i + 1, run[t].tried, run[t].day, run[t].expired)
<1> DEFINE r == [run[t] EXCEPT !.at = "select", !.i = @ + 1]
<1>1. r \in Runs
  <2>1. run[t].i + 1 \in 1..Len(Chain) + 1 /\ run[t] \in Runs
    BY DEF FallbackAssumption, FallbackTypeOK, Runs
  <2>2. \A k \in 1..Len(Chain) + 1 : [run[t] EXCEPT !.at = "select", !.i = k] \in Runs
    BY <2>1 DEF Runs
  <2> QED BY <2>1, <2>2
<1>2. run' = [run EXCEPT ![t] = r]
  BY DEF TryNext
<1>3. /\ r.at = "select" /\ r.i = run[t].i + 1 /\ r.tried = run[t].tried
      /\ r.day = run[t].day /\ r.expired = run[t].expired
  BY DEF FallbackTypeOK, Runs
<1> HIDE DEF r
<1> QED BY <1>1, <1>2, <1>3, RunBecomes DEF FallbackTypeOK

LEMMA ScansRun ==
  ASSUME FallbackAssumption, FallbackTypeOK, NEW t \in Threads, Scan(t)
  PROVE  Becomes(t, "scan", run[t].i, run[t].tried, today, run[t].expired)
<1> DEFINE r == [run[t] EXCEPT !.at = "scan", !.day = today, !.count = Cardinality(Marked)]
<1>1. r \in Runs
  <2>1. run[t] \in Runs /\ today \in Days /\ Cardinality(Marked) \in 0..Cardinality(Providers)
    BY MarkedCount DEF FallbackTypeOK
  <2> QED BY <2>1 DEF Runs
<1>2. run' = [run EXCEPT ![t] = r]
  BY DEF Scan
<1>3. /\ r.at = "scan" /\ r.i = run[t].i /\ r.tried = run[t].tried
      /\ r.day = today /\ r.expired = run[t].expired
  BY DEF FallbackTypeOK, Runs
<1> HIDE DEF r
<1> QED BY <1>1, <1>2, <1>3, RunBecomes DEF FallbackTypeOK

LEMMA GoesTo ==
  ASSUME FallbackTypeOK, NEW t \in Threads, NEW at \in {"mark", "select"}, Goto(t, at)
  PROVE  Becomes(t, at, run[t].i, run[t].tried, run[t].day, run[t].expired)
<1> DEFINE r == [run[t] EXCEPT !.at = at]
<1>1. r \in Runs
  BY DEF FallbackTypeOK, Runs
<1>2. run' = [run EXCEPT ![t] = r]
  BY DEF Goto
<1>3. /\ r.at = at /\ r.i = run[t].i /\ r.tried = run[t].tried
      /\ r.day = run[t].day /\ r.expired = run[t].expired
  BY DEF FallbackTypeOK, Runs
<1> HIDE DEF r
<1> QED BY <1>1, <1>2, <1>3, RunBecomes DEF FallbackTypeOK

LEMMA StartsAgain ==
  ASSUME FallbackAssumption, FallbackTypeOK, NEW t \in Threads,
         run' = [run EXCEPT ![t].at = "select", ![t].i = 1]
  PROVE  Becomes(t, "select", 1, run[t].tried, run[t].day, run[t].expired)
<1> DEFINE r == [run[t] EXCEPT !.at = "select", !.i = 1]
<1>1. r \in Runs
  <2>1. 1 \in 1..Len(Chain) + 1 /\ run[t] \in Runs
    BY DEF FallbackAssumption, FallbackTypeOK
  <2>2. \A k \in 1..Len(Chain) + 1 : [run[t] EXCEPT !.at = "select", !.i = k] \in Runs
    BY <2>1 DEF Runs
  <2> QED BY <2>1, <2>2
<1>2. run' = [run EXCEPT ![t] = r]
  OBVIOUS
<1>3. /\ r.at = "select" /\ r.i = 1 /\ r.tried = run[t].tried
      /\ r.day = run[t].day /\ r.expired = run[t].expired
  BY DEF FallbackTypeOK, Runs
<1> HIDE DEF r
<1> QED BY <1>1, <1>2, <1>3, RunBecomes DEF FallbackTypeOK

LEMMA ListsExpired ==
  ASSUME FallbackAssumption, FallbackTypeOK, NEW t \in Threads, NEW ps \in SUBSET Providers,
         run' = [run EXCEPT ![t].at = "drop", ![t].day = 0, ![t].count = 0, ![t].expired = ps]
  PROVE  Becomes(t, "drop", run[t].i, run[t].tried, 0, ps)
<1> DEFINE r == [run[t] EXCEPT !.at = "drop", !.day = 0, !.count = 0, !.expired = ps]
<1>1. r \in Runs
  <2>1. 0 \in Days /\ 0 \in 0..Cardinality(Providers) /\ run[t] \in Runs
    BY FS_CardinalityType DEF FallbackAssumption, FallbackTypeOK, Days
  <2> QED BY <2>1 DEF Runs
<1>2. run' = [run EXCEPT ![t] = r]
  OBVIOUS
<1>3. /\ r.at = "drop" /\ r.i = run[t].i /\ r.tried = run[t].tried
      /\ r.day = 0 /\ r.expired = ps
  BY DEF FallbackTypeOK, Runs
<1> HIDE DEF r
<1> QED BY <1>1, <1>2, <1>3, RunBecomes DEF FallbackTypeOK

LEMMA DropsExpired ==
  ASSUME FallbackTypeOK, NEW t \in Threads, NEW p, run' = [run EXCEPT ![t].expired = @ \ {p}]
  PROVE  Becomes(t, run[t].at, run[t].i, run[t].tried, run[t].day, run[t].expired \ {p})
<1> DEFINE r == [run[t] EXCEPT !.expired = @ \ {p}]
<1>1. r \in Runs
  BY DEF FallbackTypeOK, Runs
<1>2. run' = [run EXCEPT ![t] = r]
  OBVIOUS
<1>3. /\ r.at = run[t].at /\ r.i = run[t].i /\ r.tried = run[t].tried
      /\ r.day = run[t].day /\ r.expired = run[t].expired \ {p}
  BY DEF FallbackTypeOK, Runs
<1> HIDE DEF r
<1> QED BY <1>1, <1>2, <1>3, RunBecomes DEF FallbackTypeOK

LEMMA CallsModel ==
  ASSUME FallbackTypeOK, NEW t \in Threads, Model(t) \in Models,
         run' = [run EXCEPT ![t].at = "call", ![t].tried = @ \union {Model(t)}]
  PROVE  Becomes(t, "call", run[t].i, run[t].tried \union {Model(t)}, run[t].day, run[t].expired)
<1> DEFINE r == [run[t] EXCEPT !.at = "call", !.tried = @ \union {Model(t)}]
<1>1. r \in Runs
  BY DEF FallbackTypeOK, Runs
<1>2. run' = [run EXCEPT ![t] = r]
  OBVIOUS
<1>3. /\ r.at = "call" /\ r.i = run[t].i /\ r.tried = run[t].tried \union {Model(t)}
      /\ r.day = run[t].day /\ r.expired = run[t].expired
  BY DEF FallbackTypeOK, Runs
<1> HIDE DEF r
<1> QED BY <1>1, <1>2, <1>3, RunBecomes DEF FallbackTypeOK

(* A step of a thread leaves the records of the others, and where it looks at a *)
(* model it looks at one of the chain.                                          *)
OwnRun(t) ==
    /\ run' \in [Threads -> Runs]
    /\ \A u \in Threads : u # t => run'[u] = run[u]
    /\ run'[t].at \in {"scan", "drop", "call", "mark"} => run'[t].i <= Len(Chain)

LEMMA KeepsToOwnRun ==
  ASSUME FallbackAssumption, FallbackTypeOK, InChain, NEW t \in Threads, Begin(t) \/ Step(t)
  PROVE  OwnRun(t)
<1>i. run[t].i \in Int /\ Len(Chain) \in Int
  BY DEF FallbackTypeOK, Runs, FallbackAssumption
<1>1. CASE Begin(t)
  BY <1>1, BeginsRun DEF Becomes, OwnRun
<1>2. ASSUME NEW at \in Over, End(t, at) PROVE OwnRun(t)
  BY <1>2, EndsRun DEF Becomes, OwnRun, Over
<1>3. ASSUME TryNext(t), run[t].i <= Len(Chain) PROVE OwnRun(t)
  BY <1>3, TriesNext DEF Becomes, OwnRun
<1>4. CASE PassOver(t)
  BY <1>2, <1>3, <1>4 DEF PassOver, Over
<1>5. CASE Scan(t)
  BY <1>5, ScansRun DEF Becomes, OwnRun, Scan
<1>6. CASE ScanEnds(t)
  <2>1. CASE End(t, "crashed")
    BY <1>2, <2>1 DEF Over
  <2>2. CASE ~End(t, "crashed")
    <3> DEFINE ps == {p \in Marked : mark[p] < run[t].day}
    <3>1. ps \in SUBSET Providers
      BY DEF Marked
    <3>2. run' = [run EXCEPT ![t].at = "drop", ![t].day = 0, ![t].count = 0, ![t].expired = ps]
      BY <1>6, <2>2 DEF ScanEnds
    <3> HIDE DEF ps
    <3>3. Becomes(t, "drop", run[t].i, run[t].tried, 0, ps)
      BY <3>1, <3>2, ListsExpired
    <3>4. run[t].i <= Len(Chain)
      BY <1>6 DEF ScanEnds, InChain
    <3> QED BY <3>3, <3>4 DEF Becomes, OwnRun
  <2> QED BY <2>1, <2>2
<1>7. CASE Drop(t)
  <2>1. CASE End(t, "crashed")
    BY <1>2, <2>1 DEF Over
  <2>2. CASE ~End(t, "crashed")
    <3>1. PICK p \in run[t].expired : run' = [run EXCEPT ![t].expired = @ \ {p}]
      BY <1>7, <2>2 DEF Drop
    <3>2. run[t].i <= Len(Chain)
      BY <1>7 DEF Drop, InChain
    <3> QED BY <3>1, <3>2, DropsExpired DEF Becomes, OwnRun
  <2> QED BY <2>1, <2>2
<1>8. CASE Look(t)
  <2>1. run[t].i <= Len(Chain)
    BY <1>8 DEF Look, InChain
  <2>2. Model(t) \in Models
    BY <2>1, ChainModels DEF Model, FallbackTypeOK, Runs, FallbackAssumption
  <2>3. CASE TryNext(t)
    BY <1>3, <2>1, <2>3
  <2>4. CASE End(t, "unavailable")
    BY <1>2, <2>4 DEF Over
  <2>5. CASE run' = [run EXCEPT ![t].at = "call", ![t].tried = @ \union {Model(t)}]
    BY <2>1, <2>2, <2>5, CallsModel DEF Becomes, OwnRun
  <2> QED BY <1>8, <2>3, <2>4, <2>5 DEF Look
<1>9. CASE CallEnds(t)
  <2>1. CASE End(t, "done") \/ End(t, "failed")
    BY <1>2, <2>1 DEF Over
  <2>2. CASE Goto(t, "mark")
    <3>1. run[t].i <= Len(Chain)
      BY <1>9 DEF CallEnds, InChain
    <3> QED BY <2>2, <3>1, GoesTo DEF Becomes, OwnRun
  <2> QED BY <1>9, <2>1, <2>2 DEF CallEnds
<1>10. CASE Mark(t)
  BY <1>10, StartsAgain DEF Mark, Becomes, OwnRun
<1> QED BY <1>1, <1>4, <1>5, <1>6, <1>7, <1>8, <1>9, <1>10 DEF Step

LEMMA FallbackTypeStep ==
  ASSUME FallbackAssumption, FallbackTypeOK, InChain, [FallbackNext]_fallbackVars
  PROVE  FallbackTypeOK' /\ InChain'
<1>1. CASE Midnight
  BY <1>1 DEF Midnight, FallbackAssumption, FallbackTypeOK, InChain, Days
<1>2. CASE UNCHANGED fallbackVars
  BY <1>2 DEF fallbackVars, FallbackTypeOK, InChain
<1>3. ASSUME NEW t \in Threads, Begin(t) \/ Step(t) PROVE FallbackTypeOK' /\ InChain'
  <2>1. OwnRun(t)
    BY <1>3, KeepsToOwnRun
  <2>2. InChain'
    BY <2>1 DEF InChain, OwnRun
  <2>3. Provider(t) \in Providers \/ ~(run[t].at \in {"call", "mark"})
    BY ChainModels DEF InChain, FallbackTypeOK, Runs, Provider, Model, FallbackAssumption
  <2>4. today' \in Days /\ refused' \in [Threads -> SUBSET Providers]
    <3>1. CASE Begin(t)
      BY <3>1 DEF Begin, Marked, FallbackTypeOK
    <3>2. CASE Step(t)
      BY <3>2, <2>3 DEF Step, PassOver, Scan, ScanEnds, Drop, Look, CallEnds, Mark,
                        FallbackTypeOK
    <3> QED BY <1>3, <3>1, <3>2
  <2>5. mark' \in [Providers -> Days \union {None}]
    BY <1>3, <2>3 DEF Begin, Step, PassOver, Scan, ScanEnds, Drop, Look, CallEnds, Mark,
                      FallbackTypeOK
  <2> QED BY <2>1, <2>2, <2>4, <2>5 DEF FallbackTypeOK, OwnRun
<1> QED BY <1>1, <1>2, <1>3 DEF FallbackNext

(* Up to the first midnight marks are only set.                                 *)
LEMMA MarksStay ==
  ASSUME FallbackAssumption, FallbackInv, today = 0, NEW t \in Threads, Begin(t) \/ Step(t)
  PROVE  /\ today' = 0
         /\ \A p \in Providers : mark'[p] \in {None, 0} /\ (MarkedToday(p) => MarkedToday(p)')
<1> USE DEF FallbackInv, FirstDay, MarkedToday, FallbackTypeOK
<1>1. CASE Mark(t)
  BY <1>1 DEF Mark
<1>2. CASE ~Mark(t)
  <2>1. mark' = mark /\ today' = today
    BY <1>2 DEF Begin, Step, PassOver, Scan, ScanEnds, Drop, Look, CallEnds, Remembers
  <2> QED BY <2>1
<1> QED BY <1>1, <1>2

(* What a thread remembers of another's steps is true after them.               *)
LEMMA OthersRemember ==
  ASSUME FallbackAssumption, FallbackInv, today = 0, NEW t \in Threads, Begin(t) \/ Step(t),
         NEW u \in Threads, u # t
  PROVE  Remembers(u)'
<1>1. Remembers(u) /\ run'[u] = run[u]
  BY KeepsToOwnRun DEF FallbackInv, FirstDay, OwnRun
<1>2. refused'[u] = refused[u]
  BY DEF FallbackInv, FallbackTypeOK, Begin, Step, PassOver, Scan, ScanEnds, Drop, Look,
         CallEnds, Mark
<1>3. refused[u] \subseteq Providers /\ run[u].tried \subseteq Models
  BY DEF FallbackInv, FallbackTypeOK, Runs
<1>4. \A m \in Models : ProviderOf[m] \in Providers
  BY DEF Models, FallbackAssumption
<1>5. \A j \in 1..Len(Chain) : ProviderOf[Chain[j]] \in Providers
  BY ChainModels
<1>6. \A p \in Providers : MarkedToday(p) => MarkedToday(p)'
  BY MarksStay
<1>7. Model(u)' = Model(u) /\ Provider(u)' = Provider(u) /\ (Asking(u)' <=> Asking(u))
  BY <1>1 DEF Model, Provider, Asking
<1> QED BY <1>1, <1>2, <1>3, <1>4, <1>5, <1>6, <1>7 DEF Remembers

(* A thread that begins, or ends, has nothing to remember but its refusals.     *)
LEMMA Forgets ==
  ASSUME FallbackAssumption, FallbackInv, today = 0, NEW t \in Threads, Begin(t) \/ Step(t),
         NEW at, at # "call", Becomes(t, at, 1, {}, 0, {}),
         \A p \in refused'[t] : MarkedToday(p)'
  PROVE  Remembers(t)'
<1>1. \A j \in 1..Len(Chain) : ~(j < 1)
  OBVIOUS
<1> QED BY <1>1 DEF Becomes, Remembers

LEMMA OwnMemory ==
  ASSUME FallbackAssumption, FallbackInv, today = 0, NEW t \in Threads, Begin(t) \/ Step(t)
  PROVE  Remembers(t)'
<1>a. /\ \A p \in Providers : mark'[p] \in {None, 0} /\ (MarkedToday(p) => MarkedToday(p)')
      /\ today' = 0
  BY MarksStay
<1>b. /\ refused[t] \subseteq Providers /\ run[t].tried \subseteq Models
      /\ run[t].i \in 1..Len(Chain) + 1 /\ Len(Chain) \in Nat
      /\ FallbackTypeOK /\ InChain
  BY DEF FallbackInv, FallbackTypeOK, Runs, FallbackAssumption
<1>c. Remembers(t)
  BY DEF FallbackInv, FirstDay
<1>d. \A m \in Models : ProviderOf[m] \in Providers
  BY DEF Models, FallbackAssumption
<1>e. \A j \in 1..Len(Chain) : Chain[j] \in Models /\ ProviderOf[Chain[j]] \in Providers
  BY ChainModels
<1>1. CASE Begin(t)
  <2>1. refused'[t] = Marked
    BY <1>1, <1>b DEF Begin, FallbackTypeOK
  <2>2. \A p \in Marked : p \in Providers /\ MarkedToday(p)
    BY DEF Marked, FallbackInv, FirstDay, MarkedToday
  <2>3. \A p \in refused'[t] : MarkedToday(p)'
    BY <2>1, <2>2, <1>a
  <2> QED BY <1>1, <1>b, <2>3, BeginsRun, Forgets
<1>2. ASSUME NEW at \in Over, End(t, at), refused' = refused, run[t].at # "mark"
      PROVE  Remembers(t)'
  <2>1. \A p \in refused'[t] : MarkedToday(p)'
    BY <1>2, <1>a, <1>b, <1>c DEF Remembers
  <2> QED BY <1>2, <1>b, <2>1, EndsRun, Forgets DEF Over
<1>3. ASSUME TryNext(t), refused' = refused, run[t].i <= Len(Chain),
             run[t].at \in {"select", "drop"},
             Provider(t) \in Keyed => MarkedToday(Provider(t))
      PROVE  Remembers(t)'
  <2>1. Becomes(t, "select", run[t].i + 1, run[t].tried, run[t].day, run[t].expired)
    BY <1>3, <1>b, TriesNext
  <2>2. /\ \A p \in refused[t] : MarkedToday(p)'
        /\ \A m \in run[t].tried : MarkedToday(ProviderOf[m])'
    BY <1>3, <1>a, <1>b, <1>c, <1>d DEF Remembers, Asking
  <2>3. ASSUME NEW j \in 1..Len(Chain), j < run[t].i + 1, ProviderOf[Chain[j]] \in Keyed
        PROVE  MarkedToday(ProviderOf[Chain[j]])'
    <3>1. CASE j = run[t].i
      BY <1>3, <1>a, <1>e, <2>3, <3>1 DEF Provider, Model
    <3>2. CASE j # run[t].i
      <4>1. j < run[t].i
        BY <1>b, <2>3, <3>2
      <4> QED BY <1>a, <1>c, <1>e, <2>3, <4>1 DEF Remembers
    <3> QED BY <3>1, <3>2
  <2> QED BY <1>3, <1>c, <2>1, <2>2, <2>3 DEF Becomes, Remembers
(* A step that keeps the model, what was tried and what was refused.            *)
<1>4. ASSUME NEW at \in {"scan", "drop"}, run[t].at \in {"select", "scan", "drop"},
             Becomes(t, at, run[t].i, run[t].tried, 0, {}), refused' = refused
      PROVE  Remembers(t)'
  <2>1. /\ \A p \in refused[t] : MarkedToday(p)'
        /\ \A m \in run[t].tried : MarkedToday(ProviderOf[m])'
        /\ \A j \in 1..Len(Chain) : j < run[t].i /\ ProviderOf[Chain[j]] \in Keyed
                                        => MarkedToday(ProviderOf[Chain[j]])'
    BY <1>4, <1>a, <1>b, <1>c, <1>d, <1>e DEF Remembers, Asking
  <2> QED BY <1>4, <2>1 DEF Becomes, Remembers
<1>5. CASE PassOver(t)
  BY <1>2, <1>3, <1>5 DEF PassOver, Over
<1>6. CASE Scan(t)
  <2>1. Becomes(t, "scan", run[t].i, run[t].tried, 0, {})
    BY <1>6, <1>b, <1>c, ScansRun DEF Remembers
  <2> QED BY <1>4, <1>6, <2>1 DEF Scan
<1>7. CASE ScanEnds(t)
  <2>1. CASE End(t, "crashed")
    BY <1>2, <1>7, <2>1 DEF ScanEnds, Over
  <2>2. CASE ~End(t, "crashed")
    <3>1. {p \in Marked : mark[p] < run[t].day} = {}
      BY <1>c DEF FallbackInv, FirstDay, Marked, None, Remembers
    <3>2. run' = [run EXCEPT ![t].at = "drop", ![t].day = 0, ![t].count = 0, ![t].expired = {}]
      BY <1>7, <2>2, <3>1 DEF ScanEnds
    <3>3. Becomes(t, "drop", run[t].i, run[t].tried, 0, {})
      BY <1>b, <3>2, ListsExpired
    <3> QED BY <1>4, <1>7, <3>3 DEF ScanEnds
  <2> QED BY <2>1, <2>2
<1>8. CASE Drop(t)
  BY <1>8, <1>c DEF Drop, Remembers
<1>9. CASE Look(t)
  <2>1. run[t].i <= Len(Chain) /\ run[t].i \in 1..Len(Chain)
    BY <1>9, <1>b DEF Look, InChain
  <2>2. Model(t) \in Models /\ Provider(t) \in Providers
    BY <1>e, <2>1 DEF Model, Provider
  <2>3. CASE TryNext(t) /\ mark[Provider(t)] # None
    <3>1. MarkedToday(Provider(t))
      BY <2>2, <2>3 DEF FallbackInv, FirstDay, MarkedToday
    <3> QED BY <1>3, <1>9, <2>1, <2>3, <3>1 DEF Look
  <2>4. CASE End(t, "unavailable")
    BY <1>2, <1>9, <2>4 DEF Look, Over
  <2>5. CASE /\ mark[Provider(t)] = None
             /\ run' = [run EXCEPT ![t].at = "call", ![t].tried = @ \union {Model(t)}]
    <3>1. Becomes(t, "call", run[t].i, run[t].tried \union {Model(t)}, 0, {})
      BY <1>b, <1>c, <2>2, <2>5, CallsModel DEF Remembers
    <3>2. /\ \A p \in refused[t] : MarkedToday(p) /\ MarkedToday(p)'
          /\ \A m \in run[t].tried : MarkedToday(ProviderOf[m])'
          /\ \A j \in 1..Len(Chain) : j < run[t].i /\ ProviderOf[Chain[j]] \in Keyed
                                          => MarkedToday(ProviderOf[Chain[j]])'
      BY <1>9, <1>a, <1>b, <1>c, <1>d, <1>e DEF Look, Remembers, Asking
    <3>3. Provider(t) \notin refused[t]
      BY <2>5, <3>2 DEF MarkedToday, None
    <3>4. Asking(t)' /\ Model(t)' = Model(t) /\ Provider(t)' = Provider(t) /\ refused' = refused
      BY <1>9, <3>1 DEF Becomes, Asking, Model, Provider, Look
    <3> QED BY <3>1, <3>2, <3>3, <3>4 DEF Becomes, Remembers
  <2> QED BY <1>9, <2>3, <2>4, <2>5 DEF Look
<1>10. CASE CallEnds(t)
  <2>1. CASE refused' = refused /\ (End(t, "done") \/ End(t, "failed"))
    BY <1>2, <1>10, <2>1 DEF CallEnds, Over
  <2>2. CASE Goto(t, "mark") /\ refused' = [refused EXCEPT ![t] = @ \union {Provider(t)}]
    <3>1. Becomes(t, "mark", run[t].i, run[t].tried, 0, {})
      BY <1>b, <1>c, <2>2, GoesTo DEF Remembers
    <3>2. refused'[t] = refused[t] \union {Provider(t)}
      BY <1>b, <2>2 DEF FallbackTypeOK
    <3>3. /\ \A p \in refused[t] : MarkedToday(p)'
          /\ \A m \in run[t].tried : MarkedToday(ProviderOf[m])' \/ m = Model(t)
          /\ \A j \in 1..Len(Chain) : j < run[t].i /\ ProviderOf[Chain[j]] \in Keyed
                                          => MarkedToday(ProviderOf[Chain[j]])'
      BY <1>10, <1>a, <1>b, <1>c, <1>d, <1>e DEF CallEnds, Remembers
    <3>4. Asking(t)' /\ Model(t)' = Model(t) /\ Provider(t)' = Provider(t)
      BY <3>1 DEF Becomes, Asking, Model, Provider
    <3> QED BY <3>1, <3>2, <3>3, <3>4 DEF Becomes, Remembers
  <2> QED BY <1>10, <2>1, <2>2 DEF CallEnds
<1>11. CASE Mark(t)
  <2>1. Becomes(t, "select", 1, run[t].tried, 0, {}) /\ refused' = refused
    BY <1>11, <1>b, <1>c, StartsAgain DEF Mark, Remembers
  <2>2. run[t].i \in 1..Len(Chain)
    BY <1>11, <1>b DEF Mark, InChain
  <2>3. Provider(t) \in Providers
    BY <1>e, <2>2 DEF Provider, Model
  <2>4. PICK q \in Providers : q = Provider(t) /\ MarkedToday(q)'
    BY <1>11, <1>b, <2>3 DEF Mark, MarkedToday, FallbackTypeOK
  <2>5. /\ \A p \in refused[t] : MarkedToday(p)'
        /\ \A m \in run[t].tried : MarkedToday(ProviderOf[m])'
    BY <1>a, <1>b, <1>c, <1>d, <2>4 DEF Remembers, Provider
  <2>6. \A j \in 1..Len(Chain) : ~(j < 1)
    OBVIOUS
  <2> QED BY <2>1, <2>5, <2>6 DEF Becomes, Remembers
<1> QED BY <1>1, <1>5, <1>6, <1>7, <1>8, <1>9, <1>10, <1>11 DEF Step

LEMMA FallbackInvStep ==
  ASSUME FallbackAssumption, FallbackInv, [FallbackNext]_fallbackVars PROVE FallbackInv'
<1>1. FallbackTypeOK' /\ InChain'
  BY FallbackTypeStep DEF FallbackInv
<1>2. FirstDay'
  <2>1. CASE Midnight
    <3>1. today' # 0
      BY <2>1 DEF Midnight, FallbackInv, FallbackTypeOK, Days, FallbackAssumption
    <3> QED BY <3>1 DEF FirstDay
  <2>2. CASE UNCHANGED fallbackVars
    BY <2>2 DEF fallbackVars, FallbackInv, FirstDay, Remembers, MarkedToday, Asking, Provider,
                Model
  <2>3. ASSUME NEW t \in Threads, Begin(t) \/ Step(t) PROVE FirstDay'
    <3>1. today' = today
      BY <2>3 DEF Begin, Step, PassOver, Scan, ScanEnds, Drop, Look, CallEnds, Mark
    <3> SUFFICES ASSUME today = 0 PROVE FirstDay'
      BY <3>1 DEF FirstDay
    <3>2. \A u \in Threads : Remembers(u)'
      BY <2>3, OthersRemember, OwnMemory
    <3>3. \A p \in Providers : mark'[p] \in {None, 0}
      BY <2>3, MarksStay
    <3> QED BY <3>2, <3>3 DEF FirstDay, None
  <2> QED BY <2>1, <2>2, <2>3 DEF FallbackNext
<1> QED BY <1>1, <1>2 DEF FallbackInv

LEMMA FallbackInvInit == ASSUME FallbackAssumption, FallbackInit PROVE FallbackInv
<1>1. NewRun \in Runs /\ NewRun.at = "idle" /\ NewRun.i = 1 /\ NewRun.tried = {}
      /\ NewRun.day = 0 /\ NewRun.expired = {}
  <2>1. 0 \in 0..Cardinality(Providers)
    BY FS_CardinalityType DEF FallbackAssumption
  <2> QED BY <2>1 DEF FallbackAssumption, NewRun, Runs, Days
<1>2. \A t \in Threads : run[t] = NewRun /\ refused[t] = {}
  BY DEF FallbackInit
<1>3. FallbackTypeOK
  BY <1>1 DEF FallbackInit, FallbackTypeOK, Days, FallbackAssumption
<1>4. InChain
  BY <1>1, <1>2 DEF InChain
<1>5. FirstDay
  <2>1. \A j \in 1..Len(Chain) : ~(j < 1)
    OBVIOUS
  <2>2. \A t \in Threads : Remembers(t)
    BY <1>1, <1>2, <2>1 DEF Remembers
  <2>3. \A p \in Providers : mark[p] = None
    BY DEF FallbackInit
  <2> QED BY <2>2, <2>3 DEF FirstDay
<1> QED BY <1>3, <1>4, <1>5 DEF FallbackInv

(* A thread that gives up has found every provider with a key marked.           *)
LEMMA GivesUpForCause ==
  ASSUME FallbackAssumption, FallbackInv, [FallbackNext]_fallbackVars PROVE RaisesOnly
<1> SUFFICES ASSUME NEW t \in Threads, today = 0, run[t].at # "unavailable",
                    run'[t].at = "unavailable",
                    NEW m \in Models, ProviderOf[m] \in Keyed
             PROVE  mark[ProviderOf[m]] = today
  BY DEF RaisesOnly
<1>1. Remembers(t) /\ FallbackTypeOK /\ InChain
  BY DEF FallbackInv, FirstDay
<1>2. Begin(t) \/ Step(t)
  <2>1. ~Midnight /\ ~UNCHANGED fallbackVars
    BY DEF Midnight, fallbackVars
  <2>2. PICK u \in Threads : Begin(u) \/ Step(u)
    BY <2>1 DEF FallbackNext
  <2>3. u = t
    BY <2>2, <1>1, KeepsToOwnRun DEF OwnRun
  <2> QED BY <2>2, <2>3
<1>3. ~Begin(t) /\ ~Scan(t) /\ ~Mark(t)
  BY <1>1, BeginsRun, ScansRun, StartsAgain DEF Becomes, Mark
<1>4. ~TryNext(t) \/ ~(run[t].i <= Len(Chain))
  BY <1>1, TriesNext DEF Becomes
<1>5. ASSUME NEW at \in Over, at # "unavailable" PROVE ~End(t, at)
  BY <1>1, <1>5, EndsRun DEF Becomes
<1>6. PICK k \in 1..Len(Chain) : m = Chain[k]
  BY DEF Models
<1>7. CASE PassOver(t)
  <2>1. run[t].i > Len(Chain)
    BY <1>4, <1>7 DEF PassOver
  <2>2. k < run[t].i
    BY <2>1, <1>1 DEF FallbackTypeOK, Runs, FallbackAssumption
  <2> QED BY <1>1, <1>6, <2>2 DEF Remembers, MarkedToday
<1>8. CASE Look(t)
  <2>1. run[t].i \in 1..Len(Chain) /\ run[t].i <= Len(Chain)
    BY <1>1, <1>8 DEF Look, InChain, FallbackTypeOK, Runs, FallbackAssumption
  <2>2. Model(t) \in Models
    BY <2>1, ChainModels DEF Model
  <2>3. run' # [run EXCEPT ![t].at = "call", ![t].tried = @ \union {Model(t)}]
    BY <1>1, <2>2, CallsModel DEF Becomes
  <2>4. mark[Provider(t)] = None /\ Model(t) \in run[t].tried
    BY <1>4, <1>8, <2>1, <2>3 DEF Look
  <2>5. MarkedToday(Provider(t))
    BY <1>1, <1>8, <2>4 DEF Look, Remembers, Asking, Provider
  <2> QED BY <2>4, <2>5 DEF MarkedToday, None
<1>9. CASE ScanEnds(t)
  <2> DEFINE ps == {p \in Marked : mark[p] < run[t].day}
  <2>1. run' = [run EXCEPT ![t].at = "drop", ![t].day = 0, ![t].count = 0, ![t].expired = ps]
    BY <1>5, <1>9 DEF ScanEnds, Over
  <2>2. ps \in SUBSET Providers
    BY DEF Marked
  <2> HIDE DEF ps
  <2> QED BY <1>1, <2>1, <2>2, ListsExpired DEF Becomes
<1>10. CASE Drop(t)
  BY <1>1, <1>10 DEF Drop, Remembers
<1>11. CASE CallEnds(t)
  <2>1. Goto(t, "mark")
    BY <1>5, <1>11 DEF CallEnds, Over
  <2> QED BY <1>1, <2>1, GoesTo DEF Becomes
<1> QED BY <1>2, <1>3, <1>7, <1>8, <1>9, <1>10, <1>11 DEF Step

(* For any chain of models, any providers and any number of threads, whatever   *)
(* they mark for one another and whichever calls fail: up to the first midnight *)
(* no execution calls a provider that was marked before it began or that has    *)
(* refused it since, and it gives up only when every provider of the chain with *)
(* a key is marked, that is, has refused somebody that day.                     *)
THEOREM FallbackIsSound == FallbackAssumption => (FallbackSpec => FallbackSound)
<1> SUFFICES ASSUME FallbackAssumption PROVE FallbackSpec => FallbackSound
  OBVIOUS
<1>1. FallbackInit => FallbackInv
  BY FallbackInvInit
<1>2. FallbackInv /\ [FallbackNext]_fallbackVars => FallbackInv'
  BY FallbackInvStep
<1>3. FallbackInv /\ [FallbackNext]_fallbackVars => [RaisesOnly]_fallbackVars
  BY GivesUpForCause
<1>4. FallbackInv => FallbackTypeOK /\ RefusedOnce
  BY DEF FallbackInv, FirstDay, Remembers, RefusedOnce
<1>5. FallbackSpec => RaisesOnlyWhenUnavailable
  BY <1>1, <1>2, <1>3, PTL DEF FallbackSpec, RaisesOnlyWhenUnavailable
<1>6. FallbackSpec => [](FallbackTypeOK /\ RefusedOnce)
  BY <1>1, <1>2, <1>4, PTL DEF FallbackSpec
<1> QED BY <1>5, <1>6, PTL DEF FallbackSound
=============================================================================
