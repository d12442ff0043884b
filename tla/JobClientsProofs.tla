--------------------------- MODULE JobClientsProofs ----------------------------
(* What those who wait for a job are told, for any number of jobs, streams     *)
(* and cancel requests (A2AStream) and of waiting calls (StatusWait).          *)
EXTENDS A2AStream, StatusWait, TLAPS

(* A stream begins with its job, and a job has an outcome before its monitor   *)
(* ends and its stream reports.                                                *)
StreamFollows(j) ==
    /\ outcome[j] = "none" => stream[j] = "none" /\ worker[j] = "none"
    /\ stream[j] = "starting" /\ worker[j] = "none" => outcome[j] = "active"
    /\ worker[j] = "done" => outcome[j] \in Outcomes
    /\ stream[j] \in {"report", "start failed", "sending"} => outcome[j] \in Outcomes

(* A lock is held by whoever is sending.                                       *)
LockIsSenders(j) ==
    /\ stream[j] \in {"progress", "sending"} => holder[j] = j
    /\ \A c \in Cancellers :
          request[c].at = "sending" /\ request[c].job = j => holder[j] = c

(* What was sent: nothing before a final event is due, and while it is on its  *)
(* way the lock is held.                                                       *)
SentOnce(j) ==
    /\ Len(final[j]) <= 1
    /\ final[j] # <<>> => \/ j \in emitted
                          \/ stream[j] = "sending"
                          \/ \E c \in Cancellers :
                                request[c].at = "sending" /\ request[c].job = j
    /\ stream[j] = "progress" => final[j] = <<>>

SentTruly(j) ==
    \A o \in {"completed", "cancelled"} : final[j] = <<o>> => outcome[j] = o

(* A request is about a job, and confirms a cancellation that is recorded.     *)
RequestTrue(c) ==
    /\ request[c].at # "idle" => request[c].job \in Jobs
    /\ request[c].at = "report" => outcome[request[c].job] = "cancelled"
    /\ request[c].at = "answered" /\ request[c].answer = "cancelled"
          => outcome[request[c].job] = "cancelled"

StreamInv ==
    /\ StreamTypeOK
    /\ tardy = {}
    /\ \A j \in Jobs : StreamFollows(j) /\ LockIsSenders(j) /\ SentOnce(j) /\ SentTruly(j)
    /\ \A c \in Cancellers : RequestTrue(c)

--------------------------------------------------------------------------------
RequestStates ==
    [at : Requests, job : Jobs \union {None}, answer : CancelAnswers \union {"none"}]

(* What a request does when it moves on, or is answered.                       *)
LEMMA RequestMoves ==
  ASSUME request \in [Cancellers -> RequestStates], NEW c \in Cancellers,
         NEW at \in Requests, NEW answer \in CancelAnswers \union {"none"}
  PROVE  /\ [request EXCEPT ![c].at = at] \in [Cancellers -> RequestStates]
         /\ [request EXCEPT ![c].at = at, ![c].answer = answer]
               \in [Cancellers -> RequestStates]
         /\ [request[c] EXCEPT !.at = at, !.answer = answer] \in RequestStates
  BY DEF RequestStates

(* Every step keeps the types.                                                 *)
LEMMA StreamTypeStep == ASSUME StreamInv, [StreamNext]_streamVars PROVE StreamTypeOK'
<1> USE DEF Goto, Turn, Sent, SentProgress, deliveries
<1>t. /\ slot \in Jobs \union {None} /\ outcome \in [Jobs -> {"none", "active"} \union Outcomes]
      /\ worker \in [Jobs -> {"none", "running", "done"}] /\ stream \in [Jobs -> Streams]
      /\ request \in [Cancellers -> RequestStates]
      /\ verdict \in [Jobs -> {"none", "asked", "ended"}]
      /\ pending \subseteq Jobs /\ emitted \subseteq Jobs
      /\ holder \in [Jobs -> Jobs \union Cancellers \union {None}]
      /\ final \in [Jobs -> Seq(Outcomes)] /\ tardy \subseteq Jobs
  BY DEF StreamInv, StreamTypeOK, RequestStates
<1>o. StreamTypeOK
  BY DEF StreamInv
<1>f. \A j \in Jobs : stream[j] = "report" => outcome[j] \in Outcomes
  BY DEF StreamInv, StreamFollows
<1>r. \A c \in Cancellers : request[c].at # "idle" => request[c].job \in Jobs
  BY DEF StreamInv, RequestTrue
<1>1. ASSUME NEW j \in Jobs, Accept(j) PROVE StreamTypeOK'
  BY <1>1, <1>o DEF Accept, StreamTypeOK, Streams, Outcomes
<1>2. ASSUME NEW j \in Jobs, NotLaunched(j) PROVE StreamTypeOK'
  BY <1>2, <1>o DEF NotLaunched, StreamTypeOK, Streams, Outcomes
<1>3. ASSUME NEW j \in Jobs, Disconnected(j) PROVE StreamTypeOK'
  <2>1. PICK o \in {"failed", "cancelled"} : outcome' = [outcome EXCEPT ![j] = o]
    BY <1>3 DEF Disconnected
  <2>2. o \in Outcomes /\ "over" \in Streams
    BY <2>1 DEF Outcomes, Streams
  <2> QED BY <1>3, <1>t, <2>1, <2>2 DEF Disconnected, StreamTypeOK, RequestStates
<1>4. ASSUME NEW j \in Jobs, Launch(j) PROVE StreamTypeOK'
  BY <1>4, <1>o DEF Launch, StreamTypeOK, Streams, Outcomes
<1>5. ASSUME NEW j \in Jobs, WorkerReady(j) PROVE StreamTypeOK'
  BY <1>5, <1>o DEF WorkerReady, StreamTypeOK, Streams, Outcomes
<1>6. ASSUME NEW j \in Jobs, WorkerNotReady(j) PROVE StreamTypeOK'
  BY <1>6, <1>o DEF WorkerNotReady, StreamTypeOK, Streams, Outcomes
<1>7. ASSUME NEW j \in Jobs, Commit(j) PROVE StreamTypeOK'
  BY <1>7, <1>o DEF Commit, StreamTypeOK, Streams, Outcomes
<1>8. ASSUME NEW j \in Jobs, MonitorEnds(j) PROVE StreamTypeOK'
  BY <1>8, <1>o DEF MonitorEnds, StreamTypeOK, Streams, Outcomes
<1>9. ASSUME NEW j \in Jobs, SendProgress(j) PROVE StreamTypeOK'
  BY <1>9, <1>o DEF SendProgress, StreamTypeOK, Streams, Outcomes
<1>10. ASSUME NEW j \in Jobs, Verdict(j) PROVE StreamTypeOK'
  <2>1. PICK a \in CancelAnswers :
           /\ verdict' = [verdict EXCEPT ![j] = "ended"]
           /\ request' = [c \in Cancellers |->
                IF request[c].job = j /\ request[c].at = "joined"
                THEN [request[c] EXCEPT !.at = "answered", !.answer = a] ELSE request[c]]
    BY <1>10 DEF Verdict
  <2>2. "answered" \in Requests
    BY DEF Requests
  <2>3. request' \in [Cancellers -> RequestStates]
    <3>1. \A c \in Cancellers :
             [request[c] EXCEPT !.at = "answered", !.answer = a] \in RequestStates
      BY <1>t, <2>2, RequestMoves
    <3> QED BY <1>t, <2>1, <3>1
  <2> QED BY <1>10, <1>t, <2>1, <2>3 DEF Verdict, StreamTypeOK, RequestStates
<1>11. ASSUME NEW j \in Jobs, Finished(j) PROVE StreamTypeOK'
  BY <1>11, <1>o DEF Finished, StreamTypeOK, Streams, Outcomes
<1>12. ASSUME NEW j \in Jobs, Report(j) PROVE StreamTypeOK'
  <2>1. StreamState(j) \in Outcomes => Append(final[j], StreamState(j)) \in Seq(Outcomes)
    BY <1>t
  <2>2. j \notin emitted => StreamState(j) \in Outcomes
    BY <1>12, <1>t, <1>f DEF Report, StreamState, Outcomes
  <2>3. "sending" \in Streams /\ "over" \in Streams
    BY DEF Streams
  <2>4. \/ final' = final /\ tardy' = tardy /\ holder' = holder
        \/ /\ final' = [final EXCEPT ![j] = Append(final[j], StreamState(j))]
           /\ tardy' = tardy \/ tardy' = tardy \union {j}
           /\ holder' = [holder EXCEPT ![j] = j]
           /\ j \notin emitted
    BY <1>12 DEF Report
  <2>5. final' \in [Jobs -> Seq(Outcomes)]
    BY <1>t, <2>1, <2>2, <2>4
  <2>6. /\ holder' \in [Jobs -> Jobs \union Cancellers \union {None}]
        /\ tardy' \subseteq Jobs
    <3>1. CASE tardy' = tardy /\ holder' = holder
      BY <1>t, <3>1
    <3>2. CASE /\ tardy' = tardy \/ tardy' = tardy \union {j}
               /\ holder' = [holder EXCEPT ![j] = j]
      BY <1>t, <3>2
    <3> QED BY <2>4, <3>1, <3>2
  <2>7. stream' = [stream EXCEPT ![j] = "over"] \/ stream' = [stream EXCEPT ![j] = "sending"]
    BY <1>12 DEF Report
  <2>8. stream' \in [Jobs -> Streams]
    BY <1>t, <2>3, <2>7
  <2> QED BY <1>12, <1>t, <2>5, <2>6, <2>8 DEF Report, StreamTypeOK, RequestStates
<1>13. ASSUME NEW j \in Jobs, ReportSent(j) PROVE StreamTypeOK'
  BY <1>13, <1>o DEF ReportSent, StreamTypeOK, Streams, Outcomes
<1>14. ASSUME NEW j \in Jobs, ProgressSent(j) PROVE StreamTypeOK'
  BY <1>14, <1>o DEF ProgressSent, StreamTypeOK, Streams, Outcomes
<1>15. ASSUME NEW c \in Cancellers, Ask(c) PROVE StreamTypeOK'
  <2>1. PICK j \in Jobs, at \in {"report", "waiting", "over"} :
           /\ request' = [request EXCEPT ![c] = [job |-> j, answer |-> "none", at |-> at]]
           /\ pending' = pending \union {j} \/ pending' = pending
    BY <1>15 DEF Ask
  <2>2. [job |-> j, answer |-> "none", at |-> at] \in RequestStates
    BY <2>1 DEF RequestStates, Requests
  <2> QED BY <1>15, <1>t, <2>1, <2>2 DEF Ask, StreamTypeOK, RequestStates
<1>16. ASSUME NEW c \in Cancellers, Stop(c) PROVE StreamTypeOK'
  <2>1. PICK a \in CancelAnswers \union {"none"} :
           \/ request' = [request EXCEPT ![c].at = "joined"]
           \/ request' = [request EXCEPT ![c].at = "answered", ![c].answer = a]
    <3>1. CASE worker[request[c].job] = "running"
      BY <1>16, <3>1 DEF Stop
    <3>2. CASE worker[request[c].job] # "running"
      <4> DEFINE a == IF slot = request[c].job /\ outcome[request[c].job] \in Outcomes
                      THEN outcome[request[c].job] ELSE "not_running"
      <4>1. a \in CancelAnswers
        BY DEF CancelAnswers
      <4> QED BY <1>16, <3>2, <4>1 DEF Stop
    <3> QED BY <3>1, <3>2
  <2>2. "joined" \in Requests /\ "answered" \in Requests
    BY DEF Requests
  <2>3. request' \in [Cancellers -> RequestStates]
    <3>1. CASE request' = [request EXCEPT ![c].at = "joined"]
      BY <1>t, <2>2, <3>1, RequestMoves
    <3>2. CASE request' = [request EXCEPT ![c].at = "answered", ![c].answer = a]
      BY <1>t, <2>2, <3>2, RequestMoves
    <3> QED BY <2>1, <3>1, <3>2
  <2>4. verdict' \in [Jobs -> {"none", "asked", "ended"}]
    BY <1>16, <1>t, <1>r DEF Stop
  <2> QED BY <1>16, <1>t, <2>3, <2>4 DEF Stop, StreamTypeOK, RequestStates
<1>17. ASSUME NEW c \in Cancellers, Abandon(c) PROVE StreamTypeOK'
  <2>1. request' \in [Cancellers -> RequestStates]
    <3>1. "over" \in Requests
      BY DEF Requests
    <3> QED BY <1>17, <1>t, <3>1, RequestMoves DEF Abandon
  <2> QED BY <1>17, <1>t, <2>1 DEF Abandon, StreamTypeOK, RequestStates
<1>18. ASSUME NEW c \in Cancellers, CancelAnswered(c) PROVE StreamTypeOK'
  <2>1. PICK at \in {"report", "over"} : request' = [request EXCEPT ![c].at = at]
    BY <1>18 DEF CancelAnswered
  <2>2. at \in Requests
    BY DEF Requests
  <2>3. request' \in [Cancellers -> RequestStates]
    BY <1>t, <2>1, <2>2, RequestMoves
  <2> QED BY <1>18, <1>t, <2>3 DEF CancelAnswered, StreamTypeOK, RequestStates
<1>19. ASSUME NEW c \in Cancellers, Confirm(c) PROVE StreamTypeOK'
  <2>1. PICK at \in {"sending", "over"} : request' = [request EXCEPT ![c].at = at]
    BY <1>19 DEF Confirm
  <2>2. at \in Requests
    BY DEF Requests
  <2>3. request' \in [Cancellers -> RequestStates]
    BY <1>t, <2>1, <2>2, RequestMoves
  <2>4. PICK j \in Jobs : j = request[c].job
    BY <1>19, <1>r DEF Confirm
  <2>5. Append(final[j], "cancelled") \in Seq(Outcomes)
    BY <1>t DEF Outcomes
  <2>6. final' = final \/ final' = [final EXCEPT ![j] = Append(final[j], "cancelled")]
    BY <1>19, <2>4 DEF Confirm
  <2>7. final' \in [Jobs -> Seq(Outcomes)]
    BY <1>t, <2>5, <2>6
  <2>8. /\ tardy' = tardy \/ tardy' = tardy \union {j}
        /\ holder' = holder \/ holder' = [holder EXCEPT ![j] = c]
    BY <1>19, <2>4 DEF Confirm
  <2> QED BY <1>19, <1>t, <2>3, <2>7, <2>8 DEF Confirm, StreamTypeOK, RequestStates
<1>20. ASSUME NEW c \in Cancellers, ConfirmSent(c) PROVE StreamTypeOK'
  <2>1. request' \in [Cancellers -> RequestStates]
    <3>1. "over" \in Requests
      BY DEF Requests
    <3> QED BY <1>20, <1>t, <3>1, RequestMoves DEF ConfirmSent
  <2> QED BY <1>20, <1>t, <1>r, <2>1 DEF ConfirmSent, StreamTypeOK, RequestStates
<1>21. CASE UNCHANGED streamVars
  BY <1>21, <1>t DEF streamVars, StreamTypeOK, RequestStates
<1> QED BY <1>1, <1>2, <1>3, <1>4, <1>5, <1>6, <1>7, <1>8, <1>9, <1>10, <1>11, <1>12,
           <1>13, <1>14, <1>15, <1>16, <1>17, <1>18, <1>19, <1>20, <1>21 DEF StreamNext,
           StreamStep, RequestStep, WorkerAnswers

(* The stream and the monitor of a job keep to the order of its outcome.       *)
LEMMA FollowStep ==
  ASSUME StreamInv, [StreamNext]_streamVars
  PROVE  \A k \in Jobs : StreamFollows(k)'
<1> TAKE k \in Jobs
<1> USE DEF StreamInv, StreamTypeOK, StreamFollows, Goto, Turn, Sent, SentProgress,
       StreamState, deliveries, Outcomes, CancelAnswers, Streams, Requests
<1>1. ASSUME NEW j \in Jobs, Accept(j) PROVE StreamFollows(k)'
  BY <1>1 DEF Accept
<1>2. ASSUME NEW j \in Jobs, NotLaunched(j) PROVE StreamFollows(k)'
  BY <1>2 DEF NotLaunched
<1>3. ASSUME NEW j \in Jobs, Disconnected(j) PROVE StreamFollows(k)'
  BY <1>3 DEF Disconnected
<1>4. ASSUME NEW j \in Jobs, Launch(j) PROVE StreamFollows(k)'
  BY <1>4 DEF Launch
<1>5. ASSUME NEW j \in Jobs, WorkerReady(j) PROVE StreamFollows(k)'
  BY <1>5 DEF WorkerReady
<1>6. ASSUME NEW j \in Jobs, WorkerNotReady(j) PROVE StreamFollows(k)'
  BY <1>6 DEF WorkerNotReady
<1>7. ASSUME NEW j \in Jobs, Commit(j) PROVE StreamFollows(k)'
  BY <1>7 DEF Commit
<1>8. ASSUME NEW j \in Jobs, MonitorEnds(j) PROVE StreamFollows(k)'
  BY <1>8 DEF MonitorEnds
<1>9. ASSUME NEW j \in Jobs, SendProgress(j) PROVE StreamFollows(k)'
  BY <1>9 DEF SendProgress
<1>10. ASSUME NEW j \in Jobs, Verdict(j) PROVE StreamFollows(k)'
  BY <1>10 DEF Verdict
<1>11. ASSUME NEW j \in Jobs, Finished(j) PROVE StreamFollows(k)'
  BY <1>11 DEF Finished
<1>12. ASSUME NEW j \in Jobs, Report(j) PROVE StreamFollows(k)'
  BY ZenonT(30), <1>12 DEF Report
<1>13. ASSUME NEW j \in Jobs, ReportSent(j) PROVE StreamFollows(k)'
  BY <1>13 DEF ReportSent
<1>14. ASSUME NEW j \in Jobs, ProgressSent(j) PROVE StreamFollows(k)'
  BY <1>14 DEF ProgressSent
<1>15. ASSUME NEW c \in Cancellers, Ask(c) PROVE StreamFollows(k)'
  BY <1>15 DEF Ask
<1>16. ASSUME NEW c \in Cancellers, Stop(c) PROVE StreamFollows(k)'
  BY <1>16 DEF Stop
<1>17. ASSUME NEW c \in Cancellers, Abandon(c) PROVE StreamFollows(k)'
  BY <1>17 DEF Abandon
<1>18. ASSUME NEW c \in Cancellers, CancelAnswered(c) PROVE StreamFollows(k)'
  BY <1>18 DEF CancelAnswered
<1>19. ASSUME NEW c \in Cancellers, Confirm(c) PROVE StreamFollows(k)'
  BY <1>19 DEF Confirm
<1>20. ASSUME NEW c \in Cancellers, ConfirmSent(c) PROVE StreamFollows(k)'
  BY <1>20 DEF ConfirmSent
<1>21. CASE UNCHANGED streamVars
  BY <1>21 DEF streamVars
<1> QED BY <1>1, <1>2, <1>3, <1>4, <1>5, <1>6, <1>7, <1>8, <1>9, <1>10, <1>11, <1>12,
           <1>13, <1>14, <1>15, <1>16, <1>17, <1>18, <1>19, <1>20, <1>21 DEF StreamNext,
           StreamStep, RequestStep, WorkerAnswers

(* An outcome that is recorded stays, and is of a job that was accepted.       *)
LEMMA OutcomeStays ==
  ASSUME StreamInv, [StreamNext]_streamVars
  PROVE  \A k \in Jobs : outcome[k] \in Outcomes => outcome'[k] = outcome[k]
<1> TAKE k \in Jobs
<1> USE DEF StreamInv, StreamTypeOK, StreamFollows, Goto, Turn, Sent, SentProgress,
       StreamState, deliveries, Outcomes, CancelAnswers, Streams, Requests
<1>1. ASSUME NEW j \in Jobs, Accept(j)
      PROVE  outcome[k] \in Outcomes => outcome'[k] = outcome[k]
  BY <1>1 DEF Accept
<1>2. ASSUME NEW j \in Jobs, NotLaunched(j)
      PROVE  outcome[k] \in Outcomes => outcome'[k] = outcome[k]
  BY <1>2 DEF NotLaunched
<1>3. ASSUME NEW j \in Jobs, Disconnected(j)
      PROVE  outcome[k] \in Outcomes => outcome'[k] = outcome[k]
  BY <1>3 DEF Disconnected
<1>4. ASSUME NEW j \in Jobs, Launch(j)
      PROVE  outcome[k] \in Outcomes => outcome'[k] = outcome[k]
  BY <1>4 DEF Launch
<1>5. ASSUME NEW j \in Jobs, WorkerReady(j)
      PROVE  outcome[k] \in Outcomes => outcome'[k] = outcome[k]
  BY <1>5 DEF WorkerReady
<1>6. ASSUME NEW j \in Jobs, WorkerNotReady(j)
      PROVE  outcome[k] \in Outcomes => outcome'[k] = outcome[k]
  BY <1>6 DEF WorkerNotReady
<1>7. ASSUME NEW j \in Jobs, Commit(j)
      PROVE  outcome[k] \in Outcomes => outcome'[k] = outcome[k]
  BY <1>7 DEF Commit
<1>8. ASSUME NEW j \in Jobs, MonitorEnds(j)
      PROVE  outcome[k] \in Outcomes => outcome'[k] = outcome[k]
  BY <1>8 DEF MonitorEnds
<1>9. ASSUME NEW j \in Jobs, SendProgress(j)
      PROVE  outcome[k] \in Outcomes => outcome'[k] = outcome[k]
  BY <1>9 DEF SendProgress
<1>10. ASSUME NEW j \in Jobs, Verdict(j)
       PROVE  outcome[k] \in Outcomes => outcome'[k] = outcome[k]
  BY <1>10 DEF Verdict
<1>11. ASSUME NEW j \in Jobs, Finished(j)
       PROVE  outcome[k] \in Outcomes => outcome'[k] = outcome[k]
  BY <1>11 DEF Finished
<1>12. ASSUME NEW j \in Jobs, Report(j)
       PROVE  outcome[k] \in Outcomes => outcome'[k] = outcome[k]
  BY <1>12 DEF Report
<1>13. ASSUME NEW j \in Jobs, ReportSent(j)
       PROVE  outcome[k] \in Outcomes => outcome'[k] = outcome[k]
  BY <1>13 DEF ReportSent
<1>14. ASSUME NEW j \in Jobs, ProgressSent(j)
       PROVE  outcome[k] \in Outcomes => outcome'[k] = outcome[k]
  BY <1>14 DEF ProgressSent
<1>15. ASSUME NEW c \in Cancellers, Ask(c)
       PROVE  outcome[k] \in Outcomes => outcome'[k] = outcome[k]
  BY <1>15 DEF Ask
<1>16. ASSUME NEW c \in Cancellers, Stop(c)
       PROVE  outcome[k] \in Outcomes => outcome'[k] = outcome[k]
  BY <1>16 DEF Stop
<1>17. ASSUME NEW c \in Cancellers, Abandon(c)
       PROVE  outcome[k] \in Outcomes => outcome'[k] = outcome[k]
  BY <1>17 DEF Abandon
<1>18. ASSUME NEW c \in Cancellers, CancelAnswered(c)
       PROVE  outcome[k] \in Outcomes => outcome'[k] = outcome[k]
  BY <1>18 DEF CancelAnswered
<1>19. ASSUME NEW c \in Cancellers, Confirm(c)
       PROVE  outcome[k] \in Outcomes => outcome'[k] = outcome[k]
  BY <1>19 DEF Confirm
<1>20. ASSUME NEW c \in Cancellers, ConfirmSent(c)
       PROVE  outcome[k] \in Outcomes => outcome'[k] = outcome[k]
  BY <1>20 DEF ConfirmSent
<1>21. CASE UNCHANGED streamVars
  BY <1>21 DEF streamVars
<1> QED BY <1>1, <1>2, <1>3, <1>4, <1>5, <1>6, <1>7, <1>8, <1>9, <1>10, <1>11, <1>12,
           <1>13, <1>14, <1>15, <1>16, <1>17, <1>18, <1>19, <1>20, <1>21 DEF StreamNext,
           StreamStep, RequestStep, WorkerAnswers

(* What answering does to the requests,                                        *)
LEMMA VerdictAnswers ==
  ASSUME StreamTypeOK, NEW j \in Jobs, Verdict(j), NEW d \in Cancellers
  PROVE  \/ request'[d] = request[d]
         \/ /\ request[d].at = "joined" /\ request[d].job = j
            /\ request'[d].at = "answered" /\ request'[d].job = j
            /\ request'[d].answer = "cancelled" => outcome[j] = "cancelled"
<1>1. PICK a \in CancelAnswers :
         /\ \/ a = "cancellation_failed" /\ worker[j] = "running"
            \/ outcome[j] \in Outcomes /\ a = IF slot = j THEN outcome[j] ELSE "failed"
         /\ request' = [c \in Cancellers |->
              IF request[c].job = j /\ request[c].at = "joined"
              THEN [request[c] EXCEPT !.at = "answered", !.answer = a] ELSE request[c]]
  BY DEF Verdict
<1>2. a = "cancelled" => outcome[j] = "cancelled"
  BY <1>1
<1>3. request[d] \in RequestStates
  BY DEF StreamTypeOK, RequestStates
<1>4. CASE request[d].job = j /\ request[d].at = "joined"
  <2>1. request'[d] = [request[d] EXCEPT !.at = "answered", !.answer = a]
    BY <1>1, <1>4
  <2> QED BY <1>2, <1>3, <1>4, <2>1 DEF RequestStates
<1> QED BY <1>1, <1>4

(* stopping,                                                                   *)
LEMMA StopAnswers ==
  ASSUME StreamTypeOK, NEW c \in Cancellers, Stop(c), NEW d \in Cancellers
  PROVE  \/ request'[d] = request[d]
         \/ /\ d = c /\ request'[d].job = request[d].job
            /\ request'[d].at \in {"joined", "answered"} /\ request[d].at = "waiting"
            /\ request'[d].at = "answered" /\ request'[d].answer = "cancelled"
                  => outcome[request[d].job] = "cancelled"
<1> DEFINE j == request[c].job
<1>1. request[c] \in RequestStates /\ request[c].at = "waiting"
  BY DEF StreamTypeOK, RequestStates, Stop
<1>2. CASE d = c /\ worker[j] = "running"
  <2>1. request' = [request EXCEPT ![c].at = "joined"]
    BY <1>2 DEF Stop, Turn
  <2> QED BY <1>1, <1>2, <2>1 DEF StreamTypeOK, RequestStates
<1>3. CASE d = c /\ worker[j] # "running"
  <2>1. PICK a : /\ request' = [request EXCEPT ![c].at = "answered", ![c].answer = a]
                 /\ a = IF slot = j /\ outcome[j] \in Outcomes THEN outcome[j] ELSE "not_running"
    BY <1>3 DEF Stop
  <2>2. /\ request'[c].at = "answered" /\ request'[c].job = j /\ request'[c].answer = a
    BY <1>1, <2>1 DEF StreamTypeOK, RequestStates
  <2> QED BY <1>1, <1>3, <2>1, <2>2
<1>4. CASE d # c
  <2>1. PICK v : request' = [request EXCEPT ![c] = v]
    BY DEF Stop, Turn
  <2> QED BY <1>4, <2>1 DEF StreamTypeOK
<1> QED BY <1>2, <1>3, <1>4

(* and confirming.                                                             *)
LEMMA ConfirmTurns ==
  ASSUME StreamTypeOK, NEW c \in Cancellers, Confirm(c), NEW d \in Cancellers
  PROVE  \/ d # c /\ request'[d] = request[d]
         \/ /\ d = c /\ request'[d].job = request[d].job
            /\ \/ request'[d].at = "over" /\ UNCHANGED <<holder, final, tardy>>
               \/ request'[d].at = "sending" /\ holder' = [holder EXCEPT ![request[c].job] = c]
<1>1. request[c] \in RequestStates /\ request[d] \in RequestStates
  BY DEF StreamTypeOK, RequestStates
<1>2. CASE request[c].job \in emitted
  <2>1. request' = [request EXCEPT ![c].at = "over"] /\ UNCHANGED <<holder, final, tardy>>
    BY <1>2 DEF Confirm, Turn
  <2> QED BY <1>1, <2>1 DEF StreamTypeOK, RequestStates
<1>3. CASE request[c].job \notin emitted
  <2>1. /\ request' = [request EXCEPT ![c].at = "sending"]
        /\ holder' = [holder EXCEPT ![request[c].job] = c]
    BY <1>3 DEF Confirm, Turn
  <2> QED BY <1>1, <2>1 DEF StreamTypeOK, RequestStates
<1> QED BY <1>2, <1>3

(* While nobody holds the lock of a job, and no event was sent that is not     *)
(* noted yet, no final event was.                                              *)
LEMMA NothingSentYet ==
  ASSUME StreamAssumption, StreamInv, NEW j \in Jobs, holder[j] = None, j \notin emitted
  PROVE  final[j] = <<>>
<1>1. None \notin Jobs /\ None \notin Cancellers
  BY DEF StreamAssumption
<1>2. LockIsSenders(j) /\ SentOnce(j)
  BY DEF StreamInv
<1> QED BY <1>1, <1>2 DEF LockIsSenders, SentOnce

(* A step that leaves the lock of a job alone, and whoever sends.              *)
LEMMA LockKept ==
  ASSUME NEW k \in Jobs, LockIsSenders(k), holder'[k] = holder[k],
         stream'[k] \in {"progress", "sending"} => stream'[k] = stream[k],
         \A c \in Cancellers : request'[c] = request[c] \/ request'[c].at # "sending"
  PROVE  LockIsSenders(k)'
<1> QED BY DEF LockIsSenders

(* A step that sends nothing, and notes nothing less.                          *)
LEMMA NothingSent ==
  ASSUME NEW k \in Jobs, SentOnce(k), final'[k] = final[k], emitted \subseteq emitted',
         stream'[k] = "progress" \/ stream[k] = "sending" => stream'[k] = stream[k],
         \A c \in Cancellers : request'[c] = request[c] \/ request[c].at # "sending"
  PROVE  SentOnce(k)'
<1>1. CASE final[k] = <<>>
  BY <1>1 DEF SentOnce
<1>2. CASE k \in emitted \/ stream[k] = "sending"
  BY <1>2 DEF SentOnce
<1>3. CASE \E c \in Cancellers : request[c].at = "sending" /\ request[c].job = k
  <2>1. PICK c \in Cancellers : request[c].at = "sending" /\ request[c].job = k
    BY <1>3
  <2>2. request'[c] = request[c]
    BY <2>1
  <2> QED BY <2>1, <2>2 DEF SentOnce
<1> QED BY <1>1, <1>2, <1>3 DEF SentOnce

(* The lock changes hands only when it is free.                                *)
LEMMA LockStep ==
  ASSUME StreamAssumption, StreamInv, [StreamNext]_streamVars
  PROVE  \A k \in Jobs : LockIsSenders(k)'
<1> TAKE k \in Jobs
<1> USE DEF StreamAssumption, StreamInv, StreamTypeOK, LockIsSenders, Goto, Turn, Sent,
       SentProgress, deliveries
<1>r. \A c \in Cancellers : request[c].at # "idle" => request[c].job \in Jobs
  BY DEF RequestTrue
<1>1. ASSUME NEW j \in Jobs, Accept(j) PROVE LockIsSenders(k)'
  BY <1>1 DEF Accept
<1>2. ASSUME NEW j \in Jobs, NotLaunched(j) PROVE LockIsSenders(k)'
  BY <1>2 DEF NotLaunched
<1>3. ASSUME NEW j \in Jobs, Disconnected(j) PROVE LockIsSenders(k)'
  BY <1>3 DEF Disconnected
<1>4. ASSUME NEW j \in Jobs, Launch(j) PROVE LockIsSenders(k)'
  BY <1>4 DEF Launch
<1>5. ASSUME NEW j \in Jobs, WorkerReady(j) PROVE LockIsSenders(k)'
  BY <1>5 DEF WorkerReady
<1>6. ASSUME NEW j \in Jobs, WorkerNotReady(j) PROVE LockIsSenders(k)'
  BY <1>6 DEF WorkerNotReady
<1>7. ASSUME NEW j \in Jobs, Commit(j) PROVE LockIsSenders(k)'
  BY <1>7 DEF Commit
<1>8. ASSUME NEW j \in Jobs, MonitorEnds(j) PROVE LockIsSenders(k)'
  BY <1>8 DEF MonitorEnds
<1>9. ASSUME NEW j \in Jobs, SendProgress(j) PROVE LockIsSenders(k)'
  BY <1>9 DEF SendProgress
<1>10. ASSUME NEW j \in Jobs, Verdict(j) PROVE LockIsSenders(k)'
  <2>1. \A c \in Cancellers : \/ request'[c] = request[c]
                            \/ request'[c].at = "answered"
    BY <1>10, VerdictAnswers
  <2>2. stream' = stream /\ holder' = holder
    BY <1>10 DEF Verdict
  <2> QED BY <2>1, <2>2, LockKept
<1>11. ASSUME NEW j \in Jobs, Finished(j) PROVE LockIsSenders(k)'
  BY <1>11 DEF Finished
<1>12. ASSUME NEW j \in Jobs, Report(j) PROVE LockIsSenders(k)'
  <2>1. CASE j \in emitted
    <3>1. /\ stream' = [stream EXCEPT ![j] = "over"]
          /\ request' = request /\ holder' = holder
      BY <1>12, <2>1 DEF Report
    <3> QED BY <3>1
  <2>2. CASE j \notin emitted
    <3>1. /\ holder[j] = None /\ holder' = [holder EXCEPT ![j] = j]
          /\ stream' = [stream EXCEPT ![j] = "sending"] /\ request' = request
      BY <1>12, <2>2 DEF Report
    <3> QED BY <3>1
  <2> QED BY <2>1, <2>2
<1>13. ASSUME NEW j \in Jobs, ReportSent(j) PROVE LockIsSenders(k)'
  BY <1>13 DEF ReportSent
<1>14. ASSUME NEW j \in Jobs, ProgressSent(j) PROVE LockIsSenders(k)'
  BY <1>14 DEF ProgressSent
<1>15. ASSUME NEW c \in Cancellers, Ask(c) PROVE LockIsSenders(k)'
  BY <1>15 DEF Ask
<1>16. ASSUME NEW c \in Cancellers, Stop(c) PROVE LockIsSenders(k)'
  <2>1. \A d \in Cancellers : \/ request'[d] = request[d]
                            \/ request'[d].at \in {"joined", "answered"}
    BY <1>16, StopAnswers
  <2> QED BY <1>16, <2>1 DEF Stop
<1>17. ASSUME NEW c \in Cancellers, Abandon(c) PROVE LockIsSenders(k)'
  BY <1>17 DEF Abandon
<1>18. ASSUME NEW c \in Cancellers, CancelAnswered(c) PROVE LockIsSenders(k)'
  BY <1>18 DEF CancelAnswered
<1>19. ASSUME NEW c \in Cancellers, Confirm(c) PROVE LockIsSenders(k)'
  <2>1. /\ request[c].at = "report" /\ holder[request[c].job] = None
        /\ stream' = stream /\ request[c].job \in Jobs
    BY <1>19, <1>r DEF Confirm
  <2>2. \A d \in Cancellers : d # c => request'[d] = request[d]
    BY <1>19, ConfirmTurns
  <2>3. request'[c].job = request[c].job
    BY <1>19, ConfirmTurns
  <2>4. CASE request'[c].at = "over" /\ holder' = holder
    BY <2>1, <2>2, <2>4
  <2>5. CASE request'[c].at = "sending" /\ holder' = [holder EXCEPT ![request[c].job] = c]
    <3>1. CASE k = request[c].job
      <4>1. holder[k] = None /\ holder'[k] = c
        BY <2>1, <2>5, <3>1
      <4>2. stream[k] \notin {"progress", "sending"}
        BY <4>1
      <4>3. \A d \in Cancellers : request[d].at = "sending" => request[d].job # k
        BY <4>1
      <4> QED BY <2>1, <2>2, <4>1, <4>2, <4>3
    <3>2. CASE k # request[c].job
      BY <2>1, <2>2, <2>3, <2>5, <3>2
    <3> QED BY <3>1, <3>2
  <2> QED BY <1>19, <2>4, <2>5, ConfirmTurns
<1>20. ASSUME NEW c \in Cancellers, ConfirmSent(c) PROVE LockIsSenders(k)'
  BY <1>20 DEF ConfirmSent
<1>21. CASE UNCHANGED streamVars
  BY <1>21 DEF streamVars
<1> QED BY <1>1, <1>2, <1>3, <1>4, <1>5, <1>6, <1>7, <1>8, <1>9, <1>10, <1>11, <1>12,
           <1>13, <1>14, <1>15, <1>16, <1>17, <1>18, <1>19, <1>20, <1>21 DEF StreamNext,
           StreamStep, RequestStep, WorkerAnswers

(* A request follows what it knows of its job.                                 *)
LEMMA RequestFollows ==
  ASSUME StreamInv, [StreamNext]_streamVars PROVE \A d \in Cancellers : RequestTrue(d)'
<1> TAKE d \in Cancellers
<1> USE DEF StreamInv, StreamTypeOK, RequestTrue, Goto, Turn, Sent, SentProgress, deliveries
<1>o. \A k \in Jobs : outcome[k] \in Outcomes => outcome'[k] = outcome[k]
  BY OutcomeStays
<1>c. "cancelled" \in Outcomes
  BY DEF Outcomes
<1> USE <1>o, <1>c
<1>1. ASSUME NEW j \in Jobs, Accept(j) PROVE RequestTrue(d)'
  BY <1>1 DEF Accept
<1>2. ASSUME NEW j \in Jobs, NotLaunched(j) PROVE RequestTrue(d)'
  BY <1>2 DEF NotLaunched
<1>3. ASSUME NEW j \in Jobs, Disconnected(j) PROVE RequestTrue(d)'
  BY <1>3 DEF Disconnected
<1>4. ASSUME NEW j \in Jobs, Launch(j) PROVE RequestTrue(d)'
  BY <1>4 DEF Launch
<1>5. ASSUME NEW j \in Jobs, WorkerReady(j) PROVE RequestTrue(d)'
  BY <1>5 DEF WorkerReady
<1>6. ASSUME NEW j \in Jobs, WorkerNotReady(j) PROVE RequestTrue(d)'
  BY <1>6 DEF WorkerNotReady
<1>7. ASSUME NEW j \in Jobs, Commit(j) PROVE RequestTrue(d)'
  BY <1>7 DEF Commit
<1>8. ASSUME NEW j \in Jobs, MonitorEnds(j) PROVE RequestTrue(d)'
  BY <1>8 DEF MonitorEnds
<1>9. ASSUME NEW j \in Jobs, SendProgress(j) PROVE RequestTrue(d)'
  BY <1>9 DEF SendProgress
<1>10. ASSUME NEW j \in Jobs, Verdict(j) PROVE RequestTrue(d)'
  <2>1. outcome' = outcome
    BY <1>10 DEF Verdict
  <2>2. CASE request'[d] = request[d]
    BY <2>1, <2>2
  <2>3. CASE /\ request[d].at = "joined" /\ request[d].job = j
             /\ request'[d].at = "answered" /\ request'[d].job = j
             /\ request'[d].answer = "cancelled" => outcome[j] = "cancelled"
    BY <2>1, <2>3
  <2> QED BY <1>10, <2>2, <2>3, VerdictAnswers
<1>11. ASSUME NEW j \in Jobs, Finished(j) PROVE RequestTrue(d)'
  BY <1>11 DEF Finished
<1>12. ASSUME NEW j \in Jobs, Report(j) PROVE RequestTrue(d)'
  BY <1>12 DEF Report
<1>13. ASSUME NEW j \in Jobs, ReportSent(j) PROVE RequestTrue(d)'
  BY <1>13 DEF ReportSent
<1>14. ASSUME NEW j \in Jobs, ProgressSent(j) PROVE RequestTrue(d)'
  BY <1>14 DEF ProgressSent
<1>15. ASSUME NEW c \in Cancellers, Ask(c) PROVE RequestTrue(d)'
  BY <1>15 DEF Ask
<1>16. ASSUME NEW c \in Cancellers, Stop(c) PROVE RequestTrue(d)'
  <2>1. outcome' = outcome
    BY <1>16 DEF Stop
  <2>2. CASE request'[d] = request[d]
    BY <2>1, <2>2
  <2>3. CASE /\ d = c /\ request'[d].job = request[d].job
             /\ request'[d].at \in {"joined", "answered"} /\ request[d].at = "waiting"
             /\ request'[d].at = "answered" /\ request'[d].answer = "cancelled"
                   => outcome[request[d].job] = "cancelled"
    BY <2>1, <2>3
  <2> QED BY <1>16, <2>2, <2>3, StopAnswers
<1>17. ASSUME NEW c \in Cancellers, Abandon(c) PROVE RequestTrue(d)'
  BY <1>17 DEF Abandon
<1>18. ASSUME NEW c \in Cancellers, CancelAnswered(c) PROVE RequestTrue(d)'
  BY <1>18 DEF CancelAnswered
<1>19. ASSUME NEW c \in Cancellers, Confirm(c) PROVE RequestTrue(d)'
  <2>1. outcome' = outcome /\ request[c].at = "report"
    BY <1>19 DEF Confirm
  <2> QED BY <1>19, <2>1, ConfirmTurns
<1>20. ASSUME NEW c \in Cancellers, ConfirmSent(c) PROVE RequestTrue(d)'
  BY <1>20 DEF ConfirmSent
<1>21. CASE UNCHANGED streamVars
  BY <1>21 DEF streamVars
<1> QED BY <1>1, <1>2, <1>3, <1>4, <1>5, <1>6, <1>7, <1>8, <1>9, <1>10, <1>11, <1>12,
           <1>13, <1>14, <1>15, <1>16, <1>17, <1>18, <1>19, <1>20, <1>21 DEF StreamNext,
           StreamStep, RequestStep, WorkerAnswers

(* At most one final event is sent,                                            *)
LEMMA SentOnceStep ==
  ASSUME StreamAssumption, StreamInv, [StreamNext]_streamVars
  PROVE  \A k \in Jobs : SentOnce(k)'
<1> TAKE k \in Jobs
<1> USE DEF StreamInv, StreamTypeOK, SentOnce, Goto, Turn, Sent, SentProgress, deliveries
<1>r. \A c \in Cancellers : request[c].at # "idle" => request[c].job \in Jobs
  BY DEF RequestTrue
<1>1. ASSUME NEW j \in Jobs, Accept(j) PROVE SentOnce(k)'
  <2>1. /\ stream' = [stream EXCEPT ![j] = "starting"] /\ stream[j] = "none"
        /\ UNCHANGED <<request, final, emitted>>
    BY <1>1 DEF Accept, StreamFollows
  <2> QED BY <2>1, NothingSent
<1>2. ASSUME NEW j \in Jobs, NotLaunched(j) PROVE SentOnce(k)'
  BY <1>2 DEF NotLaunched
<1>3. ASSUME NEW j \in Jobs, Disconnected(j) PROVE SentOnce(k)'
  BY <1>3 DEF Disconnected
<1>4. ASSUME NEW j \in Jobs, Launch(j) PROVE SentOnce(k)'
  BY <1>4 DEF Launch
<1>5. ASSUME NEW j \in Jobs, WorkerReady(j) PROVE SentOnce(k)'
  BY <1>5 DEF WorkerReady
<1>6. ASSUME NEW j \in Jobs, WorkerNotReady(j) PROVE SentOnce(k)'
  BY <1>6 DEF WorkerNotReady
<1>7. ASSUME NEW j \in Jobs, Commit(j) PROVE SentOnce(k)'
  BY <1>7 DEF Commit
<1>8. ASSUME NEW j \in Jobs, MonitorEnds(j) PROVE SentOnce(k)'
  BY <1>8 DEF MonitorEnds
<1>9. ASSUME NEW j \in Jobs, SendProgress(j) PROVE SentOnce(k)'
  <2>1. /\ stream' = [stream EXCEPT ![j] = "progress"] /\ stream[j] = "sleeping"
        /\ UNCHANGED <<request, final, emitted>>
    BY <1>9 DEF SendProgress
  <2>2. final[j] = <<>>
    BY <1>9, NothingSentYet DEF SendProgress
  <2> QED BY <2>1, <2>2
<1>10. ASSUME NEW j \in Jobs, Verdict(j) PROVE SentOnce(k)'
  <2>1. \A c \in Cancellers : request'[c] = request[c] \/ request[c].at = "joined"
    BY <1>10, VerdictAnswers
  <2>2. UNCHANGED <<stream, final, emitted>>
    BY <1>10 DEF Verdict
  <2> QED BY <2>1, <2>2, NothingSent
<1>11. ASSUME NEW j \in Jobs, Finished(j) PROVE SentOnce(k)'
  BY <1>11 DEF Finished
<1>12. ASSUME NEW j \in Jobs, Report(j) PROVE SentOnce(k)'
  <2>1. CASE j \in emitted
    <3>1. /\ stream' = [stream EXCEPT ![j] = "over"] /\ stream[j] # "sending"
          /\ UNCHANGED <<request, final, emitted>>
      BY <1>12, <2>1 DEF Report
    <3> QED BY <3>1
  <2>2. CASE j \notin emitted
    <3>1. final[j] = <<>>
      BY <1>12, <2>2, NothingSentYet DEF Report
    <3>2. /\ stream' = [stream EXCEPT ![j] = "sending"]
          /\ final' = [final EXCEPT ![j] = Append(final[j], StreamState(j))]
          /\ UNCHANGED <<request, emitted>>
      BY <1>12, <2>2 DEF Report
    <3>3. CASE k = j
      <4>1. final'[k] = Append(final[k], StreamState(k)) /\ stream'[k] = "sending"
        BY <3>2, <3>3
      <4>2. Len(final'[k]) = 1
        BY <3>1, <3>3, <4>1
      <4> QED BY <4>1, <4>2
    <3>4. CASE k # j
      <4>1. final'[k] = final[k] /\ stream'[k] = stream[k]
        BY <3>2, <3>4
      <4> QED BY <3>2, <4>1
    <3> QED BY <3>3, <3>4
  <2> QED BY <2>1, <2>2
<1>13. ASSUME NEW j \in Jobs, ReportSent(j) PROVE SentOnce(k)'
  BY <1>13 DEF ReportSent
<1>14. ASSUME NEW j \in Jobs, ProgressSent(j) PROVE SentOnce(k)'
  <2>1. /\ stream' = [stream EXCEPT ![j] = "sleeping"] /\ stream[j] = "progress"
        /\ UNCHANGED <<request, final, emitted>>
    BY <1>14 DEF ProgressSent
  <2> QED BY <2>1
<1>15. ASSUME NEW c \in Cancellers, Ask(c) PROVE SentOnce(k)'
  BY <1>15 DEF Ask
<1>16. ASSUME NEW c \in Cancellers, Stop(c) PROVE SentOnce(k)'
  <2>1. \A d \in Cancellers : request'[d] = request[d] \/ request[d].at = "waiting"
    BY <1>16, StopAnswers
  <2>2. UNCHANGED <<stream, final, emitted>>
    BY <1>16 DEF Stop
  <2> QED BY <2>1, <2>2, NothingSent
<1>17. ASSUME NEW c \in Cancellers, Abandon(c) PROVE SentOnce(k)'
  BY <1>17 DEF Abandon
<1>18. ASSUME NEW c \in Cancellers, CancelAnswered(c) PROVE SentOnce(k)'
  BY <1>18 DEF CancelAnswered
<1>19. ASSUME NEW c \in Cancellers, Confirm(c) PROVE SentOnce(k)'
  <2>1. \A d \in Cancellers : d # c => request'[d] = request[d]
    BY <1>19, ConfirmTurns
  <2>2. stream' = stream /\ emitted' = emitted /\ request[c].at = "report"
    BY <1>19 DEF Confirm
  <2>3. CASE request[c].job \in emitted
    <3>1. final' = final
      BY <1>19, <2>3 DEF Confirm
    <3>2. \A d \in Cancellers : request'[d] = request[d] \/ request[d].at # "sending"
      BY <2>1, <2>2
    <3> QED BY <2>2, <3>1, <3>2, NothingSent
  <2>4. CASE request[c].job \notin emitted
    <3>1. PICK j \in Jobs : j = request[c].job
      BY <1>19, <1>r DEF Confirm
    <3>2. final[j] = <<>>
      BY <1>19, <2>4, <3>1, NothingSentYet DEF Confirm
    <3>3. final' = [final EXCEPT ![j] = Append(final[j], "cancelled")]
      BY <1>19, <2>4, <3>1 DEF Confirm
    <3>4. request'[c].at = "sending" /\ request'[c].job = j
      <4>1. request' = [request EXCEPT ![c].at = "sending"]
        BY <1>19, <2>4 DEF Confirm
      <4> QED BY <3>1, <4>1
    <3>5. CASE k = j
      <4>1. Len(final'[k]) = 1
        BY <3>2, <3>3, <3>5
      <4>2. stream[k] # "progress"
        <5>1. holder[k] = None
          BY <1>19, <3>1, <3>5 DEF Confirm
        <5> QED BY <5>1 DEF StreamAssumption, LockIsSenders
      <4> QED BY <2>2, <3>4, <3>5, <4>1, <4>2
    <3>6. CASE k # j
      <4>1. final'[k] = final[k]
        BY <3>3, <3>6
      <4>2. \A d \in Cancellers : request'[d] = request[d] \/ request[d].at # "sending"
        BY <2>1, <2>2
      <4> QED BY <2>2, <4>1, <4>2, NothingSent
    <3> QED BY <3>5, <3>6
  <2> QED BY <2>3, <2>4
<1>20. ASSUME NEW c \in Cancellers, ConfirmSent(c) PROVE SentOnce(k)'
  BY <1>20 DEF ConfirmSent
<1>21. CASE UNCHANGED streamVars
  BY <1>21 DEF streamVars
<1> QED BY <1>1, <1>2, <1>3, <1>4, <1>5, <1>6, <1>7, <1>8, <1>9, <1>10, <1>11, <1>12,
           <1>13, <1>14, <1>15, <1>16, <1>17, <1>18, <1>19, <1>20, <1>21 DEF StreamNext,
           StreamStep, RequestStep, WorkerAnswers

(* nothing after it,                                                           *)
LEMMA NothingLate ==
  ASSUME StreamAssumption, StreamInv, [StreamNext]_streamVars
  PROVE  tardy' = {}
<1> USE DEF StreamInv, Goto, Turn, Sent, SentProgress, deliveries
<1>r. \A c \in Cancellers : request[c].at # "idle" => request[c].job \in Jobs
  BY DEF RequestTrue
<1>1. ASSUME NEW j \in Jobs, Accept(j) PROVE tardy' = {}
  BY <1>1 DEF Accept
<1>2. ASSUME NEW j \in Jobs, NotLaunched(j) PROVE tardy' = {}
  BY <1>2 DEF NotLaunched
<1>3. ASSUME NEW j \in Jobs, Disconnected(j) PROVE tardy' = {}
  BY <1>3 DEF Disconnected
<1>4. ASSUME NEW j \in Jobs, Launch(j) PROVE tardy' = {}
  BY <1>4 DEF Launch
<1>5. ASSUME NEW j \in Jobs, WorkerReady(j) PROVE tardy' = {}
  BY <1>5 DEF WorkerReady
<1>6. ASSUME NEW j \in Jobs, WorkerNotReady(j) PROVE tardy' = {}
  BY <1>6 DEF WorkerNotReady
<1>7. ASSUME NEW j \in Jobs, Commit(j) PROVE tardy' = {}
  BY <1>7 DEF Commit
<1>8. ASSUME NEW j \in Jobs, MonitorEnds(j) PROVE tardy' = {}
  BY <1>8 DEF MonitorEnds
<1>9. ASSUME NEW j \in Jobs, SendProgress(j) PROVE tardy' = {}
  BY <1>9 DEF SendProgress
<1>10. ASSUME NEW j \in Jobs, Verdict(j) PROVE tardy' = {}
  BY <1>10 DEF Verdict
<1>11. ASSUME NEW j \in Jobs, Finished(j) PROVE tardy' = {}
  BY <1>11 DEF Finished
<1>12. ASSUME NEW j \in Jobs, Report(j) PROVE tardy' = {}
  <2>1. j \notin emitted => final[j] = <<>>
    BY <1>12, NothingSentYet DEF Report
  <2> QED BY <1>12, <2>1 DEF Report
<1>13. ASSUME NEW j \in Jobs, ReportSent(j) PROVE tardy' = {}
  BY <1>13 DEF ReportSent
<1>14. ASSUME NEW j \in Jobs, ProgressSent(j) PROVE tardy' = {}
  <2>1. final[j] = <<>>
    BY <1>14 DEF ProgressSent, SentOnce
  <2> QED BY <1>14, <2>1 DEF ProgressSent
<1>15. ASSUME NEW c \in Cancellers, Ask(c) PROVE tardy' = {}
  BY <1>15 DEF Ask
<1>16. ASSUME NEW c \in Cancellers, Stop(c) PROVE tardy' = {}
  BY <1>16 DEF Stop
<1>17. ASSUME NEW c \in Cancellers, Abandon(c) PROVE tardy' = {}
  BY <1>17 DEF Abandon
<1>18. ASSUME NEW c \in Cancellers, CancelAnswered(c) PROVE tardy' = {}
  BY <1>18 DEF CancelAnswered
<1>19. ASSUME NEW c \in Cancellers, Confirm(c) PROVE tardy' = {}
  <2>1. request[c].job \in Jobs
    BY <1>19, <1>r DEF Confirm
  <2>2. request[c].job \notin emitted => final[request[c].job] = <<>>
    BY <1>19, <2>1, NothingSentYet DEF Confirm
  <2> QED BY <1>19, <2>2 DEF Confirm
<1>20. ASSUME NEW c \in Cancellers, ConfirmSent(c) PROVE tardy' = {}
  BY <1>20 DEF ConfirmSent
<1>21. CASE UNCHANGED streamVars
  BY <1>21 DEF streamVars
<1> QED BY <1>1, <1>2, <1>3, <1>4, <1>5, <1>6, <1>7, <1>8, <1>9, <1>10, <1>11, <1>12,
           <1>13, <1>14, <1>15, <1>16, <1>17, <1>18, <1>19, <1>20, <1>21 DEF StreamNext,
           StreamStep, RequestStep, WorkerAnswers

(* and it says what the store has recorded.                                    *)
LEMMA SentTrulyStep ==
  ASSUME StreamAssumption, StreamInv, [StreamNext]_streamVars
  PROVE  \A k \in Jobs : SentTruly(k)'
<1> TAKE k \in Jobs
<1> USE DEF StreamInv, StreamTypeOK, SentTruly, Goto, Turn, Sent, SentProgress, deliveries
<1>o. outcome[k] \in Outcomes => outcome'[k] = outcome[k]
  BY OutcomeStays
<1>c. "completed" \in Outcomes /\ "cancelled" \in Outcomes
  BY DEF Outcomes
<1> USE <1>o, <1>c
<1>r. \A c \in Cancellers : request[c].at # "idle" => request[c].job \in Jobs
  BY DEF RequestTrue
<1>1. ASSUME NEW j \in Jobs, Accept(j) PROVE SentTruly(k)'
  BY <1>1 DEF Accept
<1>2. ASSUME NEW j \in Jobs, NotLaunched(j) PROVE SentTruly(k)'
  BY <1>2 DEF NotLaunched
<1>3. ASSUME NEW j \in Jobs, Disconnected(j) PROVE SentTruly(k)'
  BY <1>3 DEF Disconnected
<1>4. ASSUME NEW j \in Jobs, Launch(j) PROVE SentTruly(k)'
  BY <1>4 DEF Launch
<1>5. ASSUME NEW j \in Jobs, WorkerReady(j) PROVE SentTruly(k)'
  BY <1>5 DEF WorkerReady
<1>6. ASSUME NEW j \in Jobs, WorkerNotReady(j) PROVE SentTruly(k)'
  BY <1>6 DEF WorkerNotReady
<1>7. ASSUME NEW j \in Jobs, Commit(j) PROVE SentTruly(k)'
  BY <1>7 DEF Commit
<1>8. ASSUME NEW j \in Jobs, MonitorEnds(j) PROVE SentTruly(k)'
  BY <1>8 DEF MonitorEnds
<1>9. ASSUME NEW j \in Jobs, SendProgress(j) PROVE SentTruly(k)'
  BY <1>9 DEF SendProgress
<1>10. ASSUME NEW j \in Jobs, Verdict(j) PROVE SentTruly(k)'
  BY <1>10 DEF Verdict
<1>11. ASSUME NEW j \in Jobs, Finished(j) PROVE SentTruly(k)'
  BY <1>11 DEF Finished
<1>12. ASSUME NEW j \in Jobs, Report(j) PROVE SentTruly(k)'
  <2>1. CASE j \in emitted
    <3>1. final' = final
      BY <1>12, <2>1 DEF Report
    <3> QED BY <3>1
  <2>2. CASE j \notin emitted
    <3>1. final[j] = <<>>
      BY <1>12, <2>2, NothingSentYet DEF Report
    <3>2. /\ final' = [final EXCEPT ![j] = Append(final[j], StreamState(j))]
          /\ outcome' = outcome
      BY <1>12, <2>2 DEF Report
    <3>3. CASE k = j
      <4>1. final'[k] = <<StreamState(k)>>
        BY <3>1, <3>2, <3>3
      <4>2. StreamState(k) \in {"completed", "cancelled"} => outcome[k] = StreamState(k)
        BY DEF StreamState
      <4> QED BY <3>2, <4>1, <4>2
    <3>4. CASE k # j
      BY <3>2, <3>4
    <3> QED BY <3>3, <3>4
  <2> QED BY <2>1, <2>2
<1>13. ASSUME NEW j \in Jobs, ReportSent(j) PROVE SentTruly(k)'
  BY <1>13 DEF ReportSent
<1>14. ASSUME NEW j \in Jobs, ProgressSent(j) PROVE SentTruly(k)'
  BY <1>14 DEF ProgressSent
<1>15. ASSUME NEW c \in Cancellers, Ask(c) PROVE SentTruly(k)'
  BY <1>15 DEF Ask
<1>16. ASSUME NEW c \in Cancellers, Stop(c) PROVE SentTruly(k)'
  BY <1>16 DEF Stop
<1>17. ASSUME NEW c \in Cancellers, Abandon(c) PROVE SentTruly(k)'
  BY <1>17 DEF Abandon
<1>18. ASSUME NEW c \in Cancellers, CancelAnswered(c) PROVE SentTruly(k)'
  BY <1>18 DEF CancelAnswered
<1>19. ASSUME NEW c \in Cancellers, Confirm(c) PROVE SentTruly(k)'
  <2>1. PICK j \in Jobs : j = request[c].job
    BY <1>19, <1>r DEF Confirm
  <2>2. outcome' = outcome /\ outcome[j] = "cancelled"
    BY <1>19, <2>1 DEF Confirm, RequestTrue
  <2>3. CASE j \in emitted
    BY <1>19, <2>1, <2>2, <2>3 DEF Confirm
  <2>4. CASE j \notin emitted
    <3>1. final[j] = <<>>
      BY <1>19, <2>1, <2>4, NothingSentYet DEF Confirm
    <3>2. final' = [final EXCEPT ![j] = Append(final[j], "cancelled")]
      BY <1>19, <2>1, <2>4 DEF Confirm
    <3>3. CASE k = j
      <4>1. final'[k] = <<"cancelled">>
        BY <3>1, <3>2, <3>3
      <4> QED BY <2>2, <3>3, <4>1
    <3>4. CASE k # j
      BY <2>2, <3>2, <3>4
    <3> QED BY <3>3, <3>4
  <2> QED BY <2>3, <2>4
<1>20. ASSUME NEW c \in Cancellers, ConfirmSent(c) PROVE SentTruly(k)'
  BY <1>20 DEF ConfirmSent
<1>21. CASE UNCHANGED streamVars
  BY <1>21 DEF streamVars
<1> QED BY <1>1, <1>2, <1>3, <1>4, <1>5, <1>6, <1>7, <1>8, <1>9, <1>10, <1>11, <1>12,
           <1>13, <1>14, <1>15, <1>16, <1>17, <1>18, <1>19, <1>20, <1>21 DEF StreamNext,
           StreamStep, RequestStep, WorkerAnswers

LEMMA StreamInvStep ==
  ASSUME StreamAssumption, StreamInv, [StreamNext]_streamVars
  PROVE  StreamInv'
<1> QED BY StreamTypeStep, FollowStep, LockStep, RequestFollows, SentOnceStep, NothingLate,
           SentTrulyStep DEF StreamInv

LEMMA StreamInvInit == ASSUME StreamAssumption, StreamInit PROVE StreamInv
<1>1. StreamTypeOK
  BY DEF StreamInit, StreamTypeOK, Outcomes, CancelAnswers, Streams, Requests
<1>2. \A j \in Jobs : StreamFollows(j) /\ LockIsSenders(j) /\ SentOnce(j) /\ SentTruly(j)
  <2> TAKE j \in Jobs
  <2>1. /\ outcome[j] = "none" /\ worker[j] = "none" /\ stream[j] = "none"
        /\ final[j] = <<>> /\ \A c \in Cancellers : request[c].at = "idle"
    BY DEF StreamInit
  <2>2. StreamFollows(j)
    BY <2>1 DEF StreamFollows, Outcomes
  <2>3. LockIsSenders(j) /\ SentOnce(j) /\ SentTruly(j)
    BY <2>1 DEF LockIsSenders, SentOnce, SentTruly
  <2> QED BY <2>2, <2>3
<1>3. \A c \in Cancellers : RequestTrue(c)
  BY DEF StreamInit, RequestTrue
<1> QED BY <1>1, <1>2, <1>3 DEF StreamInit, StreamInv

(* However many jobs, streams and cancel requests there are, and whatever they  *)
(* do between two awaits, a task's client gets at most one final event, nothing *)
(* after it, and none that says "completed" or "cancelled" of a job that is not *)
(* so recorded.                                                                *)
THEOREM StreamsAreSound == StreamAssumption => (StreamSpec => []FinalEventsSound)
<1> SUFFICES ASSUME StreamAssumption PROVE StreamSpec => []FinalEventsSound
  OBVIOUS
<1>1. StreamInit => StreamInv
  BY StreamInvInit
<1>2. StreamInv /\ [StreamNext]_streamVars => StreamInv'
  BY StreamInvStep
<1>3. StreamInv => FinalEventsSound
  BY DEF StreamInv, FinalEventsSound, NothingAfterFinal, FinalIsTrue, SentOnce, SentTruly
<1> QED BY <1>1, <1>2, <1>3, PTL DEF StreamSpec

--------------------------------------------------------------------------------
(* The callers of the status tool.                                             *)

LEMMA WaitTypeStep ==
  ASSUME WaitTypeOK, [WaitNext]_waitVars PROVE WaitTypeOK'
<1> USE DEF WaitTypeOK, WaitStates, Waiting, Replies, Statuses,
            EndStatuses, WaitAt
<1>1. ASSUME NEW w \in Waiters, Await(w) PROVE WaitTypeOK'
  BY <1>1 DEF Await
<1>2. ASSUME NEW w \in Waiters, Expire(w) PROVE WaitTypeOK'
  BY <1>2 DEF Expire
<1>3. ASSUME NEW w \in Waiters, Arm(w) PROVE WaitTypeOK'
  BY <1>3 DEF Arm
<1>4. ASSUME NEW w \in Waiters, Poll(w) PROVE WaitTypeOK'
  BY <1>4 DEF Poll
<1>5. ASSUME NEW w \in Waiters, Resume(w) PROVE WaitTypeOK'
  <2>1. Reply(w) \in {"gone", "changed", "unchanged", "arming"}
    BY DEF Reply
  <2> QED BY <1>5, <2>1 DEF Resume
<1>6. ASSUME NEW w \in Waiters, Return(w) PROVE WaitTypeOK'
  BY <1>6 DEF Return
<1>7. CASE Change
  <2>1. status' \in Statuses
    BY <1>7 DEF Change, Successors
  <2>2. \A w \in Waiters : Wake(wait[w]) \in WaitStates
    BY DEF Wake
  <2> QED BY <1>7, <2>1, <2>2 DEF Change
<1>8. CASE Remove
  BY <1>8 DEF Remove
<1>9. CASE UNCHANGED waitVars
  BY <1>9 DEF waitVars
<1> QED BY <1>1, <1>2, <1>3, <1>4, <1>5, <1>6, <1>7, <1>8, <1>9
       DEF WaitNext, WaiterStep

(* "Timeout, status unchanged" is said only of a job that has the status the    *)
(* caller knows, however many callers share and clear the event, and also when  *)
(* the change and the timeout come together.                                   *)
THEOREM UnchangedIsSaidTruly == WaitSpec => UnchangedIsTrue
<1> DEFINE Truly == \A w \in Waiters :
                       wait[w].at # "unchanged" /\ wait'[w].at = "unchanged" =>
                           status = wait[w].seen
<1>1. WaitInit => WaitTypeOK
  <2>1. [at |-> "idle", seen |-> "queued", late |-> FALSE] \in WaitStates
    BY DEF WaitStates, Statuses
  <2> QED BY <2>1 DEF WaitInit, WaitTypeOK, Statuses
<1>2. WaitTypeOK /\ [WaitNext]_waitVars => WaitTypeOK'
  BY WaitTypeStep
<1>3. ASSUME WaitTypeOK, [WaitNext]_waitVars PROVE [Truly]_waitVars
  <2> USE <1>3 DEF WaitTypeOK, WaitStates, WaitAt
  <2>1. ASSUME NEW v \in Waiters, Await(v) \/ Expire(v) PROVE Truly
    BY <2>1 DEF Await, Expire
  <2>2. ASSUME NEW v \in Waiters, Arm(v) \/ Poll(v) \/ Return(v) PROVE Truly
    BY <2>2 DEF Arm, Poll, Return
  <2>3. ASSUME NEW v \in Waiters, Resume(v) PROVE Truly
    <3>1. Reply(v) = "unchanged" => status = wait[v].seen
      BY DEF Reply
    <3> QED BY <2>3, <3>1 DEF Resume
  <2>4. CASE Change
    BY <2>4 DEF Change, Wake
  <2>5. CASE Remove
    BY <2>5 DEF Remove
  <2> QED BY <2>1, <2>2, <2>3, <2>4, <2>5 DEF WaitNext, WaiterStep
<1> QED BY <1>1, <1>2, <1>3, PTL DEF WaitSpec, UnchangedIsTrue
================================================================================
