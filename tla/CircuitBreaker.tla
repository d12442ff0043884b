--------------------------- MODULE CircuitBreaker ----------------------------
(***************************************************************************)
(* One circuit of utils/circuit_breaker.py and the threads that use it:    *)
(* a caller asks (check, or the legacy can_execute), makes its call, and   *)
(* records the outcome.  Each of the three is atomic, under the breaker's  *)
(* lock; the call between them is not, so outcomes arrive in any order and *)
(* in whatever state the circuit is by then.  Keys do not share state.     *)
(***************************************************************************)
EXTENDS Integers, FiniteSets

CONSTANTS
    Callers,           \* threads that make calls
    FailureThreshold,  \* failure_threshold
    SuccessThreshold,  \* success_threshold
    HalfOpenMax,       \* half_open_max_calls
    Checked            \* TRUE: check, FALSE: can_execute or is_open

(* The thresholds are positive; __post_init__ refuses others.              *)
BreakerAssumption ==
    /\ IsFiniteSet(Callers)
    /\ FailureThreshold \in Nat \ {0}
    /\ SuccessThreshold \in Nat \ {0}
    /\ HalfOpenMax \in Nat \ {0}
    /\ Checked \in BOOLEAN

VARIABLES
    state,      \* CLOSED, OPEN or HALF_OPEN
    failures,   \* failure_count, counted up to the threshold it is held against
    successes,  \* success_count, counted up to its threshold
    probes,     \* half_open_calls
    waited,     \* timeout_seconds have passed since the last change of state
    call,       \* caller |-> "none", or the state its call was admitted in
    streak,     \* history: failures recorded since the last success or reset
    trial       \* history of the half-open period: the callers that were out
                \* when it began, those of them that still are, and the
                \* successes of calls made in it

circuitVars == <<state, failures, successes, probes, waited, call, streak, trial>>

States == {"CLOSED", "OPEN", "HALF_OPEN"}

CircuitTypeOK ==
    /\ state \in States
    /\ failures \in 0..FailureThreshold
    /\ successes \in 0..SuccessThreshold
    /\ probes \in 0..SuccessThreshold
    /\ waited \in BOOLEAN
    /\ call \in [Callers -> {"none", "CLOSED", "HALF_OPEN"}]
    /\ streak \in 0..FailureThreshold
    /\ trial \in [overdue : SUBSET Callers, late : SUBSET Callers, tried : 0..SuccessThreshold]

NoTrial == [overdue |-> {}, late |-> {}, tried |-> 0]

CircuitInit ==
    /\ state = "CLOSED"
    /\ failures = 0
    /\ successes = 0
    /\ probes = 0
    /\ waited = FALSE
    /\ call = [c \in Callers |-> "none"]
    /\ streak = 0
    /\ trial = NoTrial

------------------------------------------------------------------------------
Least(a, b) == IF a < b THEN a ELSE b

(* A trial begins with those out that were admitted before it.             *)
Out == {c \in Callers : call[c] # "none"}

TrialOf(new) ==
    IF new = "HALF_OPEN" THEN [overdue |-> Out, late |-> Out, tried |-> 0] ELSE NoTrial

(* A transition to HALF_OPEN that keeps the successes counted while OPEN.  *)
ToUncleared(new, f, s, p) ==
    /\ state' = new
    /\ waited' = FALSE
    /\ failures' = IF new = "CLOSED" THEN 0 ELSE f
    /\ successes' = IF new = "HALF_OPEN" THEN s ELSE 0
    /\ probes' = IF new \in {"CLOSED", "HALF_OPEN"} THEN 0 ELSE p
    /\ trial' = TrialOf(new)

(* transition_to, with the counters as they were counted before it.        *)
To(new, f, s, p) ==
    /\ state' = new
    /\ waited' = FALSE
    /\ failures' = IF new = "CLOSED" THEN 0 ELSE f
    /\ successes' = 0
    /\ probes' = IF new \in {"CLOSED", "HALF_OPEN"} THEN 0 ELSE p
    /\ trial' = TrialOf(new)

Stay(f, s, p) ==
    /\ failures' = f
    /\ successes' = s
    /\ probes' = p
    /\ UNCHANGED <<state, waited>>

(* A caller ends its call in a state that stays; `tried' says whether a    *)
(* call of the trial succeeded.                                            *)
Back(c, tried) ==
    trial' = [trial EXCEPT !.late = @ \ {c}, !.tried = @ + tried]

(* timeout_seconds pass.                                                   *)
Age ==
    /\ state = "OPEN" /\ ~waited
    /\ waited' = TRUE
    /\ UNCHANGED <<state, failures, successes, probes, call, streak, trial>>

Admit(c, in) == call' = [call EXCEPT ![c] = in]

(* A call is let through: check, can_execute and is_open.  An open circuit *)
(* that has aged becomes half open, and its first caller is a probe.  Only *)
(* check looks at half_open_calls.                                         *)
Pass(c) ==
    /\ call[c] = "none"
    /\ \/ /\ state = "CLOSED"
          /\ Admit(c, "CLOSED")
          /\ UNCHANGED <<state, failures, successes, probes, waited, trial>>
       \/ /\ state = "OPEN" /\ waited
          /\ To("HALF_OPEN", failures, successes, probes)
          /\ Admit(c, "HALF_OPEN")
       \/ /\ state = "HALF_OPEN"
          /\ Checked => probes < HalfOpenMax
          /\ Admit(c, "HALF_OPEN")
          /\ UNCHANGED <<state, failures, successes, probes, waited, trial>>
    /\ UNCHANGED streak

(* record_success.                                                         *)
Succeed(c) ==
    LET s == Least(successes + 1, SuccessThreshold)
    IN  /\ call[c] # "none"
        /\ Admit(c, "none")
        /\ streak' = 0
        /\ \/ state = "HALF_OPEN" /\ s = SuccessThreshold /\ To("CLOSED", failures, s, probes)
           \/ /\ state = "HALF_OPEN" /\ s # SuccessThreshold
              /\ Stay(failures, s, probes + 1)
              /\ Back(c, IF c \in trial.late THEN 0 ELSE 1)
           \/ state = "CLOSED" /\ Stay(0, s, probes) /\ Back(c, 0)
           \/ state = "OPEN" /\ Stay(failures, s, probes) /\ Back(c, 0)

OutcomeOfFailure(f) ==
    IF state = "HALF_OPEN" \/ (state = "CLOSED" /\ f >= FailureThreshold)
    THEN To("OPEN", f, successes, probes)
    ELSE Stay(f, successes, probes) /\ UNCHANGED trial

(* record_failure.                                                         *)
Fail(c) ==
    /\ call[c] # "none"
    /\ Admit(c, "none")
    /\ streak' = Least(streak + 1, FailureThreshold)
    /\ OutcomeOfFailure(Least(failures + 1, FailureThreshold))

(* A caller that ends without recording anything: an exception that        *)
(* search_utils.py does not catch.                                         *)
Abandon(c) ==
    /\ call[c] # "none"
    /\ Admit(c, "none")
    /\ Back(c, 0)
    /\ UNCHANGED <<state, failures, successes, probes, waited, streak>>

(* reset.                                                                  *)
Reset ==
    /\ state # "CLOSED"
    /\ To("CLOSED", failures, successes, probes)
    /\ streak' = 0
    /\ UNCHANGED call

Ends(c) == Succeed(c) \/ Fail(c) \/ Abandon(c)

CircuitNext ==
    \/ Age \/ Reset
    \/ \E c \in Callers : Pass(c) \/ Ends(c)

CircuitSpec == CircuitInit /\ [][CircuitNext]_circuitVars

(* Callers go on making calls, the clock runs, and a call that can be      *)
(* recorded is recorded one way or the other.                              *)
CircuitFairSpec ==
    /\ CircuitSpec
    /\ WF_circuitVars(Age)
    /\ \A c \in Callers :
          /\ SF_circuitVars(Pass(c))
          /\ WF_circuitVars(Ends(c))
          /\ SF_circuitVars(Succeed(c))

------------------------------------------------------------------------------
(* The circuit is not closed on what happened before: a circuit that is    *)
(* open has seen at least the threshold of failures, and a closed one has  *)
(* forgotten what a success or a reset cleared, however outcomes of calls  *)
(* admitted in other states arrive.                                        *)
CountsConsecutive ==
    /\ state # "CLOSED" => failures = FailureThreshold
    /\ state = "CLOSED" => failures < FailureThreshold /\ failures <= streak

(* Only failures in a row open a closed circuit, and any failure reopens   *)
(* one that is being tried.                                                *)
OpensOnStreak ==
    [][/\ (state = "CLOSED" /\ state' = "OPEN" => streak' >= FailureThreshold)
       /\ (state = "HALF_OPEN" /\ (\E c \in Callers : Fail(c)) => state' = "OPEN")]_circuitVars

(* A circuit that is tried closes on the trial: of the success_threshold   *)
(* successes it takes, all recorded since the trial began and with no      *)
(* failure among them (OpensOnStreak), a caller that was already out when  *)
(* it began contributes at most one, whatever outcomes it left behind      *)
(* before; every other one is of a call the trial admitted.                *)
ClosesOnTrial ==
    [][\A c \in Callers :
        (state = "HALF_OPEN" /\ state' = "CLOSED" /\ call'[c] # call[c]) =>
            trial.tried + Cardinality(trial.overdue)
                + (IF c \in trial.late THEN 0 ELSE 1) >= SuccessThreshold]_circuitVars

(* A circuit that opened is closed again once calls succeed; it does not   *)
(* keep rejecting for ever.  success_threshold (circuit_breaker.py:76) is  *)
(* the number of successes that closes it.                                 *)
Recovers == <>[][\A c \in Callers : ~Fail(c)]_circuitVars => []<>(state = "CLOSED")

(* Outcomes of calls admitted in other states arrive at any time           *)
(* (circuit_breaker.py:259-298) and are counted.  Still, only failures in  *)
(* a row open the circuit, a failure while it is tried always does, and it *)
(* is not closed early by more than one late success of each caller that   *)
(* was out when the trial began.                                           *)
CircuitSound ==
    /\ [](CircuitTypeOK /\ CountsConsecutive)
    /\ OpensOnStreak
    /\ ClosesOnTrial
==============================================================================
