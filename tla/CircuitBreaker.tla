--------------------------- MODULE CircuitBreaker ---------------------------
(***************************************************************************)
(* One CircuitBreaker (libs/common/resilience.py) and the tasks that call  *)
(* through it.  A call is admitted or rejected in one step, and the state  *)
(* changes again when the awaited operation ends, by then in whatever      *)
(* state other calls have left the breaker.                                *)
(***************************************************************************)
EXTENDS Naturals, FiniteSets

CONSTANTS
  Callers,   \* tasks that call through the breaker
  Threshold  \* failure_threshold

ASSUME ThresholdAssumption == Threshold \in Nat \ {0}

VARIABLES
  circuit,   \* _state
  failures,  \* _failure_count
  opened,    \* _opened_at: "never" (None), less than reset_timeout ago, or more
  lock,      \* _half_open_lock is held
  call,      \* per caller: no call, an admitted one, or one that holds the lock
  healthy    \* the backend behind the breaker answers

vars == <<circuit, failures, opened, lock, call, healthy>>

TypeOK ==
  /\ circuit \in {"CLOSED", "OPEN", "HALF_OPEN"}
  /\ failures \in 0..(Threshold + Cardinality(Callers))
  /\ opened \in {"never", "recently", "long ago"}
  /\ lock \in BOOLEAN
  /\ call \in [Callers -> {"none", "plain", "probe"}]
  /\ healthy \in BOOLEAN

Init ==
  /\ circuit = "CLOSED" /\ failures = 0 /\ opened = "never" /\ lock = FALSE
  /\ call = [c \in Callers |-> "none"]
  /\ healthy \in BOOLEAN

-----------------------------------------------------------------------------
\* _maybe_transition_half_open: the state a caller or a reader finds.
Observed == IF circuit = "OPEN" /\ opened = "long ago" THEN "HALF_OPEN" ELSE circuit

\* The `state` property.
ReadState ==
  /\ circuit' = Observed
  /\ UNCHANGED <<failures, opened, lock, call, healthy>>

\* Mutant: whoever finds the breaker half-open is let through.
CallWithoutLock(c) ==
  /\ call[c] = "none"
  /\ circuit' = Observed
  /\ \/ /\ Observed = "OPEN"
        /\ UNCHANGED <<lock, call>>
     \/ /\ Observed = "HALF_OPEN"
        /\ lock' = TRUE
        /\ call' = [call EXCEPT ![c] = "probe"]
     \/ /\ Observed = "CLOSED"
        /\ call' = [call EXCEPT ![c] = "plain"]
        /\ UNCHANGED lock
  /\ UNCHANGED <<failures, opened, healthy>>

\* call(): reject, become the probe, or run unprotected.
Call(c) ==
  /\ call[c] = "none"
  /\ circuit' = Observed
  /\ \/ /\ Observed = "OPEN" \/ (Observed = "HALF_OPEN" /\ lock)
        /\ UNCHANGED <<lock, call>>
     \/ /\ Observed = "HALF_OPEN" /\ ~lock
        /\ lock' = TRUE
        /\ call' = [call EXCEPT ![c] = "probe"]
     \/ /\ Observed = "CLOSED"
        /\ call' = [call EXCEPT ![c] = "plain"]
        /\ UNCHANGED lock
  /\ UNCHANGED <<failures, opened, healthy>>

\* The call returns to its caller; a probe lets go of the lock.
End(c) ==
  /\ call' = [call EXCEPT ![c] = "none"]
  /\ lock' = (lock /\ call[c] # "probe")

\* Mutant: a failed probe leaves the breaker open without an opening time.
RecordFailureForgets ==
  \/ /\ circuit = "HALF_OPEN"
     /\ circuit' = "OPEN" /\ opened' = "never"
     /\ UNCHANGED failures
  \/ /\ circuit # "HALF_OPEN"
     /\ failures' = failures + 1
     /\ IF failures + 1 >= Threshold
        THEN circuit' = "OPEN" /\ opened' = "recently"
        ELSE UNCHANGED <<circuit, opened>>

\* _record_failure, whichever state the failing call was admitted in.
RecordFailure ==
  \/ /\ circuit = "HALF_OPEN"
     /\ circuit' = "OPEN" /\ opened' = "recently"
     /\ UNCHANGED failures
  \/ /\ circuit # "HALF_OPEN"
     /\ failures' = failures + 1
     /\ IF failures + 1 >= Threshold
        THEN circuit' = "OPEN" /\ opened' = "recently"
        ELSE UNCHANGED <<circuit, opened>>

\* _record_success, whichever state the call was admitted in.
RecordSuccess == circuit' = "CLOSED" /\ failures' = 0 /\ opened' = "never"

Fail(c) ==
  /\ call[c] # "none" /\ ~healthy
  /\ End(c) /\ RecordFailure
  /\ UNCHANGED healthy

\* The backend may have answered and gone away since.
Succeed(c) ==
  /\ call[c] # "none"
  /\ End(c) /\ RecordSuccess
  /\ UNCHANGED healthy

\* Mutant: only a call that returns or raises lets go of the lock.
CancelKeepsLock(c) ==
  /\ call[c] # "none"
  /\ call' = [call EXCEPT ![c] = "none"]
  /\ UNCHANGED <<circuit, failures, opened, lock, healthy>>

\* CancelledError is no Exception: nothing is recorded.
Cancel(c) ==
  /\ call[c] # "none"
  /\ End(c)
  /\ UNCHANGED <<circuit, failures, opened, healthy>>

\* reset_timeout has passed since the breaker opened.
Elapse ==
  /\ opened = "recently"
  /\ opened' = "long ago"
  /\ UNCHANGED <<circuit, failures, lock, call, healthy>>

Backend ==
  /\ healthy' = ~healthy
  /\ UNCHANGED <<circuit, failures, opened, lock, call>>

Next ==
  \/ ReadState \/ Elapse \/ Backend
  \/ \E c \in Callers : Call(c) \/ Fail(c) \/ Succeed(c) \/ Cancel(c)

Spec == Init /\ [][Next]_vars

\* Time passes, callers keep calling, and a call ends and is not always cancelled.
FairSpec ==
  /\ Spec
  /\ WF_vars(Elapse)
  /\ \A c \in Callers : SF_vars(Call(c)) /\ SF_vars(Succeed(c)) /\ WF_vars(Fail(c))

-----------------------------------------------------------------------------
(* Properties *)

Probing == {c \in Callers : call[c] = "probe"}

\* A backend that has not been confirmed recovered is probed by one call at a
\* time, whatever calls are still in flight from before and however they end
\* (resilience.py:99-110); the lock is held for exactly as long as the probe runs.
SingleProbe ==
  /\ \A c, d \in Probing : c = d
  /\ lock <=> Probing # {}

\* The three fields agree: the breaker is closed exactly when fewer failures than
\* the threshold were counted and no opening time is set.  An open breaker without
\* an opening time would reject for ever (resilience.py:136).
FieldsAgree ==
  /\ circuit = "CLOSED" <=> failures < Threshold
  /\ circuit = "CLOSED" <=> opened = "never"

\* When the backend answers for good, the breaker closes for good: neither a
\* cancelled probe nor a late failure leaves it open or half-open.
Recovers == <>[]healthy => <>[](circuit = "CLOSED")

\* A breaker that is not closed closes only by the success of its probe.
ClosedByProbe ==
  [][circuit # "CLOSED" /\ circuit' = "CLOSED"
       => \E c \in Probing : Succeed(c)]_vars
=============================================================================
