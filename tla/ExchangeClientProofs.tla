------------------------ MODULE ExchangeClientProofs ------------------------
(***************************************************************************)
(* The breaker's safety for any number of callers and any threshold, and   *)
(* what the exchange clients that connect through it count, for any number *)
(* of clients and any budgets.                                             *)
(***************************************************************************)
EXTENDS ExchangeClient, TLAPS

\* The types the argument needs, without TypeOK's bound on the failure count.
FieldTypes ==
  /\ circuit \in {"CLOSED", "OPEN", "HALF_OPEN"}
  /\ failures \in Nat
  /\ lock \in BOOLEAN
  /\ call \in [Callers -> {"none", "plain", "probe"}]

BreakerInv == FieldTypes /\ SingleProbe /\ FieldsAgree

\* A new breaker satisfies the invariant.
LEMMA BreakerInit == Init => BreakerInv
<1>1. ASSUME Init PROVE Probing = {} /\ lock = FALSE
  BY <1>1 DEF Init, Probing
<1>2. Probing = {} /\ lock = FALSE => SingleProbe
  BY DEF SingleProbe
<1>3. Init => FieldTypes
  <2>1. Init => lock \in BOOLEAN
    BY DEF Init
  <2>2. Init => circuit \in {"CLOSED", "OPEN", "HALF_OPEN"} /\ failures \in Nat
    BY DEF Init
  <2>3. Init => call \in [Callers -> {"none", "plain", "probe"}]
    BY DEF Init
  <2>4. QED
    BY <2>1, <2>2, <2>3 DEF FieldTypes
<1>4. Init => FieldsAgree
  BY ThresholdAssumption DEF Init, FieldsAgree
<1>5. QED
  BY <1>1, <1>2, <1>3, <1>4 DEF BreakerInv

\* How a call ends touches the lock and the callers only.
LEMMA EndKeepsSingleProbe ==
  ASSUME FieldTypes, SingleProbe, NEW c \in Callers, End(c)
  PROVE  /\ lock' \in BOOLEAN /\ call' \in [Callers -> {"none", "plain", "probe"}]
         /\ SingleProbe'
<1>1. /\ call' \in [Callers -> {"none", "plain", "probe"}]
      /\ lock' = (lock /\ call[c] # "probe")
  BY DEF FieldTypes, End
<1>2. Probing' = Probing \ {c}
  BY DEF FieldTypes, End, Probing
<1>3. CASE call[c] = "probe"
  <2>1. Probing = {c}
    BY <1>3 DEF SingleProbe, Probing
  <2>2. Probing' = {} /\ lock' = FALSE
    BY <1>1, <1>2, <1>3, <2>1
  <2>3. QED
    BY <1>1, <2>2 DEF SingleProbe
<1>4. CASE call[c] # "probe"
  <2>1. Probing' = Probing /\ lock' = lock
    BY <1>1, <1>2, <1>4 DEF Probing, FieldTypes
  <2>2. QED
    BY <1>1, <2>1 DEF SingleProbe, FieldTypes
<1>5. QED
  BY <1>3, <1>4

\* What a failure or a success does to the three fields keeps them in agreement.
LEMMA OutcomeKeepsFields ==
  ASSUME FieldTypes, FieldsAgree, RecordFailure \/ RecordSuccess
  PROVE  /\ circuit' \in {"CLOSED", "OPEN", "HALF_OPEN"} /\ failures' \in Nat
         /\ FieldsAgree'
<1>1. Threshold \in Nat \ {0} /\ failures \in Nat
  BY ThresholdAssumption DEF FieldTypes
<1>2. CASE RecordFailure
  <2>1. CASE circuit = "HALF_OPEN"
    BY <1>1, <1>2, <2>1 DEF RecordFailure, FieldTypes, FieldsAgree
  <2>2. CASE circuit # "HALF_OPEN" /\ failures + 1 >= Threshold
    BY <1>1, <1>2, <2>2 DEF RecordFailure, FieldTypes, FieldsAgree
  <2>3. CASE circuit # "HALF_OPEN" /\ ~(failures + 1 >= Threshold)
    BY <1>1, <1>2, <2>3 DEF RecordFailure, FieldTypes, FieldsAgree
  <2>4. QED
    BY <2>1, <2>2, <2>3
<1>3. CASE RecordSuccess
  BY <1>1, <1>3 DEF RecordSuccess, FieldsAgree
<1>4. QED
  BY <1>2, <1>3

\* Every step keeps the invariant.
LEMMA BreakerStep == BreakerInv /\ [Next]_vars => BreakerInv'
<1> SUFFICES ASSUME BreakerInv, [Next]_vars PROVE BreakerInv'
  OBVIOUS
<1>0. FieldTypes /\ SingleProbe /\ FieldsAgree
  BY DEF BreakerInv
<1>1. CASE ReadState
  BY <1>0, <1>1 DEF ReadState, Observed, BreakerInv, FieldTypes, SingleProbe, FieldsAgree, Probing
<1>2. CASE Elapse
  BY <1>0, <1>2 DEF Elapse, BreakerInv, FieldTypes, SingleProbe, FieldsAgree, Probing
<1>3. CASE Backend \/ UNCHANGED vars
  BY <1>0, <1>3 DEF Backend, vars, BreakerInv, FieldTypes, SingleProbe, FieldsAgree, Probing
<1>4. ASSUME NEW c \in Callers, Call(c) PROVE BreakerInv'
  <2>1. FieldsAgree' /\ circuit' \in {"CLOSED", "OPEN", "HALF_OPEN"} /\ failures' \in Nat
    BY <1>0, <1>4 DEF Call, Observed, FieldTypes, FieldsAgree
  <2>2. CASE UNCHANGED <<lock, call>>
    BY <1>0, <2>1, <2>2 DEF BreakerInv, FieldTypes, SingleProbe, Probing
  <2>3. CASE ~lock /\ lock' = TRUE /\ call' = [call EXCEPT ![c] = "probe"]
    <3>1. Probing = {}
      BY <1>0, <2>3 DEF SingleProbe
    <3>2. Probing' = {c}
      BY <1>0, <2>3, <3>1 DEF Probing, FieldTypes
    <3>3. call' \in [Callers -> {"none", "plain", "probe"}]
      BY <1>0, <2>3 DEF FieldTypes
    <3>4. QED
      BY <2>1, <2>3, <3>2, <3>3 DEF BreakerInv, FieldTypes, SingleProbe
  <2>4. CASE UNCHANGED lock /\ call[c] = "none" /\ call' = [call EXCEPT ![c] = "plain"]
    <3>1. Probing' = Probing
      BY <1>0, <2>4 DEF Probing, FieldTypes
    <3>2. call' \in [Callers -> {"none", "plain", "probe"}]
      BY <1>0, <2>4 DEF FieldTypes
    <3>3. QED
      BY <1>0, <2>1, <2>4, <3>1, <3>2 DEF BreakerInv, FieldTypes, SingleProbe
  <2>5. QED
    BY <1>4, <2>2, <2>3, <2>4 DEF Call
<1>5. ASSUME NEW c \in Callers, Fail(c) \/ Succeed(c) PROVE BreakerInv'
  <2>1. End(c) /\ (RecordFailure \/ RecordSuccess)
    BY <1>5 DEF Fail, Succeed
  <2>2. QED
    BY <1>0, <2>1, EndKeepsSingleProbe, OutcomeKeepsFields DEF BreakerInv, FieldTypes
<1>6. ASSUME NEW c \in Callers, Cancel(c) PROVE BreakerInv'
  <2>1. End(c) /\ UNCHANGED <<circuit, failures, opened>>
    BY <1>6 DEF Cancel
  <2>2. QED
    BY <1>0, <2>1, EndKeepsSingleProbe DEF BreakerInv, FieldTypes, FieldsAgree
<1>7. QED
  BY <1>1, <1>2, <1>3, <1>4, <1>5, <1>6 DEF Next

\* The invariant of every state the breaker reaches.
THEOREM BreakerInvHolds == Spec => []BreakerInv
BY BreakerInit, BreakerStep, PTL DEF Spec

\* At most one probe at a time, and the lock is held exactly while it runs
\* (libs/common/resilience.py:99-110).
THEOREM OneProbe == Spec => []SingleProbe
<1>1. BreakerInv => SingleProbe
  BY DEF BreakerInv
<1>2. QED
  BY BreakerInvHolds, <1>1, PTL

\* The state, the failure count and the opening time agree, so that an open breaker
\* always has a time from which reset_timeout runs (resilience.py:133-155).
THEOREM FieldsStayInAgreement == Spec => []FieldsAgree
<1>1. BreakerInv => FieldsAgree
  BY DEF BreakerInv
<1>2. QED
  BY BreakerInvHolds, <1>1, PTL

-----------------------------------------------------------------------------
(* A breaker with one caller *)

\* With one caller no call from before the outage is left when the breaker is open.
NoStraggler == \A c \in Callers : circuit # "CLOSED" => call[c] # "plain"

\* Every step of a sole caller keeps it so.
LEMMA NoStragglerStep ==
  ASSUME \A c, d \in Callers : c = d, BreakerInv, NoStraggler, [Next]_vars
  PROVE  NoStraggler'
<1>0. call \in [Callers -> {"none", "plain", "probe"}] /\ circuit \in {"CLOSED", "OPEN", "HALF_OPEN"}
  BY DEF BreakerInv, FieldTypes
<1>1. CASE ReadState \/ Elapse \/ Backend \/ UNCHANGED vars
  BY <1>0, <1>1 DEF ReadState, Observed, Elapse, Backend, vars, NoStraggler
<1>2. ASSUME NEW c \in Callers, Call(c) PROVE NoStraggler'
  BY <1>0, <1>2 DEF Call, Observed, NoStraggler
<1>3. ASSUME NEW c \in Callers, Fail(c) \/ Succeed(c) \/ Cancel(c) PROVE NoStraggler'
  <2>1. call' = [call EXCEPT ![c] = "none"]
    BY <1>3 DEF Fail, Succeed, Cancel, End
  <2>2. \A d \in Callers : call'[d] = "none"
    BY <1>0, <2>1
  <2>3. QED
    BY <2>2 DEF NoStraggler
<1>4. QED
  BY <1>1, <1>2, <1>3 DEF Next

\* When at most one task calls through a breaker, as in each service of this
\* repository (services/alerting/service.py:227, services/ingestion/exchanges/base.py:153),
\* a breaker that is not closed closes only when its probe succeeds.
THEOREM SoleCallerClosesByProbe ==
  ASSUME \A c, d \in Callers : c = d
  PROVE  Spec => ClosedByProbe
<1>1. Init => NoStraggler
  BY DEF Init, NoStraggler
<1>2. BreakerInv /\ NoStraggler /\ [Next]_vars => NoStraggler'
  BY NoStragglerStep
<1>3. ASSUME BreakerInv, NoStraggler, [Next]_vars, circuit # "CLOSED", circuit' = "CLOSED"
      PROVE  \E c \in Probing : Succeed(c)
  <2>1. PICK c \in Callers : Succeed(c)
    BY <1>3 DEF Next, ReadState, Observed, Elapse, Backend, Call, Fail, RecordFailure,
                Cancel, vars
  <2>2. call[c] = "probe"
    BY <1>3, <2>1 DEF Succeed, NoStraggler, BreakerInv, FieldTypes
  <2>3. QED
    BY <2>1, <2>2 DEF Probing
<1>4. QED
  BY <1>1, <1>2, <1>3, BreakerInvHolds, PTL DEF Spec, ClosedByProbe

-----------------------------------------------------------------------------
(* The exchange clients *)

\* The clients use the breaker as any caller may: what holds of the breaker holds of
\* the breaker they share (services/ingestion/exchanges/base.py:150-173).
LEMMA ClientStepIsBreakerStep == [ClientNext]_clientVars => [Next]_vars
<1> SUFFICES ASSUME [ClientNext]_clientVars PROVE [Next]_vars
  OBVIOUS
<1>1. CASE Around
  BY <1>1 DEF Around, Next
<1>2. ASSUME NEW c \in Callers, Start(c) PROVE UNCHANGED vars
  BY <1>2 DEF Start
<1>3. ASSUME NEW c \in Callers, Run(c) PROVE [Next]_vars
  BY <1>3 DEF Run, Connect, Frame, Return, Recycle, Break, Wake, Next
<1>4. ASSUME NEW c \in Callers, Shutdown(c) PROVE [Next]_vars
  BY <1>4 DEF Shutdown, Next
<1>5. CASE UNCHANGED clientVars
  BY <1>5 DEF clientVars
<1> QED
  BY <1>1, <1>2, <1>3, <1>4, <1>5 DEF ClientNext

\* Clients that share a breaker leave it as safe as any callers do: one probe at a time
\* and fields that agree.
THEOREM SharedBreakerIsSafe == ClientSpec => []SingleProbe /\ []FieldsAgree
<1>1. ClientInit => BreakerInv
  BY BreakerInit DEF ClientInit
<1>2. BreakerInv /\ [ClientNext]_clientVars => BreakerInv'
  BY ClientStepIsBreakerStep, BreakerStep
<1>3. BreakerInv => SingleProbe /\ FieldsAgree
  BY DEF BreakerInv
<1> QED
  BY <1>1, <1>2, <1>3, PTL DEF ClientSpec

\* The types the count depends on.
RunTypes ==
  /\ phase \in [Callers -> {"out", "ready", "streaming", "backoff"}]
  /\ ended \in [Callers -> {"not", "done", "raised"}]
  /\ reconnects \in [Callers -> 0..MaxReconnects]
  /\ published \in [Callers -> Nat] /\ streamed \in [Callers -> Nat]
  /\ total \in [Callers -> Nat]
  /\ broken \in [Callers -> BOOLEAN]

\* What a run has counted is what its connections published, but for those that failed,
\* of which it counts nothing; and only a streaming one has published what is not counted.
Counted(c) ==
  /\ published[c] + streamed[c] <= MaxMessages
  /\ phase[c] # "streaming" => streamed[c] = 0
  /\ phase[c] = "out" => published[c] = 0
  /\ phase[c] # "out" =>
       /\ ended[c] = "not"
       /\ published[c] + streamed[c] <= total[c]
       /\ broken[c] \/ total[c] = published[c] + streamed[c]
  /\ ended[c] = "done" => total[c] >= MaxMessages /\ (total[c] > MaxMessages => broken[c])

CountInv == RunTypes /\ \A c \in Callers : Counted(c)

\* A step of one client leaves the counts of the others as they are.
LEMMA CountFrame ==
  ASSUME CountInv, RunTypes', NEW c \in Callers, Counted(c)',
         \A d \in Callers \ {c} :
           /\ phase'[d] = phase[d] /\ ended'[d] = ended[d] /\ published'[d] = published[d]
           /\ streamed'[d] = streamed[d] /\ total'[d] = total[d] /\ broken'[d] = broken[d]
  PROVE  CountInv'
<1>1. ASSUME NEW d \in Callers, d # c PROVE Counted(d)'
  BY <1>1 DEF CountInv, Counted
<1> QED
  BY <1>1 DEF CountInv

\* A run that ends otherwise than by returning what was asked for.
LEMMA CountLeave ==
  ASSUME CountInv, NEW c \in Callers, Leave(c, "raised"), UNCHANGED total,
         broken' \in [Callers -> BOOLEAN], \A d \in Callers \ {c} : broken'[d] = broken[d]
  PROVE  CountInv'
<1>1. MaxMessages \in Nat /\ MaxReconnects \in Nat
  BY ClientAssumption
<1>2. RunTypes'
  <2>1. phase' \in [Callers -> {"out", "ready", "streaming", "backoff"}]
        /\ ended' \in [Callers -> {"not", "done", "raised"}]
    BY DEF CountInv, RunTypes, Leave
  <2>2. reconnects' \in [Callers -> 0..MaxReconnects]
    <3>1. 0 \in 0..MaxReconnects
      BY <1>1
    <3> QED
      BY <3>1 DEF CountInv, RunTypes, Leave
  <2>3. published' \in [Callers -> Nat] /\ streamed' \in [Callers -> Nat]
    BY DEF CountInv, RunTypes, Leave
  <2> QED
    BY <2>1, <2>2, <2>3 DEF CountInv, RunTypes
<1>3. Counted(c)'
  BY <1>1 DEF CountInv, RunTypes, Leave, Counted
<1> QED
  BY <1>2, <1>3, CountFrame DEF CountInv, RunTypes, Leave

\* A connection of which n events are counted, all of them unless the run is broken.
LEMMA CountSleep ==
  ASSUME CountInv, NEW c \in Callers, phase[c] = "streaming", NEW n \in {0, streamed[c]},
         NEW used \in 0..MaxReconnects, Sleep(c, n, used), UNCHANGED total,
         broken' \in [Callers -> BOOLEAN], \A d \in Callers \ {c} : broken'[d] = broken[d],
         broken'[c] \/ (~broken[c] /\ n = streamed[c])
  PROVE  CountInv'
<1>1. /\ MaxMessages \in Nat /\ published[c] \in Nat /\ streamed[c] \in Nat /\ total[c] \in Nat
      /\ Counted(c) /\ n \in Nat
  BY ClientAssumption DEF CountInv, RunTypes
<1>2. RunTypes'
  <2>1. phase' \in [Callers -> {"out", "ready", "streaming", "backoff"}] /\ ended' = ended
    BY DEF CountInv, RunTypes, Sleep
  <2>2. reconnects' \in [Callers -> 0..MaxReconnects]
    BY DEF CountInv, RunTypes, Sleep
  <2>3. published' \in [Callers -> Nat] /\ streamed' \in [Callers -> Nat]
    BY <1>1 DEF CountInv, RunTypes, Sleep
  <2> QED
    BY <2>1, <2>2, <2>3 DEF CountInv, RunTypes
<1>3. /\ published'[c] = published[c] + n /\ streamed'[c] = 0 /\ phase'[c] = "backoff"
      /\ ended'[c] = ended[c] /\ total'[c] = total[c]
  BY DEF CountInv, RunTypes, Sleep
<1>4. Counted(c)'
  BY <1>1, <1>3 DEF Counted
<1> QED
  BY <1>2, <1>4, CountFrame DEF CountInv, RunTypes, Sleep

\* Every step keeps the count.
LEMMA CountStep ==
  ASSUME CountInv, [ClientNext]_clientVars
  PROVE  CountInv'
<1>0. MaxMessages \in Nat \ {0} /\ MaxReconnects \in Nat /\ RunTypes
  BY ClientAssumption DEF CountInv
<1>1. CASE UNCHANGED runVars
  BY <1>1 DEF runVars, CountInv, RunTypes, Counted
<1>2. ASSUME NEW c \in Callers, Start(c) PROVE CountInv'
  <2>1. RunTypes'
    BY <1>0, <1>2 DEF RunTypes, Start
  <2>2. /\ phase[c] = "out" /\ phase'[c] = "ready" /\ ended'[c] = "not" /\ total'[c] = 0
        /\ published'[c] = published[c] /\ streamed'[c] = streamed[c]
    BY <1>0, <1>2 DEF RunTypes, Start
  <2>3. Counted(c)'
    BY <1>0, <2>2 DEF CountInv, Counted
  <2> QED
    BY <1>0, <1>2, <2>1, <2>3, CountFrame DEF RunTypes, Start
<1>3. ASSUME NEW c \in Callers, Connect(c) PROVE CountInv'
  <2>1. CASE Leave(c, "raised")
    BY <1>0, <1>3, <2>1, CountLeave DEF Connect, RunTypes
  <2>2. CASE /\ phase' = [phase EXCEPT ![c] = "streaming"]
             /\ UNCHANGED <<ended, reconnects, published, streamed, total, broken>>
    <3>1. RunTypes' /\ phase[c] = "ready"
      BY <1>0, <1>3, <2>2 DEF RunTypes, Connect
    <3>2. Counted(c)'
      BY <1>0, <2>2, <3>1 DEF CountInv, RunTypes, Counted
    <3> QED
      BY <1>0, <2>2, <3>1, <3>2, CountFrame DEF RunTypes
  <2> QED
    BY <1>3, <2>1, <2>2 DEF Connect
<1>4. ASSUME NEW c \in Callers, Frame(c) PROVE CountInv'
  <2>1. /\ published[c] \in Nat /\ streamed[c] \in Nat /\ total[c] \in Nat /\ Counted(c)
        /\ phase[c] = "streaming" /\ streamed[c] < MaxMessages - published[c]
    BY <1>0, <1>4 DEF CountInv, RunTypes, Frame, Remaining
  <2>2. /\ UNCHANGED <<phase, ended, reconnects, published, broken>>
        /\ streamed' = [streamed EXCEPT ![c] = streamed[c] + 1]
        /\ total' = [total EXCEPT ![c] = IF total[c] <= MaxMessages THEN total[c] + 1 ELSE total[c]]
    BY <1>4 DEF Frame
  <2>3. RunTypes'
    <3>1. streamed[c] + 1 \in Nat /\ (IF total[c] <= MaxMessages THEN total[c] + 1 ELSE total[c]) \in Nat
      BY <2>1
    <3> QED
      BY <1>0, <2>2, <3>1 DEF RunTypes
  <2>4. /\ streamed'[c] = streamed[c] + 1
        /\ total'[c] = IF total[c] <= MaxMessages THEN total[c] + 1 ELSE total[c]
    BY <1>0, <2>2 DEF RunTypes
  <2>5. Counted(c)'
    BY <1>0, <2>1, <2>2, <2>4 DEF Counted
  <2> QED
    BY <1>0, <2>2, <2>3, <2>5, CountFrame DEF RunTypes
<1>5. ASSUME NEW c \in Callers, Return(c) PROVE CountInv'
  <2>1. /\ published[c] \in Nat /\ streamed[c] \in Nat /\ total[c] \in Nat /\ Counted(c)
        /\ phase[c] = "streaming" /\ streamed[c] = MaxMessages - published[c]
        /\ Leave(c, "done") /\ UNCHANGED <<total, broken>>
    BY <1>0, <1>5 DEF CountInv, RunTypes, Return, Remaining
  <2>2. RunTypes'
    <3>1. 0 \in 0..MaxReconnects
      BY <1>0
    <3> QED
      BY <1>0, <2>1, <3>1 DEF RunTypes, Leave
  <2>3. /\ phase'[c] = "out" /\ ended'[c] = "done" /\ published'[c] = 0 /\ streamed'[c] = 0
    BY <1>0, <2>1 DEF RunTypes, Leave
  <2>4. Counted(c)'
    BY <1>0, <2>1, <2>3 DEF Counted
  <2> QED
    BY <1>0, <2>1, <2>2, <2>4, CountFrame DEF RunTypes, Leave
<1>6. ASSUME NEW c \in Callers, Recycle(c) PROVE CountInv'
  BY <1>0, <1>6, CountSleep DEF Recycle, RunTypes
<1>7. ASSUME NEW c \in Callers, Break(c) PROVE CountInv'
  <2>1. /\ phase[c] = "streaming" /\ UNCHANGED total
        /\ broken' = [broken EXCEPT ![c] = broken[c] \/ streamed[c] > 0]
    BY <1>7 DEF Break
  <2>2. broken' \in [Callers -> BOOLEAN] /\ \A d \in Callers \ {c} : broken'[d] = broken[d]
    BY <1>0, <2>1 DEF RunTypes
  <2>3. broken'[c] \/ (~broken[c] /\ streamed[c] = 0)
    <3>1. broken'[c] = (broken[c] \/ streamed[c] > 0)
      BY <1>0, <2>1, Zenon DEF RunTypes
    <3>2. streamed[c] > 0 \/ streamed[c] = 0
      BY <1>0 DEF RunTypes
    <3> QED
      BY <3>1, <3>2, Zenon
  <2>4. CASE Leave(c, "raised")
    BY <2>1, <2>2, <2>4, CountLeave
  <2>5. CASE reconnects[c] < MaxReconnects /\ Sleep(c, 0, reconnects[c] + 1)
    <3>1. reconnects[c] + 1 \in 0..MaxReconnects
      BY <1>0, <2>5 DEF RunTypes
    <3> QED
      BY <2>1, <2>2, <2>3, <2>5, <3>1, CountSleep
  <2>6. reconnects[c] \in Nat
    BY <1>0 DEF RunTypes
  <2> QED
    BY <1>0, <1>7, <2>4, <2>5, <2>6 DEF Break, Retry
<1>8. ASSUME NEW c \in Callers, Wake(c) PROVE CountInv'
  <2>1. /\ phase[c] = "backoff" /\ phase' = [phase EXCEPT ![c] = "ready"]
        /\ UNCHANGED <<ended, reconnects, published, streamed, total, broken>>
    BY <1>8 DEF Wake
  <2>2. RunTypes'
    BY <1>0, <2>1 DEF RunTypes
  <2>3. Counted(c)'
    BY <1>0, <2>1 DEF CountInv, RunTypes, Counted
  <2> QED
    BY <1>0, <2>1, <2>2, <2>3, CountFrame DEF RunTypes
<1>9. ASSUME NEW c \in Callers, Shutdown(c) PROVE CountInv'
  BY <1>0, <1>9, CountLeave DEF Shutdown, RunTypes
<1> QED
  BY <1>1, <1>2, <1>3, <1>4, <1>5, <1>6, <1>7, <1>8, <1>9
  DEF ClientNext, Run, Around, clientVars

\* A run that returns has published max_messages events, however often its socket was
\* recycled, and more only if a connection failed after it had published some, of which
\* run() counts none (base.py:146-209).
THEOREM RunsCountMessages == ClientSpec => []CountsMessages
<1>1. ClientInit => CountInv
  BY ClientAssumption DEF ClientInit, CountInv, RunTypes, Counted
<1>2. CountInv /\ [ClientNext]_clientVars => CountInv'
  BY CountStep
<1>3. CountInv => CountsMessages
  BY DEF CountInv, Counted, CountsMessages
<1> QED
  BY <1>1, <1>2, <1>3, PTL DEF ClientSpec
=============================================================================
