---------------------------- MODULE AlertingModesProofs ----------------------------
(***************************************************************************)
(* Theorems about the modes of MCAlertingModes: its calm mode is the       *)
(* service of AlertingProofs with the calm faults, so what is proved there *)
(* holds of it.  And what the dedupe keys of the rule engine tell apart:   *)
(* the alerts of one event always, those of different events where ids and *)
(* symbols have no colon; Alerting assumes both (AlertsAreDistinct).       *)
(***************************************************************************)
EXTENDS MCAlertingModes, SequenceTheorems, TLAPS

Service == INSTANCE AlertingProofs WITH
  Threshold <- 2, Faults <- {"receive", "publish", "settle"}

-----------------------------------------------------------------------------
(* The calm mode is such a service *)

\* The service's assumptions hold of the calm mode's constants.
LEMMA ServiceAssumptions ==
  Service!ConstantsAssumption /\ Service!LimitsAssumption /\ Service!AlertsAreDistinct
  BY ConstantsAssumption, LimitsAssumption, AlertsAreDistinct
  DEF Service!ConstantsAssumption, Service!LimitsAssumption, Service!AlertsAreDistinct,
      Service!FaultKinds

\* Both instances count alike.
LEMMA SameCardinality == \A S : Calm!Cardinality(S) = Service!Cardinality(S)
  BY DEF Calm!Cardinality, Service!Cardinality

\* A replica takes the same steps in both.
LEMMA SameStep ==
  ASSUME NEW w \in Workers
  PROVE  Calm!Step(w) <=> Service!Step(w)
<1>1. Calm!Receive(w) <=> Service!Receive(w)
  BY SameCardinality
  DEF Calm!Receive, Service!Receive, Calm!Available, Service!Available,
      Calm!Deliver, Service!Deliver, Calm!loopVars, Service!loopVars,
      Calm!circuitVars, Service!circuitVars, Calm!cacheVars, Service!cacheVars
<1>2. Calm!Begin(w) <=> Service!Begin(w)
  BY DEF Calm!Begin, Service!Begin, Calm!Goto, Service!Goto, Calm!loopVars,
      Service!loopVars, Calm!circuitVars, Service!circuitVars, Calm!brokerVars,
      Service!brokerVars, Calm!cacheVars, Service!cacheVars
<1>3. Calm!Lookup(w) <=> Service!Lookup(w)
  BY DEF Calm!Lookup, Service!Lookup, Calm!Event, Service!Event, Calm!Goto,
      Service!Goto, Calm!CacheRaises, Service!CacheRaises, Calm!AbortPoll,
      Service!AbortPoll, Calm!pollVars, Service!pollVars, Calm!loopVars,
      Service!loopVars, Calm!circuitVars, Service!circuitVars, Calm!brokerVars,
      Service!brokerVars, Calm!cacheVars, Service!cacheVars
<1>4. Calm!Acquire(w) <=> Service!Acquire(w)
  BY DEF Calm!Acquire, Service!Acquire, Calm!Event, Service!Event, Calm!TakeLock,
      Service!TakeLock, Calm!Goto, Service!Goto, Calm!CacheRaises,
      Service!CacheRaises, Calm!AbortPoll, Service!AbortPoll, Calm!pollVars,
      Service!pollVars, Calm!loopVars, Service!loopVars, Calm!circuitVars,
      Service!circuitVars, Calm!brokerVars, Service!brokerVars, Calm!cacheVars,
      Service!cacheVars
<1>5. Calm!Call(w) <=> Service!Call(w)
  BY DEF Calm!Call, Service!Call, Calm!Goto, Service!Goto, Calm!pollVars,
      Service!pollVars, Calm!loopVars, Service!loopVars, Calm!brokerVars,
      Service!brokerVars, Calm!cacheVars, Service!cacheVars
<1>6. Calm!Check(w) <=> Service!Check(w)
  BY DEF Calm!Check, Service!Check, Calm!Event, Service!Event, Calm!AlertAt,
      Service!AlertAt, Calm!Goto, Service!Goto, Calm!AttemptFails,
      Service!AttemptFails, Calm!RecordFailure, Service!RecordFailure,
      Calm!ResetLoop, Service!ResetLoop, Calm!loopVars, Service!loopVars,
      Calm!pollVars, Service!pollVars, Calm!circuitVars, Service!circuitVars,
      Calm!brokerVars, Service!brokerVars, Calm!cacheVars, Service!cacheVars
<1>7. Calm!Publish(w) <=> Service!Publish(w)
  BY DEF Calm!Publish, Service!Publish, Calm!Event, Service!Event, Calm!AlertAt,
      Service!AlertAt, Calm!Goto, Service!Goto, Calm!AttemptFails,
      Service!AttemptFails, Calm!RecordFailure, Service!RecordFailure,
      Calm!ResetLoop, Service!ResetLoop, Calm!loopVars, Service!loopVars,
      Calm!pollVars, Service!pollVars, Calm!circuitVars, Service!circuitVars,
      Calm!brokerVars, Service!brokerVars, Calm!cacheVars, Service!cacheVars
<1>8. Calm!Mark(w) <=> Service!Mark(w)
  BY DEF Calm!Mark, Service!Mark, Calm!Event, Service!Event, Calm!AlertAt,
      Service!AlertAt, Calm!Goto, Service!Goto, Calm!AttemptFails,
      Service!AttemptFails, Calm!RecordFailure, Service!RecordFailure,
      Calm!ResetLoop, Service!ResetLoop, Calm!pollVars, Service!pollVars,
      Calm!circuitVars, Service!circuitVars, Calm!brokerVars, Service!brokerVars
<1>9. Calm!Finish(w) <=> Service!Finish(w)
  BY DEF Calm!Finish, Service!Finish, Calm!Event, Service!Event, Calm!Goto,
      Service!Goto, Calm!AttemptFails, Service!AttemptFails, Calm!RecordFailure,
      Service!RecordFailure, Calm!RecordSuccess, Service!RecordSuccess,
      Calm!ResetLoop, Service!ResetLoop, Calm!pollVars, Service!pollVars,
      Calm!circuitVars, Service!circuitVars, Calm!brokerVars, Service!brokerVars
<1>10. Calm!Release(w) <=> Service!Release(w)
  BY DEF Calm!Release, Service!Release, Calm!Event, Service!Event, Calm!DropLock,
      Service!DropLock, Calm!Goto, Service!Goto, Calm!CacheRaises,
      Service!CacheRaises, Calm!AbortPoll, Service!AbortPoll, Calm!pollVars,
      Service!pollVars, Calm!loopVars, Service!loopVars, Calm!circuitVars,
      Service!circuitVars, Calm!brokerVars, Service!brokerVars, Calm!cacheVars,
      Service!cacheVars
<1>11. Calm!Settle(w) <=> Service!Settle(w)
  BY DEF Calm!Settle, Service!Settle, Calm!SettledAs, Service!SettledAs, Calm!Goto,
      Service!Goto, Calm!AbortPoll, Service!AbortPoll, Calm!brokerVars,
      Service!brokerVars, Calm!loopVars, Service!loopVars, Calm!circuitVars,
      Service!circuitVars, Calm!cacheVars, Service!cacheVars
<1> QED
  BY <1>1, <1>2, <1>3, <1>4, <1>5, <1>6, <1>7, <1>8, <1>9, <1>10, <1>11
  DEF Calm!Step, Service!Step

\* So does the whole service.
LEMMA SameNext == Calm!Next <=> Service!Next
<1>1. ASSUME NEW w \in Workers PROVE Calm!Step(w) <=> Service!Step(w)
  BY SameStep
<1>2. ASSUME NEW w \in Workers PROVE Calm!ReceiveRaises(w) <=> Service!ReceiveRaises(w)
  BY SameCardinality
  DEF Calm!ReceiveRaises, Service!ReceiveRaises, Calm!Available, Service!Available,
      Calm!Deliver, Service!Deliver, Calm!AbortPoll, Service!AbortPoll, Calm!Goto,
      Service!Goto, Calm!loopVars, Service!loopVars, Calm!circuitVars,
      Service!circuitVars, Calm!cacheVars, Service!cacheVars
<1>3. ASSUME NEW w \in Workers PROVE Calm!Crash(w) <=> Service!Crash(w)
  BY DEF Calm!Crash, Service!Crash, Calm!AbortPoll, Service!AbortPoll, Calm!Goto,
      Service!Goto, Calm!ResetLoop, Service!ResetLoop, Calm!brokerVars,
      Service!brokerVars, Calm!cacheVars, Service!cacheVars
<1>4. ASSUME NEW m \in Messages PROVE Calm!PeekLockExpires(m) <=> Service!PeekLockExpires(m)
  BY DEF Calm!PeekLockExpires, Service!PeekLockExpires, Calm!Handling,
      Service!Handling, Calm!pollVars, Service!pollVars, Calm!loopVars,
      Service!loopVars, Calm!circuitVars, Service!circuitVars, Calm!cacheVars,
      Service!cacheVars
<1>5. ASSUME NEW e \in Events PROVE Calm!LockExpires(e) <=> Service!LockExpires(e)
  BY DEF Calm!LockExpires, Service!LockExpires, Calm!InSection, Service!InSection,
      Calm!Event, Service!Event, Calm!pollVars, Service!pollVars, Calm!loopVars,
      Service!loopVars, Calm!circuitVars, Service!circuitVars, Calm!brokerVars,
      Service!brokerVars
<1> QED
  BY <1>1, <1>2, <1>3, <1>4, <1>5, Zenon DEF Calm!Next, Service!Next

\* The modes start where the service does.
LEMMA SameInit == Init => Service!Init
  BY DEF Init, Service!Init

\* A step of the modes keeps the mode, and in the calm mode is one of the service.
LEMMA ModeStep ==
  ASSUME [ModeNext]_<<vars, mode>>
  PROVE  /\ mode' = mode
         /\ mode = "calm" => [Service!Next]_(Service!vars)
<1>1. UNCHANGED vars => UNCHANGED Service!vars
  BY DEF vars, pollVars, loopVars, circuitVars, brokerVars, cacheVars,
         Service!vars, Service!pollVars, Service!loopVars, Service!circuitVars,
         Service!brokerVars, Service!cacheVars
<1>2. CASE ModeNext
  BY <1>2, SameNext, Zenon DEF ModeNext
<1>3. CASE UNCHANGED <<vars, mode>>
  BY <1>1, <1>3
<1> QED
  BY <1>2, <1>3

-----------------------------------------------------------------------------
(* What the calm mode keeps *)

\* The invariants of the calm service, in the calm mode.
ModeInv == mode = "calm" => Service!CalmInv /\ Service!PublishedOnce

\* They hold at the start and every step keeps them.
LEMMA ModeInvInductive == ModeSpec => []ModeInv
<1>1. ModeInit => ModeInv
  BY ServiceAssumptions, SameInit, Service!InitCalm DEF ModeInit, ModeInv
<1>2. ModeInv /\ [ModeNext]_<<vars, mode>> => ModeInv'
  <2> SUFFICES ASSUME ModeInv, [ModeNext]_<<vars, mode>>, mode = "calm"
               PROVE  (Service!CalmInv /\ Service!PublishedOnce)'
    BY ModeStep DEF ModeInv
  <2>1. [Service!Next]_(Service!vars) /\ Service!CalmInv /\ Service!PublishedOnce
    BY ModeStep DEF ModeInv
  <2>2. /\ {"receive", "publish", "settle"}
              \cap {"cache", "crash", "lock_outlived", "peek_lock_lost"} = {}
        /\ {"receive", "publish", "settle"} \cap {"cache", "publish_unknown", "crash"} = {}
    OBVIOUS
  <2>3. Service!CalmInv'
    BY <2>1, <2>2, ServiceAssumptions, Service!CalmStep
  <2>4. Service!LockInv
    BY <2>1 DEF Service!CalmInv
  <2>5. Service!PublishedOnce'
    BY <2>1, <2>2, <2>4, ServiceAssumptions, Service!OnceStep
  <2> QED
    BY <2>3, <2>5
<1> QED
  BY <1>1, <1>2, PTL DEF ModeSpec

\* No alert reaches the alerts topic twice in the calm mode, in which every publish that
\* raises was refused, for any replicas, messages, events and alerts: every copy but one
\* finds the alert's marker (services/alerting/service.py:274-284).
THEOREM CalmNoDuplicates == ModeSpec => []CalmNoDuplicateAlerts
<1>1. ModeInv => CalmNoDuplicateAlerts
  BY DEF ModeInv, CalmNoDuplicateAlerts, Calm!NoDuplicateAlerts, Service!PublishedOnce,
         Service!NoDuplicateAlerts
<1> QED
  BY <1>1, ModeInvInductive, PTL

\* In the calm mode the service implements EventDelivery: it publishes an event's
\* alerts only while a message of the event is open and the event is not done, and
\* never completes the last message of an event that is not done.
THEOREM CalmRefinesDelivery == ModeSpec => CalmImplementsDelivery
<1>1. ModeInit => CalmDelivery!Init
  BY DEF ModeInit, Init, CalmDelivery!Init
<1>2. ModeInv /\ [ModeNext]_<<vars, mode>> => [CalmDelivery!Next]_(CalmDelivery!vars)
  <2> SUFFICES ASSUME ModeInv, [ModeNext]_<<vars, mode>>
               PROVE  CalmDelivery!Next \/ UNCHANGED CalmDelivery!vars
    OBVIOUS
  <2>1. CASE mode = "calm"
    <3>1. mode' = "calm" /\ [Service!Next]_(Service!vars) /\ Service!CalmInv
      BY <2>1, ModeStep DEF ModeInv
    <3>2. Service!Delivery!Next \/ UNCHANGED Service!Delivery!vars
      BY <3>1, ServiceAssumptions, Service!DeliveryStep
    <3>3. UNCHANGED Service!Delivery!vars => UNCHANGED CalmDelivery!vars
      BY <2>1, <3>1 DEF Service!Delivery!vars, CalmDelivery!vars
    <3>4. Service!Delivery!Next => CalmDelivery!Next
      <4>1. \A e : CalmDelivery!OutputSet(e) = Service!Delivery!OutputSet(e)
        BY DEF CalmDelivery!OutputSet, Service!Delivery!OutputSet
      <4>2. \A e, outcomes :
              CalmDelivery!Copies(e, outcomes) = Service!Delivery!Copies(e, outcomes)
        BY <2>1 DEF CalmDelivery!Copies, Service!Delivery!Copies
      <4>3. ASSUME NEW e, NEW o, Service!Delivery!Publish(e, o) PROVE CalmDelivery!Publish(e, o)
        BY <2>1, <3>1, <4>1, <4>2, <4>3 DEF CalmDelivery!Publish, Service!Delivery!Publish
      <4>4. ASSUME NEW e, Service!Delivery!MarkDone(e) PROVE CalmDelivery!MarkDone(e)
        BY <2>1, <3>1, <4>1, <4>2, <4>4 DEF CalmDelivery!MarkDone, Service!Delivery!MarkDone
      <4>5. ASSUME NEW m, Service!Delivery!Complete(m) PROVE CalmDelivery!Complete(m)
        BY <2>1, <3>1, <4>2, <4>5 DEF CalmDelivery!Complete, Service!Delivery!Complete
      <4>6. ASSUME NEW m, Service!Delivery!DeadLetter(m) PROVE CalmDelivery!DeadLetter(m)
        BY <2>1, <3>1, <4>6 DEF CalmDelivery!DeadLetter, Service!Delivery!DeadLetter
      <4> QED
        BY <4>3, <4>4, <4>5, <4>6 DEF CalmDelivery!Next, Service!Delivery!Next
    <3> QED
      BY <3>2, <3>3, <3>4
  <2>2. CASE mode # "calm"
    <3>1. mode' # "calm"
      BY <2>2, ModeStep
    <3> QED
      BY <2>2, <3>1 DEF CalmDelivery!vars
  <2> QED
    BY <2>1, <2>2
<1> QED
  BY <1>1, <1>2, ModeInvInductive, PTL DEF ModeSpec, CalmImplementsDelivery, CalmDelivery!Spec

-----------------------------------------------------------------------------
(* The rule engine *)

\* Three sequences of at most one element each, joined, repeat no element when no
\* two of them have one in common.
LEMMA JoinedApart ==
  ASSUME NEW T, NEW A \in Seq(T), NEW R \in Seq(T), NEW V \in Seq(T),
         Len(A) <= 1, Len(R) <= 1, Len(V) <= 1,
         \A x \in 1..Len(A), y \in 1..Len(R) : A[x].rule # R[y].rule,
         \A x \in 1..Len(A), y \in 1..Len(V) : A[x].rule # V[y].rule,
         \A x \in 1..Len(R), y \in 1..Len(V) : R[x].rule # V[y].rule,
         NEW i \in DOMAIN (A \o R \o V), NEW j \in DOMAIN (A \o R \o V),
         (A \o R \o V)[i].rule = (A \o R \o V)[j].rule
  PROVE  i = j
<1> DEFINE B == A \o R  S == B \o V
<1>1. /\ Len(A) \in Nat /\ Len(R) \in Nat /\ Len(V) \in Nat
      /\ B \in Seq(T) /\ Len(B) = Len(A) + Len(R)
      /\ \A k \in 1..Len(B) : B[k] = IF k <= Len(A) THEN A[k] ELSE R[k - Len(A)]
  BY ConcatProperties, LenProperties
<1>2. /\ S \in Seq(T) /\ Len(S) = Len(B) + Len(V)
      /\ \A k \in 1..Len(S) : S[k] = IF k <= Len(B) THEN B[k] ELSE V[k - Len(B)]
  BY <1>1, ConcatProperties
<1>3. i \in 1..Len(S) /\ j \in 1..Len(S) /\ S[i].rule = S[j].rule
  BY <1>2, LenProperties
<1> HIDE DEF B, S
<1>4. /\ Len(A) = 0 \/ Len(A) = 1
      /\ Len(R) = 0 \/ Len(R) = 1
      /\ Len(V) = 0 \/ Len(V) = 1
  <2>1. \A n \in Nat : n <= 1 => n = 0 \/ n = 1
    OBVIOUS
  <2>2. QED
    BY <1>1, <2>1
<1>5. \A k \in 1..Len(S) :
        /\ k <= Len(A) => k = 1 /\ S[k] = A[1] /\ 1 \in 1..Len(A)
        /\ Len(A) < k /\ k <= Len(B) => k = Len(A) + 1 /\ S[k] = R[1] /\ 1 \in 1..Len(R)
        /\ Len(B) < k => k = Len(B) + 1 /\ S[k] = V[1] /\ 1 \in 1..Len(V)
  <2> TAKE k \in 1..Len(S)
  <2>1. k \in Nat /\ 1 <= k /\ k <= Len(B) + Len(V)
    BY <1>1, <1>2
  <2>2. ASSUME k <= Len(A) PROVE k = 1 /\ S[k] = A[1] /\ 1 \in 1..Len(A)
    <3>1. k = 1 /\ 1 \in 1..Len(A) /\ k \in 1..Len(B) /\ k <= Len(B)
      BY <1>1, <1>4, <2>1, <2>2
    <3>2. S[k] = B[k] /\ B[k] = A[k]
      BY <1>1, <1>2, <2>2, <3>1
    <3> QED
      BY <3>1, <3>2
  <2>3. ASSUME Len(A) < k, k <= Len(B)
        PROVE  k = Len(A) + 1 /\ S[k] = R[1] /\ 1 \in 1..Len(R)
    <3>1. /\ k = Len(A) + 1 /\ k - Len(A) = 1 /\ 1 \in 1..Len(R)
          /\ k \in 1..Len(B) /\ ~(k <= Len(A))
      BY <1>1, <1>4, <2>1, <2>3
    <3>2. S[k] = B[k] /\ B[k] = R[k - Len(A)]
      BY <1>1, <1>2, <2>3, <3>1
    <3> QED
      BY <3>1, <3>2
  <2>4. ASSUME Len(B) < k PROVE k = Len(B) + 1 /\ S[k] = V[1] /\ 1 \in 1..Len(V)
    <3>1. k = Len(B) + 1 /\ k - Len(B) = 1 /\ 1 \in 1..Len(V) /\ ~(k <= Len(B))
      BY <1>1, <1>4, <2>1, <2>4
    <3>2. S[k] = V[k - Len(B)]
      BY <1>2, <3>1
    <3> QED
      BY <3>1, <3>2
  <2> QED
    BY <2>2, <2>3, <2>4
<1>6. /\ 1 \in 1..Len(A) /\ 1 \in 1..Len(R) => A[1].rule # R[1].rule
      /\ 1 \in 1..Len(A) /\ 1 \in 1..Len(V) => A[1].rule # V[1].rule
      /\ 1 \in 1..Len(R) /\ 1 \in 1..Len(V) => R[1].rule # V[1].rule
  OBVIOUS
<1> DEFINE InA(k) == k = 1 /\ S[k] = A[1] /\ 1 \in 1..Len(A)
           InR(k) == k = Len(A) + 1 /\ S[k] = R[1] /\ 1 \in 1..Len(R)
           InV(k) == k = Len(B) + 1 /\ S[k] = V[1] /\ 1 \in 1..Len(V)
<1>7. /\ InA(i) \/ InR(i) \/ InV(i)
      /\ InA(j) \/ InR(j) \/ InV(j)
  <2>1. Len(A) \in Nat /\ Len(B) \in Nat /\ Len(S) \in Nat
    BY <1>1, <1>2
  <2>2. \A k \in 1..Len(S) :
          k <= Len(A) \/ (Len(A) < k /\ k <= Len(B)) \/ Len(B) < k
    BY <2>1
  <2>3. \A k \in 1..Len(S) : InA(k) \/ InR(k) \/ InV(k)
    BY <1>5, <2>2, Zenon
  <2>4. QED
    BY <1>3, <2>3, Zenon
<1>8. /\ ~(InA(i) /\ InR(j)) /\ ~(InR(i) /\ InA(j))
      /\ ~(InA(i) /\ InV(j)) /\ ~(InV(i) /\ InA(j))
      /\ ~(InR(i) /\ InV(j)) /\ ~(InV(i) /\ InR(j))
  BY <1>3, <1>6, Zenon
<1>9. QED
  BY <1>7, <1>8

\* Every element of three joined sequences is one of theirs.
LEMMA JoinedElements ==
  ASSUME NEW T, NEW A \in Seq(T), NEW R \in Seq(T), NEW V \in Seq(T),
         NEW i \in DOMAIN (A \o R \o V)
  PROVE  (A \o R \o V)[i] \in T
  BY ConcatProperties, ElementOfSeq, LenProperties

\* A signal's alerts are of different rules, each under the key of its rule.
LEMMA SignalAlerts ==
  ASSUME NEW s
  PROVE  /\ \A i, j \in DOMAIN EvaluateSignal(s) :
              EvaluateSignal(s)[i].rule = EvaluateSignal(s)[j].rule => i = j
         /\ \A i \in DOMAIN EvaluateSignal(s) :
              /\ EvaluateSignal(s)[i].rule \in Rules
              /\ EvaluateSignal(s)[i].key = DedupeKey("signal", s, EvaluateSignal(s)[i].rule)
<1> DEFINE A == AnomalyAlerts(s)  R == RsiAlerts(s)  V == VolatilityAlerts(s)
<1> DEFINE a == BuildAlert("signal", s, "anomaly_flag", "critical")
           o == BuildAlert("signal", s, "rsi_overbought", "high")
           u == BuildAlert("signal", s, "rsi_oversold", "medium")
           v == BuildAlert("signal", s, "volatility_threshold_breach", "high")
           T == {a, o, u, v}
<1>1. /\ A = <<>> \/ A = <<a>>
      /\ R = <<>> \/ R = <<o>> \/ R = <<u>>
      /\ V = <<>> \/ V = <<v>>
  BY DEF AnomalyAlerts, RsiAlerts, VolatilityAlerts
<1>2. /\ a.rule = "anomaly_flag" /\ o.rule = "rsi_overbought" /\ u.rule = "rsi_oversold"
      /\ v.rule = "volatility_threshold_breach"
  BY DEF BuildAlert
<1>3. EvaluateSignal(s) = A \o R \o V
  BY DEF EvaluateSignal
<1> HIDE DEF A, R, V, a, o, u, v
<1>4. /\ A \in Seq(T) /\ R \in Seq(T) /\ V \in Seq(T)
      /\ Len(A) <= 1 /\ Len(R) <= 1 /\ Len(V) <= 1
  <2>1. \A x \in T : <<x>> \in Seq(T) /\ Len(<<x>>) <= 1
    OBVIOUS
  <2>2. <<>> \in Seq(T) /\ Len(<<>>) <= 1
    BY EmptySeq
  <2>3. a \in T /\ o \in T /\ u \in T /\ v \in T
    OBVIOUS
  <2> HIDE DEF T
  <2>4. QED
    <3>1. \A q : q = <<>> \/ (\E x \in T : q = <<x>>) => q \in Seq(T) /\ Len(q) <= 1
      BY <2>1, <2>2
    <3>2. QED
      BY <1>1, <2>3, <3>1
<1>5. /\ \A x \in 1..Len(A), y \in 1..Len(R) : A[x].rule # R[y].rule
      /\ \A x \in 1..Len(A), y \in 1..Len(V) : A[x].rule # V[y].rule
      /\ \A x \in 1..Len(R), y \in 1..Len(V) : R[x].rule # V[y].rule
  BY <1>1, <1>2
<1>6. \A i, j \in DOMAIN (A \o R \o V) :
        (A \o R \o V)[i].rule = (A \o R \o V)[j].rule => i = j
  BY <1>4, <1>5, JoinedApart
<1>7. \A i \in DOMAIN (A \o R \o V) : (A \o R \o V)[i] \in T
  BY <1>4, JoinedElements
<1>8. \A x \in T : x.rule \in Rules /\ x.key = DedupeKey("signal", s, x.rule)
  BY DEF a, o, u, v, BuildAlert, Rules
<1>9. QED
  BY <1>3, <1>6, <1>7, <1>8

\* The same of an insight's alert.
LEMMA InsightAlerts ==
  ASSUME NEW s
  PROVE  /\ \A i, j \in DOMAIN EvaluateInsight(s) : i = j
         /\ \A i \in DOMAIN EvaluateInsight(s) :
              /\ EvaluateInsight(s)[i].rule \in Rules
              /\ EvaluateInsight(s)[i].key = DedupeKey("insight", s, EvaluateInsight(s)[i].rule)
<1> DEFINE x(severity) == BuildAlert("insight", s, "sentiment_spike", severity)
<1>1. EvaluateInsight(s) = <<>> \/ \E severity : EvaluateInsight(s) = <<x(severity)>>
  BY DEF EvaluateInsight
<1>2. \A severity : /\ x(severity).rule \in Rules
                     /\ x(severity).key = DedupeKey("insight", s, x(severity).rule)
  BY DEF BuildAlert, Rules
<1> HIDE DEF x
<1>3. QED
  BY <1>1, <1>2

-----------------------------------------------------------------------------
(* The keys *)

Text == Seq(Characters)

\* What a field and the fields behind it look like.
LEMMA BeforeShape ==
  ASSUME NEW a \in Text, NEW s \in Text
  PROVE  /\ Before(a, s) \in Text
         /\ Len(a) \in Nat /\ Len(s) \in Nat
         /\ Len(Before(a, s)) = Len(a) + 1 + Len(s)
         /\ \A i \in 1..Len(a) : Before(a, s)[i] = a[i]
         /\ Before(a, s)[Len(a) + 1] = Colon
         /\ \A i \in 1..Len(s) : Before(a, s)[Len(a) + 1 + i] = s[i]
<1> DEFINE c == <<Colon>>  b == a \o c
<1>1. c \in Text /\ Len(c) = 1 /\ c[1] = Colon
  BY SpellingAssumption DEF Text
<1>2. Len(a) \in Nat /\ Len(s) \in Nat
  BY DEF Text
<1> HIDE DEF c
<1>3. /\ b \in Text /\ Len(b) = Len(a) + 1
      /\ \A i \in 1..Len(a) + 1 : b[i] = IF i <= Len(a) THEN a[i] ELSE c[i - Len(a)]
  <2>1. /\ a \in Seq(Characters) /\ c \in Seq(Characters)
    BY <1>1 DEF Text
  <2>2. /\ b \in Seq(Characters) /\ Len(b) = Len(a) + Len(c)
        /\ \A i \in 1..Len(a) + Len(c) : b[i] = IF i <= Len(a) THEN a[i] ELSE c[i - Len(a)]
    BY <2>1, ConcatProperties
  <2> QED
    BY <1>1, <2>2 DEF Text
<1>4. /\ b \o s \in Text /\ Len(b \o s) = Len(b) + Len(s)
      /\ \A i \in 1..Len(b) + Len(s) :
           (b \o s)[i] = IF i <= Len(b) THEN b[i] ELSE s[i - Len(b)]
  <2>1. b \in Seq(Characters) /\ s \in Seq(Characters)
    BY <1>3 DEF Text
  <2> HIDE DEF b
  <2>2. /\ b \o s \in Seq(Characters) /\ Len(b \o s) = Len(b) + Len(s)
        /\ \A i \in 1..Len(b) + Len(s) :
             (b \o s)[i] = IF i <= Len(b) THEN b[i] ELSE s[i - Len(b)]
    BY <2>1, ConcatProperties
  <2> QED
    BY <2>2 DEF Text
<1>5. Before(a, s) = b \o s
  BY DEF Before, c
<1> HIDE DEF b
<1>6. ASSUME NEW i \in 1..Len(a)
      PROVE  (b \o s)[i] = a[i]
  <2>1. /\ i \in 1..Len(a) + 1 /\ i <= Len(a)
        /\ i \in 1..Len(b) + Len(s) /\ i <= Len(b)
    BY <1>2, <1>3
  <2>2. b[i] = a[i]
    BY <1>3, <2>1
  <2>3. (b \o s)[i] = b[i]
    BY <1>4, <2>1
  <2> QED
    BY <2>2, <2>3
<1>7. (b \o s)[Len(a) + 1] = Colon
  BY <1>1, <1>2, <1>3, <1>4
<1>8. \A i \in 1..Len(s) : (b \o s)[Len(a) + 1 + i] = s[i]
  BY <1>2, <1>3, <1>4
<1> QED
  BY <1>2, <1>3, <1>4, <1>5, <1>6, <1>7, <1>8

\* Texts of one length that agree in every place are one.
LEMMA SameText ==
  ASSUME NEW a \in Text, NEW b \in Text, Len(a) = Len(b), \A i \in 1..Len(a) : a[i] = b[i]
  PROVE  a = b
  BY DEF Text

\* Before the same fields stands the same field.
LEMMA SameFieldBefore ==
  ASSUME NEW a \in Text, NEW b \in Text, NEW s \in Text, Before(a, s) = Before(b, s)
  PROVE  a = b
<1>1. PICK key : key = Before(a, s) /\ key = Before(b, s)
  OBVIOUS
<1>2. /\ Len(a) \in Nat /\ Len(s) \in Nat /\ Len(key) = Len(a) + 1 + Len(s)
      /\ \A i \in 1..Len(a) : key[i] = a[i]
  <2>1. /\ Len(a) \in Nat /\ Len(s) \in Nat /\ Len(Before(a, s)) = Len(a) + 1 + Len(s)
        /\ \A i \in 1..Len(a) : Before(a, s)[i] = a[i]
    BY BeforeShape
  <2> QED
    BY <1>1, <2>1
<1>3. /\ Len(b) \in Nat /\ Len(key) = Len(b) + 1 + Len(s)
      /\ \A i \in 1..Len(b) : key[i] = b[i]
  <2>1. /\ Len(b) \in Nat /\ Len(Before(b, s)) = Len(b) + 1 + Len(s)
        /\ \A i \in 1..Len(b) : Before(b, s)[i] = b[i]
    BY BeforeShape
  <2> QED
    BY <1>1, <2>1
<1>4. Len(a) = Len(b)
  BY <1>2, <1>3
<1> QED
  BY <1>2, <1>3, <1>4, SameText

\* Behind the same field stand the same fields.
LEMMA SameFieldsBehind ==
  ASSUME NEW a \in Text, NEW s \in Text, NEW t \in Text, Before(a, s) = Before(a, t)
  PROVE  s = t
<1>1. PICK key : key = Before(a, s) /\ key = Before(a, t)
  OBVIOUS
<1>2. /\ Len(a) \in Nat /\ Len(s) \in Nat /\ Len(key) = Len(a) + 1 + Len(s)
      /\ \A i \in 1..Len(s) : key[Len(a) + 1 + i] = s[i]
  <2>1. /\ Len(a) \in Nat /\ Len(s) \in Nat /\ Len(Before(a, s)) = Len(a) + 1 + Len(s)
        /\ \A i \in 1..Len(s) : Before(a, s)[Len(a) + 1 + i] = s[i]
    BY BeforeShape
  <2> QED
    BY <1>1, <2>1
<1>3. /\ Len(t) \in Nat /\ Len(key) = Len(a) + 1 + Len(t)
      /\ \A i \in 1..Len(t) : key[Len(a) + 1 + i] = t[i]
  <2>1. /\ Len(t) \in Nat /\ Len(Before(a, t)) = Len(a) + 1 + Len(t)
        /\ \A i \in 1..Len(t) : Before(a, t)[Len(a) + 1 + i] = t[i]
    BY BeforeShape
  <2> QED
    BY <1>1, <2>1
<1>4. Len(s) = Len(t)
  BY <1>2, <1>3
<1> QED
  BY <1>2, <1>3, <1>4, SameText

\* A field without a colon is no shorter than one that starts the same key.
LEMMA NoEarlierColon ==
  ASSUME NEW a \in Text, NEW b \in Text, NEW s \in Text, NEW t \in Text,
         Without(Colon, b), Before(a, s) = Before(b, t)
  PROVE  ~(Len(a) < Len(b))
<1> SUFFICES ASSUME Len(a) < Len(b) PROVE FALSE
  OBVIOUS
<1> DEFINE n == Len(a) + 1
<1>1. PICK key : key = Before(a, s) /\ key = Before(b, t)
  OBVIOUS
<1>2. Len(a) \in Nat /\ key[n] = Colon
  <2>1. Len(a) \in Nat /\ Before(a, s)[n] = Colon
    BY BeforeShape
  <2> QED
    BY <1>1, <2>1
<1>3. Len(b) \in Nat /\ \A i \in 1..Len(b) : key[i] = b[i]
  <2>1. Len(b) \in Nat /\ \A i \in 1..Len(b) : Before(b, t)[i] = b[i]
    BY BeforeShape
  <2> QED
    BY <1>1, <2>1
<1>4. n \in 1..Len(b)
  BY <1>2, <1>3
<1>5. n \in DOMAIN b /\ b[n] = Colon
  BY <1>2, <1>3, <1>4 DEF Text
<1> QED
  BY <1>5 DEF Without

\* A field without a colon ends at the first one.
LEMMA FieldEndsAtColon ==
  ASSUME NEW a \in Text, NEW b \in Text, NEW s \in Text, NEW t \in Text,
         Without(Colon, a), Without(Colon, b), Before(a, s) = Before(b, t)
  PROVE  a = b /\ s = t
<1>1. PICK key : key = Before(a, s) /\ key = Before(b, t)
  OBVIOUS
<1>2. Len(a) \in Nat /\ \A i \in 1..Len(a) : key[i] = a[i]
  <2>1. Len(a) \in Nat /\ \A i \in 1..Len(a) : Before(a, s)[i] = a[i]
    BY BeforeShape
  <2> QED
    BY <1>1, <2>1
<1>3. Len(b) \in Nat /\ \A i \in 1..Len(b) : key[i] = b[i]
  <2>1. Len(b) \in Nat /\ \A i \in 1..Len(b) : Before(b, t)[i] = b[i]
    BY BeforeShape
  <2> QED
    BY <1>1, <2>1
<1>4. ~(Len(a) < Len(b)) /\ ~(Len(b) < Len(a))
  BY NoEarlierColon
<1>5. Len(a) = Len(b)
  BY <1>2, <1>3, <1>4
<1>6. a = b
  BY <1>2, <1>3, <1>5, SameText
<1> QED
  BY <1>6, SameFieldsBehind

\* The fields of an event that go into its keys are texts.
Keyed(event) == event.id \in Text /\ event.symbol \in Text /\ event.ts \in Text

LEMMA SpellingIsText ==
  ASSUME NEW name \in Kinds \cup Rules
  PROVE  Spelling[name] \in Text /\ Without(Colon, Spelling[name])
  BY SpellingAssumption DEF Text

\* The alerts of an event are of different rules, under the keys of these.
LEMMA EventAlerts ==
  ASSUME NEW kind \in Kinds, NEW event
  PROVE  /\ \A i, j \in DOMAIN Evaluate(kind, event) :
              Evaluate(kind, event)[i].rule = Evaluate(kind, event)[j].rule => i = j
         /\ \A i \in DOMAIN Evaluate(kind, event) :
              /\ Evaluate(kind, event)[i].rule \in Rules
              /\ Evaluate(kind, event)[i].key
                   = DedupeKey(kind, event, Evaluate(kind, event)[i].rule)
<1>1. CASE kind = "signal"
  <2>1. Evaluate(kind, event) = EvaluateSignal(event)
    BY <1>1 DEF Evaluate
  <2> QED
    BY <1>1, <2>1, SignalAlerts
<1>2. CASE kind = "insight"
  <2>1. Evaluate(kind, event) = EvaluateInsight(event)
    BY <1>2 DEF Evaluate
  <2> QED
    BY <1>2, <2>1, InsightAlerts
<1> QED
  BY <1>1, <1>2 DEF Kinds

\* No two alerts of one event share a dedupe key, whatever colons its id, symbol and
\* time contain, its indicators and the thresholds: so none of them is taken for the
\* other's repetition (services/alerting/rules.py:162-171, service.py:274-277).
THEOREM KeysOfOneEventAreDistinct ==
  ASSUME NEW kind \in Kinds, NEW event, Keyed(event),
         NEW i \in DOMAIN KeysOf(Evaluate(kind, event)),
         NEW j \in DOMAIN KeysOf(Evaluate(kind, event)),
         KeysOf(Evaluate(kind, event))[i] = KeysOf(Evaluate(kind, event))[j]
  PROVE  i = j
<1> DEFINE F == Evaluate(kind, event)
           Behind(rule) == Before(Spelling[rule], event.ts)
<1>1. /\ i \in DOMAIN F /\ j \in DOMAIN F /\ F[i].key = F[j].key
  BY DEF KeysOf
<1>2. /\ F[i].rule \in Rules /\ F[j].rule \in Rules
      /\ DedupeKey(kind, event, F[i].rule) = DedupeKey(kind, event, F[j].rule)
      /\ F[i].rule = F[j].rule => i = j
  BY <1>1, EventAlerts
<1> HIDE DEF F
<1>3. ASSUME NEW q \in Rules, NEW r \in Rules,
             DedupeKey(kind, event, q) = DedupeKey(kind, event, r)
      PROVE  q = r
  <2>1. /\ Spelling[kind] \in Text /\ Spelling[q] \in Text /\ Spelling[r] \in Text
        /\ event.id \in Text /\ event.symbol \in Text /\ event.ts \in Text
    BY SpellingIsText DEF Keyed
  <2>2. Behind(q) \in Text /\ Behind(r) \in Text
    BY <2>1, BeforeShape
  <2>3. DedupeKey(kind, event, q)
          = Before(Spelling[kind], Before(event.id, Before(event.symbol, Behind(q))))
        /\ DedupeKey(kind, event, r)
          = Before(Spelling[kind], Before(event.id, Before(event.symbol, Behind(r))))
    BY DEF DedupeKey
  <2>4. Behind(q) = Behind(r)
    <3> HIDE DEF Behind
    <3>1. /\ Before(event.symbol, Behind(q)) \in Text /\ Before(event.symbol, Behind(r)) \in Text
      BY <2>1, <2>2, BeforeShape
    <3>2. /\ Before(event.id, Before(event.symbol, Behind(q))) \in Text
          /\ Before(event.id, Before(event.symbol, Behind(r))) \in Text
      BY <2>1, <3>1, BeforeShape
    <3>3. Before(event.id, Before(event.symbol, Behind(q)))
            = Before(event.id, Before(event.symbol, Behind(r)))
      BY <1>3, <2>1, <2>3, <3>2, SameFieldsBehind
    <3>4. Before(event.symbol, Behind(q)) = Before(event.symbol, Behind(r))
      BY <2>1, <3>1, <3>3, SameFieldsBehind
    <3> QED
      BY <2>1, <2>2, <3>4, SameFieldsBehind
  <2>5. Spelling[q] = Spelling[r]
    BY <2>1, <2>4, SameFieldBefore
  <2> QED
    BY <2>5, SpellingAssumption
<1> QED
  BY <1>2, <1>3

\* A key tells the kind, the id, the symbol and the time of its event and its rule where
\* ids and symbols have no colon: what Alerting assumes of the alerts of different
\* events (AlertsAreDistinct).
THEOREM KeysTellEvents ==
  ASSUME NEW k \in Kinds, NEW l \in Kinds, NEW d, NEW e, Keyed(d), Keyed(e),
         Without(Colon, d.id), Without(Colon, d.symbol),
         Without(Colon, e.id), Without(Colon, e.symbol),
         NEW i \in DOMAIN KeysOf(Evaluate(k, d)), NEW j \in DOMAIN KeysOf(Evaluate(l, e)),
         KeysOf(Evaluate(k, d))[i] = KeysOf(Evaluate(l, e))[j]
  PROVE  /\ k = l /\ d.id = e.id /\ d.symbol = e.symbol /\ d.ts = e.ts
         /\ Evaluate(k, d)[i].rule = Evaluate(l, e)[j].rule
<1> DEFINE q == Evaluate(k, d)[i].rule  r == Evaluate(l, e)[j].rule
           Behind(rule, event) == Before(Spelling[rule], event.ts)
<1>1. /\ i \in DOMAIN Evaluate(k, d) /\ j \in DOMAIN Evaluate(l, e)
      /\ Evaluate(k, d)[i].key = Evaluate(l, e)[j].key
  BY DEF KeysOf
<1>2. q \in Rules /\ r \in Rules /\ DedupeKey(k, d, q) = DedupeKey(l, e, r)
  BY <1>1, EventAlerts
<1> HIDE DEF q, r
<1>3. /\ Spelling[k] \in Text /\ Spelling[l] \in Text /\ Spelling[q] \in Text /\ Spelling[r] \in Text
      /\ Without(Colon, Spelling[k]) /\ Without(Colon, Spelling[l])
      /\ Without(Colon, Spelling[q]) /\ Without(Colon, Spelling[r])
      /\ d.id \in Text /\ d.symbol \in Text /\ d.ts \in Text
      /\ e.id \in Text /\ e.symbol \in Text /\ e.ts \in Text
  BY <1>2, SpellingIsText DEF Keyed
<1>4. /\ DedupeKey(k, d, q) = Before(Spelling[k], Before(d.id, Before(d.symbol, Behind(q, d))))
      /\ DedupeKey(l, e, r) = Before(Spelling[l], Before(e.id, Before(e.symbol, Behind(r, e))))
  BY DEF DedupeKey
<1>5. Behind(q, d) \in Text /\ Behind(r, e) \in Text
  BY <1>3, BeforeShape
<1>6. /\ Before(d.symbol, Behind(q, d)) \in Text /\ Before(e.symbol, Behind(r, e)) \in Text
  <2> HIDE DEF Behind
  <2> QED
    BY <1>3, <1>5, BeforeShape
<1>7. /\ Before(d.id, Before(d.symbol, Behind(q, d))) \in Text
      /\ Before(e.id, Before(e.symbol, Behind(r, e))) \in Text
  <2> HIDE DEF Behind
  <2> QED
    BY <1>3, <1>6, BeforeShape
<1> HIDE DEF Behind
<1> DEFINE x == Before(d.id, Before(d.symbol, Behind(q, d)))
           y == Before(e.id, Before(e.symbol, Behind(r, e)))
<1>8. Spelling[k] = Spelling[l] /\ x = y
  <2>1. Before(Spelling[k], x) = Before(Spelling[l], y)
    BY <1>2, <1>4
  <2>2. x \in Text /\ y \in Text
    BY <1>7
  <2> HIDE DEF x, y
  <2> QED
    BY <1>3, <2>1, <2>2, FieldEndsAtColon
<1>9. d.id = e.id /\ Before(d.symbol, Behind(q, d)) = Before(e.symbol, Behind(r, e))
  BY <1>3, <1>6, <1>8, FieldEndsAtColon
<1>10. d.symbol = e.symbol /\ Behind(q, d) = Behind(r, e)
  BY <1>3, <1>5, <1>9, FieldEndsAtColon
<1>11. Spelling[q] = Spelling[r] /\ d.ts = e.ts
  <2>1. Before(Spelling[q], d.ts) = Before(Spelling[r], e.ts)
    BY <1>10 DEF Behind
  <2> QED
    BY <1>3, <2>1, FieldEndsAtColon
<1>12. k = l /\ q = r
  BY <1>2, <1>8, <1>11, SpellingAssumption
<1> QED
  BY <1>9, <1>10, <1>11, <1>12 DEF q, r
=============================================================================
