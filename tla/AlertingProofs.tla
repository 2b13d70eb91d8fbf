---------------------------- MODULE AlertingProofs ----------------------------
(***************************************************************************)
(* Theorems about Alerting for any number of replicas, messages, events    *)
(* and alerts, any attempt and delivery limits, and any set of faults.     *)
(***************************************************************************)
EXTENDS Alerting, TLAPS

\* A replica between lookup and its last cache call handles a valid event.
HandlesEvent ==
  \A w \in Workers :
    /\ pc[w] = "idle" <=> msg[w] = NoMessage
    /\ pc[w] \notin {"idle", "reject"} => Event(w) \in Events

\* What the per-alert markers say at each step of the publishing loop.
MarkersTrue ==
  /\ \A a \in marked : published[a] > 0
  /\ \A e \in processed : AlertSet(e) \subseteq marked
  /\ \A w \in Workers :
       /\ pc[w] \in {"publish", "mark"} => pos[w] \in DOMAIN AlertsOf[Event(w)]
       /\ pc[w] \in {"check", "publish", "mark"} =>
            \A i \in DOMAIN AlertsOf[Event(w)] : i < pos[w] => AlertsOf[Event(w)][i] \in marked
       /\ pc[w] = "mark" => published[AlertAt(w)] > 0
       /\ pc[w] \notin {"check", "publish", "mark"} => pos[w] = 1

\* The lock is there as long as its holder works under it, and has one holder.
LockHeld ==
  /\ \A w \in Workers : InSection(w) => Event(w) \in locks
  /\ MutualExclusion

\* Between reading an alert's marker and writing it, under the lock, the event
\* cannot have become processed.
StillUnprocessed ==
  \A w \in Workers : pc[w] \in {"publish", "mark"} => Event(w) \notin processed

Inv == TypeOK /\ HandlesEvent /\ MarkersTrue
LockInv == Inv /\ LockHeld

-----------------------------------------------------------------------------
\* The initial state satisfies both invariants, and nothing is processed in it.
LEMMA InitInv == Init => LockInv /\ StillUnprocessed
  BY ConstantsAssumption, LimitsAssumption
  DEF Init, LockInv, Inv, TypeOK, HandlesEvent, MarkersTrue, LockHeld, MutualExclusion,
      StillUnprocessed, InSection, Steps

\* What such a replica knows of its event.
EventFacts(w) ==
  /\ Event(w) \in Events
  /\ \E n \in Nat : DOMAIN AlertsOf[Event(w)] = 1..n
  /\ \A i \in DOMAIN AlertsOf[Event(w)] : AlertsOf[Event(w)][i] \in Alerts

\* A replica past the payload's validation handles a message that carries an event.
LEMMA EventType ==
  ASSUME TypeOK, HandlesEvent, NEW w \in Workers, pc[w] \notin {"idle", "reject"}
  PROVE  EventFacts(w)
  BY ConstantsAssumption DEF HandlesEvent, EventFacts

\* A failed attempt keeps the replica's locals and circuit well typed.
LEMMA AttemptFailsType ==
  ASSUME TypeOK, NEW w \in Workers, AttemptFails(w)
  PROVE  /\ pc' \in [Workers -> Steps]
         /\ pos' \in [Workers -> Nat \ {0}]
         /\ attempt' \in [Workers -> 1..MaxAttempts]
         /\ circuit' \in [Workers -> {"CLOSED", "OPEN", "HALF_OPEN"}]
         /\ failures' \in [Workers -> Nat]
         /\ UNCHANGED <<turn, batch, msg, state, owner, deliveries>>
  BY LimitsAssumption
  DEF TypeOK, Steps, AttemptFails, RecordFailure, ResetLoop, Goto, pollVars, brokerVars, circuitVars

\* Every step keeps the types.
LEMMA TypeStep == Inv /\ [Next]_vars => TypeOK'
<1> SUFFICES ASSUME Inv, [Next]_vars PROVE TypeOK'
  OBVIOUS
<1> USE LimitsAssumption DEF Inv, TypeOK, Steps, pollVars, loopVars, circuitVars, brokerVars, cacheVars
<1>1. ASSUME NEW w \in Workers, Receive(w) PROVE TypeOK'
  <2>1. PICK S \in SUBSET Messages : Deliver(w, S) /\ batch' = [batch EXCEPT ![w] = S]
    BY <1>1 DEF Receive, Available
  <2>2. /\ state' \in [Messages -> {"ready", "locked", "completed", "dead"}]
        /\ owner' \in [Messages -> Workers \cup {Nobody}] /\ deliveries' \in [Messages -> Nat]
    BY <2>1 DEF Deliver
  <2>3. batch' \in [Workers -> SUBSET Messages]
    BY <2>1
  <2>4. turn' \in [Workers -> {"signals", "insights"}]
    BY <1>1 DEF Receive
  <2>5. UNCHANGED <<pc, msg, loopVars, circuitVars, cacheVars, published>>
    BY <1>1 DEF Receive
  <2> QED
    BY <2>2, <2>3, <2>4, <2>5
<1>2. ASSUME NEW w \in Workers, Begin(w) PROVE TypeOK'
  BY <1>2, ConstantsAssumption DEF Begin, Goto
<1>3. ASSUME NEW w \in Workers, Lookup(w) PROVE TypeOK'
  BY <1>3 DEF Lookup, Goto, CacheRaises, AbortPoll
<1>4. ASSUME NEW w \in Workers, Acquire(w) PROVE TypeOK'
  <2>1. locks' \in SUBSET Events
    <3>1. Event(w) \in Events
      BY <1>4, EventType DEF EventFacts, Acquire
    <3>2. locks' = locks \/ locks' = locks \cup {Event(w)}
      BY <1>4 DEF Acquire, TakeLock, CacheRaises
    <3> QED
      BY <3>1, <3>2
  <2>2. processed' = processed /\ marked' = marked
    BY <1>4 DEF Acquire, TakeLock, CacheRaises
  <2>3. pc' \in [Workers -> Steps]
    BY <1>4 DEF Acquire, Goto, CacheRaises, AbortPoll
  <2>4. /\ turn' = turn \/ turn' = [turn EXCEPT ![w] = "signals"]
        /\ batch' = batch \/ batch' = [batch EXCEPT ![w] = {}]
        /\ msg' = msg \/ msg' = [msg EXCEPT ![w] = NoMessage]
    BY <1>4 DEF Acquire, CacheRaises, AbortPoll
  <2>5. UNCHANGED <<loopVars, circuitVars, brokerVars, published>>
    BY <1>4 DEF Acquire, CacheRaises
  <2> QED
    BY <2>1, <2>2, <2>3, <2>4, <2>5
<1>5. ASSUME NEW w \in Workers, Call(w) PROVE TypeOK'
  BY <1>5 DEF Call, Goto
<1>6. ASSUME NEW w \in Workers, Check(w) PROVE TypeOK'
  BY <1>6, AttemptFailsType DEF Check, Goto
<1>7. ASSUME NEW w \in Workers, Publish(w) PROVE TypeOK'
  BY <1>7, AttemptFailsType DEF Publish, Goto
<1>8. ASSUME NEW w \in Workers, Mark(w) PROVE TypeOK'
  <2>1. AlertAt(w) \in Alerts
    BY <1>8, EventType DEF EventFacts, Mark, MarkersTrue, AlertAt
  <2> QED
    BY <1>8, <2>1, AttemptFailsType DEF Mark, Goto
<1>9. ASSUME NEW w \in Workers, Finish(w) PROVE TypeOK'
  <2>1. Event(w) \in Events
    BY <1>9, EventType DEF EventFacts, Finish
  <2> QED
    <3>1. processed' \in SUBSET Events /\ UNCHANGED <<locks, marked, published>>
      BY <1>9, <2>1 DEF Finish
    <3>2. CASE AttemptFails(w)
      BY <3>1, <3>2, AttemptFailsType
    <3>3. CASE /\ RecordSuccess(w) /\ ResetLoop(w) /\ Goto(w, "release")
               /\ UNCHANGED <<pollVars, brokerVars>>
      BY <3>1, <3>3 DEF RecordSuccess, ResetLoop, Goto
    <3> QED
      BY <1>9, <3>2, <3>3 DEF Finish
<1>10. ASSUME NEW w \in Workers, Release(w) PROVE TypeOK'
  BY <1>10 DEF Release, DropLock, Goto, CacheRaises, AbortPoll
<1>11. ASSUME NEW w \in Workers, Settle(w) PROVE TypeOK'
  <2>1. /\ pc' \in [Workers -> Steps] /\ turn' \in [Workers -> {"signals", "insights"}]
        /\ batch' \in [Workers -> SUBSET Messages]
        /\ msg' \in [Workers -> Messages \cup {NoMessage}]
    BY <1>11 DEF Settle, Goto, AbortPoll
  <2>2. \/ UNCHANGED brokerVars
        \/ \E s \in {"completed", "dead"} : SettledAs(msg[w], s)
    BY <1>11 DEF Settle
  <2>3. /\ state' \in [Messages -> {"ready", "locked", "completed", "dead"}]
        /\ owner' \in [Messages -> Workers \cup {Nobody}] /\ deliveries' \in [Messages -> Nat]
    BY <2>2 DEF SettledAs
  <2>4. UNCHANGED <<loopVars, circuitVars, cacheVars, published>>
    BY <1>11 DEF Settle
  <2> QED
    BY <2>1, <2>3, <2>4
<1>12. ASSUME NEW w \in Workers, ReceiveRaises(w) PROVE TypeOK'
  BY <1>12, ConstantsAssumption DEF ReceiveRaises, Deliver, Available, Goto, AbortPoll
<1>13. ASSUME NEW w \in Workers, Crash(w) PROVE TypeOK'
  BY <1>13 DEF Crash, Goto, AbortPoll, ResetLoop
<1>14. ASSUME NEW m \in Messages, PeekLockExpires(m) PROVE TypeOK'
  BY <1>14 DEF PeekLockExpires
<1>15. ASSUME NEW e \in Events, LockExpires(e) PROVE TypeOK'
  BY <1>15 DEF LockExpires
<1>16. CASE UNCHANGED vars
  BY <1>16 DEF vars
<1> QED
  BY <1>1, <1>2, <1>3, <1>4, <1>5, <1>6, <1>7, <1>8, <1>9, <1>10, <1>11, <1>12, <1>13,
     <1>14, <1>15, <1>16 DEF Next, Step

\* Leaving poll_once keeps what the other replicas handle.
LEMMA HandlesAfterAbort ==
  ASSUME Inv, NEW w \in Workers, AbortPoll(w)
  PROVE  HandlesEvent'
  BY ConstantsAssumption DEF Inv, TypeOK, HandlesEvent, Event, AbortPoll, Goto

\* Every step keeps a busy replica on a message that carries an event.
LEMMA HandlesStep == Inv /\ [Next]_vars => HandlesEvent'
<1> SUFFICES ASSUME Inv, [Next]_vars PROVE HandlesEvent'
  OBVIOUS
<1> USE DEF Inv, TypeOK, HandlesEvent, Event, pollVars, loopVars, circuitVars, brokerVars, cacheVars
<1>1. ASSUME NEW w \in Workers, Receive(w) PROVE HandlesEvent'
  BY <1>1, ConstantsAssumption DEF Receive, Deliver
<1>2. ASSUME NEW w \in Workers, Begin(w) PROVE HandlesEvent'
  BY <1>2, ConstantsAssumption DEF Begin, Goto
<1>3. ASSUME NEW w \in Workers, Lookup(w) PROVE HandlesEvent'
  BY <1>3, HandlesAfterAbort DEF Lookup, Goto, CacheRaises
<1>4. ASSUME NEW w \in Workers, Acquire(w) PROVE HandlesEvent'
  BY <1>4, HandlesAfterAbort DEF Acquire, Goto, CacheRaises
<1>5. ASSUME NEW w \in Workers, Call(w) PROVE HandlesEvent'
  BY <1>5, ConstantsAssumption DEF Call, Goto
<1>6. ASSUME NEW w \in Workers, Check(w) PROVE HandlesEvent'
  BY <1>6, ConstantsAssumption DEF Check, Goto, AttemptFails, ResetLoop
<1>7. ASSUME NEW w \in Workers, Publish(w) PROVE HandlesEvent'
  BY <1>7, ConstantsAssumption DEF Publish, Goto, AttemptFails, ResetLoop
<1>8. ASSUME NEW w \in Workers, Mark(w) PROVE HandlesEvent'
  BY <1>8, ConstantsAssumption DEF Mark, Goto, AttemptFails, ResetLoop
<1>9. ASSUME NEW w \in Workers, Finish(w) PROVE HandlesEvent'
  BY <1>9, ConstantsAssumption DEF Finish, Goto, AttemptFails, ResetLoop
<1>10. ASSUME NEW w \in Workers, Release(w) PROVE HandlesEvent'
  BY <1>10, ConstantsAssumption DEF Release, DropLock, Goto, CacheRaises, AbortPoll
<1>11. ASSUME NEW w \in Workers, Settle(w) PROVE HandlesEvent'
  <2>1. CASE AbortPoll(w)
    BY <2>1, HandlesAfterAbort
  <2>2. CASE Goto(w, "idle") /\ msg' = [msg EXCEPT ![w] = NoMessage]
    BY <2>2 DEF Goto
  <2> QED
    BY <1>11, <2>1, <2>2 DEF Settle
<1>12. ASSUME NEW w \in Workers, ReceiveRaises(w) PROVE HandlesEvent'
  BY <1>12, ConstantsAssumption DEF ReceiveRaises, Goto, AbortPoll
<1>13. ASSUME NEW w \in Workers, Crash(w) PROVE HandlesEvent'
  BY <1>13, ConstantsAssumption DEF Crash, Goto, AbortPoll, ResetLoop
<1>14. ASSUME NEW m \in Messages, PeekLockExpires(m) PROVE HandlesEvent'
  BY <1>14 DEF PeekLockExpires
<1>15. ASSUME NEW e \in Events, LockExpires(e) PROVE HandlesEvent'
  BY <1>15 DEF LockExpires
<1>16. CASE UNCHANGED vars
  BY <1>16 DEF vars
<1> QED
  BY <1>1, <1>2, <1>3, <1>4, <1>5, <1>6, <1>7, <1>8, <1>9, <1>10, <1>11, <1>12, <1>13,
     <1>14, <1>15, <1>16 DEF Next, Step

\* A step of w that keeps msg and only adds markers and alerts: what is left to
\* show is about w itself and about what was added.
LEMMA MarkersFrame ==
  ASSUME Inv, NEW w \in Workers, NEW s, NEW n,
         pc' = [pc EXCEPT ![w] = s], pos' = [pos EXCEPT ![w] = n], msg' = msg,
         marked \subseteq marked', \A a \in Alerts : published'[a] >= published[a],
         published' \in [Alerts -> Nat],
         \A a \in marked' : published'[a] > 0,
         \A e \in processed' : AlertSet(e) \subseteq marked',
         s \in {"publish", "mark"} => n \in DOMAIN AlertsOf[Event(w)],
         s \in {"check", "publish", "mark"} =>
           \A i \in DOMAIN AlertsOf[Event(w)] : i < n => AlertsOf[Event(w)][i] \in marked',
         s = "mark" => published'[AlertsOf[Event(w)][n]] > 0,
         s \notin {"check", "publish", "mark"} => n = 1
  PROVE  MarkersTrue'
<1> USE DEF Inv, TypeOK, Event, AlertAt
<1>1. ASSUME NEW v \in Workers, v # w, pc[v] = "mark" PROVE published'[AlertAt(v)] > 0
  <2>1. AlertAt(v) \in Alerts /\ published[AlertAt(v)] > 0
    BY <1>1, EventType DEF EventFacts, MarkersTrue
  <2> QED
    BY <2>1
<1>2. ASSUME NEW v \in Workers, v # w
      PROVE  /\ pc'[v] = pc[v] /\ pos'[v] = pos[v] /\ Event(v)' = Event(v)
             /\ AlertAt(v)' = AlertAt(v)
  BY <1>2
<1>3. pc'[w] = s /\ pos'[w] = n /\ Event(w)' = Event(w)
  OBVIOUS
<1>4. ASSUME NEW v \in Workers
      PROVE  /\ pc'[v] \in {"publish", "mark"} => pos'[v] \in DOMAIN AlertsOf[Event(v)']
             /\ pc'[v] \in {"check", "publish", "mark"} =>
                  \A i \in DOMAIN AlertsOf[Event(v)'] :
                    i < pos'[v] => AlertsOf[Event(v)'][i] \in marked'
             /\ pc'[v] = "mark" => published'[AlertAt(v)'] > 0
             /\ pc'[v] \notin {"check", "publish", "mark"} => pos'[v] = 1
  <2>1. CASE v = w
    BY <2>1, <1>3
  <2>2. CASE v # w
    BY <2>2, <1>1, <1>2 DEF MarkersTrue
  <2> QED
    BY <2>1, <2>2
<1> QED
  BY <1>4 DEF MarkersTrue

\* The same for a failing attempt, which starts over or gives up.
LEMMA MarkersAfterFailure ==
  ASSUME Inv, NEW w \in Workers, AttemptFails(w), pc[w] \in {"check", "publish", "mark"},
         marked \subseteq marked', \A a \in Alerts : published'[a] >= published[a],
         published' \in [Alerts -> Nat],
         \A a \in marked' : published'[a] > 0,
         \A e \in processed' : AlertSet(e) \subseteq marked'
  PROVE  MarkersTrue'
<1>1. PICK s \in {"check", "giveUp"} :
        pc' = [pc EXCEPT ![w] = s] /\ pos' = [pos EXCEPT ![w] = 1] /\ msg' = msg
  BY DEF AttemptFails, Goto, ResetLoop, pollVars
<1>2. \A i \in DOMAIN AlertsOf[Event(w)] : ~(i < 1)
  BY EventType DEF EventFacts, Inv
<1> QED
  BY <1>1, <1>2, MarkersFrame

\* Every step keeps the markers true: each is written after what it stands for.
LEMMA MarkersStep == Inv /\ [Next]_vars => MarkersTrue'
<1> SUFFICES ASSUME Inv, [Next]_vars PROVE MarkersTrue'
  OBVIOUS
<1> USE DEF Inv, TypeOK, HandlesEvent, MarkersTrue, Event, AlertAt, pollVars, loopVars, circuitVars, brokerVars, cacheVars
<1>1. ASSUME NEW w \in Workers, Receive(w) PROVE MarkersTrue'
  BY <1>1 DEF Receive, Deliver
<1>2. ASSUME NEW w \in Workers, Begin(w) PROVE MarkersTrue'
  BY <1>2 DEF Begin, Goto
<1>3. ASSUME NEW w \in Workers, Lookup(w) PROVE MarkersTrue'
  BY <1>3 DEF Lookup, Goto, CacheRaises, AbortPoll
<1>4. ASSUME NEW w \in Workers, Acquire(w) PROVE MarkersTrue'
  BY <1>4 DEF Acquire, TakeLock, Goto, CacheRaises, AbortPoll
<1>5. ASSUME NEW w \in Workers, Call(w) PROVE MarkersTrue'
  <2>1. PICK s \in {"check", "giveUp"} : pc' = [pc EXCEPT ![w] = s]
    BY <1>5 DEF Call, Goto
  <2>2. \A i \in DOMAIN AlertsOf[Event(w)] : ~(i < 1)
    <3>1. EventFacts(w)
      BY <1>5, EventType DEF Call
    <3> QED
      BY <3>1 DEF EventFacts
  <2>3. pos' = [pos EXCEPT ![w] = 1] /\ msg' = msg /\ UNCHANGED <<marked, processed, published>>
    <3>1. pos[w] = 1 /\ pos' = pos
      BY <1>5 DEF Call
    <3> QED
      BY <1>5, <3>1 DEF Call
  <2> QED
    BY <2>1, <2>2, <2>3, MarkersFrame
<1>6. ASSUME NEW w \in Workers, Check(w) PROVE MarkersTrue'
  <2>0. EventFacts(w) /\ pos[w] \in DOMAIN AlertsOf[Event(w)]
    BY <1>6, EventType DEF Check, EventFacts
  <2>1. CASE AlertAt(w) \in marked /\ pos' = [pos EXCEPT ![w] = @ + 1] /\ pc' = pc /\ msg' = msg
    <3>1. pc' = [pc EXCEPT ![w] = "check"] /\ pos' = [pos EXCEPT ![w] = pos[w] + 1]
      BY <2>1, <1>6 DEF Check
    <3>2. \A i \in DOMAIN AlertsOf[Event(w)] : i < pos[w] + 1 => AlertsOf[Event(w)][i] \in marked
      <4>1. ASSUME NEW i \in DOMAIN AlertsOf[Event(w)], i < pos[w] + 1 PROVE i < pos[w] \/ i = pos[w]
        BY <2>0, <4>1 DEF EventFacts
      <4> QED
        BY <4>1, <2>1, <1>6 DEF Check
    <3>3. UNCHANGED <<marked, processed, published>>
      BY <1>6 DEF Check
    <3>4. /\ published' \in [Alerts -> Nat] /\ \A a \in Alerts : published'[a] >= published[a]
          /\ \A a \in marked' : published'[a] > 0
          /\ \A e \in processed' : AlertSet(e) \subseteq marked'
      BY <3>3
    <3> HIDE DEF TypeOK, HandlesEvent, MarkersTrue, Event, AlertAt
    <3> QED
      BY <3>1, <3>2, <3>3, <3>4, <2>1, MarkersFrame
  <2>2. CASE Goto(w, "publish") /\ pos' = pos /\ msg' = msg
    <3>1. pc' = [pc EXCEPT ![w] = "publish"] /\ pos' = [pos EXCEPT ![w] = pos[w]]
      BY <2>2 DEF Goto
    <3> QED
      BY <1>6, <3>1, <2>0, <2>2, MarkersFrame DEF Check
  <2>3. CASE AttemptFails(w)
    <3>1. pc[w] = "check" /\ UNCHANGED <<marked, processed, published>>
      BY <1>6 DEF Check
    <3>2. /\ published' \in [Alerts -> Nat] /\ \A a \in Alerts : published'[a] >= published[a]
          /\ \A a \in marked' : published'[a] > 0
          /\ \A e \in processed' : AlertSet(e) \subseteq marked'
      BY <3>1
    <3> HIDE DEF Inv, TypeOK, HandlesEvent, MarkersTrue, Event, AlertAt
    <3> QED
      BY <2>3, <3>1, <3>2, MarkersAfterFailure
  <2> QED
    BY <1>6, <2>1, <2>2, <2>3 DEF Check
<1>7. ASSUME NEW w \in Workers, Publish(w) PROVE MarkersTrue'
  <2>0. AlertAt(w) \in Alerts /\ pos[w] \in DOMAIN AlertsOf[Event(w)]
    BY <1>7, EventType DEF EventFacts, Publish
  <2>1. /\ published' \in [Alerts -> Nat]
        /\ \A a \in Alerts : published'[a] >= published[a]
        /\ \A a \in marked : published'[a] > 0
        /\ marked' = marked /\ processed' = processed
    <3>1. published' = published \/ published' = [published EXCEPT ![AlertAt(w)] = @ + 1]
      BY <1>7 DEF Publish
    <3>2. marked' = marked /\ processed' = processed /\ marked \subseteq Alerts
          /\ published \in [Alerts -> Nat] /\ \A a \in marked : published[a] > 0
      BY <1>7 DEF Publish
    <3> HIDE DEF Inv, TypeOK, HandlesEvent, MarkersTrue, Event, AlertAt
    <3>3. published' \in [Alerts -> Nat] /\ \A a \in Alerts : published'[a] >= published[a]
      BY <2>0, <3>1, <3>2
    <3>4. \A a \in marked : published'[a] > 0
      BY <3>2, <3>3
    <3> QED
      BY <3>2, <3>3, <3>4
  <2>2. CASE Goto(w, "mark") /\ pos' = pos /\ msg' = msg /\ published'[AlertAt(w)] > 0
    <3>1. pc' = [pc EXCEPT ![w] = "mark"] /\ pos' = [pos EXCEPT ![w] = pos[w]]
      BY <2>2 DEF Goto
    <3>2. \A i \in DOMAIN AlertsOf[Event(w)] : i < pos[w] => AlertsOf[Event(w)][i] \in marked'
      BY <1>7, <2>1 DEF Publish
    <3>3. \A e \in processed' : AlertSet(e) \subseteq marked'
      BY <2>1
    <3>4. marked \subseteq marked' /\ \A a \in marked' : published'[a] > 0
      BY <2>1
    <3>5. published'[AlertsOf[Event(w)][pos[w]]] > 0 /\ pos[w] \in DOMAIN AlertsOf[Event(w)]
      BY <2>0, <2>2
    <3> HIDE DEF TypeOK, HandlesEvent, MarkersTrue, Event, AlertAt
    <3> QED
      BY <3>1, <3>2, <3>3, <3>4, <3>5, <2>1, <2>2, MarkersFrame
  <2>3. CASE AttemptFails(w)
    BY <1>7, <2>1, <2>3, MarkersAfterFailure DEF Publish
  <2>4. published' = [published EXCEPT ![AlertAt(w)] = @ + 1] => published'[AlertAt(w)] > 0
    BY <2>0
  <2> QED
    BY <1>7, <2>2, <2>3, <2>4 DEF Publish, pollVars, loopVars
<1>8. ASSUME NEW w \in Workers, Mark(w) PROVE MarkersTrue'
  <2>0. EventFacts(w) /\ pos[w] \in DOMAIN AlertsOf[Event(w)]
    BY <1>8, EventType DEF Mark, EventFacts
  <2>1. /\ marked \subseteq marked' /\ marked' \subseteq marked \cup {AlertAt(w)}
        /\ published' = published /\ processed' = processed
    BY <1>8 DEF Mark
  <2>2. \A a \in marked' : published'[a] > 0
    BY <1>8, <2>1 DEF Mark
  <2>3. CASE marked' = marked \cup {AlertAt(w)} /\ Goto(w, "check")
             /\ pos' = [pos EXCEPT ![w] = @ + 1] /\ msg' = msg
    <3>1. pc' = [pc EXCEPT ![w] = "check"] /\ pos' = [pos EXCEPT ![w] = pos[w] + 1]
      BY <2>3 DEF Goto
    <3>2. \A i \in DOMAIN AlertsOf[Event(w)] : i < pos[w] + 1 => AlertsOf[Event(w)][i] \in marked'
      <4>1. ASSUME NEW i \in DOMAIN AlertsOf[Event(w)], i < pos[w] + 1 PROVE i < pos[w] \/ i = pos[w]
        BY <2>0, <4>1 DEF EventFacts
      <4> QED
        BY <4>1, <2>3, <1>8 DEF Mark
    <3>3. /\ \A e \in processed' : AlertSet(e) \subseteq marked'
          /\ published' \in [Alerts -> Nat] /\ \A a \in Alerts : published'[a] >= published[a]
      BY <2>1
    <3> HIDE DEF TypeOK, HandlesEvent, MarkersTrue, Event, AlertAt
    <3> QED
      BY <3>1, <3>2, <3>3, <2>1, <2>2, <2>3, MarkersFrame
  <2>4. CASE AttemptFails(w)
    <3>1. pc[w] = "mark"
      BY <1>8 DEF Mark
    <3>2. /\ published' \in [Alerts -> Nat] /\ \A a \in Alerts : published'[a] >= published[a]
          /\ \A e \in processed' : AlertSet(e) \subseteq marked'
      BY <2>1
    <3> HIDE DEF Inv, TypeOK, HandlesEvent, MarkersTrue, Event, AlertAt
    <3> QED
      BY <2>1, <2>2, <2>4, <3>1, <3>2, MarkersAfterFailure
  <2> QED
    BY <1>8, <2>3, <2>4 DEF Mark
<1>9. ASSUME NEW w \in Workers, Finish(w) PROVE MarkersTrue'
  <2>0. EventFacts(w)
    BY <1>9, EventType DEF Finish, EventFacts
  <2>1. AlertSet(Event(w)) \subseteq marked
    <3>1. \A i \in DOMAIN AlertsOf[Event(w)] : i < pos[w]
      BY <1>9, <2>0, ConstantsAssumption DEF Finish, EventFacts
    <3> QED
      BY <1>9, <3>1 DEF Finish, AlertSet
  <2>2. /\ marked' = marked /\ published' = published
        /\ \A e \in processed' : AlertSet(e) \subseteq marked
    BY <1>9, <2>1 DEF Finish
  <2>3. CASE Goto(w, "release") /\ ResetLoop(w) /\ msg' = msg
    BY <1>9, <2>2, <2>3, MarkersFrame DEF Goto, ResetLoop
  <2>4. CASE AttemptFails(w)
    <3>1. pc[w] = "check"
      BY <1>9 DEF Finish
    <3>2. /\ published' \in [Alerts -> Nat] /\ \A a \in Alerts : published'[a] >= published[a]
          /\ \A a \in marked' : published'[a] > 0
          /\ marked \subseteq marked' /\ \A e \in processed' : AlertSet(e) \subseteq marked'
      BY <2>2
    <3> HIDE DEF Inv, TypeOK, HandlesEvent, MarkersTrue, Event, AlertAt
    <3> QED
      BY <2>4, <3>1, <3>2, MarkersAfterFailure
  <2> QED
    BY <1>9, <2>3, <2>4 DEF Finish
<1>10. ASSUME NEW w \in Workers, Release(w) PROVE MarkersTrue'
  BY <1>10 DEF Release, DropLock, Goto, CacheRaises, AbortPoll
<1>11. ASSUME NEW w \in Workers, Settle(w) PROVE MarkersTrue'
  BY <1>11 DEF Settle, Goto, AbortPoll
<1>12. ASSUME NEW w \in Workers, ReceiveRaises(w) PROVE MarkersTrue'
  BY <1>12 DEF ReceiveRaises, Goto, AbortPoll
<1>13. ASSUME NEW w \in Workers, Crash(w) PROVE MarkersTrue'
  BY <1>13 DEF Crash, Goto, AbortPoll, ResetLoop
<1>14. ASSUME NEW m \in Messages, PeekLockExpires(m) PROVE MarkersTrue'
  BY <1>14 DEF PeekLockExpires
<1>15. ASSUME NEW e \in Events, LockExpires(e) PROVE MarkersTrue'
  BY <1>15 DEF LockExpires
<1>16. CASE UNCHANGED vars
  BY <1>16 DEF vars
<1> QED
  BY <1>1, <1>2, <1>3, <1>4, <1>5, <1>6, <1>7, <1>8, <1>9, <1>10, <1>11, <1>12, <1>13,
     <1>14, <1>15, <1>16 DEF Next, Step

\* Every step keeps the lock of an event in the cache while a replica works on it.
LEMMA LockStep ==
  ASSUME LockInv, "lock_outlived" \notin Faults, [Next]_vars
  PROVE  LockHeld'
<1> USE DEF LockInv, Inv, TypeOK, HandlesEvent, LockHeld, MutualExclusion, InSection, Event,
         pollVars, loopVars, circuitVars, brokerVars, cacheVars
<1>1. ASSUME NEW w \in Workers, Receive(w) PROVE LockHeld'
  BY <1>1 DEF Receive
<1>2. ASSUME NEW w \in Workers, Begin(w) PROVE LockHeld'
  BY <1>2 DEF Begin, Goto
<1>3. ASSUME NEW w \in Workers, Lookup(w) PROVE LockHeld'
  BY <1>3 DEF Lookup, Goto, CacheRaises, AbortPoll
<1>4. ASSUME NEW w \in Workers, Acquire(w) PROVE LockHeld'
  BY <1>4 DEF Acquire, TakeLock, Goto, CacheRaises, AbortPoll
<1>5. ASSUME NEW w \in Workers, Call(w) PROVE LockHeld'
  BY <1>5 DEF Call, Goto
<1>6. ASSUME NEW w \in Workers, Check(w) PROVE LockHeld'
  BY <1>6 DEF Check, Goto, AttemptFails
<1>7. ASSUME NEW w \in Workers, Publish(w) PROVE LockHeld'
  BY <1>7 DEF Publish, Goto, AttemptFails
<1>8. ASSUME NEW w \in Workers, Mark(w) PROVE LockHeld'
  BY <1>8 DEF Mark, Goto, AttemptFails
<1>9. ASSUME NEW w \in Workers, Finish(w) PROVE LockHeld'
  BY <1>9 DEF Finish, Goto, AttemptFails
<1>10. ASSUME NEW w \in Workers, Release(w) PROVE LockHeld'
  BY <1>10 DEF Release, DropLock, Goto, CacheRaises, AbortPoll
<1>11. ASSUME NEW w \in Workers, Settle(w) PROVE LockHeld'
  BY <1>11 DEF Settle, Goto, AbortPoll
<1>12. ASSUME NEW w \in Workers, ReceiveRaises(w) PROVE LockHeld'
  BY <1>12 DEF ReceiveRaises, Goto, AbortPoll
<1>13. ASSUME NEW w \in Workers, Crash(w) PROVE LockHeld'
  BY <1>13 DEF Crash, Goto, AbortPoll
<1>14. ASSUME NEW m \in Messages, PeekLockExpires(m) PROVE LockHeld'
  BY <1>14 DEF PeekLockExpires
<1>15. ASSUME NEW e \in Events, LockExpires(e) PROVE LockHeld'
  BY <1>15 DEF LockExpires
<1>16. CASE UNCHANGED vars
  BY <1>16 DEF vars
<1> QED
  BY <1>1, <1>2, <1>3, <1>4, <1>5, <1>6, <1>7, <1>8, <1>9, <1>10, <1>11, <1>12, <1>13,
     <1>14, <1>15, <1>16 DEF Next, Step

\* Every step keeps an event unprocessed while an alert of it is published or marked.
LEMMA UnprocessedStep ==
  ASSUME LockInv, StillUnprocessed, [Next]_vars
  PROVE  StillUnprocessed'
<1> USE DEF LockInv, Inv, TypeOK, HandlesEvent, MarkersTrue, StillUnprocessed, Event,
         pollVars, loopVars, circuitVars, brokerVars, cacheVars
<1>1. ASSUME NEW w \in Workers, Receive(w) PROVE StillUnprocessed'
  BY <1>1 DEF Receive
<1>2. ASSUME NEW w \in Workers, Begin(w) PROVE StillUnprocessed'
  BY <1>2 DEF Begin, Goto
<1>3. ASSUME NEW w \in Workers, Lookup(w) PROVE StillUnprocessed'
  BY <1>3 DEF Lookup, Goto, CacheRaises, AbortPoll
<1>4. ASSUME NEW w \in Workers, Acquire(w) PROVE StillUnprocessed'
  BY <1>4 DEF Acquire, TakeLock, Goto, CacheRaises, AbortPoll
<1>5. ASSUME NEW w \in Workers, Call(w) PROVE StillUnprocessed'
  BY <1>5 DEF Call, Goto
<1>6. ASSUME NEW w \in Workers, Check(w) PROVE StillUnprocessed'
  <2>1. CASE AlertAt(w) \in marked /\ UNCHANGED <<pc, msg, processed>>
    BY <2>1
  <2>2. CASE AlertAt(w) \notin marked /\ Goto(w, "publish") /\ UNCHANGED <<msg, processed>>
    <3>1. AlertAt(w) \in AlertSet(Event(w))
      BY <1>6 DEF Check, AlertAt, AlertSet
    <3>2. Event(w) \notin processed
      BY <2>2, <3>1
    <3> QED
      BY <2>2, <3>2 DEF Goto
  <2>3. CASE AttemptFails(w) /\ UNCHANGED processed
    BY <2>3 DEF AttemptFails, Goto
  <2> QED
    BY <1>6, <2>1, <2>2, <2>3 DEF Check
<1>7. ASSUME NEW w \in Workers, Publish(w) PROVE StillUnprocessed'
  BY <1>7 DEF Publish, Goto, AttemptFails
<1>8. ASSUME NEW w \in Workers, Mark(w) PROVE StillUnprocessed'
  BY <1>8 DEF Mark, Goto, AttemptFails
<1>9. ASSUME NEW w \in Workers, Finish(w) PROVE StillUnprocessed'
  <2>1. pc[w] = "check" /\ processed' \subseteq processed \cup {Event(w)} /\ msg' = msg
    BY <1>9 DEF Finish, AttemptFails
  <2>2. PICK s \in {"release", "check", "giveUp"} : pc' = [pc EXCEPT ![w] = s]
    BY <1>9 DEF Finish, Goto, AttemptFails
  <2>3. ASSUME NEW v \in Workers, pc'[v] \in {"publish", "mark"} PROVE Event(v)' \notin processed'
    <3>1. v # w /\ pc[v] \in {"publish", "mark"}
      BY <2>2, <2>3
    <3>2. Event(v) # Event(w)
      BY <2>1, <3>1 DEF LockHeld, MutualExclusion, InSection
    <3> QED
      BY <2>1, <3>1, <3>2
  <2> QED
    BY <2>3
<1>10. ASSUME NEW w \in Workers, Release(w) PROVE StillUnprocessed'
  BY <1>10 DEF Release, DropLock, Goto, CacheRaises, AbortPoll
<1>11. ASSUME NEW w \in Workers, Settle(w) PROVE StillUnprocessed'
  BY <1>11 DEF Settle, Goto, AbortPoll
<1>12. ASSUME NEW w \in Workers, ReceiveRaises(w) PROVE StillUnprocessed'
  BY <1>12 DEF ReceiveRaises, Goto, AbortPoll
<1>13. ASSUME NEW w \in Workers, Crash(w) PROVE StillUnprocessed'
  BY <1>13 DEF Crash, Goto, AbortPoll
<1>14. ASSUME NEW m \in Messages, PeekLockExpires(m) PROVE StillUnprocessed'
  BY <1>14 DEF PeekLockExpires
<1>15. ASSUME NEW e \in Events, LockExpires(e) PROVE StillUnprocessed'
  BY <1>15 DEF LockExpires
<1>16. CASE UNCHANGED vars
  BY <1>16 DEF vars
<1> QED
  BY <1>1, <1>2, <1>3, <1>4, <1>5, <1>6, <1>7, <1>8, <1>9, <1>10, <1>11, <1>12, <1>13,
     <1>14, <1>15, <1>16 DEF Next, Step

\* No step publishes an alert of an event that is marked processed.
LEMMA FinalStep ==
  ASSUME LockInv, StillUnprocessed, [Next]_vars
  PROVE  \A e \in processed : \A a \in AlertSet(e) : published'[a] = published[a]
<1> SUFFICES ASSUME NEW e \in processed, NEW a \in AlertSet(e), published'[a] # published[a]
             PROVE  FALSE
  OBVIOUS
<1>1. PICK w \in Workers : Publish(w)
  BY DEF Next, Step, Receive, Begin, Lookup, Acquire, Call, Check, Mark, Finish, Release, Settle,
         ReceiveRaises, Crash, PeekLockExpires, LockExpires, CacheRaises, vars
<1>2. EventFacts(w) /\ pos[w] \in DOMAIN AlertsOf[Event(w)]
  BY <1>1, EventType DEF Publish, LockInv, Inv, MarkersTrue
<1>3. a = AlertAt(w)
  <2>1. a \in Alerts
    BY ConstantsAssumption DEF LockInv, Inv, TypeOK, AlertSet
  <2> QED
    BY <1>1, <2>1 DEF Publish, LockInv, Inv, TypeOK
<1>4. e \in Events /\ e = Event(w)
  BY <1>2, <1>3, AlertsAreDistinct DEF LockInv, Inv, TypeOK, EventFacts, AlertSet, AlertAt
<1> QED
  BY <1>1, <1>4 DEF StillUnprocessed, Publish

-----------------------------------------------------------------------------
(* What holds while the cache answers, no replica stops and no lock is lost *)

\* An alert is on the topic at most once, and then its marker is written or about
\* to be; a replica about to publish is the first to.
PublishedOnce ==
  /\ NoDuplicateAlerts
  /\ \A a \in Alerts : published[a] > 0 =>
       a \in marked \/ \E w \in Workers : pc[w] = "mark" /\ AlertAt(w) = a
  /\ \A w \in Workers : pc[w] = "publish" => published[AlertAt(w)] = 0

\* A replica owns the peek lock of every message it handles, and handles it once.
MessagesHeld ==
  \A w \in Workers :
    /\ \A m \in Messages : Handling(w, m) => state[m] = "locked" /\ owner[m] = w
    /\ msg[w] \notin batch[w]

\* No lock is left behind: a replica works under each.
LocksUsed == \A e \in locks : \E w \in Workers : InSection(w) /\ Event(w) = e

\* A message that carries the event is still to be settled or is dead-lettered, and
\* no replica is about to complete it.
Vouched(e) ==
  \E m \in Messages :
    /\ EventOf[m] = e /\ state[m] # "completed"
    /\ \A w \in Workers : pc[w] = "complete" => msg[w] # m

\* A replica completes a message only when its event is processed or vouched for.
CompletionJustified ==
  \A w \in Workers :
    /\ pc[w] = "release" => Event(w) \in processed
    /\ pc[w] = "complete" => Event(w) \in processed \/ Vouched(Event(w))

\* An event that some message carries is processed or has a message not completed.
NotDropped ==
  \A m \in Messages : EventOf[m] \in Events =>
    \/ EventOf[m] \in processed
    \/ \E k \in Messages : EventOf[k] = EventOf[m] /\ state[k] # "completed"

CalmInv ==
  LockInv /\ StillUnprocessed /\ MessagesHeld /\ LocksUsed /\ CompletionJustified /\ NotDropped

-----------------------------------------------------------------------------
\* In the initial state nothing is handled, locked, completed or published.
LEMMA InitCalm == Init => CalmInv /\ PublishedOnce
<1> SUFFICES ASSUME Init PROVE CalmInv /\ PublishedOnce
  OBVIOUS
<1>1. LockInv /\ StillUnprocessed
  BY InitInv
<1>2. PublishedOnce
  BY DEF Init, PublishedOnce, NoDuplicateAlerts
<1>3. MessagesHeld
  BY ConstantsAssumption DEF Init, MessagesHeld, Handling
<1>4. LocksUsed /\ CompletionJustified
  BY DEF Init, LocksUsed, CompletionJustified
<1>5. NotDropped
  BY DEF Init, NotDropped
<1> QED
  BY <1>1, <1>2, <1>3, <1>4, <1>5 DEF CalmInv

\* A replica that comes to handle no more still handles each message once.
LEMMA HeldOnce ==
  ASSUME TypeOK, MessagesHeld, NEW v \in Workers,
         batch'[v] \subseteq batch[v], msg'[v] \in {msg[v], NoMessage}
  PROVE  msg'[v] \notin batch'[v]
<1>1. batch[v] \subseteq Messages
  BY DEF TypeOK
<1>2. NoMessage \notin batch[v]
  BY <1>1, ConstantsAssumption
<1>3. msg[v] \notin batch[v]
  BY DEF MessagesHeld
<1> QED
  BY <1>2, <1>3

\* A step that leaves the broker alone, and makes no replica handle more, keeps
\* what the replicas hold.
LEMMA HeldFrame ==
  ASSUME TypeOK, MessagesHeld, UNCHANGED <<state, owner>>,
         \A v \in Workers : batch'[v] \subseteq batch[v] /\ msg'[v] \in {msg[v], NoMessage}
  PROVE  MessagesHeld'
<1>1. ASSUME NEW v \in Workers, NEW m \in Messages, Handling(v, m)'
      PROVE  state'[m] = "locked" /\ owner'[m] = v
  <2>1. Handling(v, m)
    BY <1>1, ConstantsAssumption DEF Handling
  <2> QED
    BY <2>1 DEF MessagesHeld
<1> QED
  BY <1>1, HeldOnce DEF MessagesHeld

\* Leaving poll_once lets go of every message.
LEMMA HeldAfterAbort ==
  ASSUME TypeOK, MessagesHeld, UNCHANGED <<state, owner>>, NEW w \in Workers, AbortPoll(w)
  PROVE  MessagesHeld'
<1>1. \A v \in Workers : batch'[v] \subseteq batch[v] /\ msg'[v] \in {msg[v], NoMessage}
  BY DEF AbortPoll, TypeOK
<1> QED
  BY <1>1, HeldFrame

\* Every step keeps the peek locks with the replicas that handle the messages.
LEMMA HeldStep ==
  ASSUME Inv, MessagesHeld, "peek_lock_lost" \notin Faults, [Next]_vars
  PROVE  MessagesHeld'
<1> USE DEF Inv, pollVars, brokerVars
<1>1. ASSUME NEW w \in Workers, Receive(w) PROVE MessagesHeld'
  <2>1. PICK S \in SUBSET Available(turn[w]) :
          Deliver(w, S) /\ batch' = [batch EXCEPT ![w] = S]
    BY <1>1 DEF Receive
  <2>2. msg[w] = NoMessage /\ batch[w] = {} /\ msg' = msg
    BY <1>1 DEF Receive, HandlesEvent
  <2>3. \A m \in S : m \in Messages /\ state[m] = "ready"
    BY DEF Available
  <2>4. ASSUME NEW v \in Workers, NEW m \in Messages, Handling(v, m)'
        PROVE  state'[m] = "locked" /\ owner'[m] = v
    <3>1. CASE m \in S
      <4>1. v = w
        BY <2>1, <2>2, <2>3, <2>4, <3>1 DEF MessagesHeld, Handling, TypeOK
      <4> QED
        BY <2>1, <3>1, <4>1 DEF Deliver
    <3>2. CASE m \notin S
      <4>1. Handling(v, m) /\ state'[m] = state[m] /\ owner'[m] = owner[m]
        BY <2>1, <2>2, <2>4, <3>2 DEF Handling, TypeOK, Deliver
      <4> QED
        BY <4>1 DEF MessagesHeld
    <3> QED
      BY <3>1, <3>2
  <2>5. ASSUME NEW v \in Workers PROVE msg'[v] \notin batch'[v]
    BY <2>1, <2>2, <2>3, ConstantsAssumption DEF MessagesHeld, TypeOK
  <2> QED
    BY <2>4, <2>5 DEF MessagesHeld
<1>2. ASSUME NEW w \in Workers, Begin(w) PROVE MessagesHeld'
  BY <1>2 DEF Begin, MessagesHeld, Handling, TypeOK
<1>3. ASSUME NEW w \in Workers, Lookup(w) \/ Acquire(w) \/ Release(w) PROVE MessagesHeld'
  BY <1>3, HeldFrame, HeldAfterAbort DEF Lookup, Acquire, Release, CacheRaises
<1>4. ASSUME NEW w \in Workers,
             Call(w) \/ Check(w) \/ Publish(w) \/ Mark(w) \/ Finish(w)
      PROVE  MessagesHeld'
  BY <1>4, HeldFrame DEF Call, Check, Publish, Mark, Finish, AttemptFails
<1>5. ASSUME NEW w \in Workers, Settle(w) PROVE MessagesHeld'
  <2>1. msg[w] \in Messages /\ Handling(w, msg[w])
    BY <1>5, ConstantsAssumption DEF Settle, HandlesEvent, TypeOK, Handling
  <2>2. PICK outcome : SettledAs(msg[w], outcome) \/ UNCHANGED brokerVars
    BY <1>5 DEF Settle
  <2>3. /\ msg' = [msg EXCEPT ![w] = NoMessage]
        /\ batch' = batch \/ batch' = [batch EXCEPT ![w] = {}]
    BY <1>5 DEF Settle, AbortPoll
  <2>4. \A v \in Workers : batch'[v] \subseteq batch[v] /\ msg'[v] \in {msg[v], NoMessage}
    BY <2>3 DEF TypeOK
  <2>5. CASE UNCHANGED brokerVars
    BY <2>4, <2>5, HeldFrame
  <2>6. CASE SettledAs(msg[w], outcome)
    <3>1. ASSUME NEW v \in Workers, NEW m \in Messages, Handling(v, m)'
          PROVE  m # msg[w] /\ Handling(v, m)
      <4>1. Handling(v, m)
        BY <2>4, <3>1, ConstantsAssumption DEF Handling
      <4>2. v # w => m # msg[w]
        BY <2>1, <4>1 DEF MessagesHeld
      <4>3. v = w => m # msg[w]
        BY <2>3, <3>1, ConstantsAssumption DEF Handling, MessagesHeld, TypeOK
      <4> QED
        BY <4>1, <4>2, <4>3
    <3>2. ASSUME NEW v \in Workers, NEW m \in Messages, Handling(v, m)'
          PROVE  state'[m] = "locked" /\ owner'[m] = v
      BY <2>6, <3>1, <3>2 DEF SettledAs, MessagesHeld, TypeOK
    <3>3. ASSUME NEW v \in Workers PROVE msg'[v] \notin batch'[v]
      BY <2>4, HeldOnce
    <3> QED
      BY <3>2, <3>3 DEF MessagesHeld
  <2> QED
    BY <2>2, <2>5, <2>6
<1>6. ASSUME NEW w \in Workers, ReceiveRaises(w) PROVE MessagesHeld'
  <2>1. PICK S \in SUBSET Available(turn[w]) : Deliver(w, S)
    BY <1>6 DEF ReceiveRaises
  <2>2. \A m \in S : m \in Messages /\ state[m] = "ready"
    BY DEF Available
  <2>3. \A v \in Workers : batch'[v] \subseteq batch[v] /\ msg'[v] \in {msg[v], NoMessage}
    BY <1>6 DEF ReceiveRaises, AbortPoll, TypeOK
  <2>4. ASSUME NEW v \in Workers, NEW m \in Messages, Handling(v, m)'
        PROVE  state'[m] = "locked" /\ owner'[m] = v
    <3>1. Handling(v, m)
      BY <2>3, <2>4, ConstantsAssumption DEF Handling
    <3>2. m \notin S
      BY <2>2, <3>1 DEF MessagesHeld
    <3> QED
      BY <2>1, <3>1, <3>2 DEF MessagesHeld, Deliver
  <2>5. ASSUME NEW v \in Workers PROVE msg'[v] \notin batch'[v]
    BY <2>3, HeldOnce
  <2> QED
    BY <2>4, <2>5 DEF MessagesHeld
<1>7. ASSUME NEW w \in Workers, Crash(w) PROVE MessagesHeld'
  BY <1>7, HeldAfterAbort DEF Crash
<1>8. ASSUME NEW m \in Messages, PeekLockExpires(m) PROVE MessagesHeld'
  <2>1. ~Handling(owner[m], m) /\ batch' = batch /\ msg' = msg
    BY <1>8 DEF PeekLockExpires
  <2>2. \A v \in Workers : ~Handling(v, m)
    BY <2>1 DEF MessagesHeld
  <2>3. \A k \in Messages : k # m => state'[k] = state[k] /\ owner'[k] = owner[k]
    BY <1>8 DEF PeekLockExpires, TypeOK
  <2>4. \A v \in Workers, k \in Messages : Handling(v, k)' => Handling(v, k) /\ k # m
    BY <2>1, <2>2 DEF Handling
  <2> QED
    BY <2>1, <2>3, <2>4 DEF MessagesHeld
<1>9. ASSUME NEW e \in Events, LockExpires(e) PROVE MessagesHeld'
  BY <1>9, HeldFrame DEF LockExpires
<1>10. CASE UNCHANGED vars
  BY <1>10, HeldFrame DEF vars
<1> QED
  BY <1>1, <1>2, <1>3, <1>4, <1>5, <1>6, <1>7, <1>8, <1>9, <1>10 DEF Next, Step

\* A step that adds no lock and takes no replica out of its section leaves none behind.
LEMMA LocksFrame ==
  ASSUME LocksUsed, locks' \subseteq locks,
         \A v \in Workers : InSection(v) => InSection(v)' /\ Event(v)' = Event(v)
  PROVE  LocksUsed'
  BY DEF LocksUsed

\* Every step keeps a working replica under each lock.
LEMMA LocksStep ==
  ASSUME Inv, LocksUsed, Faults \cap {"cache", "crash"} = {}, [Next]_vars
  PROVE  LocksUsed'
<1> USE DEF Inv, TypeOK, InSection, Event, pollVars, cacheVars
<1>0. "cache" \notin Faults /\ "crash" \notin Faults
  OBVIOUS
<1>1. ASSUME NEW w \in Workers, Receive(w) PROVE LocksUsed'
  BY <1>1, LocksFrame DEF Receive
<1>2. ASSUME NEW w \in Workers, Begin(w) PROVE LocksUsed'
  BY <1>2, LocksFrame DEF Begin, Goto
<1>3. ASSUME NEW w \in Workers, Lookup(w) PROVE LocksUsed'
  BY <1>3, <1>0, LocksFrame DEF Lookup, Goto, CacheRaises
<1>4. ASSUME NEW w \in Workers, Acquire(w) PROVE LocksUsed'
  BY <1>4, <1>0 DEF Acquire, TakeLock, Goto, CacheRaises, LocksUsed
<1>5. ASSUME NEW w \in Workers, Call(w) PROVE LocksUsed'
  BY <1>5, LocksFrame DEF Call, Goto
<1>6. ASSUME NEW w \in Workers, Check(w) \/ Publish(w) \/ Mark(w) \/ Finish(w)
      PROVE  LocksUsed'
  <2>1. locks' = locks /\ msg' = msg
    BY <1>6 DEF Check, Publish, Mark, Finish, AttemptFails
  <2>2. PICK s \in {"check", "publish", "mark", "release", "giveUp"} : pc' = [pc EXCEPT ![w] = s]
    <3>1. pc' = pc \/ Goto(w, "check") \/ Goto(w, "publish") \/ Goto(w, "mark")
            \/ Goto(w, "release") \/ Goto(w, "giveUp")
      BY <1>6 DEF Check, Publish, Mark, Finish, AttemptFails
    <3>2. pc' = pc => pc' = [pc EXCEPT ![w] = "check"]
      BY <1>6 DEF Check, Publish, Mark, Finish, AttemptFails, Goto
    <3> QED
      BY <3>1, <3>2 DEF Goto
  <2> QED
    BY <2>1, <2>2, LocksFrame
<1>7. ASSUME NEW w \in Workers, Release(w) PROVE LocksUsed'
  BY <1>7, <1>0 DEF Release, DropLock, Goto, CacheRaises, LocksUsed
<1>8. ASSUME NEW w \in Workers, Settle(w) PROVE LocksUsed'
  <2>1. pc[w] \in {"complete", "reject"} /\ locks' = locks
    BY <1>8 DEF Settle
  <2>2. \A v \in Workers : v # w => pc'[v] = pc[v] /\ msg'[v] = msg[v]
    BY <1>8 DEF Settle, AbortPoll, Goto
  <2> QED
    BY <2>1, <2>2, LocksFrame
<1>9. ASSUME NEW w \in Workers, ReceiveRaises(w) PROVE LocksUsed'
  BY <1>9, LocksFrame DEF ReceiveRaises, AbortPoll, Goto
<1>10. ASSUME NEW w \in Workers, Crash(w) PROVE LocksUsed'
  BY <1>10, <1>0 DEF Crash
<1>11. ASSUME NEW m \in Messages, PeekLockExpires(m) PROVE LocksUsed'
  BY <1>11, LocksFrame DEF PeekLockExpires
<1>12. ASSUME NEW e \in Events, LockExpires(e) PROVE LocksUsed'
  BY <1>12, LocksFrame DEF LockExpires
<1>13. CASE UNCHANGED vars
  BY <1>13, LocksFrame DEF vars
<1> QED
  BY <1>1, <1>2, <1>3, <1>4, <1>5, <1>6, <1>7, <1>8, <1>9, <1>10, <1>11, <1>12, <1>13
  DEF Next, Step

\* A step that completes no message, and after which no further replica is about to,
\* keeps the completions justified.
LEMMA CompletionFrame ==
  ASSUME CompletionJustified, processed \subseteq processed',
         \A m \in Messages : state'[m] = "completed" => state[m] = "completed",
         \A v \in Workers : pc'[v] = "complete" => pc[v] = "complete" /\ msg'[v] = msg[v],
         \A v \in Workers : pc'[v] = "release" => Event(v)' \in processed'
  PROVE  CompletionJustified'
<1>1. ASSUME NEW e, Vouched(e) PROVE Vouched(e)'
  BY <1>1 DEF Vouched
<1> QED
  BY <1>1 DEF CompletionJustified, Event

\* So does a replica that goes on to complete a message of an event that is processed
\* or still has a message for itself.
LEMMA StartCompleting ==
  ASSUME Inv, CompletionJustified, NEW w \in Workers,
         pc' = [pc EXCEPT ![w] = "complete"], UNCHANGED <<msg, state, processed>>,
         Event(w) \in processed \/ Vouched(Event(w))'
  PROVE  CompletionJustified'
<1> USE DEF Inv, TypeOK, Event
<1>1. ASSUME NEW v \in Workers, pc'[v] = "complete"
      PROVE  Event(v)' \in processed' \/ Vouched(Event(v))'
  <2>1. CASE Event(v) = Event(w)
    BY <2>1
  <2>2. CASE Event(v) # Event(w)
    <3>1. Event(v) \in processed \/ Vouched(Event(v))
      BY <1>1, <2>2 DEF CompletionJustified
    <3>2. ASSUME Vouched(Event(v)) PROVE Vouched(Event(v))'
      BY <3>2, <2>2 DEF Vouched
    <3> QED
      BY <3>1, <3>2
  <2> QED
    BY <2>1, <2>2
<1>2. \A v \in Workers : pc'[v] = "release" => Event(v)' \in processed'
  BY DEF CompletionJustified
<1> QED
  BY <1>1, <1>2 DEF CompletionJustified

\* Settling one message takes no event's last voucher: a message that is completed
\* vouches for none.
LEMMA VouchedAfterSettle ==
  ASSUME Inv, NEW w \in Workers, Settle(w), NEW e, Vouched(e)
  PROVE  Vouched(e)'
<1> USE DEF Inv, TypeOK
<1>1. PICK k \in Messages :
        /\ EventOf[k] = e /\ state[k] # "completed"
        /\ \A v \in Workers : pc[v] = "complete" => msg[v] # k
  BY DEF Vouched
<1>2. state'[k] # "completed"
  <2>1. \A outcome : SettledAs(msg[w], outcome) =>
          state'[k] = IF k = msg[w] THEN outcome ELSE state[k]
    BY DEF SettledAs
  <2>2. CASE pc[w] = "complete"
    BY <1>1, <2>1, <2>2 DEF Settle, brokerVars
  <2>3. CASE pc[w] = "reject"
    BY <1>1, <2>1, <2>3 DEF Settle, brokerVars
  <2> QED
    BY <2>2, <2>3 DEF Settle
<1>3. \A v \in Workers : pc'[v] = "complete" => pc[v] = "complete" /\ msg'[v] = msg[v]
  BY DEF Settle, AbortPoll, Goto
<1> QED
  BY <1>1, <1>2, <1>3 DEF Vouched

\* Every step keeps the completions justified.
LEMMA CompletionStep ==
  ASSUME LockInv, MessagesHeld, LocksUsed, CompletionJustified,
         Faults \cap {"cache", "crash"} = {}, [Next]_vars
  PROVE  CompletionJustified'
<1> USE DEF LockInv, Inv, TypeOK, Event, pollVars, cacheVars, brokerVars
<1>0. "cache" \notin Faults /\ "crash" \notin Faults
  OBVIOUS
<1>1. ASSUME NEW w \in Workers, Receive(w) PROVE CompletionJustified'
  BY <1>1, CompletionFrame DEF Receive, Deliver, CompletionJustified
<1>2. ASSUME NEW w \in Workers, Begin(w) PROVE CompletionJustified'
  BY <1>2, CompletionFrame DEF Begin, Goto, CompletionJustified
<1>3. ASSUME NEW w \in Workers, Lookup(w) PROVE CompletionJustified'
  <2>1. CASE Event(w) \in processed
    BY <1>3, <1>0, <2>1, StartCompleting DEF Lookup, Goto, CacheRaises
  <2>2. CASE Event(w) \notin processed
    BY <1>3, <1>0, <2>2, CompletionFrame DEF Lookup, Goto, CacheRaises, CompletionJustified
  <2> QED
    BY <2>1, <2>2
<1>4. ASSUME NEW w \in Workers, Acquire(w) PROVE CompletionJustified'
  <2>1. CASE Event(w) \in locks /\ Goto(w, "complete") /\ UNCHANGED <<msg, state, processed>>
    <3>1. PICK v \in Workers : InSection(v) /\ Event(v) = Event(w)
      BY <2>1 DEF LocksUsed
    <3>2. pc[w] = "acquire" /\ v # w /\ msg[w] \in Messages /\ msg[v] \in Messages
      BY <1>4, <3>1 DEF Acquire, InSection, HandlesEvent
    <3>3. /\ state[msg[v]] = "locked"
          /\ \A u \in Workers : u # v => msg[u] # msg[v]
      BY <3>2 DEF MessagesHeld, Handling
    <3>4. Vouched(Event(w))'
      <4>1. EventOf[msg[v]] = EventOf[msg[w]] /\ state'[msg[v]] # "completed"
        BY <2>1, <3>1, <3>3
      <4>2. \A u \in Workers : pc'[u] = "complete" => msg'[u] # msg[v]
        BY <2>1, <3>1, <3>2, <3>3 DEF Goto, InSection
      <4>3. EventOf[msg[v]] = Event(w)'
        BY <4>1, <2>1
      <4> QED
        BY <4>1, <4>2, <4>3, <3>2 DEF Vouched
    <3> HIDE DEF Inv, TypeOK, Event
    <3> QED
      BY <2>1, <3>4, StartCompleting DEF Goto
  <2>2. CASE Goto(w, "call") /\ UNCHANGED <<msg, state, processed>>
    BY <2>2, CompletionFrame DEF Goto, CompletionJustified
  <2> QED
    BY <1>4, <1>0, <2>1, <2>2 DEF Acquire, CacheRaises, TakeLock
<1>5. ASSUME NEW w \in Workers, Call(w) PROVE CompletionJustified'
  BY <1>5, CompletionFrame DEF Call, Goto, CompletionJustified
<1>6. ASSUME NEW w \in Workers, Check(w) \/ Publish(w) \/ Mark(w)
      PROVE  CompletionJustified'
  <2>1. UNCHANGED <<msg, state, processed>>
    BY <1>6 DEF Check, Publish, Mark, AttemptFails
  <2>2. \A v \in Workers : pc'[v] \in {"complete", "release"} => pc'[v] = pc[v]
    BY <1>6 DEF Check, Publish, Mark, AttemptFails, Goto
  <2> QED
    BY <2>1, <2>2, CompletionFrame DEF CompletionJustified
<1>7. ASSUME NEW w \in Workers, Finish(w) PROVE CompletionJustified'
  <2>1. /\ UNCHANGED <<msg, state>> /\ processed \subseteq processed'
        /\ processed' = processed \cup {Event(w)}
        /\ \A v \in Workers : v # w => pc'[v] = pc[v]
        /\ pc'[w] = "release"
    BY <1>7, <1>0 DEF Finish, Goto
  <2> QED
    BY <2>1, CompletionFrame DEF CompletionJustified
<1>8. ASSUME NEW w \in Workers, Release(w) PROVE CompletionJustified'
  <2>1. CASE pc[w] = "release"
    <3>1. /\ pc' = [pc EXCEPT ![w] = "complete"] /\ UNCHANGED <<msg, state, processed>>
          /\ Event(w) \in processed
      BY <1>8, <1>0, <2>1 DEF Release, DropLock, Goto, CacheRaises, CompletionJustified
    <3> HIDE DEF Inv, TypeOK, Event
    <3> QED
      BY <3>1, StartCompleting
  <2>2. CASE pc[w] = "giveUp"
    BY <1>8, <1>0, <2>2, CompletionFrame
    DEF Release, DropLock, Goto, CacheRaises, CompletionJustified
  <2> QED
    BY <1>8, <2>1, <2>2 DEF Release
<1>9. ASSUME NEW w \in Workers, Settle(w) PROVE CompletionJustified'
  <2>1. /\ processed' = processed /\ pc'[w] = "idle"
        /\ \A v \in Workers : v # w => pc'[v] = pc[v] /\ msg'[v] = msg[v]
    BY <1>9 DEF Settle, AbortPoll, Goto
  <2>2. ASSUME NEW v \in Workers, pc'[v] = "complete"
        PROVE  Event(v)' \in processed' \/ Vouched(Event(v))'
    <3>1. v # w /\ pc[v] = "complete" /\ Event(v)' = Event(v)
      BY <2>1, <2>2
    <3>2. Event(v) \in processed \/ Vouched(Event(v))
      BY <3>1 DEF CompletionJustified
    <3>3. Vouched(Event(v)) => Vouched(Event(v))'
      BY <1>9, <3>1, VouchedAfterSettle
    <3> QED
      BY <2>1, <3>1, <3>2, <3>3
  <2> QED
    BY <2>1, <2>2 DEF CompletionJustified
<1>10. ASSUME NEW w \in Workers, ReceiveRaises(w) PROVE CompletionJustified'
  BY <1>10, CompletionFrame DEF ReceiveRaises, Deliver, AbortPoll, Goto, CompletionJustified
<1>11. ASSUME NEW w \in Workers, Crash(w) PROVE CompletionJustified'
  BY <1>11, <1>0 DEF Crash
<1>12. ASSUME NEW m \in Messages, PeekLockExpires(m) PROVE CompletionJustified'
  BY <1>12, CompletionFrame DEF PeekLockExpires, CompletionJustified
<1>13. ASSUME NEW e \in Events, LockExpires(e) PROVE CompletionJustified'
  BY <1>13, CompletionFrame DEF LockExpires, CompletionJustified
<1>14. CASE UNCHANGED vars
  BY <1>14, CompletionFrame DEF vars, CompletionJustified
<1> QED
  BY <1>1, <1>2, <1>3, <1>4, <1>5, <1>6, <1>7, <1>8, <1>9, <1>10, <1>11, <1>12, <1>13,
     <1>14 DEF Next, Step

\* No step completes the last message of an event that is not processed.
LEMMA NotDroppedStep ==
  ASSUME LockInv, CompletionJustified, NotDropped, Faults \cap {"cache", "crash"} = {},
         [Next]_vars
  PROVE  NotDropped'
<1> USE DEF LockInv, Inv, TypeOK, Event, pollVars, cacheVars, brokerVars
<1>1. processed \subseteq processed'
  BY DEF Next, Step, Receive, Begin, Lookup, Acquire, TakeLock, Call, Check, Publish, Mark, Finish,
         Release, DropLock, Settle, ReceiveRaises, Crash, PeekLockExpires, LockExpires,
         CacheRaises, vars
<1>2. ASSUME \A m \in Messages : state'[m] = "completed" => state[m] = "completed"
      PROVE  NotDropped'
  BY <1>1, <1>2 DEF NotDropped
<1>3. ASSUME NEW w \in Workers, Settle(w) PROVE NotDropped'
  <2>1. \/ \A m \in Messages : state'[m] = "completed" => state[m] = "completed"
        \/ pc[w] = "complete" /\ SettledAs(msg[w], "completed")
    BY <1>3 DEF Settle, SettledAs
  <2>2. CASE pc[w] = "complete" /\ SettledAs(msg[w], "completed")
    <3>1. Event(w) \in processed \/ Vouched(Event(w))
      BY <2>2 DEF CompletionJustified
    <3>2. ASSUME NEW k \in Messages, k # msg[w], state[k] # "completed"
          PROVE  state'[k] # "completed"
      BY <2>2, <3>2 DEF SettledAs
    <3>3. ASSUME NEW m \in Messages, EventOf[m] \in Events, EventOf[m] \notin processed'
          PROVE  \E k \in Messages : EventOf[k] = EventOf[m] /\ state'[k] # "completed"
      <4>1. CASE EventOf[m] = Event(w)
        <5>1. PICK k \in Messages : EventOf[k] = Event(w) /\ state[k] # "completed" /\ k # msg[w]
          BY <1>1, <2>2, <3>1, <3>3, <4>1 DEF Vouched
        <5> QED
          BY <3>2, <4>1, <5>1
      <4>2. CASE EventOf[m] # Event(w)
        BY <1>1, <3>2, <3>3, <4>2 DEF NotDropped
      <4> QED
        BY <4>1, <4>2
    <3> QED
      BY <3>3 DEF NotDropped
  <2> QED
    BY <1>2, <2>1, <2>2
<1>4. ASSUME NEW w \in Workers, Receive(w) \/ ReceiveRaises(w) PROVE NotDropped'
  BY <1>2, <1>4 DEF Receive, ReceiveRaises, Deliver
<1>5. ASSUME NEW m \in Messages, PeekLockExpires(m) PROVE NotDropped'
  BY <1>2, <1>5 DEF PeekLockExpires
<1>6. CASE UNCHANGED state
  BY <1>2, <1>6
<1> QED
  BY <1>3, <1>4, <1>5, <1>6
  DEF Next, Step, Begin, Lookup, Acquire, Call, Check, Publish, Mark, Finish, Release,
      AttemptFails, Crash, LockExpires, CacheRaises, vars

\* A step that publishes nothing, keeps the markers and lets no replica go on from
\* or to publishing keeps the alerts single.
LEMMA OnceFrame ==
  ASSUME PublishedOnce, published' = published, marked \subseteq marked',
         \A v \in Workers :
           /\ pc[v] = "mark" => pc'[v] = "mark" /\ AlertAt(v)' = AlertAt(v)
           /\ pc'[v] = "publish" => pc[v] = "publish" /\ AlertAt(v)' = AlertAt(v)
  PROVE  PublishedOnce'
  BY DEF PublishedOnce, NoDuplicateAlerts

\* The replica is at an alert of its event.
AtAlert(w) ==
  \/ pc[w] \in {"publish", "mark"}
  \/ pc[w] = "check" /\ pos[w] \in DOMAIN AlertsOf[Event(w)]

\* Two replicas under their locks are not at the same alert.
LEMMA AlertsApart ==
  ASSUME LockInv, NEW v \in Workers, NEW w \in Workers, v # w, AtAlert(v), AtAlert(w)
  PROVE  AlertAt(v) # AlertAt(w)
<1>1. Event(v) # Event(w)
  BY DEF LockInv, LockHeld, MutualExclusion, InSection, AtAlert
<1>2. Event(v) \in Events /\ Event(w) \in Events
  BY EventType DEF LockInv, Inv, EventFacts, AtAlert
<1>3. pos[v] \in DOMAIN AlertsOf[Event(v)] /\ pos[w] \in DOMAIN AlertsOf[Event(w)]
  BY DEF LockInv, Inv, MarkersTrue, AtAlert
<1> QED
  BY <1>1, <1>2, <1>3, AlertsAreDistinct DEF AlertAt

\* Every step keeps every alert single: under the lock, and with its marker written
\* whenever it was published, no replica publishes it again.
LEMMA OnceStep ==
  ASSUME LockInv, PublishedOnce,
         Faults \cap {"cache", "publish_unknown", "crash"} = {}, [Next]_vars
  PROVE  PublishedOnce'
<1> USE DEF LockInv, Inv, TypeOK, Event, AlertAt, pollVars, loopVars, cacheVars
<1>0. "cache" \notin Faults /\ "publish_unknown" \notin Faults /\ "crash" \notin Faults
  OBVIOUS
<1>1. ASSUME NEW w \in Workers, Receive(w) PROVE PublishedOnce'
  BY <1>1, OnceFrame DEF Receive
<1>2. ASSUME NEW w \in Workers, Begin(w) PROVE PublishedOnce'
  BY <1>2, OnceFrame DEF Begin, Goto
<1>3. ASSUME NEW w \in Workers, Lookup(w) PROVE PublishedOnce'
  BY <1>3, <1>0, OnceFrame DEF Lookup, Goto, CacheRaises
<1>4. ASSUME NEW w \in Workers, Acquire(w) PROVE PublishedOnce'
  BY <1>4, <1>0, OnceFrame DEF Acquire, TakeLock, Goto, CacheRaises
<1>5. ASSUME NEW w \in Workers, Call(w) PROVE PublishedOnce'
  BY <1>5, OnceFrame DEF Call, Goto
<1>6. ASSUME NEW w \in Workers, Check(w) PROVE PublishedOnce'
  <2>1. CASE AlertAt(w) \notin marked /\ Goto(w, "publish") /\ UNCHANGED <<loopVars, pollVars>>
    <3>1. AlertAt(w) \in Alerts /\ pc[w] = "check" /\ AtAlert(w)
      BY <1>6, EventType DEF Check, EventFacts, AtAlert
    <3>2. ASSUME NEW v \in Workers, pc[v] = "mark" PROVE AlertAt(v) # AlertAt(w)
      <4> HIDE DEF LockInv, Inv, TypeOK, Event, AlertAt
      <4>1. v # w /\ AtAlert(v) /\ AtAlert(w)
        BY <3>1, <3>2 DEF AtAlert
      <4> QED
        BY <4>1, AlertsApart
    <3>3. published[AlertAt(w)] = 0
      BY <2>1, <3>1, <3>2 DEF PublishedOnce
    <3>4. /\ \A v \in Workers : AlertAt(v)' = AlertAt(v)
          /\ \A v \in Workers : v # w => pc'[v] = pc[v]
          /\ pc'[w] = "publish"
      BY <2>1 DEF Goto
    <3>5. UNCHANGED <<marked, published>>
      BY <1>6 DEF Check
    <3> HIDE DEF Inv, TypeOK, Event, AlertAt
    <3> QED
      BY <3>1, <3>3, <3>4, <3>5 DEF PublishedOnce, NoDuplicateAlerts
  <2>2. CASE AlertAt(w) \in marked /\ UNCHANGED <<pc, pollVars>> /\ pos' = [pos EXCEPT ![w] = @ + 1]
    BY <1>6, <2>2, OnceFrame DEF Check
  <2> QED
    BY <1>6, <1>0, <2>1, <2>2 DEF Check
<1>7. ASSUME NEW w \in Workers, Publish(w) PROVE PublishedOnce'
  <2>1. pc[w] = "publish" /\ AlertAt(w) \in Alerts /\ published[AlertAt(w)] = 0
    BY <1>7, EventType DEF Publish, EventFacts, MarkersTrue, PublishedOnce
  <2>2. CASE Goto(w, "mark") /\ published' = [published EXCEPT ![AlertAt(w)] = @ + 1]
              /\ UNCHANGED <<pollVars, loopVars, marked>>
    <3>1. /\ \A v \in Workers : AlertAt(v)' = AlertAt(v)
          /\ \A v \in Workers : v # w => pc'[v] = pc[v]
          /\ pc'[w] = "mark"
      BY <2>2 DEF Goto
    <3>2. /\ published'[AlertAt(w)] = 1
          /\ \A a \in Alerts : a # AlertAt(w) => published'[a] = published[a]
      BY <2>1, <2>2
    <3>3. \A v \in Workers : v # w /\ pc[v] = "publish" => AlertAt(v) # AlertAt(w) /\ AlertAt(v) \in Alerts
      BY <2>1, AlertsApart, EventType DEF EventFacts, MarkersTrue, AtAlert
    <3>4. marked' = marked
      BY <2>2
    <3> HIDE DEF Inv, TypeOK, Event, AlertAt
    <3> QED
      BY <2>1, <3>1, <3>2, <3>3, <3>4 DEF PublishedOnce, NoDuplicateAlerts
  <2>3. CASE AttemptFails(w) /\ published' = published
    <3>1. /\ \A v \in Workers : v # w => AlertAt(v)' = AlertAt(v) /\ pc'[v] = pc[v]
          /\ pc'[w] \notin {"mark", "publish"}
      BY <2>3 DEF AttemptFails, Goto, ResetLoop
    <3> QED
      BY <1>7, <2>1, <2>3, <3>1, OnceFrame DEF Publish
  <2> QED
    BY <1>7, <1>0, <2>2, <2>3 DEF Publish
<1>8. ASSUME NEW w \in Workers, Mark(w) PROVE PublishedOnce'
  <2>1. /\ marked' = marked \cup {AlertAt(w)} /\ UNCHANGED <<published, msg>>
        /\ \A v \in Workers : v # w => pos'[v] = pos[v] /\ pc'[v] = pc[v]
        /\ pc'[w] = "check"
    BY <1>8, <1>0 DEF Mark, Goto
  <2>2. \A v \in Workers : v # w => AlertAt(v)' = AlertAt(v)
    BY <2>1
  <2> HIDE DEF Inv, TypeOK, Event, AlertAt
  <2> QED
    BY <2>1, <2>2 DEF PublishedOnce, NoDuplicateAlerts
<1>9. ASSUME NEW w \in Workers, Finish(w) PROVE PublishedOnce'
  BY <1>9, <1>0, OnceFrame DEF Finish, ResetLoop, Goto
<1>10. ASSUME NEW w \in Workers, Release(w) PROVE PublishedOnce'
  BY <1>10, <1>0, OnceFrame DEF Release, DropLock, Goto, CacheRaises
<1>11. ASSUME NEW w \in Workers, Settle(w) PROVE PublishedOnce'
  <2>1. /\ \A v \in Workers : v # w => pc'[v] = pc[v] /\ msg'[v] = msg[v] /\ pos'[v] = pos[v]
        /\ pc[w] \in {"complete", "reject"} /\ pc'[w] = "idle"
        /\ UNCHANGED <<marked, published>>
    BY <1>11 DEF Settle, AbortPoll, Goto
  <2> QED
    BY <2>1, OnceFrame
<1>12. ASSUME NEW w \in Workers, ReceiveRaises(w) PROVE PublishedOnce'
  BY <1>12, OnceFrame DEF ReceiveRaises, AbortPoll, Goto
<1>13. ASSUME NEW w \in Workers, Crash(w) PROVE PublishedOnce'
  BY <1>13, <1>0 DEF Crash
<1>14. ASSUME NEW m \in Messages, PeekLockExpires(m) PROVE PublishedOnce'
  BY <1>14, OnceFrame DEF PeekLockExpires
<1>15. ASSUME NEW e \in Events, LockExpires(e) PROVE PublishedOnce'
  BY <1>15, OnceFrame DEF LockExpires
<1>16. CASE UNCHANGED vars
  BY <1>16, OnceFrame DEF vars
<1> QED
  BY <1>1, <1>2, <1>3, <1>4, <1>5, <1>6, <1>7, <1>8, <1>9, <1>10, <1>11, <1>12, <1>13,
     <1>14, <1>15, <1>16 DEF Next, Step

-----------------------------------------------------------------------------
(* The steps of EventDelivery that the service's steps are *)

\* What EventDelivery is told of the messages.
Outcomes == [m \in Messages |-> IF state[m] \in {"ready", "locked"} THEN "open" ELSE state[m]]

\* The variables of EventDelivery change only with these.
LEMMA DeliveryStutter ==
  ASSUME UNCHANGED <<published, processed>>, Outcomes' = Outcomes
  PROVE  UNCHANGED Delivery!vars
  BY DEF Delivery!vars, Outcomes

\* A message that a replica handles is an open copy of its event.
LEMMA OpenCopy ==
  ASSUME Inv, MessagesHeld, NEW w \in Workers, pc[w] \notin {"idle", "reject"}
  PROVE  msg[w] \in Delivery!Copies(Event(w), {"open"})
<1>1. msg[w] \in Messages
  BY DEF Inv, TypeOK, HandlesEvent
<1>2. state[msg[w]] = "locked"
  BY <1>1 DEF MessagesHeld, Handling
<1> QED
  BY <1>1, <1>2 DEF Delivery!Copies, Event

\* Publishing an alert is a publication for an event that is not done and has an
\* open copy; a failed publication is one too, or no step.
LEMMA PublishDelivers ==
  ASSUME Inv, MessagesHeld, StillUnprocessed, NEW w \in Workers, Publish(w)
  PROVE  Delivery!Next \/ UNCHANGED Delivery!vars
<1>1. Event(w) \in Events /\ AlertAt(w) \in Alerts /\ AlertAt(w) \in Delivery!OutputSet(Event(w))
  <2>1. EventFacts(w) /\ pos[w] \in DOMAIN AlertsOf[Event(w)]
    BY EventType DEF Publish, Inv, MarkersTrue
  <2> QED
    BY <2>1 DEF EventFacts, AlertAt, Delivery!OutputSet
<1>2. Event(w) \notin processed /\ Delivery!Copies(Event(w), {"open"}) # {}
  BY OpenCopy DEF Publish, StillUnprocessed
<1>3. Outcomes' = Outcomes /\ processed' = processed
  BY DEF Publish, AttemptFails, Outcomes, brokerVars, cacheVars
<1>4. CASE published' = [published EXCEPT ![AlertAt(w)] = @ + 1]
  <2>1. Delivery!Publish(Event(w), AlertAt(w))
    BY <1>1, <1>2, <1>3, <1>4 DEF Delivery!Publish, Outcomes
  <2> QED
    BY <1>1, <2>1 DEF Delivery!Next
<1>5. CASE published' = published
  BY <1>3, <1>5, DeliveryStutter
<1> QED
  BY <1>4, <1>5 DEF Publish

\* Writing the processed marker is the event's being done: its alerts are published.
LEMMA FinishDelivers ==
  ASSUME Inv, MessagesHeld, NEW w \in Workers, Finish(w)
  PROVE  Delivery!Next \/ UNCHANGED Delivery!vars
<1>1. EventFacts(w)
  BY EventType DEF Finish, Inv
<1>2. \A o \in Delivery!OutputSet(Event(w)) : published[o] > 0
  <2>1. \A i \in DOMAIN AlertsOf[Event(w)] : i < pos[w]
    BY <1>1 DEF Finish, EventFacts, Inv, TypeOK
  <2>2. \A i \in DOMAIN AlertsOf[Event(w)] : AlertsOf[Event(w)][i] \in marked
    BY <2>1 DEF Finish, Inv, MarkersTrue
  <2> QED
    BY <2>2 DEF Inv, MarkersTrue, Delivery!OutputSet
<1>3. Delivery!Copies(Event(w), {"open"}) # {}
  BY OpenCopy DEF Finish
<1>4. Outcomes' = Outcomes /\ published' = published
  BY DEF Finish, AttemptFails, Outcomes, brokerVars
<1>5. CASE processed' = processed \cup {Event(w)}
  <2>1. Delivery!MarkDone(Event(w))
    BY <1>2, <1>3, <1>4, <1>5 DEF Delivery!MarkDone, Outcomes
  <2> QED
    BY <1>1, <2>1 DEF Delivery!Next, EventFacts
<1>6. CASE processed' = processed
  BY <1>4, <1>6, DeliveryStutter
<1> QED
  BY <1>5, <1>6 DEF Finish

\* Settling a message completes it, when its event is processed or vouched for, or
\* dead-letters it.
LEMMA SettleDelivers ==
  ASSUME Inv, MessagesHeld, CompletionJustified, NEW w \in Workers, Settle(w)
  PROVE  Delivery!Next \/ UNCHANGED Delivery!vars
<1>1. msg[w] \in Messages /\ state[msg[w]] = "locked"
  BY ConstantsAssumption DEF Settle, Inv, TypeOK, HandlesEvent, MessagesHeld, Handling
<1>2. UNCHANGED <<published, processed>>
  BY DEF Settle, cacheVars
<1>3. CASE UNCHANGED brokerVars
  <2>1. Outcomes' = Outcomes
    BY <1>3 DEF Outcomes, brokerVars
  <2> QED
    BY <1>2, <2>1, DeliveryStutter
<1>4. CASE pc[w] = "complete" /\ SettledAs(msg[w], "completed")
  <2>1. Event(w) \in Events
    BY <1>4 DEF Inv, HandlesEvent
  <2>2. Event(w) \in processed \/ Delivery!Copies(Event(w), {"open", "dead"}) \ {msg[w]} # {}
    <3>1. ASSUME Vouched(Event(w))
          PROVE  Delivery!Copies(Event(w), {"open", "dead"}) \ {msg[w]} # {}
      <4>1. PICK k \in Messages : EventOf[k] = Event(w) /\ state[k] # "completed" /\ k # msg[w]
        BY <1>4, <3>1 DEF Vouched
      <4>2. state[k] \in {"ready", "locked", "dead"}
        BY <4>1 DEF Inv, TypeOK
      <4>3. k \in Delivery!Copies(Event(w), {"open", "dead"})
        BY <4>1, <4>2 DEF Delivery!Copies
      <4> QED
        BY <4>1, <4>3
    <3> QED
      BY <1>4, <3>1 DEF CompletionJustified
  <2>3. Outcomes' = [Outcomes EXCEPT ![msg[w]] = "completed"]
    BY <1>1, <1>4 DEF SettledAs, Outcomes, Inv, TypeOK
  <2>4. Outcomes[msg[w]] = "open"
    BY <1>1 DEF Outcomes
  <2>5. EventOf[msg[w]] # NoEvent
    BY <2>1, ConstantsAssumption DEF Event
  <2>6. ASSUME NEW m \in Messages, m = msg[w] PROVE Delivery!Complete(m)
    BY <1>2, <2>2, <2>3, <2>4, <2>5, <2>6 DEF Delivery!Complete, Outcomes, Event
  <2> QED
    BY <1>1, <2>6 DEF Delivery!Next
<1>5. CASE pc[w] = "reject" /\ SettledAs(msg[w], "dead")
  <2>1. Outcomes' = [Outcomes EXCEPT ![msg[w]] = "dead"]
    BY <1>1, <1>5 DEF SettledAs, Outcomes, Inv, TypeOK
  <2>2. ASSUME NEW m \in Messages, m = msg[w] PROVE Delivery!DeadLetter(m)
    BY <1>1, <1>2, <2>1, <2>2 DEF Delivery!DeadLetter, Outcomes
  <2> QED
    BY <1>1, <2>2 DEF Delivery!Next
<1> QED
  BY <1>3, <1>4, <1>5 DEF Settle

\* Every step of the service is a step of EventDelivery or leaves it as it is.
LEMMA DeliveryStep ==
  ASSUME CalmInv, [Next]_vars
  PROVE  Delivery!Next \/ UNCHANGED Delivery!vars
<1> USE DEF CalmInv, LockInv
<1>1. ASSUME NEW w \in Workers, Publish(w) \/ Finish(w) \/ Settle(w)
      PROVE  Delivery!Next \/ UNCHANGED Delivery!vars
  BY <1>1, PublishDelivers, FinishDelivers, SettleDelivers
<1>2. ASSUME NEW w \in Workers, Receive(w) \/ ReceiveRaises(w)
      PROVE  UNCHANGED Delivery!vars
  <2>1. PICK S \in SUBSET Available(turn[w]) : Deliver(w, S)
    BY <1>2 DEF Receive, ReceiveRaises
  <2>2. UNCHANGED <<published, processed>>
    BY <1>2 DEF Receive, ReceiveRaises, cacheVars
  <2>3. \A m \in Messages :
          state'[m] = state[m] \/ (state[m] = "ready" /\ state'[m] = "locked")
    BY <2>1 DEF Deliver, Available
  <2>4. Outcomes' = Outcomes
    BY <2>3 DEF Outcomes
  <2> QED
    BY <2>2, <2>4, DeliveryStutter
<1>3. ASSUME NEW m \in Messages, PeekLockExpires(m)
      PROVE  Delivery!Next \/ UNCHANGED Delivery!vars
  <2>1. UNCHANGED <<published, processed>> /\ state[m] = "locked"
    BY <1>3 DEF PeekLockExpires, cacheVars
  <2>2. CASE state' = [state EXCEPT ![m] = "ready"]
    <3>1. Outcomes' = Outcomes
      BY <2>1, <2>2 DEF Outcomes, Inv, TypeOK
    <3> QED
      BY <2>1, <3>1, DeliveryStutter
  <2>3. CASE state' = [state EXCEPT ![m] = "dead"]
    <3>1. Outcomes' = [Outcomes EXCEPT ![m] = "dead"]
      BY <2>1, <2>3 DEF Outcomes, Inv, TypeOK
    <3>2. Delivery!DeadLetter(m)
      BY <2>1, <3>1 DEF Delivery!DeadLetter, Outcomes
    <3> QED
      BY <3>2 DEF Delivery!Next
  <2> QED
    BY <1>3, <2>2, <2>3 DEF PeekLockExpires
<1>4. CASE UNCHANGED <<state, published, processed>>
  <2>1. Outcomes' = Outcomes
    BY <1>4 DEF Outcomes
  <2> QED
    BY <1>4, <2>1, DeliveryStutter
<1> QED
  BY <1>1, <1>2, <1>3, <1>4
  DEF Next, Step, Begin, Lookup, Acquire, TakeLock, Call, Check, Mark, Release, DropLock,
      AttemptFails, Crash, LockExpires, CacheRaises, vars, brokerVars, cacheVars

\* The initial state is one of EventDelivery.
LEMMA DeliveryInit == Init => Delivery!Init
  BY DEF Init, Delivery!Init

-----------------------------------------------------------------------------
\* The inductive invariant holds in every reachable state.
THEOREM InvInductive == Spec => []Inv
<1>1. Init => Inv
  BY InitInv DEF LockInv
<1>2. Inv /\ [Next]_vars => Inv'
  BY TypeStep, HandlesStep, MarkersStep DEF Inv
<1> QED
  BY <1>1, <1>2, PTL DEF Spec

\* Every variable keeps the type the source gives it.
THEOREM TypeCorrect == Spec => []TypeOK
<1>1. Inv => TypeOK
  BY DEF Inv
<1> QED
  BY <1>1, InvInductive, PTL

\* Whatever fails and whenever, an event marked processed has all its alerts on
\* the topic: the markers are only ever written after what they stand for.
THEOREM ProcessedSafe == Spec => []ProcessedImpliesPublished
<1>1. Inv => ProcessedImpliesPublished
  BY DEF Inv, MarkersTrue, ProcessedImpliesPublished
<1> QED
  BY <1>1, InvInductive, PTL

\* As long as no lock is outlived by its holder, the locks keep two replicas from
\* working on one event, through crashes and half-done cache calls.
THEOREM LockExcludes ==
  ASSUME "lock_outlived" \notin Faults
  PROVE  Spec => []MutualExclusion
<1>1. Init => LockInv
  BY InitInv
<1>2. LockInv /\ [Next]_vars => LockInv'
  BY TypeStep, HandlesStep, MarkersStep, LockStep DEF LockInv, Inv
<1>3. LockInv => MutualExclusion
  BY DEF LockInv, LockHeld
<1> QED
  BY <1>1, <1>2, <1>3, PTL DEF Spec

\* Under the same condition nothing is published for an event once it is marked
\* processed, although the marker may be read long before the lock is taken.
THEOREM ProcessedStaysFinal ==
  ASSUME "lock_outlived" \notin Faults
  PROVE  Spec => ProcessedIsFinal
<1> DEFINE I == LockInv /\ StillUnprocessed
<1>1. Init => I
  BY InitInv
<1>2. I /\ [Next]_vars => I'
  BY TypeStep, HandlesStep, MarkersStep, LockStep, UnprocessedStep DEF LockInv, Inv
<1>3. I /\ [Next]_vars =>
        [\A e \in processed : \A a \in AlertSet(e) : published'[a] = published[a]]_vars
  BY FinalStep
<1> HIDE DEF I
<1> QED
  BY <1>1, <1>2, <1>3, PTL DEF Spec, ProcessedIsFinal

\* The calm invariant is inductive when no cache call fails, no replica stops and no
\* lock of either kind is lost; publishing, receiving and settling may fail.
LEMMA CalmStep ==
  ASSUME Faults \cap {"cache", "crash", "lock_outlived", "peek_lock_lost"} = {},
         CalmInv, [Next]_vars
  PROVE  CalmInv'
<1>1. "lock_outlived" \notin Faults /\ "peek_lock_lost" \notin Faults
      /\ Faults \cap {"cache", "crash"} = {}
  OBVIOUS
<1>2. LockInv' /\ StillUnprocessed'
  BY <1>1, TypeStep, HandlesStep, MarkersStep, LockStep, UnprocessedStep DEF CalmInv, LockInv, Inv
<1>3. MessagesHeld' /\ LocksUsed'
  BY <1>1, HeldStep, LocksStep DEF CalmInv, LockInv
<1>4. CompletionJustified' /\ NotDropped'
  BY <1>1, CompletionStep, NotDroppedStep DEF CalmInv
<1> QED
  BY <1>2, <1>3, <1>4 DEF CalmInv

\* No alert reaches the topic twice, whatever copies, redeliveries, lost peek locks
\* and failing publishes there are, when a published alert's marker gets written
\* under the event's lock and a publish that raises was not accepted.
THEOREM NoDuplicates ==
  ASSUME Faults \cap {"cache", "publish_unknown", "crash", "lock_outlived"} = {}
  PROVE  Spec => []NoDuplicateAlerts
<1>0. "lock_outlived" \notin Faults /\ Faults \cap {"cache", "publish_unknown", "crash"} = {}
  OBVIOUS
<1> DEFINE I == LockInv /\ PublishedOnce
<1>1. Init => I
  BY InitCalm DEF CalmInv
<1>2. I /\ [Next]_vars => I'
  BY <1>0, TypeStep, HandlesStep, MarkersStep, LockStep, OnceStep DEF LockInv, Inv
<1>3. I => NoDuplicateAlerts
  BY DEF PublishedOnce
<1> HIDE DEF I
<1> QED
  BY <1>1, <1>2, <1>3, PTL DEF Spec

\* An event whose messages are all completed is processed, when no cache call fails,
\* no replica stops and no lock is lost: a copy completed because another replica
\* holds the event's lock leaves that replica's message to account for the event.
THEOREM NoneDropped ==
  ASSUME Faults \cap {"cache", "crash", "lock_outlived", "peek_lock_lost"} = {}
  PROVE  Spec => []EventAccounted
<1>1. Init => CalmInv
  BY InitCalm
<1>2. CalmInv /\ [Next]_vars => CalmInv'
  BY CalmStep
<1>3. CalmInv => EventAccounted
  BY DEF CalmInv, NotDropped, EventAccounted
<1> QED
  BY <1>1, <1>2, <1>3, PTL DEF Spec

\* Under the same conditions the service implements EventDelivery.
THEOREM RefinesDelivery ==
  ASSUME Faults \cap {"cache", "crash", "lock_outlived", "peek_lock_lost"} = {}
  PROVE  Spec => ImplementsDelivery
<1>1. Init => CalmInv /\ Delivery!Init
  BY InitCalm, DeliveryInit
<1>2. CalmInv /\ [Next]_vars => CalmInv'
  BY CalmStep
<1>3. CalmInv /\ [Next]_vars => [Delivery!Next]_(Delivery!vars)
  BY DeliveryStep
<1> QED
  BY <1>1, <1>2, <1>3, PTL DEF Spec, ImplementsDelivery, Delivery!Spec
=============================================================================
