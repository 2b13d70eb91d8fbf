------------------------------- MODULE Alerting -------------------------------
(***************************************************************************)
(* The alerting service (services/alerting/service.py): replicas that poll *)
(* the "alerting" subscription of the signals and insights topics, turn    *)
(* each event into alerts and settle the message.  The replicas share      *)
(* nothing but the broker and the cache: a "processed" marker and a lock   *)
(* per event, and a "published" marker per alert.  Every await of the      *)
(* handler is a step of its own; the backends may fail at each of them.    *)
(***************************************************************************)
EXTENDS Naturals, Sequences, FiniteSets

CONSTANTS
  Workers,       \* service replicas
  Messages,      \* messages of the alerting subscriptions
  Events,        \* event ids; several messages may carry one event
  Alerts,        \* alert dedupe keys
  NoEvent,       \* stands for a payload that does not validate
  NoMessage,     \* "not handling a message"
  Nobody,        \* "no replica holds the peek lock"
  TopicOf,       \* the topic a message was published on
  EventOf,       \* the event a message carries
  AlertsOf,      \* the alerts the rule engine builds for an event, in order
  BatchSize,     \* max_messages of poll_once
  MaxAttempts,   \* max_processing_attempts
  Threshold,     \* failure_threshold of the circuit breaker
  MaxDeliveries, \* MaxDeliveryCount of the subscription
  Faults         \* what may go wrong in this instance

FaultKinds ==
  { "receive",         \* bus.receive raises, perhaps after locking messages
    "cache",           \* a cache call raises, a write perhaps after its effect
    "publish",         \* bus.publish raises and the alert was not accepted
    "publish_unknown", \* bus.publish raises although the alert was accepted
    "settle",          \* complete or dead_letter raises, perhaps after its effect
    "crash",           \* a replica stops and restarts
    "peek_lock_lost",  \* the peek lock expires while its owner is still busy
    "lock_outlived" }  \* the lock's TTL ends while its holder is still busy

ASSUME ConstantsAssumption ==
  /\ TopicOf \in [Messages -> {"signals", "insights"}]
  /\ EventOf \in [Messages -> Events \cup {NoEvent}]
  /\ AlertsOf \in [Events -> Seq(Alerts)]
  /\ NoEvent \notin Events /\ NoMessage \notin Messages /\ Nobody \notin Workers
  /\ Faults \subseteq FaultKinds

ASSUME LimitsAssumption ==
  /\ BatchSize \in Nat \ {0} /\ MaxAttempts \in Nat \ {0}
  /\ Threshold \in Nat \ {0} /\ MaxDeliveries \in Nat \ {0}

\* A dedupe key hashes the event id and the rule, and a rule fires once per event: the
\* keys of different events differ where ids and symbols have no colon (RuleEngine).
ASSUME AlertsAreDistinct ==
  \A d, e \in Events : \A i \in DOMAIN AlertsOf[d], j \in DOMAIN AlertsOf[e] :
    AlertsOf[d][i] = AlertsOf[e][j] => d = e /\ i = j

VARIABLES
  pc, turn, batch, msg, pos, attempt,  \* per replica: where its poll loop is
  circuit, failures,                   \* per replica: its circuit breaker
  state, owner, deliveries,            \* per message: what the broker knows
  locks, processed, marked,            \* the cache: three key families
  published                            \* copies of each alert on the alerts topic

pollVars == <<turn, batch, msg>>
loopVars == <<pos, attempt>>
circuitVars == <<circuit, failures>>
brokerVars == <<state, owner, deliveries>>
cacheVars == <<locks, processed, marked>>
vars == <<pc, pollVars, loopVars, circuitVars, brokerVars, cacheVars, published>>

Steps == {"idle", "lookup", "acquire", "call", "check", "publish", "mark",
          "release", "giveUp", "reject", "complete"}

TypeOK ==
  /\ pc \in [Workers -> Steps]
  /\ turn \in [Workers -> {"signals", "insights"}]
  /\ batch \in [Workers -> SUBSET Messages]
  /\ msg \in [Workers -> Messages \cup {NoMessage}]
  /\ pos \in [Workers -> Nat \ {0}]
  /\ attempt \in [Workers -> 1..MaxAttempts]
  /\ circuit \in [Workers -> {"CLOSED", "OPEN", "HALF_OPEN"}]
  /\ failures \in [Workers -> Nat]
  /\ state \in [Messages -> {"ready", "locked", "completed", "dead"}]
  /\ owner \in [Messages -> Workers \cup {Nobody}]
  /\ deliveries \in [Messages -> Nat]
  /\ locks \in SUBSET Events
  /\ processed \in SUBSET Events
  /\ marked \in SUBSET Alerts
  /\ published \in [Alerts -> Nat]

Init ==
  /\ pc = [w \in Workers |-> "idle"]
  /\ turn = [w \in Workers |-> "signals"]
  /\ batch = [w \in Workers |-> {}]
  /\ msg = [w \in Workers |-> NoMessage]
  /\ pos = [w \in Workers |-> 1]
  /\ attempt = [w \in Workers |-> 1]
  /\ circuit = [w \in Workers |-> "CLOSED"]
  /\ failures = [w \in Workers |-> 0]
  /\ state = [m \in Messages |-> "ready"]
  /\ owner = [m \in Messages |-> Nobody]
  /\ deliveries = [m \in Messages |-> 0]
  /\ locks = {} /\ processed = {} /\ marked = {}
  /\ published = [a \in Alerts |-> 0]

-----------------------------------------------------------------------------
Event(w) == EventOf[msg[w]]
AlertAt(w) == AlertsOf[Event(w)][pos[w]]
AlertSet(e) == {AlertsOf[e][i] : i \in DOMAIN AlertsOf[e]}

\* The replica has been granted the event's lock and has not tried to delete it.
InSection(w) == pc[w] \in {"call", "check", "publish", "mark", "release", "giveUp"}

\* The replica will still settle the message, or try to.
Handling(w, m) == m \in batch[w] \/ msg[w] = m

Goto(w, step) == pc' = [pc EXCEPT ![w] = step]

\* The locals of _process_with_retry at its start; its end forgets them.
ResetLoop(w) ==
  /\ pos' = [pos EXCEPT ![w] = 1]
  /\ attempt' = [attempt EXCEPT ![w] = 1]

\* Mutant: the loop ends with the first exception of poll_once.
AbortPollEndsLoop(w) ==
  /\ Goto(w, "stopped")
  /\ turn' = [turn EXCEPT ![w] = "signals"]
  /\ batch' = [batch EXCEPT ![w] = {}]
  /\ msg' = [msg EXCEPT ![w] = NoMessage]

\* poll_once is left with an exception: run_poll_loop starts it again, from the
\* first topic, and the rest of the batch is dropped unsettled.
AbortPoll(w) ==
  /\ Goto(w, "idle")
  /\ turn' = [turn EXCEPT ![w] = "signals"]
  /\ batch' = [batch EXCEPT ![w] = {}]
  /\ msg' = [msg EXCEPT ![w] = NoMessage]

\* A cache call raises; `write` says what it may have done before.
CacheRaises(w, write) ==
  /\ "cache" \in Faults
  /\ write \/ UNCHANGED cacheVars
  /\ AbortPoll(w)
  /\ UNCHANGED <<loopVars, circuitVars, brokerVars, published>>

-----------------------------------------------------------------------------
(* Receiving *)

Available(t) == {m \in Messages : TopicOf[m] = t /\ state[m] = "ready"}

\* The broker hands S to w under peek locks.
Deliver(w, S) ==
  /\ state' = [m \in Messages |-> IF m \in S THEN "locked" ELSE state[m]]
  /\ owner' = [m \in Messages |-> IF m \in S THEN w ELSE owner[m]]
  /\ deliveries' = [m \in Messages |-> deliveries[m] + (IF m \in S THEN 1 ELSE 0)]

Receive(w) ==
  /\ pc[w] = "idle" /\ batch[w] = {}
  /\ \E S \in SUBSET Available(turn[w]) :
       /\ Cardinality(S) <= BatchSize
       /\ S = {} => Available(turn[w]) = {}
       /\ Deliver(w, S)
       /\ batch' = [batch EXCEPT ![w] = S]
  /\ turn' = [turn EXCEPT ![w] = IF @ = "signals" THEN "insights" ELSE "signals"]
  /\ UNCHANGED <<pc, msg, loopVars, circuitVars, cacheVars, published>>

\* A lost connection, or a body in the batch that does not decode.
ReceiveRaises(w) ==
  /\ "receive" \in Faults
  /\ pc[w] = "idle" /\ batch[w] = {}
  /\ \E S \in SUBSET Available(turn[w]) : Cardinality(S) <= BatchSize /\ Deliver(w, S)
  /\ AbortPoll(w)
  /\ UNCHANGED <<loopVars, circuitVars, cacheVars, published>>

\* _handle_message up to its first await: validate the payload.
Begin(w) ==
  /\ pc[w] = "idle"
  /\ \E m \in batch[w] :
       /\ batch' = [batch EXCEPT ![w] = @ \ {m}]
       /\ msg' = [msg EXCEPT ![w] = m]
       /\ Goto(w, IF EventOf[m] = NoEvent THEN "reject" ELSE "lookup")
  /\ UNCHANGED <<turn, loopVars, circuitVars, brokerVars, cacheVars, published>>

-----------------------------------------------------------------------------
(* _process_event: suppression, lock, circuit *)

Lookup(w) ==
  /\ pc[w] = "lookup"
  /\ \/ /\ Goto(w, IF Event(w) \in processed THEN "complete" ELSE "acquire")
        /\ UNCHANGED <<pollVars, loopVars, circuitVars, brokerVars, cacheVars, published>>
     \/ CacheRaises(w, FALSE)

TakeLock(w) ==
  /\ locks' = locks \cup {Event(w)}
  /\ UNCHANGED <<processed, marked>>

\* Mutant: the lock is written without asking whether it is there.
AcquireUnconditionally(w) ==
  /\ pc[w] = "acquire"
  /\ \/ /\ TakeLock(w)
        /\ Goto(w, "call")
        /\ UNCHANGED <<pollVars, loopVars, circuitVars, brokerVars, published>>
     \/ CacheRaises(w, TakeLock(w))

Acquire(w) ==
  /\ pc[w] = "acquire"
  /\ \/ /\ Event(w) \in locks
        /\ Goto(w, "complete")
        /\ UNCHANGED <<pollVars, loopVars, circuitVars, brokerVars, cacheVars, published>>
     \/ /\ Event(w) \notin locks
        /\ TakeLock(w)
        /\ Goto(w, "call")
        /\ UNCHANGED <<pollVars, loopVars, circuitVars, brokerVars, published>>
     \/ CacheRaises(w, TakeLock(w))

\* CircuitBreaker.call: while the circuit is open the call is rejected unless
\* reset_timeout has elapsed, which turns it into a probe.
Call(w) ==
  /\ pc[w] = "call"
  /\ \/ /\ circuit[w] = "OPEN"
        /\ Goto(w, "giveUp")
        /\ UNCHANGED circuit
     \/ /\ circuit' = [circuit EXCEPT ![w] = IF @ = "OPEN" THEN "HALF_OPEN" ELSE @]
        /\ Goto(w, "check")
  /\ UNCHANGED <<pollVars, loopVars, failures, brokerVars, cacheVars, published>>

-----------------------------------------------------------------------------
(* _process_with_retry *)

RecordFailure(w) ==
  IF circuit[w] = "HALF_OPEN"
  THEN /\ circuit' = [circuit EXCEPT ![w] = "OPEN"]
       /\ UNCHANGED failures
  ELSE /\ failures' = [failures EXCEPT ![w] = @ + 1]
       /\ circuit' = [circuit EXCEPT ![w] = IF failures[w] + 1 >= Threshold THEN "OPEN" ELSE @]

RecordSuccess(w) ==
  /\ circuit' = [circuit EXCEPT ![w] = "CLOSED"]
  /\ failures' = [failures EXCEPT ![w] = 0]

\* The operation raises: run it again from the first alert, or give up.
AttemptFails(w) ==
  /\ \/ /\ attempt[w] < MaxAttempts
        /\ attempt' = [attempt EXCEPT ![w] = @ + 1]
        /\ pos' = [pos EXCEPT ![w] = 1]
        /\ Goto(w, "check")
        /\ UNCHANGED circuitVars
     \/ /\ attempt[w] = MaxAttempts
        /\ RecordFailure(w)
        /\ ResetLoop(w)
        /\ Goto(w, "giveUp")
  /\ UNCHANGED <<pollVars, brokerVars>>

\* Mutant: the alert's published marker is not looked at.
CheckIgnoresMarker(w) ==
  /\ pc[w] = "check" /\ pos[w] \in DOMAIN AlertsOf[Event(w)]
  /\ \/ /\ Goto(w, "publish")
        /\ UNCHANGED <<loopVars, pollVars, circuitVars, brokerVars>>
     \/ "cache" \in Faults /\ AttemptFails(w)
  /\ UNCHANGED <<cacheVars, published>>

\* The alert's published marker is read.
Check(w) ==
  /\ pc[w] = "check" /\ pos[w] \in DOMAIN AlertsOf[Event(w)]
  /\ \/ /\ AlertAt(w) \in marked
        /\ pos' = [pos EXCEPT ![w] = @ + 1]
        /\ UNCHANGED <<pc, attempt, pollVars, circuitVars, brokerVars>>
     \/ /\ AlertAt(w) \notin marked
        /\ Goto(w, "publish")
        /\ UNCHANGED <<loopVars, pollVars, circuitVars, brokerVars>>
     \/ "cache" \in Faults /\ AttemptFails(w)
  /\ UNCHANGED <<cacheVars, published>>

\* Mutant: a failed publish is swallowed and the alert marked as published.
PublishSwallowsFailure(w) ==
  /\ pc[w] = "publish"
  /\ \/ published' = [published EXCEPT ![AlertAt(w)] = @ + 1]
     \/ "publish" \in Faults /\ UNCHANGED published
  /\ Goto(w, "mark")
  /\ UNCHANGED <<pollVars, loopVars, circuitVars, brokerVars, cacheVars>>

Publish(w) ==
  /\ pc[w] = "publish"
  /\ LET accepted == published' = [published EXCEPT ![AlertAt(w)] = @ + 1]
     IN  \/ /\ accepted
            /\ Goto(w, "mark")
            /\ UNCHANGED <<pollVars, loopVars, circuitVars, brokerVars>>
         \/ "publish" \in Faults /\ UNCHANGED published /\ AttemptFails(w)
         \/ "publish_unknown" \in Faults /\ accepted /\ AttemptFails(w)
  /\ UNCHANGED cacheVars

Mark(w) ==
  /\ pc[w] = "mark"
  /\ LET written == marked' = marked \cup {AlertAt(w)}
     IN  \/ /\ written
            /\ pos' = [pos EXCEPT ![w] = @ + 1]
            /\ Goto(w, "check")
            /\ UNCHANGED <<pollVars, attempt, circuitVars, brokerVars>>
         \/ "cache" \in Faults /\ (written \/ UNCHANGED marked) /\ AttemptFails(w)
  /\ UNCHANGED <<locks, processed, published>>

\* After the last alert the event is marked processed; the circuit records success.
Finish(w) ==
  /\ pc[w] = "check" /\ pos[w] \notin DOMAIN AlertsOf[Event(w)]
  /\ LET written == processed' = processed \cup {Event(w)}
     IN  \/ /\ written
            /\ RecordSuccess(w)
            /\ ResetLoop(w)
            /\ Goto(w, "release")
            /\ UNCHANGED <<pollVars, brokerVars>>
         \/ "cache" \in Faults /\ (written \/ UNCHANGED processed) /\ AttemptFails(w)
  /\ UNCHANGED <<locks, marked, published>>

-----------------------------------------------------------------------------
(* Releasing the lock and settling the message *)

DropLock(w) ==
  /\ locks' = locks \ {Event(w)}
  /\ UNCHANGED <<processed, marked>>

\* cache.delete(lock_key): it removes the key whoever set it.
Release(w) ==
  /\ pc[w] \in {"release", "giveUp"}
  /\ \/ /\ DropLock(w)
        /\ Goto(w, IF pc[w] = "release" THEN "complete" ELSE "reject")
        /\ UNCHANGED <<pollVars, loopVars, circuitVars, brokerVars, published>>
     \/ CacheRaises(w, DropLock(w))

\* The broker settles a message only for the owner of its peek lock.
SettledAs(m, outcome) ==
  /\ state' = [state EXCEPT ![m] = outcome]
  /\ owner' = [owner EXCEPT ![m] = Nobody]
  /\ UNCHANGED deliveries

Settle(w) ==
  /\ pc[w] \in {"complete", "reject"}
  /\ LET outcome == IF pc[w] = "complete" THEN "completed" ELSE "dead"
     IN  \/ /\ owner[msg[w]] = w
            /\ SettledAs(msg[w], outcome)
            /\ Goto(w, "idle")
            /\ msg' = [msg EXCEPT ![w] = NoMessage]
            /\ UNCHANGED <<turn, batch>>
         \/ /\ owner[msg[w]] = w /\ "settle" \in Faults
            /\ SettledAs(msg[w], outcome) \/ UNCHANGED brokerVars
            /\ AbortPoll(w)
         \/ /\ owner[msg[w]] # w
            /\ UNCHANGED brokerVars
            /\ AbortPoll(w)
  /\ UNCHANGED <<loopVars, circuitVars, cacheVars, published>>

-----------------------------------------------------------------------------
(* The environment *)

Crash(w) ==
  /\ "crash" \in Faults
  /\ pc[w] # "idle" \/ batch[w] # {}
  /\ AbortPoll(w)
  /\ ResetLoop(w)
  /\ circuit' = [circuit EXCEPT ![w] = "CLOSED"]
  /\ failures' = [failures EXCEPT ![w] = 0]
  /\ UNCHANGED <<brokerVars, cacheVars, published>>

\* LockDuration passes: the message is available again, or dead-lettered by the
\* broker when its deliveries are used up.
PeekLockExpires(m) ==
  /\ state[m] = "locked"
  /\ "peek_lock_lost" \in Faults \/ ~Handling(owner[m], m)
  /\ state' = [state EXCEPT ![m] = IF deliveries[m] < MaxDeliveries THEN "ready" ELSE "dead"]
  /\ owner' = [owner EXCEPT ![m] = Nobody]
  /\ UNCHANGED <<pc, pollVars, loopVars, circuitVars, deliveries, cacheVars, published>>

\* The lock's 300 seconds are over.
LockExpires(e) ==
  /\ e \in locks
  /\ "lock_outlived" \in Faults \/ \A w \in Workers : ~(InSection(w) /\ Event(w) = e)
  /\ locks' = locks \ {e}
  /\ UNCHANGED <<pc, pollVars, loopVars, circuitVars, brokerVars, processed, marked, published>>

Step(w) ==
  \/ Receive(w) \/ Begin(w) \/ Lookup(w) \/ Acquire(w) \/ Call(w) \/ Check(w)
  \/ Publish(w) \/ Mark(w) \/ Finish(w) \/ Release(w) \/ Settle(w)

Next ==
  \/ \E w \in Workers : Step(w) \/ ReceiveRaises(w) \/ Crash(w)
  \/ \E m \in Messages : PeekLockExpires(m)
  \/ \E e \in Events : LockExpires(e)

Spec == Init /\ [][Next]_vars

\* A replica keeps running its poll loop, and the broker's clock keeps going.
FairSpec ==
  /\ Spec
  /\ \A w \in Workers : WF_vars(Step(w))
  /\ \A m \in Messages : WF_vars(PeekLockExpires(m))
-----------------------------------------------------------------------------
(* Properties *)

\* An event carries its processed marker only when every alert the rules built
\* for it is on the alerts topic: the marker makes later copies of the event
\* complete unread (service.py:203), so a marker set early would lose alerts.
ProcessedImpliesPublished ==
  \A e \in processed : \A a \in AlertSet(e) : published[a] > 0

\* Two replicas never work on one event at a time, even when copies of it are
\* delivered to both, replicas crash and cache calls fail half-way; this needs
\* that no holder outlives the lock's TTL.
MutualExclusion ==
  \A v, w \in Workers :
    InSection(v) /\ InSection(w) /\ Event(v) = Event(w) => v = w

\* No alert reaches the alerts topic twice, whatever copies, redeliveries and
\* retries there are, as long as a published alert's marker gets written.
NoDuplicateAlerts == \A a \in Alerts : published[a] <= 1

\* Once an event is marked processed, no copy of it publishes an alert again:
\* the lookup at service.py:203 is stale by the time the lock is taken, and only
\* the per-alert markers stop the replica that read it.
ProcessedIsFinal ==
  [][\A e \in processed : \A a \in AlertSet(e) : published'[a] = published[a]]_vars

\* An event is never dropped: when the broker has settled every message that
\* carries it, its alerts are published or one of the messages is dead-lettered.
EventAccounted ==
  \A e \in Events :
    LET copies == {m \in Messages : EventOf[m] = e}
    IN  (\A m \in copies : state[m] = "completed") /\ copies # {} => e \in processed

\* Every message is settled in the end, whatever the replicas' fate: a poison
\* message, a failing backend or a crash loop cannot keep it on the topic.
AllSettled ==
  \A m \in Messages : <>(state[m] \in {"completed", "dead"})

\* The service implements EventDelivery: in particular the last copy of an event
\* is completed only when the event is processed, and no alert is published for
\* an event that is final or has no open message.
Delivery == INSTANCE EventDelivery WITH
  Outputs <- Alerts,
  OutputsOf <- AlertsOf,
  topic <- published,
  done <- processed,
  outcome <- [m \in Messages |->
                IF state[m] \in {"ready", "locked"} THEN "open" ELSE state[m]]

ImplementsDelivery == Delivery!Spec
=============================================================================
