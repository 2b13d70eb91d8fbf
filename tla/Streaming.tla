------------------------------ MODULE Streaming ------------------------------
(***************************************************************************)
(* The stream service (services/stream/service.py): replicas that poll the *)
(* "stream" subscription of market.raw and turn each market event into     *)
(* rows, a snapshot, a line of cached history and a signal, in this order, *)
(* before they mark the event processed, commit its price to their own     *)
(* history and complete the message.  Nothing is undone when a step fails. *)
(* Symbols share no state, so the module is about the events of one.       *)
(***************************************************************************)
EXTENDS Naturals, Sequences, FiniteSets

CONSTANTS
  Workers,       \* service replicas
  Messages,      \* messages of the subscription: numbers, oldest first
  Keys,          \* market_event_key: an event's timestamp tells it from the others
  NoKey,         \* stands for a payload that does not validate
  NoMessage, Nobody,
  KeyOf,         \* the event a message carries; several may carry one event
  BatchSize,     \* max_messages of poll_once
  MaxRows,       \* MAX_CACHED_HISTORY_ROWS
  MaxPrices,     \* history_maxlen
  VolatilityWindow, \* volatility_window
  NonPositive,   \* events whose price is zero or less, which MarketEvent allows
  MaxDeliveries, \* MaxDeliveryCount of the subscription
  Faults         \* what may go wrong in this instance

FaultKinds ==
  { "receive",         \* bus.receive raises, perhaps after locking messages
    "cache",           \* a cache call raises, a write perhaps after its effect
    "store",           \* ingest raises, perhaps after some of its rows
    "publish",         \* bus.publish raises and the signal was not accepted
    "publish_unknown", \* bus.publish raises although the signal was accepted
    "settle",          \* complete or dead_letter raises, perhaps after its effect
    "crash",           \* a replica stops and restarts
    "peek_lock_lost" } \* the peek lock expires while its owner is still busy

ASSUME ConstantsAssumption ==
  /\ Messages \subseteq Nat /\ Keys \subseteq Nat
  /\ KeyOf \in [Messages -> Keys \cup {NoKey}]
  /\ NoKey \notin Keys /\ NoMessage \notin Messages /\ Nobody \notin Workers
  /\ NonPositive \subseteq Keys
  /\ Faults \subseteq FaultKinds

ASSUME LimitsAssumption ==
  /\ BatchSize \in Nat \ {0} /\ MaxRows \in Nat \ {0}
  /\ MaxPrices \in Nat \ {0} /\ MaxDeliveries \in Nat \ {0}
  /\ VolatilityWindow \in Nat \ {0, 1}

VARIABLES
  pc, batch, msg,            \* per replica: where its poll loop is
  rowsRead,                  \* per replica: the list append_history has read
  prices,                    \* per replica: _price_history, as event keys
  state, owner, deliveries,  \* per message: what the broker knows
  ticks, indicators,         \* the store: rows of each message's event_id
  snapshot, history,         \* the cache: event shown, messages whose rows are listed
  processed,                 \* the cache: stream:processed markers
  signals,                   \* signals the signals topic accepted for each event
  window                     \* message ids its duplicate detection remembers

loopVars == <<pc, batch, msg>>
brokerVars == <<state, owner, deliveries>>
storeVars == <<ticks, indicators>>
cacheVars == <<snapshot, history, processed>>
topicVars == <<signals, window>>
vars == <<loopVars, rowsRead, prices, brokerVars, storeVars, cacheVars, topicVars>>

\* Messages whose payload validates.  The normaliser gives every publication an event_id
\* of its own: copies of an event differ in it, deliveries of one message do not.
Valid == {m \in Messages : KeyOf[m] # NoKey}

Steps == {"idle", "lookup", "ingest", "snapshot", "read", "write", "publish", "mark",
          "finish", "duplicate", "reject"}

TypeOK ==
  /\ pc \in [Workers -> Steps]
  /\ batch \in [Workers -> SUBSET Messages]
  /\ msg \in [Workers -> Messages \cup {NoMessage}]
  /\ rowsRead \in [Workers -> Seq(Valid)]
  /\ prices \in [Workers -> Seq(Keys)]
  /\ \A w \in Workers : Len(prices[w]) <= MaxPrices
  /\ state \in [Messages -> {"ready", "locked", "completed", "dead"}]
  /\ owner \in [Messages -> Workers \cup {Nobody}]
  /\ deliveries \in [Messages -> 0..MaxDeliveries]
  /\ ticks \in [Valid -> Nat] /\ indicators \in [Valid -> Nat]
  /\ snapshot \in Keys \cup {NoKey}
  /\ history \in Seq(Valid) /\ Len(history) <= MaxRows
  /\ processed \subseteq Keys
  /\ signals \in [Keys -> Nat] /\ window \subseteq Keys

Init ==
  /\ pc = [w \in Workers |-> "idle"]
  /\ batch = [w \in Workers |-> {}]
  /\ msg = [w \in Workers |-> NoMessage]
  /\ rowsRead = [w \in Workers |-> <<>>]
  /\ prices = [w \in Workers |-> <<>>]
  /\ state = [m \in Messages |-> "ready"]
  /\ owner = [m \in Messages |-> Nobody]
  /\ deliveries = [m \in Messages |-> 0]
  /\ ticks = [m \in Valid |-> 0] /\ indicators = [m \in Valid |-> 0]
  /\ snapshot = NoKey /\ history = <<>> /\ processed = {}
  /\ signals = [k \in Keys |-> 0] /\ window = {}

-----------------------------------------------------------------------------
Key(w) == KeyOf[msg[w]]
Goto(w, step) == pc' = [pc EXCEPT ![w] = step]
Handling(w, m) == m \in batch[w] \/ msg[w] = m

\* Mutant: one entry too few is kept.
NewestButOne(s, n) == IF Len(s) >= n THEN SubSeq(s, Len(s) - n + 2, Len(s)) ELSE s

\* A bounded list keeps its newest entries.
Newest(s, n) == IF Len(s) > n THEN SubSeq(s, Len(s) - n + 1, Len(s)) ELSE s

\* Mutant: the loop ends with the first exception of poll_once.
AbortPollEndsLoop(w) ==
  /\ Goto(w, "stopped")
  /\ batch' = [batch EXCEPT ![w] = {}]
  /\ msg' = [msg EXCEPT ![w] = NoMessage]

\* poll_once is left with an exception: run_poll_loop starts it again and the rest
\* of the batch is dropped unsettled.
AbortPoll(w) ==
  /\ Goto(w, "idle")
  /\ batch' = [batch EXCEPT ![w] = {}]
  /\ msg' = [msg EXCEPT ![w] = NoMessage]

\* A step of the handler's try block ends and the next one begins, or it raises
\* and the handler turns to dead-lettering the message.
Advance(w, step) == Goto(w, step) /\ UNCHANGED <<batch, msg>>
Raise(w) == Advance(w, "reject")

-----------------------------------------------------------------------------
(* Receiving *)

Available == {m \in Messages : state[m] = "ready"}

\* The broker hands the oldest available messages out first.
Batches ==
  {S \in SUBSET Available :
     /\ Cardinality(S) <= BatchSize
     /\ \A m \in S, n \in Available : n < m => n \in S}

Deliver(w, S) ==
  /\ state' = [m \in Messages |-> IF m \in S THEN "locked" ELSE state[m]]
  /\ owner' = [m \in Messages |-> IF m \in S THEN w ELSE owner[m]]
  /\ deliveries' = [m \in Messages |-> deliveries[m] + (IF m \in S THEN 1 ELSE 0)]

Receive(w) ==
  /\ pc[w] = "idle" /\ batch[w] = {}
  /\ \E S \in Batches :
       /\ S = {} => Available = {}
       /\ Deliver(w, S)
       /\ batch' = [batch EXCEPT ![w] = S]
  /\ UNCHANGED <<pc, msg, rowsRead, prices, storeVars, cacheVars, topicVars>>

\* A lost connection, or a body in the batch that does not decode.
ReceiveRaises(w) ==
  /\ "receive" \in Faults
  /\ pc[w] = "idle" /\ batch[w] = {}
  /\ \E S \in Batches : Deliver(w, S)
  /\ AbortPoll(w)
  /\ UNCHANGED <<rowsRead, prices, storeVars, cacheVars, topicVars>>

\* _handle_message, up to its first await, of the batch's next message.
Begin(w) ==
  /\ pc[w] = "idle"
  /\ \E m \in batch[w] :
       /\ \A n \in batch[w] : m <= n
       /\ batch' = [batch EXCEPT ![w] = @ \ {m}]
       /\ msg' = [msg EXCEPT ![w] = m]
       /\ Goto(w, IF KeyOf[m] = NoKey THEN "reject" ELSE "lookup")
  /\ UNCHANGED <<rowsRead, prices, brokerVars, storeVars, cacheVars, topicVars>>

\* StreamProcessor.process, with no await before the ingest, raises if a price the
\* event's return would be computed from is not positive (rolling_volatility).
Poisoned(w) ==
  /\ Len(prices[w]) + 1 >= VolatilityWindow
  /\ \E i \in 1..Len(prices[w]) :
       i + VolatilityWindow - 1 > Len(prices[w]) /\ prices[w][i] \in NonPositive
Process(w) == IF Poisoned(w) THEN "reject" ELSE "ingest"

\* Mutant: the processed marker is not looked at.
LookupIgnoresMarker(w) ==
  /\ pc[w] = "lookup"
  /\ \/ Advance(w, Process(w))
     \/ "cache" \in Faults /\ AbortPoll(w)
  /\ UNCHANGED <<rowsRead, prices, brokerVars, storeVars, cacheVars, topicVars>>

\* The processed marker is read, outside the try block, and the indicators computed.
Lookup(w) ==
  /\ pc[w] = "lookup"
  /\ \/ Advance(w, IF Key(w) \in processed THEN "duplicate" ELSE Process(w))
     \/ "cache" \in Faults /\ AbortPoll(w)
  /\ UNCHANGED <<rowsRead, prices, brokerVars, storeVars, cacheVars, topicVars>>

-----------------------------------------------------------------------------
(* The try block *)

\* One batch of two rows: a tick, then an indicator row.
Ingest(w) ==
  /\ pc[w] = "ingest"
  /\ LET tick == ticks' = [ticks EXCEPT ![msg[w]] = @ + 1]
         indicator == indicators' = [indicators EXCEPT ![msg[w]] = @ + 1]
     IN  \/ tick /\ indicator /\ Advance(w, "snapshot")
         \/ /\ "store" \in Faults
            /\ \/ UNCHANGED storeVars
               \/ tick /\ (indicator \/ UNCHANGED indicators)
            /\ Raise(w)
  /\ UNCHANGED <<rowsRead, prices, brokerVars, cacheVars, topicVars>>

SetSnapshot(w) ==
  /\ pc[w] = "snapshot"
  /\ LET written == snapshot' = Key(w)
     IN  \/ written /\ Advance(w, "read")
         \/ "cache" \in Faults /\ (written \/ UNCHANGED snapshot) /\ Raise(w)
  /\ UNCHANGED <<rowsRead, prices, brokerVars, storeVars, history, processed, topicVars>>

\* append_history reads the list ...
ReadHistory(w) ==
  /\ pc[w] = "read"
  /\ \/ /\ rowsRead' = [rowsRead EXCEPT ![w] = history]
        /\ Advance(w, "write")
     \/ "cache" \in Faults /\ UNCHANGED rowsRead /\ Raise(w)
  /\ UNCHANGED <<prices, brokerVars, storeVars, cacheVars, topicVars>>

\* ... and writes it back with the new row.
WriteHistory(w) ==
  /\ pc[w] = "write"
  /\ LET written == history' = Newest(Append(rowsRead[w], msg[w]), MaxRows)
     IN  \/ written /\ Advance(w, "publish")
         \/ "cache" \in Faults /\ (written \/ UNCHANGED history) /\ Raise(w)
  /\ rowsRead' = [rowsRead EXCEPT ![w] = <<>>]
  /\ UNCHANGED <<prices, brokerVars, storeVars, snapshot, processed, topicVars>>

\* The signals topic drops a message id it still remembers.
Accepted(k) ==
  /\ signals' = [signals EXCEPT ![k] = IF k \in window THEN @ ELSE @ + 1]
  /\ window' = window \cup {k}

\* Mutant: a failed publish is logged and forgotten.
PublishSwallowsFailure(w) ==
  /\ pc[w] = "publish"
  /\ \/ Accepted(Key(w)) /\ Advance(w, "mark")
     \/ "publish" \in Faults /\ UNCHANGED topicVars /\ Advance(w, "mark")
  /\ UNCHANGED <<rowsRead, prices, brokerVars, storeVars, cacheVars>>

Publish(w) ==
  /\ pc[w] = "publish"
  /\ \/ Accepted(Key(w)) /\ Advance(w, "mark")
     \/ "publish" \in Faults /\ UNCHANGED topicVars /\ Raise(w)
     \/ "publish_unknown" \in Faults /\ Accepted(Key(w)) /\ Raise(w)
  /\ UNCHANGED <<rowsRead, prices, brokerVars, storeVars, cacheVars>>

Commit(w) == prices' = [prices EXCEPT ![w] = Newest(Append(@, Key(w)), MaxPrices)]

\* Mutant: the price is committed whether or not the marker could be written.
MarkCommitsFirst(w) ==
  /\ pc[w] = "mark"
  /\ LET written == processed' = processed \cup {Key(w)}
     IN  \/ written /\ Advance(w, "finish")
         \/ "cache" \in Faults /\ (written \/ UNCHANGED processed) /\ Raise(w)
  /\ Commit(w)
  /\ UNCHANGED <<rowsRead, brokerVars, storeVars, snapshot, history, topicVars>>

\* The event is marked processed, and with no await between, its price committed.
Mark(w) ==
  /\ pc[w] = "mark"
  /\ LET written == processed' = processed \cup {Key(w)}
     IN  \/ written /\ Commit(w) /\ Advance(w, "finish")
         \/ /\ "cache" \in Faults
            /\ written \/ UNCHANGED processed
            /\ UNCHANGED prices /\ Raise(w)
  /\ UNCHANGED <<rowsRead, brokerVars, storeVars, snapshot, history, topicVars>>

-----------------------------------------------------------------------------
(* Settling *)

\* The broker settles m for w if w still owns its peek lock; `raises` says what the
\* replica does when the call does not return.
SettleAs(w, outcome, raises) ==
  LET settled == /\ state' = [state EXCEPT ![msg[w]] = outcome]
                 /\ owner' = [owner EXCEPT ![msg[w]] = Nobody]
                 /\ UNCHANGED deliveries
  IN  \/ /\ owner[msg[w]] = w
         /\ settled
         /\ Goto(w, "idle")
         /\ msg' = [msg EXCEPT ![w] = NoMessage]
         /\ UNCHANGED batch
      \/ /\ owner[msg[w]] = w /\ "settle" \in Faults
         /\ settled \/ UNCHANGED brokerVars
         /\ raises
      \/ /\ owner[msg[w]] # w
         /\ UNCHANGED brokerVars
         /\ raises

\* bus.complete after a duplicate, or at the end of the try block, whose handler
\* then dead-letters the message.
Complete(w) ==
  /\ \/ pc[w] = "duplicate" /\ SettleAs(w, "completed", AbortPoll(w))
     \/ pc[w] = "finish" /\ SettleAs(w, "completed", Raise(w))
  /\ UNCHANGED <<rowsRead, prices, storeVars, cacheVars, topicVars>>

\* Mutant: a message that could not be processed is completed.
RejectCompletes(w) ==
  /\ pc[w] = "reject"
  /\ SettleAs(w, "completed", AbortPoll(w))
  /\ UNCHANGED <<rowsRead, prices, storeVars, cacheVars, topicVars>>

Reject(w) ==
  /\ pc[w] = "reject"
  /\ SettleAs(w, "dead", AbortPoll(w))
  /\ UNCHANGED <<rowsRead, prices, storeVars, cacheVars, topicVars>>

-----------------------------------------------------------------------------
(* The environment *)

Crash(w) ==
  /\ "crash" \in Faults
  /\ AbortPoll(w)
  /\ rowsRead' = [rowsRead EXCEPT ![w] = <<>>]
  /\ prices' = [prices EXCEPT ![w] = <<>>]
  /\ UNCHANGED <<brokerVars, storeVars, cacheVars, topicVars>>

\* LockDuration passes: the message is available again, or dead-lettered by the
\* broker when its deliveries are used up.
PeekLockExpires(m) ==
  /\ state[m] = "locked"
  /\ "peek_lock_lost" \in Faults \/ ~Handling(owner[m], m)
  /\ state' = [state EXCEPT ![m] = IF deliveries[m] < MaxDeliveries THEN "ready" ELSE "dead"]
  /\ owner' = [owner EXCEPT ![m] = Nobody]
  /\ UNCHANGED <<loopVars, rowsRead, prices, deliveries, storeVars, cacheVars, topicVars>>

\* The topic's 20 s of duplicate detection for this message id are over.
WindowPasses(k) ==
  /\ k \in window
  /\ window' = window \ {k}
  /\ UNCHANGED <<loopVars, rowsRead, prices, brokerVars, storeVars, cacheVars, signals>>

Step(w) ==
  \/ Receive(w) \/ Begin(w) \/ Lookup(w) \/ Ingest(w) \/ SetSnapshot(w) \/ ReadHistory(w)
  \/ WriteHistory(w) \/ Publish(w) \/ Mark(w) \/ Complete(w) \/ Reject(w)

Next ==
  \/ \E w \in Workers : Step(w) \/ ReceiveRaises(w) \/ Crash(w)
  \/ \E m \in Messages : PeekLockExpires(m)
  \/ \E k \in Keys : WindowPasses(k)

Spec == Init /\ [][Next]_vars

\* A replica keeps running its poll loop, and the broker's clock keeps going.
FairSpec ==
  /\ Spec
  /\ \A w \in Workers : WF_vars(Step(w))
  /\ \A m \in Messages : WF_vars(PeekLockExpires(m))

-----------------------------------------------------------------------------
(* Properties *)

\* No event is dropped: a message is completed only when its event is processed,
\* whatever fails and however often the message is delivered; everything else is
\* redelivered or dead-lettered (service.py:315-356).
CompletedIsProcessed ==
  \A m \in Messages : state[m] = "completed" => KeyOf[m] \in processed

\* A message of the event has both its rows in the store.
HasRows(k) == \E m \in Valid : KeyOf[m] = k /\ ticks[m] > 0 /\ indicators[m] > 0

\* The marker makes later copies of the event complete unread, so whatever the
\* event should leave behind must be there: both rows of one of its messages and the
\* signal (service.py:326-341).
ProcessedIsStored == \A k \in processed : HasRows(k) /\ signals[k] > 0

\* No price enters a replica's history twice, or without the event being processed:
\* a retried or redelivered event would otherwise distort every indicator after it.
PriceCountedOnce ==
  \A w \in Workers :
    /\ \A i \in 1..Len(prices[w]) : prices[w][i] \in processed
    /\ \A i, j \in 1..Len(prices[w]) : i # j => prices[w][i] # prices[w][j]

\* The cached history lists every processed event until its oldest rows are dropped.
HistoryListsProcessed ==
  Len(history) < MaxRows =>
    \A k \in processed : \E i \in 1..Len(history) : KeyOf[history[i]] = k

\* The snapshot shows no event older than one that was processed.
SnapshotLatest == \A k \in processed : snapshot >= k

\* "Dead-letter entries for malformed or poison messages" (services/stream/README.md:34):
\* while nothing fails and nobody stops, only a payload that does not validate or whose
\* own price is not positive is dead-lettered.
OnlyPoisonRejected ==
  \A m \in Messages : state[m] = "dead" => KeyOf[m] \in NonPositive \cup {NoKey}

\* A replica that has committed a price it cannot compute a return from processes no
\* event of the symbol until it restarts: none of them gets into its history, so the
\* price never leaves the window.
PoisonedUntilRestart ==
  [][\A w \in Workers : Poisoned(w) => prices'[w] \in {prices[w], <<>>}]_vars

\* Every message is settled in the end.
AllSettled == \A m \in Messages : <>(state[m] \in {"completed", "dead"})

\* A single replica implements EventDelivery, with a signal as an event's output:
\* nothing is published for an event that is final or has no open message.
Delivery == INSTANCE EventDelivery WITH
  Events <- Keys, Outputs <- Keys, NoEvent <- NoKey, EventOf <- KeyOf,
  OutputsOf <- [k \in Keys |-> <<k>>],
  topic <- signals,
  done <- processed,
  outcome <- [m \in Messages |->
                IF state[m] \in {"ready", "locked"} THEN "open" ELSE state[m]]

ImplementsDelivery == Delivery!Spec
=============================================================================
