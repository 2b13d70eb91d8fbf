--------------------------- MODULE StreamingProofs ---------------------------
(***************************************************************************)
(* Theorems about Streaming, and the queries beside it, for any number of  *)
(* replicas, messages and events, any limits and any set of faults.        *)
(***************************************************************************)
EXTENDS MarketQueries, SequenceTheorems, FiniteSetTheorems, TLAPS

\* A busy replica handles a message, and past validation one that carries an event.
HandlesEvent ==
  \A w \in Workers :
    /\ pc[w] = "idle" <=> msg[w] = NoMessage
    /\ pc[w] \notin {"idle", "reject"} => msg[w] \in Valid /\ Key(w) \in Keys

\* What a replica's try block has done for its message and its event when it has come to a step.
Done(w) ==
  /\ pc[w] \in {"snapshot", "read", "write", "publish", "mark"} =>
       ticks[msg[w]] > 0 /\ indicators[msg[w]] > 0
  /\ pc[w] = "mark" => signals[Key(w)] > 0
  /\ pc[w] \in {"finish", "duplicate"} => Key(w) \in processed
DoneSoFar == \A w \in Workers : Done(w)

\* A replica that has found the event unprocessed has not committed its price, and
\* no other step commits to this replica's history.
NotYetCommitted ==
  \A w \in Workers :
    pc[w] \in {"ingest", "snapshot", "read", "write", "publish", "mark"} =>
      \A i \in 1..Len(prices[w]) : prices[w][i] # Key(w)

\* A message id in the detection window belongs to an accepted signal.
WindowIsAccepted == \A k \in window : signals[k] > 0

ReadyIsDeliverable == \A m \in Messages : state[m] = "ready" => deliveries[m] < MaxDeliveries

Types == TypeOK /\ HandlesEvent /\ ReadyIsDeliverable
Inv ==
  /\ Types
  /\ DoneSoFar /\ WindowIsAccepted /\ ProcessedIsStored /\ CompletedIsProcessed
  /\ NotYetCommitted /\ PriceCountedOnce

-----------------------------------------------------------------------------
(* Bounded lists *)

\* t is s without its first d entries.
IsSuffix(t, s, d) == Len(t) = Len(s) - d /\ \A i \in 1..Len(t) : t[i] = s[i + d]

\* Newest returns a suffix of s of at most n entries.
LEMMA NewestEntries ==
  ASSUME NEW S, NEW s \in Seq(S), NEW n \in Nat \ {0}
  PROVE  /\ Newest(s, n) \in Seq(S) /\ Len(Newest(s, n)) <= n
         /\ \E d \in Nat : IsSuffix(Newest(s, n), s, d)
<1>1. CASE ~(Len(s) > n)
  <2>1. Newest(s, n) = s
    BY <1>1 DEF Newest
  <2>2. \A i \in 1..Len(s) : s[i] = s[i + 0]
    OBVIOUS
  <2>3. IsSuffix(Newest(s, n), s, 0)
    BY <2>1, <2>2 DEF IsSuffix
  <2>4. QED
    BY <1>1, <2>1, <2>3
<1>2. CASE Len(s) > n
  <2> DEFINE d == Len(s) - n
  <2>1. Newest(s, n) = SubSeq(s, d + 1, Len(s))
    BY <1>2 DEF Newest
  <2>2. d \in Nat /\ d + 1 \in Int /\ Len(s) \in Int
    BY <1>2
  <2>3. \A i \in (d + 1)..Len(s) : s[i] \in S
    BY <2>2
  <2>4. /\ SubSeq(s, d + 1, Len(s)) \in Seq(S)
        /\ Len(SubSeq(s, d + 1, Len(s))) = IF d + 1 <= Len(s) THEN Len(s) - (d + 1) + 1 ELSE 0
        /\ \A i \in 1..(Len(s) - (d + 1) + 1) : SubSeq(s, d + 1, Len(s))[i] = s[(d + 1) + i - 1]
    <3> HIDE DEF d
    <3> QED
      BY <2>2, <2>3, SubSeqProperties
  <2>5. Len(Newest(s, n)) = n /\ n = Len(s) - d
    BY <1>2, <2>1, <2>4
  <2>6. \A i \in 1..n : Newest(s, n)[i] = s[i + d]
    BY <1>2, <2>1, <2>4
  <2>7. Newest(s, n) \in Seq(S)
    BY <2>1, <2>4
  <2> HIDE DEF d
  <2>8. Len(Newest(s, n)) <= n
    BY <2>5
  <2>9. IsSuffix(Newest(s, n), s, d)
    BY <2>5, <2>6 DEF IsSuffix
  <2>10. d \in Nat
    BY <2>2
  <2>11. QED
    BY <2>7, <2>8, <2>9, <2>10, Zenon
<1>3. QED
  BY <1>1, <1>2

\* Adding an entry to a list and keeping the newest n.
LEMMA AppendNewest ==
  ASSUME NEW S, NEW s \in Seq(S), NEW k \in S, NEW n \in Nat \ {0}
  PROVE  Newest(Append(s, k), n) \in Seq(S) /\ Len(Newest(Append(s, k), n)) <= n
<1> DEFINE a == Append(s, k)
<1>1. a \in Seq(S)
  OBVIOUS
<1> HIDE DEF a
<1>2. Newest(a, n) \in Seq(S) /\ Len(Newest(a, n)) <= n
  BY <1>1, NewestEntries
<1>3. QED
  BY <1>2 DEF a

\* A list without repetitions, one without a given entry, and one whose entries are
\* those of another list and one more.
Distinct(s) == \A i, j \in 1..Len(s) : i # j => s[i] # s[j]
Lacks(s, k) == \A i \in 1..Len(s) : s[i] # k
TakenFrom(t, s, k) == \A i \in 1..Len(t) : t[i] = k \/ \E j \in 1..Len(s) : t[i] = s[j]

\* A new entry added to a list without repetitions leaves one, whatever is dropped.
LEMMA AppendNewestOnce ==
  ASSUME NEW S, NEW s \in Seq(S), NEW k \in S, NEW n \in Nat \ {0},
         Lacks(s, k), Distinct(s)
  PROVE  /\ TakenFrom(Newest(Append(s, k), n), s, k)
         /\ Distinct(Newest(Append(s, k), n))
<1> DEFINE a == Append(s, k)
           t == Newest(a, n)
<1>1. /\ a \in Seq(S) /\ Len(s) \in Nat /\ Len(a) = Len(s) + 1
      /\ a[Len(s) + 1] = k /\ \A i \in 1..Len(s) : a[i] = s[i]
  OBVIOUS
<1> HIDE DEF a
<1>2. PICK d \in Nat : IsSuffix(t, a, d)
  BY <1>1, NewestEntries
<1>3. /\ Len(t) = Len(s) + 1 - d
      /\ \A i \in 1..Len(t) : t[i] = a[i + d]
  BY <1>1, <1>2 DEF IsSuffix
<1> HIDE DEF t
<1>4. \A i \in 1..(Len(s) + 1) : i = Len(s) + 1 \/ i \in 1..Len(s)
  BY <1>1
<1>5. \A i \in 1..(Len(s) + 1) : a[i] = k \/ \E j \in 1..Len(s) : a[i] = s[j]
  BY <1>1, <1>4
<1>6. \A i, j \in 1..(Len(s) + 1) : i # j => a[i] # a[j]
  BY <1>1, <1>4 DEF Lacks, Distinct
<1>7. \A i \in 1..Len(t) : t[i] = k \/ \E j \in 1..Len(s) : t[i] = s[j]
  <2> TAKE i \in 1..Len(t)
  <2>1. i + d \in 1..(Len(s) + 1)
    BY <1>1, <1>3
  <2>2. QED
    BY <1>3, <1>5, <2>1
<1>8. \A i, j \in 1..Len(t) : i # j => t[i] # t[j]
  <2> TAKE i, j \in 1..Len(t)
  <2> HAVE i # j
  <2>1. i + d \in 1..(Len(s) + 1) /\ j + d \in 1..(Len(s) + 1) /\ i + d # j + d
    BY <1>1, <1>3
  <2>2. t[i] = a[i + d] /\ t[j] = a[j + d]
    BY <1>3
  <2>3. a[i + d] # a[j + d]
    BY <1>6, <2>1, Zenon
  <2>4. QED
    BY <2>2, <2>3, Zenon
<1>9. QED
  BY <1>7, <1>8 DEF t, a, TakenFrom, Distinct

-----------------------------------------------------------------------------
(* Types *)

\* A function of counters with one more at k.
LEMMA Incremented ==
  ASSUME NEW S, NEW f \in [S -> Nat], NEW k \in S
  PROVE  [f EXCEPT ![k] = @ + 1] \in [S -> Nat]
OBVIOUS

\* The initial state satisfies the invariant.
LEMMA InitInv == Init => Inv
<1> SUFFICES ASSUME Init PROVE Inv
  OBVIOUS
<1>1. TypeOK
  BY ConstantsAssumption, LimitsAssumption DEF Init, TypeOK, Steps
<1>2. HandlesEvent /\ ReadyIsDeliverable
  BY LimitsAssumption DEF Init, HandlesEvent, ReadyIsDeliverable
<1>3. DoneSoFar /\ WindowIsAccepted /\ ProcessedIsStored /\ CompletedIsProcessed
  BY DEF Init, DoneSoFar, Done, WindowIsAccepted, ProcessedIsStored, CompletedIsProcessed
<1>4. NotYetCommitted /\ PriceCountedOnce
  BY DEF Init, NotYetCommitted, PriceCountedOnce
<1>5. QED
  BY <1>1, <1>2, <1>3, <1>4 DEF Inv, Types

\* Delivering a batch keeps the broker's types: what it takes was ready.
LEMMA DeliverType ==
  ASSUME Types, NEW w \in Workers, NEW S \in Batches, Deliver(w, S)
  PROVE  /\ state' \in [Messages -> {"ready", "locked", "completed", "dead"}]
         /\ owner' \in [Messages -> Workers \cup {Nobody}]
         /\ deliveries' \in [Messages -> 0..MaxDeliveries]
         /\ S \in SUBSET Messages /\ \A m \in S : state[m] = "ready"
<1>1. S \in SUBSET Messages /\ \A m \in S : state[m] = "ready"
  BY DEF Batches, Available
<1>2. /\ state' \in [Messages -> {"ready", "locked", "completed", "dead"}]
      /\ owner' \in [Messages -> Workers \cup {Nobody}]
  BY DEF Types, TypeOK, Deliver
<1>3. ASSUME NEW m \in Messages
      PROVE  deliveries[m] + (IF m \in S THEN 1 ELSE 0) \in 0..MaxDeliveries
  <2>1. deliveries[m] \in 0..MaxDeliveries /\ MaxDeliveries \in Nat
    BY LimitsAssumption DEF Types, TypeOK
  <2>2. m \in S => deliveries[m] < MaxDeliveries
    BY <1>1 DEF Types, ReadyIsDeliverable
  <2>3. QED
    BY <2>1, <2>2
<1>4. deliveries' \in [Messages -> 0..MaxDeliveries]
  BY <1>3 DEF Deliver
<1>5. QED
  BY <1>1, <1>2, <1>4

\* Every step keeps the types.
LEMMA TypeStep == Types /\ [Next]_vars => TypeOK'
<1> SUFFICES ASSUME Types, [Next]_vars PROVE TypeOK'
  OBVIOUS
<1> USE DEF Types, TypeOK, Steps, HandlesEvent, loopVars, brokerVars, storeVars, cacheVars, topicVars
<1>1. ASSUME NEW w \in Workers, Receive(w) PROVE TypeOK'
  <2>1. PICK S \in Batches : Deliver(w, S) /\ batch' = [batch EXCEPT ![w] = S]
    BY <1>1 DEF Receive
  <2>2. /\ state' \in [Messages -> {"ready", "locked", "completed", "dead"}]
        /\ owner' \in [Messages -> Workers \cup {Nobody}]
        /\ deliveries' \in [Messages -> 0..MaxDeliveries]
        /\ S \in SUBSET Messages
    BY <2>1, DeliverType
  <2>3. batch' \in [Workers -> SUBSET Messages]
    BY <2>1, <2>2
  <2>4. UNCHANGED <<pc, msg, rowsRead, prices, storeVars, cacheVars, topicVars>>
    BY <1>1 DEF Receive
  <2> QED
    BY <2>2, <2>3, <2>4
<1>2. ASSUME NEW w \in Workers, ReceiveRaises(w) PROVE TypeOK'
  BY <1>2, DeliverType DEF ReceiveRaises, AbortPoll, Goto
<1>3. ASSUME NEW w \in Workers, Begin(w) PROVE TypeOK'
  BY <1>3 DEF Begin, Goto
<1>4. ASSUME NEW w \in Workers, Lookup(w) PROVE TypeOK'
  BY <1>4 DEF Lookup, Process, Advance, AbortPoll, Goto
<1>5. ASSUME NEW w \in Workers, Ingest(w) PROVE TypeOK'
  <2>1. ticks' \in [Valid -> Nat] /\ indicators' \in [Valid -> Nat]
    <3>1. msg[w] \in Valid /\ ticks \in [Valid -> Nat] /\ indicators \in [Valid -> Nat]
      BY <1>5 DEF Ingest
    <3>2. /\ ticks' = ticks \/ ticks' = [ticks EXCEPT ![msg[w]] = @ + 1]
          /\ indicators' = indicators \/ indicators' = [indicators EXCEPT ![msg[w]] = @ + 1]
      BY <1>5 DEF Ingest
    <3> HIDE DEF TypeOK, HandlesEvent
    <3>3. QED
      BY <3>1, <3>2, Incremented
  <2>2. pc' \in [Workers -> Steps] /\ batch' = batch /\ msg' = msg
    BY <1>5 DEF Ingest, Advance, Raise, Goto
  <2>3. QED
    BY <1>5, <2>1, <2>2 DEF Ingest
<1>6. ASSUME NEW w \in Workers, SetSnapshot(w) PROVE TypeOK'
  BY <1>6 DEF SetSnapshot, Advance, Raise, Goto
<1>7. ASSUME NEW w \in Workers, ReadHistory(w) PROVE TypeOK'
  <2>1. rowsRead' = rowsRead \/ rowsRead' = [rowsRead EXCEPT ![w] = history]
    BY <1>7 DEF ReadHistory
  <2>2. pc' \in [Workers -> Steps] /\ batch' = batch /\ msg' = msg
    BY <1>7 DEF ReadHistory, Advance, Raise, Goto
  <2>3. UNCHANGED <<prices, brokerVars, storeVars, cacheVars, topicVars>>
    BY <1>7 DEF ReadHistory
  <2> QED
    BY <2>1, <2>2, <2>3
<1>8. ASSUME NEW w \in Workers, WriteHistory(w) PROVE TypeOK'
  <2>1. /\ Newest(Append(rowsRead[w], msg[w]), MaxRows) \in Seq(Valid)
        /\ Len(Newest(Append(rowsRead[w], msg[w]), MaxRows)) <= MaxRows
    <3>1. msg[w] \in Valid /\ rowsRead[w] \in Seq(Valid) /\ MaxRows \in Nat \ {0}
      BY <1>8, LimitsAssumption DEF WriteHistory
    <3> HIDE DEF TypeOK, HandlesEvent
    <3>2. QED
      BY <3>1, AppendNewest
  <2>2. <<>> \in Seq(Valid)
    OBVIOUS
  <2>3. QED
    BY <1>8, <2>1, <2>2 DEF WriteHistory, Advance, Raise, Goto
<1>9. ASSUME NEW w \in Workers, Publish(w) PROVE TypeOK'
  <2>1. signals' \in [Keys -> Nat] /\ window' \subseteq Keys
    <3>1. Key(w) \in Keys
      BY <1>9 DEF Publish
    <3>2. CASE Accepted(Key(w))
      BY <3>1, <3>2 DEF Accepted
    <3>3. CASE UNCHANGED topicVars
      BY <3>3
    <3>4. QED
      BY <1>9, <3>2, <3>3 DEF Publish
  <2>2. pc' \in [Workers -> Steps] /\ batch' = batch /\ msg' = msg
    BY <1>9 DEF Publish, Advance, Raise, Goto
  <2>3. QED
    BY <1>9, <2>1, <2>2 DEF Publish
<1>10. ASSUME NEW w \in Workers, Mark(w) PROVE TypeOK'
  <2>1. /\ Newest(Append(prices[w], Key(w)), MaxPrices) \in Seq(Keys)
        /\ Len(Newest(Append(prices[w], Key(w)), MaxPrices)) <= MaxPrices
    <3>1. Key(w) \in Keys /\ prices[w] \in Seq(Keys) /\ MaxPrices \in Nat \ {0}
      BY <1>10, LimitsAssumption DEF Mark
    <3> HIDE DEF TypeOK, HandlesEvent
    <3>2. QED
      BY <3>1, AppendNewest
  <2>2. Key(w) \in Keys
    BY <1>10 DEF Mark
  <2>3. pc' \in [Workers -> Steps] /\ batch' = batch /\ msg' = msg
    BY <1>10 DEF Mark, Commit, Advance, Raise, Goto
  <2>4. QED
    BY <1>10, <2>1, <2>2, <2>3 DEF Mark, Commit
<1>11. ASSUME NEW w \in Workers, Complete(w) PROVE TypeOK'
  BY <1>11 DEF Complete, SettleAs, Raise, Advance, AbortPoll, Goto
<1>12. ASSUME NEW w \in Workers, Reject(w) PROVE TypeOK'
  BY <1>12 DEF Reject, SettleAs, AbortPoll, Goto
<1>13. ASSUME NEW w \in Workers, Crash(w) PROVE TypeOK'
  BY <1>13, LimitsAssumption DEF Crash, AbortPoll, Goto
<1>14. ASSUME NEW m \in Messages, PeekLockExpires(m) PROVE TypeOK'
  BY <1>14 DEF PeekLockExpires
<1>15. ASSUME NEW k \in Keys, WindowPasses(k) PROVE TypeOK'
  BY <1>15 DEF WindowPasses
<1>16. CASE UNCHANGED vars
  BY <1>16 DEF vars
<1>17. QED
  BY <1>1, <1>2, <1>3, <1>4, <1>5, <1>6, <1>7, <1>8, <1>9, <1>10, <1>11, <1>12, <1>13,
     <1>14, <1>15, <1>16 DEF Next, Step

-----------------------------------------------------------------------------
(* What replicas handle, and what the broker may still deliver *)

\* Leaving poll_once keeps what the other replicas handle.
LEMMA HandlesAfterAbort ==
  ASSUME Types, NEW w \in Workers, AbortPoll(w)
  PROVE  HandlesEvent'
BY ConstantsAssumption DEF Types, TypeOK, HandlesEvent, Key, AbortPoll, Goto

\* So does moving on with the message at hand.
LEMMA HandlesAfterAdvance ==
  ASSUME Types, NEW w \in Workers, NEW step, step # "idle",
         pc[w] # "idle", Advance(w, step), pc[w] = "reject" => step = "reject"
  PROVE  HandlesEvent'
BY DEF Types, TypeOK, HandlesEvent, Key, Advance, Goto

\* And settling it.
LEMMA HandlesAfterSettle ==
  ASSUME Types, NEW w \in Workers, Goto(w, "idle"), msg' = [msg EXCEPT ![w] = NoMessage]
  PROVE  HandlesEvent'
BY ConstantsAssumption DEF Types, TypeOK, HandlesEvent, Key, Goto

\* Every step keeps a busy replica on a message that carries an event.
LEMMA HandlesStep == Types /\ [Next]_vars => HandlesEvent'
<1> SUFFICES ASSUME Types, [Next]_vars PROVE HandlesEvent'
  OBVIOUS
<1>1. ASSUME NEW w \in Workers, Begin(w) PROVE HandlesEvent'
  BY <1>1, ConstantsAssumption DEF Begin, Goto, Types, TypeOK, HandlesEvent, Key, Valid
<1>2. ASSUME NEW w \in Workers,
             Lookup(w) \/ Ingest(w) \/ SetSnapshot(w) \/ ReadHistory(w) \/ WriteHistory(w)
               \/ Publish(w) \/ Mark(w)
      PROVE  HandlesEvent'
  <2>1. pc[w] # "idle" /\ pc[w] # "reject"
    BY <1>2 DEF Lookup, Ingest, SetSnapshot, ReadHistory, WriteHistory, Publish, Mark
  <2>2. AbortPoll(w) \/ \E step \in Steps \ {"idle"} : Advance(w, step)
    BY <1>2 DEF Lookup, Process, Ingest, SetSnapshot, ReadHistory, WriteHistory, Publish, Mark, Raise, Steps
  <2>3. QED
    BY <2>1, <2>2, HandlesAfterAbort, HandlesAfterAdvance
<1>3. ASSUME NEW w \in Workers, Complete(w) \/ Reject(w) PROVE HandlesEvent'
  <2>1. \/ AbortPoll(w)
        \/ pc[w] = "finish" /\ Advance(w, "reject")
        \/ Goto(w, "idle") /\ msg' = [msg EXCEPT ![w] = NoMessage]
    BY <1>3 DEF Complete, Reject, SettleAs, Raise
  <2>2. QED
    BY <2>1, HandlesAfterAbort, HandlesAfterAdvance, HandlesAfterSettle
<1>4. ASSUME NEW w \in Workers, ReceiveRaises(w) \/ Crash(w) PROVE HandlesEvent'
  BY <1>4, HandlesAfterAbort DEF ReceiveRaises, Crash
<1>5. ASSUME UNCHANGED <<pc, msg>> PROVE HandlesEvent'
  BY <1>5 DEF Types, HandlesEvent, Key
<1>6. ASSUME NEW w \in Workers, Receive(w) PROVE HandlesEvent'
  BY <1>5, <1>6 DEF Receive
<1>7. CASE \/ \E m \in Messages : PeekLockExpires(m)
           \/ \E k \in Keys : WindowPasses(k)
           \/ UNCHANGED vars
  BY <1>5, <1>7 DEF PeekLockExpires, WindowPasses, vars, loopVars
<1>8. QED
  BY <1>1, <1>2, <1>3, <1>4, <1>6, <1>7 DEF Next, Step

\* Every step leaves deliveries for a message that is ready.
LEMMA ReadyStep == Types /\ [Next]_vars => ReadyIsDeliverable'
<1> SUFFICES ASSUME Types, [Next]_vars PROVE ReadyIsDeliverable'
  OBVIOUS
<1>1. ASSUME NEW w \in Workers, Receive(w) \/ ReceiveRaises(w) PROVE ReadyIsDeliverable'
  <2>1. PICK S \in Batches : Deliver(w, S)
    BY <1>1 DEF Receive, ReceiveRaises
  <2>2. ASSUME NEW m \in Messages, state'[m] = "ready" PROVE deliveries'[m] = deliveries[m] /\ state[m] = "ready"
    <3>1. m \notin S
      BY <2>1, <2>2 DEF Deliver
    <3>2. deliveries[m] \in Nat
      BY DEF Types, TypeOK
    <3>3. QED
      BY <2>1, <2>2, <3>1, <3>2 DEF Deliver
  <2>3. QED
    BY <2>2 DEF Types, ReadyIsDeliverable
<1>2. ASSUME NEW m \in Messages, PeekLockExpires(m) PROVE ReadyIsDeliverable'
  BY <1>2 DEF PeekLockExpires, Types, TypeOK, ReadyIsDeliverable
<1>3. ASSUME NEW w \in Workers, Complete(w) \/ Reject(w) PROVE ReadyIsDeliverable'
  <2>1. /\ deliveries' = deliveries
        /\ \A m \in Messages : state'[m] = "ready" => state[m] = "ready"
    BY <1>3 DEF Complete, Reject, SettleAs, brokerVars, Types, TypeOK
  <2>2. QED
    BY <2>1 DEF Types, ReadyIsDeliverable
<1>4. ASSUME UNCHANGED <<state, deliveries>> PROVE ReadyIsDeliverable'
  BY <1>4 DEF Types, ReadyIsDeliverable
<1>5. ASSUME NEW w \in Workers,
             Begin(w) \/ Lookup(w) \/ Ingest(w) \/ SetSnapshot(w) \/ ReadHistory(w)
               \/ WriteHistory(w) \/ Publish(w) \/ Mark(w) \/ Crash(w)
      PROVE  ReadyIsDeliverable'
  BY <1>4, <1>5 DEF Begin, Lookup, Ingest, SetSnapshot, ReadHistory, WriteHistory, Publish,
                    Mark, Crash, brokerVars
<1>6. CASE (\E k \in Keys : WindowPasses(k)) \/ UNCHANGED vars
  BY <1>4, <1>6 DEF WindowPasses, vars, brokerVars
<1>7. QED
  BY <1>1, <1>2, <1>3, <1>5, <1>6 DEF Next, Step

\* The types, with what they depend on, are inductive.
LEMMA TypesStep == Types /\ [Next]_vars => Types'
BY TypeStep, HandlesStep, ReadyStep DEF Types

-----------------------------------------------------------------------------
(* What the replicas leave behind *)

\* Nothing a replica leaves behind is taken back.
Grows ==
  /\ \A m \in Valid : /\ ticks[m] > 0 => ticks'[m] > 0
                      /\ indicators[m] > 0 => indicators'[m] > 0
  /\ \A k \in Keys : signals[k] > 0 => signals'[k] > 0
  /\ processed \subseteq processed'

\* Counting at k takes no count back, and leaves one at k.
LEMMA Counted ==
  ASSUME NEW S, NEW f \in [S -> Nat], NEW k \in S
  PROVE  /\ [f EXCEPT ![k] = @ + 1][k] > 0
         /\ \A j \in S : f[j] > 0 => [f EXCEPT ![k] = @ + 1][j] > 0
OBVIOUS

\* The rows an ingest leaves.
LEMMA IngestStores ==
  ASSUME Types, NEW w \in Workers, Ingest(w)
  PROVE  /\ \A m \in Valid : /\ ticks[m] > 0 => ticks'[m] > 0
                             /\ indicators[m] > 0 => indicators'[m] > 0
         /\ pc'[w] = "snapshot" => ticks'[msg[w]] > 0 /\ indicators'[msg[w]] > 0
<1>1. msg[w] \in Valid /\ ticks \in [Valid -> Nat] /\ indicators \in [Valid -> Nat]
  BY DEF Ingest, Types, TypeOK, HandlesEvent
<1>2. /\ ticks' = ticks \/ ticks' = [ticks EXCEPT ![msg[w]] = @ + 1]
      /\ indicators' = indicators \/ indicators' = [indicators EXCEPT ![msg[w]] = @ + 1]
  BY DEF Ingest, storeVars
<1>3. pc'[w] = "snapshot" => /\ ticks' = [ticks EXCEPT ![msg[w]] = @ + 1]
                             /\ indicators' = [indicators EXCEPT ![msg[w]] = @ + 1]
  BY DEF Ingest, Advance, Raise, Goto, Types, TypeOK
<1>4. QED
  BY <1>1, <1>2, <1>3, Counted

\* The signals topic only ever accepts more, and remembers only what it accepted.
LEMMA AcceptedCounts ==
  ASSUME Types, WindowIsAccepted, NEW k \in Keys, Accepted(k)
  PROVE  /\ \A j \in Keys : signals[j] > 0 => signals'[j] > 0
         /\ signals'[k] > 0
         /\ WindowIsAccepted'
<1>1. signals \in [Keys -> Nat] /\ window \subseteq Keys
  BY DEF Types, TypeOK
<1>2. CASE k \in window
  <2>1. signals' = signals
    BY <1>1, <1>2 DEF Accepted
  <2>2. QED
    BY <1>1, <1>2, <2>1 DEF Accepted, WindowIsAccepted
<1>3. CASE k \notin window
  <2>1. signals' = [signals EXCEPT ![k] = @ + 1]
    BY <1>3 DEF Accepted
  <2>2. QED
    BY <1>1, <2>1, Counted DEF Accepted, WindowIsAccepted
<1>4. QED
  BY <1>2, <1>3

\* No step takes back what was left behind.
LEMMA GrowsStep == Types /\ WindowIsAccepted /\ [Next]_vars => Grows /\ WindowIsAccepted'
<1> SUFFICES ASSUME Types, WindowIsAccepted, [Next]_vars PROVE Grows /\ WindowIsAccepted'
  OBVIOUS
<1>1. ASSUME UNCHANGED <<storeVars, signals, processed>>, window' \subseteq window
      PROVE  Grows /\ WindowIsAccepted'
  BY <1>1 DEF storeVars, Grows, WindowIsAccepted
<1>2. ASSUME NEW w \in Workers, Ingest(w) PROVE Grows /\ WindowIsAccepted'
  BY <1>2, IngestStores DEF Ingest, Grows, WindowIsAccepted, cacheVars, topicVars
<1>3. ASSUME NEW w \in Workers, Publish(w) PROVE Grows /\ WindowIsAccepted'
  <2>1. Key(w) \in Keys
    BY <1>3 DEF Publish, Types, HandlesEvent
  <2>2. CASE Accepted(Key(w))
    BY <1>3, <2>1, <2>2, AcceptedCounts DEF Publish, Grows, storeVars, cacheVars
  <2>3. CASE UNCHANGED topicVars
    BY <1>1, <1>3, <2>3 DEF Publish, topicVars, cacheVars
  <2>4. QED
    BY <1>3, <2>2, <2>3 DEF Publish
<1>4. ASSUME NEW w \in Workers, Mark(w) PROVE Grows /\ WindowIsAccepted'
  BY <1>4 DEF Mark, Grows, WindowIsAccepted, storeVars, topicVars
<1>5. ASSUME NEW w \in Workers,
             Receive(w) \/ ReceiveRaises(w) \/ Begin(w) \/ Lookup(w) \/ SetSnapshot(w)
               \/ ReadHistory(w) \/ WriteHistory(w) \/ Complete(w) \/ Reject(w) \/ Crash(w)
      PROVE  Grows /\ WindowIsAccepted'
  BY <1>1, <1>5 DEF Receive, ReceiveRaises, Begin, Lookup, SetSnapshot, ReadHistory,
                    WriteHistory, Complete, Reject, Crash, cacheVars, topicVars
<1>6. CASE \/ \E m \in Messages : PeekLockExpires(m)
           \/ \E k \in Keys : WindowPasses(k)
           \/ UNCHANGED vars
  BY <1>1, <1>6 DEF PeekLockExpires, WindowPasses, vars, cacheVars, topicVars
<1>7. QED
  BY <1>2, <1>3, <1>4, <1>5, <1>6 DEF Next, Step

\* An event that has its rows keeps them.
LEMMA RowsStay ==
  ASSUME Grows
  PROVE  \A k \in Keys : HasRows(k) => HasRows(k)'
<1> SUFFICES ASSUME NEW k \in Keys, HasRows(k) PROVE HasRows(k)'
  OBVIOUS
<1>1. PICK m \in Valid : KeyOf[m] = k /\ ticks[m] > 0 /\ indicators[m] > 0
  BY DEF HasRows
<1> QED
  BY <1>1 DEF Grows, HasRows

\* A replica moves only by its own steps.
LEMMA OthersStay ==
  ASSUME Types, NEW w \in Workers, Step(w) \/ ReceiveRaises(w) \/ Crash(w),
         NEW v \in Workers, v # w
  PROVE  pc'[v] = pc[v] /\ msg'[v] = msg[v] /\ prices'[v] = prices[v]
<1> USE DEF Types, TypeOK, Goto
<1>1. CASE Receive(w) \/ ReceiveRaises(w) \/ Begin(w) \/ Crash(w)
  BY <1>1 DEF Receive, ReceiveRaises, Begin, Crash, AbortPoll
<1>2. CASE Lookup(w) \/ Ingest(w) \/ SetSnapshot(w) \/ ReadHistory(w) \/ WriteHistory(w)
  BY <1>2 DEF Lookup, Ingest, SetSnapshot, ReadHistory, WriteHistory, Raise, Advance, AbortPoll
<1>3. CASE Publish(w) \/ Mark(w)
  BY <1>3 DEF Publish, Mark, Commit, Raise, Advance
<1>4. CASE Complete(w) \/ Reject(w)
  BY <1>4 DEF Complete, Reject, SettleAs, Raise, Advance, AbortPoll
<1>5. QED
  BY <1>1, <1>2, <1>3, <1>4 DEF Step

-----------------------------------------------------------------------------
(* What is done before what *)

\* A replica that keeps its message and its place, or turns to a step that
\* promises nothing, keeps what it has done.
LEMMA DoneKept ==
  ASSUME Types, DoneSoFar, Grows, NEW v \in Workers,
         \/ pc'[v] = pc[v] /\ msg'[v] = msg[v]
         \/ pc'[v] \in {"idle", "lookup", "ingest", "reject"}
  PROVE  Done(v)'
BY DEF DoneSoFar, Done, Grows, Types, HandlesEvent, Key

\* Every step keeps the order of the try block.
LEMMA DoneStep == Inv /\ [Next]_vars => DoneSoFar'
<1> SUFFICES ASSUME Inv, [Next]_vars, NEW v \in Workers PROVE Done(v)'
  BY DEF DoneSoFar
<1>1. Types /\ DoneSoFar /\ Grows
  BY GrowsStep DEF Inv
<1>2. CASE UNCHANGED <<pc, msg>>
  BY <1>1, <1>2, DoneKept
<1>3. ASSUME NEW w \in Workers, Step(w) \/ ReceiveRaises(w) \/ Crash(w), v # w PROVE Done(v)'
  BY <1>1, <1>3, OthersStay, DoneKept
<1>4. ASSUME ReceiveRaises(v) \/ Crash(v) \/ Receive(v) \/ Begin(v) \/ Reject(v) \/ Complete(v)
      PROVE  Done(v)'
  <2>1. \/ pc' = pc /\ msg' = msg
        \/ pc'[v] \in {"idle", "lookup", "ingest", "reject"}
    BY <1>1, <1>4 DEF ReceiveRaises, Crash, Receive, Begin, Reject, Complete, SettleAs, Raise,
                      Advance, AbortPoll, Goto, Types, TypeOK
  <2>2. QED
    BY <1>1, <2>1, DoneKept
<1>5. ASSUME Lookup(v) PROVE Done(v)'
  <2>1. (msg' = msg /\ processed' = processed) \/ pc'[v] = "idle"
    BY <1>1, <1>5 DEF Lookup, Process, Advance, AbortPoll, Goto, cacheVars, Types, TypeOK
  <2>2. CASE pc'[v] \in {"idle", "ingest", "reject"}
    BY <1>1, <2>2, DoneKept
  <2>3. CASE pc'[v] = "duplicate"
    BY <1>1, <1>5, <2>1, <2>3 DEF Lookup, Process, Advance, AbortPoll, Goto, Types, TypeOK, Done, Key
  <2>4. QED
    BY <1>1, <1>5, <2>2, <2>3 DEF Lookup, Process, Advance, AbortPoll, Goto, Types, TypeOK
<1>6. ASSUME Ingest(v) PROVE Done(v)'
  <2>1. msg' = msg /\ pc'[v] \in {"snapshot", "reject"}
    BY <1>1, <1>6 DEF Ingest, Raise, Advance, Goto, Types, TypeOK
  <2>2. CASE pc'[v] = "snapshot"
    BY <1>1, <1>6, <2>1, <2>2, IngestStores DEF Done, Key
  <2>3. QED
    BY <1>1, <2>1, <2>2, DoneKept
<1>7. ASSUME SetSnapshot(v) \/ ReadHistory(v) \/ WriteHistory(v) PROVE Done(v)'
  <2>1. /\ msg' = msg /\ UNCHANGED storeVars
        /\ pc[v] \in {"snapshot", "read", "write"}
        /\ pc'[v] \in {"read", "write", "publish", "reject"}
    BY <1>1, <1>7 DEF SetSnapshot, ReadHistory, WriteHistory, Raise, Advance, Goto, Types, TypeOK
  <2>2. QED
    BY <1>1, <2>1 DEF Done, DoneSoFar, Key, storeVars
<1>8. ASSUME Publish(v) PROVE Done(v)'
  <2>1. /\ msg' = msg /\ UNCHANGED storeVars /\ pc[v] = "publish"
        /\ pc'[v] \in {"mark", "reject"}
        /\ pc'[v] = "mark" => Accepted(Key(v))
    BY <1>1, <1>8 DEF Publish, Raise, Advance, Goto, Types, TypeOK
  <2>2. pc'[v] = "mark" => signals'[Key(v)] > 0
    BY <1>1, <2>1, AcceptedCounts DEF Inv, Types, HandlesEvent
  <2>3. QED
    BY <1>1, <2>1, <2>2 DEF Done, DoneSoFar, Key, storeVars
<1>9. ASSUME Mark(v) PROVE Done(v)'
  <2>1. /\ msg' = msg /\ pc'[v] \in {"finish", "reject"}
        /\ pc'[v] = "finish" => Key(v) \in processed'
    BY <1>1, <1>9 DEF Mark, Raise, Advance, Goto, Types, TypeOK
  <2>2. QED
    BY <2>1 DEF Done, Key
<1>10. CASE \/ \E m \in Messages : PeekLockExpires(m)
            \/ \E k \in Keys : WindowPasses(k)
            \/ UNCHANGED vars
  BY <1>2, <1>10 DEF PeekLockExpires, WindowPasses, vars, loopVars
<1>11. QED
  BY <1>3, <1>4, <1>5, <1>6, <1>7, <1>8, <1>9, <1>10 DEF Next, Step

\* An event is marked processed by a replica that has come to the step "mark".
LEMMA ProcessedBy ==
  ASSUME Types, [Next]_vars
  PROVE  \/ processed' = processed
         \/ \E w \in Workers : pc[w] = "mark" /\ processed' = processed \cup {Key(w)}
<1>1. ASSUME NEW w \in Workers, Mark(w)
      PROVE  \/ processed' = processed
             \/ pc[w] = "mark" /\ processed' = processed \cup {Key(w)}
  BY <1>1 DEF Mark
<1>2. ASSUME NEW w \in Workers,
             Receive(w) \/ ReceiveRaises(w) \/ Begin(w) \/ Lookup(w) \/ Ingest(w) \/ SetSnapshot(w)
               \/ ReadHistory(w) \/ WriteHistory(w) \/ Publish(w) \/ Complete(w) \/ Reject(w)
               \/ Crash(w)
      PROVE  processed' = processed
  BY <1>2 DEF Receive, ReceiveRaises, Begin, Lookup, Ingest, SetSnapshot, ReadHistory,
              WriteHistory, Publish, Complete, Reject, Crash, cacheVars
<1>3. CASE \/ \E m \in Messages : PeekLockExpires(m)
           \/ \E k \in Keys : WindowPasses(k)
           \/ UNCHANGED vars
  BY <1>3 DEF PeekLockExpires, WindowPasses, vars, cacheVars
<1>4. QED
  BY <1>1, <1>2, <1>3 DEF Next, Step

\* Every step keeps the rows and the signal of a processed event.
LEMMA StoredStep == Inv /\ [Next]_vars => ProcessedIsStored'
<1> SUFFICES ASSUME Inv, [Next]_vars PROVE ProcessedIsStored'
  OBVIOUS
<1>1. Types /\ DoneSoFar /\ ProcessedIsStored /\ Grows /\ processed \subseteq Keys
  BY GrowsStep DEF Inv, Types, TypeOK
<1>2. ASSUME NEW k \in Keys, HasRows(k) /\ signals[k] > 0
      PROVE  HasRows(k)' /\ signals'[k] > 0
  BY <1>1, <1>2, RowsStay DEF Grows
<1>3. ASSUME NEW w \in Workers, pc[w] = "mark"
      PROVE  Key(w) \in Keys /\ HasRows(Key(w)) /\ signals[Key(w)] > 0
  BY <1>1, <1>3 DEF DoneSoFar, Done, Types, HandlesEvent, HasRows, Key
<1>4. ASSUME NEW k \in processed', k \notin processed
      PROVE  k \in Keys /\ HasRows(k) /\ signals[k] > 0
  BY <1>1, <1>3, <1>4, ProcessedBy
<1>5. \A k \in processed : k \in Keys /\ HasRows(k) /\ signals[k] > 0
  BY <1>1 DEF ProcessedIsStored
<1>6. QED
  BY <1>2, <1>4, <1>5 DEF ProcessedIsStored

\* Every step that completes a message completes one whose event is processed.
LEMMA CompletedStep == Inv /\ [Next]_vars => CompletedIsProcessed'
<1> SUFFICES ASSUME Inv, [Next]_vars PROVE CompletedIsProcessed'
  OBVIOUS
<1>1. Types /\ DoneSoFar /\ CompletedIsProcessed /\ Grows
  BY GrowsStep DEF Inv
<1>2. ASSUME \A m \in Messages : state'[m] = "completed" => state[m] = "completed"
      PROVE  CompletedIsProcessed'
  BY <1>1, <1>2 DEF CompletedIsProcessed, Grows
<1>3. ASSUME NEW w \in Workers, Receive(w) \/ ReceiveRaises(w) PROVE CompletedIsProcessed'
  <2>1. PICK S \in Batches : Deliver(w, S)
    BY <1>3 DEF Receive, ReceiveRaises
  <2>2. \A m \in Messages : state'[m] = "completed" => state[m] = "completed"
    BY <2>1 DEF Deliver
  <2>3. QED
    BY <1>2, <2>2
<1>4. ASSUME NEW w \in Workers, Complete(w) PROVE CompletedIsProcessed'
  <2>1. /\ Key(w) \in processed /\ processed' = processed
        /\ \/ state' = state
           \/ state' = [state EXCEPT ![msg[w]] = "completed"]
    BY <1>1, <1>4 DEF Complete, SettleAs, DoneSoFar, Done, cacheVars, brokerVars
  <2>2. QED
    BY <1>1, <2>1 DEF CompletedIsProcessed, Types, TypeOK, Key
<1>5. ASSUME NEW w \in Workers, Reject(w) PROVE CompletedIsProcessed'
  <2>1. \/ state' = state
        \/ state' = [state EXCEPT ![msg[w]] = "dead"]
    BY <1>5 DEF Reject, SettleAs, brokerVars
  <2>2. QED
    BY <1>1, <1>2, <2>1 DEF Types, TypeOK
<1>6. ASSUME NEW m \in Messages, PeekLockExpires(m) PROVE CompletedIsProcessed'
  BY <1>1, <1>2, <1>6 DEF PeekLockExpires, Types, TypeOK
<1>7. ASSUME NEW w \in Workers,
             Begin(w) \/ Lookup(w) \/ Ingest(w) \/ SetSnapshot(w) \/ ReadHistory(w)
               \/ WriteHistory(w) \/ Publish(w) \/ Mark(w) \/ Crash(w)
      PROVE  CompletedIsProcessed'
  BY <1>2, <1>7 DEF Begin, Lookup, Ingest, SetSnapshot, ReadHistory, WriteHistory, Publish,
                    Mark, Crash, brokerVars
<1>8. CASE (\E k \in Keys : WindowPasses(k)) \/ UNCHANGED vars
  BY <1>2, <1>8 DEF WindowPasses, vars, brokerVars
<1>9. QED
  BY <1>3, <1>4, <1>5, <1>6, <1>7, <1>8 DEF Next, Step

-----------------------------------------------------------------------------
(* Prices *)

\* A replica's history changes when it marks an event, to hold that event, and when
\* it restarts, to be empty.
LEMMA PricesChange ==
  ASSUME Types, [Next]_vars, NEW v \in Workers
  PROVE  \/ prices'[v] = prices[v]
         \/ prices'[v] = <<>>
         \/ /\ pc[v] = "mark" /\ pc'[v] = "finish"
            /\ prices'[v] = Newest(Append(prices[v], Key(v)), MaxPrices)
            /\ Key(v) \in processed'
<1>1. ASSUME NEW w \in Workers, Step(w) \/ ReceiveRaises(w) \/ Crash(w), v # w
      PROVE  prices'[v] = prices[v]
  BY <1>1, OthersStay
<1>2. CASE Mark(v)
  <2>1. \/ prices' = prices
        \/ Commit(v) /\ Advance(v, "finish") /\ processed' = processed \cup {Key(v)}
    BY <1>2 DEF Mark
  <2>2. QED
    BY <1>2, <2>1 DEF Mark, Commit, Advance, Goto, Types, TypeOK
<1>3. CASE Crash(v)
  BY <1>3 DEF Crash, Types, TypeOK
<1>4. CASE \/ Receive(v) \/ ReceiveRaises(v) \/ Begin(v) \/ Lookup(v) \/ Ingest(v)
           \/ SetSnapshot(v) \/ ReadHistory(v) \/ WriteHistory(v) \/ Publish(v)
           \/ Complete(v) \/ Reject(v)
  BY <1>4 DEF Receive, ReceiveRaises, Begin, Lookup, Ingest, SetSnapshot, ReadHistory,
              WriteHistory, Publish, Complete, Reject
<1>5. CASE \/ \E m \in Messages : PeekLockExpires(m)
           \/ \E k \in Keys : WindowPasses(k)
           \/ UNCHANGED vars
  BY <1>5 DEF PeekLockExpires, WindowPasses, vars
<1>6. QED
  BY <1>1, <1>2, <1>3, <1>4, <1>5 DEF Next, Step

\* Every step keeps the event at hand out of the replica's history until it is marked.
LEMMA NotYetStep == Inv /\ [Next]_vars => NotYetCommitted'
<1> DEFINE Open == {"ingest", "snapshot", "read", "write", "publish", "mark"}
<1> SUFFICES ASSUME Inv, [Next]_vars, NEW v \in Workers, pc'[v] \in Open
             PROVE  \A i \in 1..Len(prices'[v]) : prices'[v][i] # Key(v)'
  BY DEF NotYetCommitted
<1>1. Types /\ NotYetCommitted /\ PriceCountedOnce
  BY DEF Inv
<1>2. \/ pc[v] \in Open
      \/ pc[v] = "lookup" /\ Key(v) \notin processed
  <2>1. ASSUME NEW w \in Workers, Step(w) \/ ReceiveRaises(w) \/ Crash(w), v # w
        PROVE  pc[v] \in Open
    BY <1>1, <2>1, OthersStay
  <2>2. CASE Lookup(v)
    BY <1>1, <2>2 DEF Lookup, Process, Advance, AbortPoll, Goto, Types, TypeOK
  <2>3. CASE Receive(v) \/ ReceiveRaises(v) \/ Begin(v) \/ Crash(v) \/ Complete(v) \/ Reject(v)
    BY <1>1, <2>3 DEF Receive, ReceiveRaises, Begin, Crash, Complete, Reject, SettleAs, Raise,
                      Advance, AbortPoll, Goto, Types, TypeOK
  <2>4. CASE \/ Ingest(v) \/ SetSnapshot(v) \/ ReadHistory(v) \/ WriteHistory(v)
             \/ Publish(v) \/ Mark(v)
    BY <2>4 DEF Ingest, SetSnapshot, ReadHistory, WriteHistory, Publish, Mark
  <2>5. CASE \/ \E m \in Messages : PeekLockExpires(m)
             \/ \E k \in Keys : WindowPasses(k)
             \/ UNCHANGED vars
    BY <2>5 DEF PeekLockExpires, WindowPasses, vars, loopVars
  <2>6. QED
    BY <2>1, <2>2, <2>3, <2>4, <2>5 DEF Next, Step
<1>3. \A i \in 1..Len(prices[v]) : prices[v][i] # Key(v)
  BY <1>1, <1>2 DEF NotYetCommitted, PriceCountedOnce
<1>4. msg'[v] = msg[v]
  <2>1. ASSUME NEW w \in Workers, Step(w) \/ ReceiveRaises(w) \/ Crash(w), v # w
        PROVE  msg'[v] = msg[v]
    BY <1>1, <2>1, OthersStay
  <2>2. CASE \/ Lookup(v) \/ Ingest(v) \/ SetSnapshot(v) \/ ReadHistory(v) \/ WriteHistory(v)
             \/ Publish(v) \/ Mark(v)
    BY <1>1, <2>2 DEF Lookup, Ingest, SetSnapshot, ReadHistory, WriteHistory, Publish, Mark,
                      Raise, Advance, AbortPoll, Goto, Types, TypeOK
  <2>3. CASE Receive(v) \/ ReceiveRaises(v) \/ Begin(v) \/ Crash(v) \/ Complete(v) \/ Reject(v)
    BY <1>1, <2>3 DEF Receive, ReceiveRaises, Begin, Crash, Complete, Reject, SettleAs, Raise,
                      Advance, AbortPoll, Goto, Types, TypeOK
  <2>4. CASE \/ \E m \in Messages : PeekLockExpires(m)
             \/ \E k \in Keys : WindowPasses(k)
             \/ UNCHANGED vars
    BY <2>4 DEF PeekLockExpires, WindowPasses, vars, loopVars
  <2>5. QED
    BY <2>1, <2>2, <2>3, <2>4 DEF Next, Step
<1>5. prices'[v] = prices[v] \/ prices'[v] = <<>>
  BY <1>1, PricesChange
<1>6. QED
  BY <1>3, <1>4, <1>5 DEF Key

\* Every step keeps the histories free of duplicates and of unprocessed events.
LEMMA CountedOnceStep == Inv /\ [Next]_vars => PriceCountedOnce'
<1> DEFINE Once(s, P) == /\ \A i \in 1..Len(s) : s[i] \in P
                         /\ \A i, j \in 1..Len(s) : i # j => s[i] # s[j]
<1> SUFFICES ASSUME Inv, [Next]_vars, NEW v \in Workers PROVE Once(prices'[v], processed')
  BY DEF PriceCountedOnce
<1>1. Types /\ Grows /\ Once(prices[v], processed)
  BY GrowsStep DEF Inv, PriceCountedOnce
<1>2. CASE prices'[v] = prices[v]
  BY <1>1, <1>2 DEF Grows
<1>3. CASE prices'[v] = <<>>
  BY <1>3
<1>4. CASE /\ pc[v] = "mark"
           /\ prices'[v] = Newest(Append(prices[v], Key(v)), MaxPrices)
           /\ Key(v) \in processed'
  <2>1. Key(v) \in Keys /\ prices[v] \in Seq(Keys) /\ MaxPrices \in Nat \ {0}
    BY <1>1, <1>4, LimitsAssumption DEF Types, TypeOK, HandlesEvent
  <2>2. \A i \in 1..Len(prices[v]) : prices[v][i] # Key(v)
    BY <1>4 DEF Inv, NotYetCommitted
  <2>3. /\ \A i \in 1..Len(prices'[v]) :
             prices'[v][i] = Key(v) \/ \E j \in 1..Len(prices[v]) : prices'[v][i] = prices[v][j]
        /\ \A i, j \in 1..Len(prices'[v]) : i # j => prices'[v][i] # prices'[v][j]
    <3>1. Distinct(prices[v]) /\ Lacks(prices[v], Key(v))
      BY <1>1, <2>2 DEF Distinct, Lacks
    <3>2. /\ TakenFrom(Newest(Append(prices[v], Key(v)), MaxPrices), prices[v], Key(v))
          /\ Distinct(Newest(Append(prices[v], Key(v)), MaxPrices))
      BY <2>1, <3>1, AppendNewestOnce, Zenon
    <3>3. QED
      BY <1>4, <3>2, Zenon DEF TakenFrom, Distinct
  <2>4. \A i \in 1..Len(prices'[v]) : prices'[v][i] \in processed'
    <3> TAKE i \in 1..Len(prices'[v])
    <3>1. prices'[v][i] = Key(v) \/ prices'[v][i] \in processed
      BY <1>1, <2>3
    <3>2. QED
      BY <1>1, <1>4, <3>1 DEF Grows
  <2>5. QED
    BY <2>3, <2>4
<1>5. QED
  BY <1>1, <1>2, <1>3, <1>4, PricesChange

-----------------------------------------------------------------------------
(* Theorems *)

LEMMA InvStep == Inv /\ [Next]_vars => Inv'
<1> SUFFICES ASSUME Inv, [Next]_vars PROVE Inv'
  OBVIOUS
<1>1. Types' /\ WindowIsAccepted'
  BY TypesStep, GrowsStep DEF Inv
<1>2. DoneSoFar' /\ ProcessedIsStored' /\ CompletedIsProcessed'
  BY DoneStep, StoredStep, CompletedStep
<1>3. NotYetCommitted' /\ PriceCountedOnce'
  BY NotYetStep, CountedOnceStep
<1> QED
  BY <1>1, <1>2, <1>3 DEF Inv

\* Inv is inductive: every reachable state satisfies it.
THEOREM InvHolds == Spec => []Inv
BY InitInv, InvStep, PTL DEF Spec

\* Every variable keeps its type, the bounded lists their bound.
THEOREM TypeCorrect == Spec => []TypeOK
<1>1. Inv => TypeOK
  BY DEF Inv, Types
<1>2. QED
  BY <1>1, InvHolds, PTL

\* A message is completed only when its event is processed: with any faults, any
\* number of replicas and of copies, no event is dropped (service.py:315-356).
THEOREM NoEventDropped == Spec => []CompletedIsProcessed
<1>1. Inv => CompletedIsProcessed
  BY DEF Inv
<1>2. QED
  BY <1>1, InvHolds, PTL

\* A processed event has its tick, its indicators and its signal (service.py:315-336).
THEOREM ProcessedLeavesAll == Spec => []ProcessedIsStored
<1>1. Inv => ProcessedIsStored
  BY DEF Inv
<1>2. QED
  BY <1>1, InvHolds, PTL

\* A replica counts the price of an event at most once, and only once it is processed.
THEOREM PricesCountOnce == Spec => []PriceCountedOnce
<1>1. Inv => PriceCountedOnce
  BY DEF Inv
<1>2. QED
  BY <1>1, InvHolds, PTL

\* What a replica works on was processed against a history it can compute with.
OpenIsComputable ==
  \A v \in Workers :
    pc[v] \in {"ingest", "snapshot", "read", "write", "publish", "mark"} => ~Poisoned(v)

\* Every step keeps it: the indicators are computed when the try block is entered,
\* and the history stays as it is until the event at hand is committed.
LEMMA ComputableStep == Inv /\ OpenIsComputable /\ [Next]_vars => OpenIsComputable'
<1> DEFINE Open == {"ingest", "snapshot", "read", "write", "publish", "mark"}
<1> SUFFICES ASSUME Inv, OpenIsComputable, [Next]_vars, NEW v \in Workers, pc'[v] \in Open
             PROVE  ~Poisoned(v)'
  BY DEF OpenIsComputable
<1>1. Types
  BY DEF Inv
<1>2. ~Poisoned(v) \/ prices'[v] = <<>>
  <2>1. ASSUME NEW w \in Workers, Step(w) \/ ReceiveRaises(w) \/ Crash(w), v # w
        PROVE  pc[v] \in Open
    BY <1>1, <2>1, OthersStay
  <2>2. CASE Lookup(v)
    BY <1>1, <2>2 DEF Lookup, Process, Advance, AbortPoll, Goto, Types, TypeOK
  <2>3. CASE Receive(v) \/ ReceiveRaises(v) \/ Begin(v) \/ Crash(v) \/ Complete(v) \/ Reject(v)
    BY <1>1, <2>3 DEF Receive, ReceiveRaises, Begin, Crash, Complete, Reject, SettleAs, Raise,
                      Advance, AbortPoll, Goto, Types, TypeOK
  <2>4. CASE \/ Ingest(v) \/ SetSnapshot(v) \/ ReadHistory(v) \/ WriteHistory(v)
             \/ Publish(v) \/ Mark(v)
    BY <2>4 DEF Ingest, SetSnapshot, ReadHistory, WriteHistory, Publish, Mark, OpenIsComputable
  <2>5. CASE \/ \E m \in Messages : PeekLockExpires(m)
             \/ \E k \in Keys : WindowPasses(k)
             \/ UNCHANGED vars
    BY <2>5 DEF PeekLockExpires, WindowPasses, vars, loopVars, OpenIsComputable
  <2>6. QED
    BY <2>1, <2>2, <2>3, <2>4, <2>5 DEF Next, Step, OpenIsComputable
<1>3. prices'[v] = prices[v] \/ prices'[v] = <<>>
  BY <1>1, PricesChange
<1>4. QED
  BY <1>2, <1>3 DEF Poisoned

\* Once a replica holds a price it cannot compute a return from, it commits nothing of
\* the symbol until it restarts, whatever else happens (indicators.py:62-78).
THEOREM PoisonLasts == Spec => PoisonedUntilRestart
<1>1. Init => OpenIsComputable
  BY DEF Init, OpenIsComputable
<1>2. Inv /\ OpenIsComputable /\ [Next]_vars
        => \A w \in Workers : Poisoned(w) => prices'[w] \in {prices[w], <<>>}
  <2> SUFFICES ASSUME Inv, OpenIsComputable, [Next]_vars, NEW w \in Workers, Poisoned(w)
               PROVE  prices'[w] \in {prices[w], <<>>}
    OBVIOUS
  <2>1. pc[w] # "mark"
    BY DEF OpenIsComputable
  <2>2. QED
    BY <2>1, PricesChange DEF Inv
<1>3. Spec => []OpenIsComputable
  BY <1>1, ComputableStep, InvHolds, PTL DEF Spec
<1>4. QED
  BY <1>2, <1>3, InvHolds, PTL DEF Spec, PoisonedUntilRestart
-----------------------------------------------------------------------------
(* One replica: the cached history *)

\* There is no second replica.
SoleReplica == \A v, w \in Workers : v = w

\* The history lists the event unless it has dropped rows.
Listed(k) == Len(history) < MaxRows => \E i \in 1..Len(history) : KeyOf[history[i]] = k

\* What append_history has read is what it will replace.
ReadIsCurrent == \A w \in Workers : pc[w] = "write" => rowsRead[w] = history

\* An event is in the history before it is marked processed.
ListedBeforeMarked == \A w \in Workers : pc[w] \in {"publish", "mark"} => Listed(Key(w))
ListInv == ReadIsCurrent /\ ListedBeforeMarked /\ HistoryListsProcessed

\* A list that is not full after an entry was added has dropped nothing.
LEMMA NothingDropped ==
  ASSUME NEW S, NEW s \in Seq(S), NEW k \in S, NEW n \in Nat \ {0},
         Len(Newest(Append(s, k), n)) < n
  PROVE  Newest(Append(s, k), n) = Append(s, k)
<1> DEFINE a == Append(s, k)
<1>1. a \in Seq(S) /\ Len(a) \in Nat
  OBVIOUS
<1> HIDE DEF a
<1>2. ASSUME Len(a) > n PROVE FALSE
  <2> DEFINE d == Len(a) - n + 1
  <2>1. Newest(a, n) = SubSeq(a, d, Len(a))
    BY <1>2 DEF Newest
  <2>2. d \in Int /\ Len(a) \in Int /\ d <= Len(a) /\ Len(a) - d + 1 = n /\ d >= 1
    BY <1>1, <1>2
  <2>3. \A i \in d..Len(a) : a[i] \in S
    BY <1>1, <2>2
  <2> HIDE DEF d
  <2>4. Len(SubSeq(a, d, Len(a))) = IF d <= Len(a) THEN Len(a) - d + 1 ELSE 0
    BY <2>2, <2>3, SubSeqProperties
  <2> QED
    BY <2>1, <2>2, <2>4 DEF a
<1>3. QED
  BY <1>1, <1>2 DEF Newest, a

\* A written history lists the event at hand, and whatever it listed before.
LEMMA WriteLists ==
  ASSUME Types, ReadIsCurrent, NEW w \in Workers, pc[w] = "write",
         history' = Newest(Append(rowsRead[w], msg[w]), MaxRows),
         NEW k \in Keys, k = Key(w) \/ Listed(k)
  PROVE  Listed(k)'
<1>1. /\ rowsRead[w] = history /\ history \in Seq(Valid) /\ msg[w] \in Valid
      /\ MaxRows \in Nat \ {0}
  BY LimitsAssumption DEF Types, TypeOK, HandlesEvent, ReadIsCurrent
<1>2. SUFFICES ASSUME Len(history') < MaxRows
               PROVE  \E i \in 1..Len(history') : KeyOf[history'[i]] = k
  BY DEF Listed
<1>3. history' = Append(history, msg[w])
  BY <1>1, <1>2, NothingDropped
<1>4. /\ Len(history) \in Nat /\ Len(history') = Len(history) + 1
      /\ history'[Len(history) + 1] = msg[w]
      /\ \A i \in 1..Len(history) : history'[i] = history[i]
  BY <1>1, <1>3
<1>5. CASE k = Key(w)
  BY <1>4, <1>5 DEF Key
<1>6. CASE Listed(k)
  <2>1. PICK i \in 1..Len(history) : KeyOf[history[i]] = k
    BY <1>1, <1>2, <1>4, <1>6 DEF Listed
  <2>2. i \in 1..Len(history') /\ KeyOf[history'[i]] = k
    BY <1>4, <2>1
  <2> QED
    BY <2>2
<1> QED
  BY <1>5, <1>6

\* Every step of a sole replica keeps the events it has marked in the history.
LEMMA ListStep ==
  ASSUME SoleReplica, Types, ListInv, [Next]_vars
  PROVE  ListInv'
<1> USE DEF ListInv
<1>0. ASSUME history' = history, processed' = processed,
             \A v \in Workers : /\ pc'[v] # "write"
                                /\ pc'[v] \in {"publish", "mark"} => Listed(Key(v)')
      PROVE  ListInv'
  <2>1. HistoryListsProcessed'
    BY <1>0 DEF HistoryListsProcessed
  <2>2. ListedBeforeMarked' /\ ReadIsCurrent'
    BY <1>0 DEF ReadIsCurrent, ListedBeforeMarked, Listed
  <2> QED
    BY <2>1, <2>2
<1>1. ASSUME NEW w \in Workers, ReadHistory(w) PROVE ListInv'
  <2>1. \A v \in Workers : v = w
    BY DEF SoleReplica
  <2>2. /\ history' = history /\ processed' = processed
        /\ pc'[w] \in {"write", "reject"}
        /\ pc'[w] = "write" => rowsRead'[w] = history
    BY <1>1 DEF ReadHistory, Advance, Raise, Goto, cacheVars, Types, TypeOK
  <2>3. HistoryListsProcessed'
    BY <2>2 DEF HistoryListsProcessed
  <2>4. ReadIsCurrent' /\ ListedBeforeMarked'
    BY <2>1, <2>2 DEF ReadIsCurrent, ListedBeforeMarked
  <2> QED
    BY <2>3, <2>4
<1>2. ASSUME NEW w \in Workers, WriteHistory(w) PROVE ListInv'
  <2>1. \A v \in Workers : v = w
    BY DEF SoleReplica
  <2>2. /\ processed' = processed /\ msg' = msg /\ pc[w] = "write"
        /\ pc'[w] \in {"publish", "reject"}
    BY <1>2 DEF WriteHistory, Advance, Raise, Goto, Types, TypeOK
  <2>3. processed \subseteq Keys /\ Key(w) \in Keys
    BY <2>2 DEF Types, TypeOK, HandlesEvent
  <2>4. CASE history' = Newest(Append(rowsRead[w], msg[w]), MaxRows)
    <3>1. \A k \in Keys : k = Key(w) \/ Listed(k) => Listed(k)'
      BY <2>2, <2>4, WriteLists
    <3>2. \A k \in processed : Listed(k)
      BY DEF HistoryListsProcessed, Listed
    <3>3. \A k \in processed' : Listed(k)'
      BY <2>2, <2>3, <3>1, <3>2
    <3>4. HistoryListsProcessed'
      BY <3>3 DEF HistoryListsProcessed, Listed
    <3>5. ReadIsCurrent'
      BY <2>1, <2>2 DEF ReadIsCurrent
    <3>6. ASSUME NEW k \in Keys, k = Key(w) PROVE Listed(k)'
      BY <3>1, <3>6
    <3>7. ListedBeforeMarked'
      BY <2>1, <2>2, <2>3, <3>6 DEF ListedBeforeMarked, Listed, Key
    <3> QED
      BY <3>4, <3>5, <3>7
  <2>5. CASE history' = history /\ pc'[w] = "reject"
    BY <1>0, <2>1, <2>2, <2>5
  <2> QED
    BY <1>2, <2>4, <2>5 DEF WriteHistory, Raise, Advance, Goto, Types, TypeOK
<1>3. ASSUME NEW w \in Workers, Publish(w) PROVE ListInv'
  <2>1. /\ history' = history /\ processed' = processed /\ msg' = msg /\ pc[w] = "publish"
        /\ pc'[w] \in {"mark", "reject"}
    BY <1>3 DEF Publish, Advance, Raise, Goto, cacheVars, Types, TypeOK
  <2>2. \A v \in Workers : v = w
    BY DEF SoleReplica
  <2>3. Listed(Key(w)) /\ Key(w)' = Key(w)
    BY <2>1 DEF ListedBeforeMarked, Key
  <2> QED
    BY <1>0, <2>1, <2>2, <2>3
<1>4. ASSUME NEW w \in Workers, Mark(w) PROVE ListInv'
  <2>1. /\ history' = history /\ pc[w] = "mark" /\ pc'[w] \in {"finish", "reject"}
        /\ processed' \subseteq processed \cup {Key(w)}
    BY <1>4 DEF Mark, Advance, Raise, Goto, Types, TypeOK
  <2>2. \A v \in Workers : v = w
    BY DEF SoleReplica
  <2>3. Listed(Key(w))
    BY <2>1 DEF ListedBeforeMarked
  <2>4. HistoryListsProcessed'
    BY <2>1, <2>3 DEF HistoryListsProcessed, Listed
  <2>5. ReadIsCurrent' /\ ListedBeforeMarked'
    BY <2>1, <2>2 DEF ReadIsCurrent, ListedBeforeMarked
  <2> QED
    BY <2>4, <2>5
<1>5. ASSUME UNCHANGED <<pc, msg, rowsRead, history, processed>> PROVE ListInv'
  BY <1>5 DEF ReadIsCurrent, ListedBeforeMarked, HistoryListsProcessed, Listed, Key
<1>6. ASSUME NEW w \in Workers, 
             \/ ReceiveRaises(w) \/ Begin(w) \/ Lookup(w) \/ Ingest(w) \/ SetSnapshot(w)
             \/ Complete(w) \/ Reject(w) \/ Crash(w)
      PROVE  ListInv'
  <2>1. history' = history /\ processed' = processed
    BY <1>6 DEF ReceiveRaises, Begin, Lookup, Ingest, SetSnapshot, Complete, Reject, Crash, cacheVars
  <2>2. pc'[w] \notin {"write", "publish", "mark"}
    BY <1>6 DEF ReceiveRaises, Begin, Lookup, Process, Ingest, SetSnapshot, Complete, Reject, Crash,
                SettleAs, Raise, Advance, AbortPoll, Goto, Types, TypeOK
  <2>3. \A v \in Workers : v = w
    BY DEF SoleReplica
  <2> QED
    BY <1>0, <2>1, <2>2, <2>3
<1>7. CASE \/ \E w \in Workers : Receive(w)
           \/ \E m \in Messages : PeekLockExpires(m)
           \/ \E k \in Keys : WindowPasses(k)
           \/ UNCHANGED vars
  BY <1>5, <1>7 DEF Receive, PeekLockExpires, WindowPasses, vars, loopVars, cacheVars
<1> QED
  BY <1>1, <1>2, <1>3, <1>4, <1>6, <1>7 DEF Next, Step

-----------------------------------------------------------------------------
(* One replica: what it promises about an event *)

\* A replica owns the messages of its batch and, until it may have settled it, the one
\* it handles; an owned message is locked.
MessagesOwned ==
  /\ \A m \in Messages : owner[m] \in Workers => state[m] = "locked"
  /\ \A w \in Workers, m \in Messages :
       m \in batch[w] \/ (msg[w] = m /\ pc[w] # "reject") => owner[m] = w
  /\ \A w \in Workers : msg[w] \notin batch[w]

\* The event in the try block is not processed.
OpenIsUnprocessed ==
  \A w \in Workers :
    pc[w] \in {"ingest", "snapshot", "read", "write", "publish", "mark"} =>
      Key(w) \notin processed

SoleInv == Inv /\ MessagesOwned /\ OpenIsUnprocessed

\* The broker's knowledge and the batches stay, and the message at hand may only be
\* given up, or turned to dead-lettering.
LEMMA OwnedFrame ==
  ASSUME MessagesOwned, UNCHANGED <<state, owner>>,
         \A w \in Workers :
           /\ batch'[w] = {} \/ batch'[w] = batch[w]
           /\ msg'[w] = NoMessage \/ (msg'[w] = msg[w] /\ pc'[w] # "reject" => pc[w] # "reject")
           /\ msg'[w] = NoMessage \/ msg'[w] = msg[w],
         Types
  PROVE  MessagesOwned'
<1>1. \A w \in Workers : NoMessage \notin batch[w]
  BY ConstantsAssumption DEF Types, TypeOK
<1>2. (\A w \in Workers : msg[w] \notin batch[w])'
  BY <1>1 DEF MessagesOwned
<1>3. (\A m \in Messages : owner[m] \in Workers => state[m] = "locked")'
  BY DEF MessagesOwned
<1>4. ASSUME NEW w \in Workers, NEW m \in Messages,
             m \in batch'[w] \/ (msg'[w] = m /\ pc'[w] # "reject")
      PROVE  owner'[m] = w
  <2>1. m # NoMessage
    BY ConstantsAssumption
  <2>2. m \in batch[w] \/ (msg[w] = m /\ pc[w] # "reject")
    BY <1>4, <2>1
  <2> QED
    BY <2>2 DEF MessagesOwned
<1> QED
  BY <1>2, <1>3, <1>4 DEF MessagesOwned

\* A replica that receives a batch, or loses it at once, takes messages nobody owns.
LEMMA OwnedAfterReceive ==
  ASSUME Types, MessagesOwned, NEW w \in Workers, Receive(w) \/ ReceiveRaises(w)
  PROVE  MessagesOwned'
<1>1. PICK S \in Batches : Deliver(w, S) /\ (batch'[w] = S \/ batch'[w] = {})
  BY DEF Receive, ReceiveRaises, AbortPoll, Types, TypeOK
<1>2. S \in SUBSET Messages /\ \A m \in S : state[m] = "ready"
  BY <1>1, DeliverType
<1>3. /\ pc[w] = "idle" /\ msg[w] = NoMessage /\ msg' = msg /\ pc' = pc
      /\ \A v \in Workers : v # w => batch'[v] = batch[v]
  BY DEF Receive, ReceiveRaises, AbortPoll, Goto, Types, TypeOK, HandlesEvent
<1>4. \A m \in Messages : /\ owner'[m] = IF m \in S THEN w ELSE owner[m]
                          /\ state'[m] = IF m \in S THEN "locked" ELSE state[m]
  BY <1>1 DEF Deliver
<1>5. (\A m \in Messages : owner[m] \in Workers => state[m] = "locked")'
  BY <1>4 DEF MessagesOwned
<1>6. (\A v \in Workers : msg[v] \notin batch[v])'
  BY <1>1, <1>2, <1>3, ConstantsAssumption DEF MessagesOwned
<1>7. ASSUME NEW v \in Workers, NEW m \in Messages,
             m \in batch'[v] \/ (msg'[v] = m /\ pc'[v] # "reject")
      PROVE  owner'[m] = v
  <2>1. CASE v = w
    BY <1>1, <1>3, <1>4, <1>7, <2>1, ConstantsAssumption
  <2>2. CASE v # w
    <3>1. owner[m] = v
      BY <1>3, <1>7, <2>2 DEF MessagesOwned
    <3>2. state[m] = "locked"
      BY <3>1 DEF MessagesOwned
    <3>3. m \notin S
      BY <1>2, <3>2
    <3> QED
      BY <1>4, <3>1, <3>3
  <2> QED
    BY <2>1, <2>2
<1> QED
  BY <1>5, <1>6, <1>7 DEF MessagesOwned

\* Settling a message leaves it to nobody, and no batch holds it.
LEMMA OwnedAfterSettle ==
  ASSUME Types, MessagesOwned, NEW w \in Workers, Complete(w) \/ Reject(w)
  PROVE  MessagesOwned'
<1> DEFINE Settled(outcome) == /\ owner[msg[w]] = w
                               /\ state' = [state EXCEPT ![msg[w]] = outcome]
                               /\ owner' = [owner EXCEPT ![msg[w]] = Nobody]
<1>1. /\ \/ UNCHANGED <<state, owner>>
         \/ Settled("completed") \/ Settled("dead")
      /\ \/ AbortPoll(w)
         \/ Raise(w)
         \/ Goto(w, "idle") /\ msg' = [msg EXCEPT ![w] = NoMessage] /\ UNCHANGED batch
  BY DEF Complete, Reject, SettleAs, brokerVars
<1>2. /\ batch'[w] = {} \/ batch'[w] = batch[w]
      /\ msg'[w] = NoMessage \/ (msg'[w] = msg[w] /\ pc'[w] = "reject")
      /\ \A v \in Workers : v # w => pc'[v] = pc[v] /\ msg'[v] = msg[v] /\ batch'[v] = batch[v]
  BY <1>1 DEF AbortPoll, Raise, Advance, Goto, Types, TypeOK
<1>3. msg[w] \in Messages
  BY DEF Complete, Reject, Types, TypeOK, HandlesEvent
<1>4. CASE UNCHANGED <<state, owner>>
  <2> HIDE DEF Settled
  <2>1. \A v \in Workers :
           /\ batch'[v] = {} \/ batch'[v] = batch[v]
           /\ msg'[v] = NoMessage \/ (msg'[v] = msg[v] /\ pc'[v] # "reject" => pc[v] # "reject")
           /\ msg'[v] = NoMessage \/ msg'[v] = msg[v]
    BY <1>2
  <2> QED
    BY <1>4, <2>1, OwnedFrame
<1>5. CASE Settled("completed") \/ Settled("dead")
  <2>1. /\ \A m \in Messages : m # msg[w] => owner'[m] = owner[m] /\ state'[m] = state[m]
        /\ owner'[msg[w]] = Nobody
    BY <1>3, <1>5 DEF Types, TypeOK
  <2>2. (\A m \in Messages : owner[m] \in Workers => state[m] = "locked")'
    BY <2>1, ConstantsAssumption DEF MessagesOwned
  <2>3. (\A v \in Workers : msg[v] \notin batch[v])'
    <3>1. \A v \in Workers : NoMessage \notin batch[v]
      BY ConstantsAssumption DEF Types, TypeOK
    <3> QED
      BY <1>2, <3>1 DEF MessagesOwned
  <2>4. ASSUME NEW v \in Workers, NEW m \in Messages,
               m \in batch'[v] \/ (msg'[v] = m /\ pc'[v] # "reject")
        PROVE  owner'[m] = v
    <3>1. owner[m] = v /\ (v = w => m \in batch[w])
      BY <1>2, <2>4, ConstantsAssumption DEF MessagesOwned
    <3>2. m # msg[w]
      BY <1>5, <3>1 DEF MessagesOwned
    <3> QED
      BY <2>1, <3>1, <3>2
  <2> QED
    BY <2>2, <2>3, <2>4 DEF MessagesOwned
<1> QED
  BY <1>1, <1>4, <1>5

\* Every step keeps the owners, when no peek lock is lost.
LEMMA OwnedStep ==
  ASSUME "peek_lock_lost" \notin Faults, Types, MessagesOwned, [Next]_vars
  PROVE  MessagesOwned'
<1>1. ASSUME NEW w \in Workers, Begin(w) PROVE MessagesOwned'
  <2>1. PICK m \in batch[w] : /\ batch' = [batch EXCEPT ![w] = @ \ {m}]
                              /\ msg' = [msg EXCEPT ![w] = m]
    BY <1>1 DEF Begin
  <2>2. /\ UNCHANGED <<state, owner>> /\ m \in Messages /\ pc[w] = "idle"
        /\ \A v \in Workers : v # w => pc'[v] = pc[v] /\ msg'[v] = msg[v] /\ batch'[v] = batch[v]
        /\ batch'[w] = batch[w] \ {m} /\ msg'[w] = m
    BY <1>1, <2>1 DEF Begin, Goto, brokerVars, Types, TypeOK
  <2>3. (\A k \in Messages : owner[k] \in Workers => state[k] = "locked")'
    BY <2>2 DEF MessagesOwned
  <2>4. (\A v \in Workers : msg[v] \notin batch[v])'
    BY <2>2 DEF MessagesOwned
  <2>5. ASSUME NEW v \in Workers, NEW k \in Messages,
               k \in batch'[v] \/ (msg'[v] = k /\ pc'[v] # "reject")
        PROVE  owner'[k] = v
    BY <2>1, <2>2, <2>5 DEF MessagesOwned
  <2> QED
    BY <2>3, <2>4, <2>5 DEF MessagesOwned
<1>2. ASSUME NEW w \in Workers,
             \/ Lookup(w) \/ Ingest(w) \/ SetSnapshot(w) \/ ReadHistory(w) \/ WriteHistory(w)
             \/ Publish(w) \/ Mark(w) \/ Crash(w)
      PROVE  MessagesOwned'
  <2>1. pc[w] # "reject" \/ AbortPoll(w)
    BY <1>2 DEF Lookup, Ingest, SetSnapshot, ReadHistory, WriteHistory, Publish, Mark, Crash,
                brokerVars
  <2>2. UNCHANGED <<state, owner>>
    BY <1>2 DEF Lookup, Ingest, SetSnapshot, ReadHistory, WriteHistory, Publish, Mark, Crash,
                brokerVars
  <2>3. AbortPoll(w) \/ \E step : Advance(w, step)
    BY <1>2 DEF Lookup, Ingest, SetSnapshot, ReadHistory, WriteHistory, Publish, Mark, Crash, Raise
  <2>4. /\ batch'[w] = {} \/ batch'[w] = batch[w]
        /\ msg'[w] = NoMessage \/ (msg'[w] = msg[w] /\ pc[w] # "reject")
        /\ \A v \in Workers : v # w => pc'[v] = pc[v] /\ msg'[v] = msg[v] /\ batch'[v] = batch[v]
    BY <2>1, <2>3 DEF AbortPoll, Advance, Goto, Types, TypeOK
  <2> QED
    <3>1. \A v \in Workers :
             /\ batch'[v] = {} \/ batch'[v] = batch[v]
             /\ msg'[v] = NoMessage \/ (msg'[v] = msg[v] /\ pc'[v] # "reject" => pc[v] # "reject")
             /\ msg'[v] = NoMessage \/ msg'[v] = msg[v]
      BY <2>4
    <3> QED
      BY <2>2, <3>1, OwnedFrame
<1>3. ASSUME NEW m \in Messages, PeekLockExpires(m) PROVE MessagesOwned'
  <2>1. /\ \A k \in Messages : k # m => owner'[k] = owner[k] /\ state'[k] = state[k]
        /\ owner'[m] = Nobody /\ UNCHANGED <<pc, batch, msg>>
        /\ ~Handling(owner[m], m)
    BY <1>3 DEF PeekLockExpires, loopVars, Types, TypeOK
  <2>2. (\A k \in Messages : owner[k] \in Workers => state[k] = "locked")'
    BY <2>1, ConstantsAssumption DEF MessagesOwned
  <2>3. (\A v \in Workers : msg[v] \notin batch[v])'
    BY <2>1 DEF MessagesOwned
  <2>4. ASSUME NEW v \in Workers, NEW k \in Messages,
               k \in batch'[v] \/ (msg'[v] = k /\ pc'[v] # "reject")
        PROVE  owner'[k] = v
    <3>1. owner[k] = v /\ Handling(v, k)
      BY <2>1, <2>4 DEF MessagesOwned, Handling
    <3>2. k # m
      BY <2>1, <3>1
    <3> QED
      BY <2>1, <3>1, <3>2
  <2> QED
    BY <2>2, <2>3, <2>4 DEF MessagesOwned
<1>4. CASE (\E k \in Keys : WindowPasses(k)) \/ UNCHANGED vars
  BY <1>4 DEF WindowPasses, vars, loopVars, brokerVars, MessagesOwned
<1> QED
  BY <1>1, <1>2, <1>3, <1>4, OwnedAfterReceive, OwnedAfterSettle DEF Next, Step

\* A sole replica does not process an event twice: nobody else marks it while it is in
\* the try block, and the marker is looked at before.
LEMMA UnprocessedStep ==
  ASSUME SoleReplica, Types, OpenIsUnprocessed, [Next]_vars
  PROVE  OpenIsUnprocessed'
<1> DEFINE Open == {"ingest", "snapshot", "read", "write", "publish", "mark"}
<1>1. ASSUME UNCHANGED <<pc, msg, processed>> PROVE OpenIsUnprocessed'
  BY <1>1 DEF OpenIsUnprocessed, Key
<1>2. ASSUME NEW w \in Workers, pc'[w] \notin Open PROVE OpenIsUnprocessed'
  BY <1>2 DEF OpenIsUnprocessed, SoleReplica
<1>3. ASSUME NEW w \in Workers,
             \/ Ingest(w) \/ SetSnapshot(w) \/ ReadHistory(w) \/ WriteHistory(w) \/ Publish(w)
      PROVE  OpenIsUnprocessed'
  <2>1. msg' = msg /\ processed' = processed /\ pc[w] \in Open
    BY <1>3 DEF Ingest, SetSnapshot, ReadHistory, WriteHistory, Publish, Raise, Advance, cacheVars
  <2>2. Key(w) \notin processed
    BY <2>1 DEF OpenIsUnprocessed
  <2> QED
    BY <2>1, <2>2 DEF OpenIsUnprocessed, SoleReplica, Key
<1>4. ASSUME NEW w \in Workers, Lookup(w) PROVE OpenIsUnprocessed'
  <2>1. \/ pc'[w] \notin Open
        \/ msg' = msg /\ processed' = processed /\ Key(w) \notin processed
    BY <1>4 DEF Lookup, Process, Advance, AbortPoll, Goto, cacheVars, Types, TypeOK
  <2> QED
    BY <1>2, <2>1 DEF OpenIsUnprocessed, SoleReplica, Key
<1>5. ASSUME NEW w \in Workers,
             Mark(w) \/ ReceiveRaises(w) \/ Begin(w) \/ Complete(w) \/ Reject(w) \/ Crash(w)
      PROVE  OpenIsUnprocessed'
  <2>1. pc'[w] \notin Open
    BY <1>5 DEF Mark, ReceiveRaises, Begin, Complete, Reject, Crash, SettleAs, Raise, Advance,
                AbortPoll, Goto, Types, TypeOK
  <2> QED
    BY <1>2, <2>1
<1>6. CASE \/ \E w \in Workers : Receive(w)
           \/ \E m \in Messages : PeekLockExpires(m)
           \/ \E k \in Keys : WindowPasses(k)
           \/ UNCHANGED vars
  BY <1>1, <1>6 DEF Receive, PeekLockExpires, WindowPasses, vars, loopVars, cacheVars
<1> QED
  BY <1>3, <1>4, <1>5, <1>6 DEF Next, Step

-----------------------------------------------------------------------------
(* One replica: each step is one of EventDelivery *)

\* What EventDelivery sees of the messages.
Outcomes == [m \in Messages |-> IF state[m] \in {"ready", "locked"} THEN "open" ELSE state[m]]

\* An event's only output is its signal.
LEMMA OneOutput == \A k \in Keys : Delivery!OutputSet(k) = {k}
BY DEF Delivery!OutputSet

\* EventDelivery does not see a step that changes no outcome, marker or signal.
LEMMA DeliveryStutter ==
  ASSUME Outcomes' = Outcomes, UNCHANGED <<signals, processed>>
  PROVE  UNCHANGED Delivery!vars
BY DEF Delivery!vars, Outcomes

\* The message a replica handles in the try block is open and carries its event.
LEMMA OpenCopy ==
  ASSUME SoleInv, NEW w \in Workers, pc[w] \in {"publish", "mark"}
  PROVE  Key(w) \in Keys /\ Delivery!Copies(Key(w), {"open"}) # {}
<1>1. Key(w) \in Keys /\ msg[w] \in Messages
  BY DEF SoleInv, Inv, Types, TypeOK, HandlesEvent
<1>2. state[msg[w]] = "locked"
  BY <1>1 DEF SoleInv, MessagesOwned
<1>3. msg[w] \in Delivery!Copies(Key(w), {"open"})
  BY <1>1, <1>2 DEF Delivery!Copies, Key
<1> QED
  BY <1>1, <1>3

\* Publishing is publishing an output of an event that is not done, or is not seen
\* because the topic still remembers the signal.
LEMMA PublishDelivers ==
  ASSUME SoleInv, NEW w \in Workers, Publish(w)
  PROVE  Delivery!Next \/ UNCHANGED Delivery!vars
<1>1. pc[w] = "publish" /\ UNCHANGED <<state, processed>>
  BY DEF Publish, brokerVars, cacheVars
<1>2. Outcomes' = Outcomes
  BY <1>1 DEF Outcomes
<1>3. CASE UNCHANGED signals
  BY <1>1, <1>2, <1>3, DeliveryStutter
<1>4. CASE signals' = [signals EXCEPT ![Key(w)] = @ + 1]
  <2>1. Key(w) \in Keys /\ Delivery!Copies(Key(w), {"open"}) # {}
    BY <1>1, OpenCopy
  <2>2. Key(w) \notin processed
    BY <1>1 DEF SoleInv, OpenIsUnprocessed
  <2>3. Delivery!Publish(Key(w), Key(w))
    BY <1>1, <1>2, <1>4, <2>1, <2>2, OneOutput DEF Delivery!Publish, Outcomes
  <2> QED
    BY <2>1, <2>3 DEF Delivery!Next
<1>5. Accepted(Key(w)) => \/ UNCHANGED signals
                          \/ signals' = [signals EXCEPT ![Key(w)] = @ + 1]
  <2>1. signals \in [Keys -> Nat]
    BY DEF SoleInv, Inv, Types, TypeOK
  <2> QED
    BY <2>1 DEF Accepted
<1> QED
  BY <1>3, <1>4, <1>5 DEF Publish, topicVars

\* Marking an event makes it done: its signal was accepted before.
LEMMA MarkDelivers ==
  ASSUME SoleInv, NEW w \in Workers, Mark(w)
  PROVE  Delivery!Next \/ UNCHANGED Delivery!vars
<1>1. pc[w] = "mark" /\ UNCHANGED <<state, signals>>
  BY DEF Mark, brokerVars, topicVars
<1>2. Outcomes' = Outcomes
  BY <1>1 DEF Outcomes
<1>3. CASE processed' = processed
  BY <1>1, <1>2, <1>3, DeliveryStutter
<1>4. CASE processed' = processed \cup {Key(w)}
  <2>1. Key(w) \in Keys /\ Delivery!Copies(Key(w), {"open"}) # {}
    BY <1>1, OpenCopy
  <2>2. signals[Key(w)] > 0
    BY <1>1 DEF SoleInv, Inv, DoneSoFar, Done
  <2>3. Delivery!MarkDone(Key(w))
    BY <1>1, <1>2, <1>4, <2>1, <2>2, OneOutput DEF Delivery!MarkDone, Outcomes
  <2> QED
    BY <2>1, <2>3 DEF Delivery!Next
<1> QED
  BY <1>3, <1>4 DEF Mark

\* A message is completed when its event is processed, or dead-lettered.
LEMMA SettleDelivers ==
  ASSUME SoleInv, NEW w \in Workers, Complete(w) \/ Reject(w)
  PROVE  Delivery!Next \/ UNCHANGED Delivery!vars
<1>1. msg[w] \in Messages /\ state \in [Messages -> {"ready", "locked", "completed", "dead"}]
  BY DEF Complete, Reject, SoleInv, Inv, Types, TypeOK, HandlesEvent
<1>2. UNCHANGED <<signals, processed>>
  BY DEF Complete, Reject, cacheVars, topicVars
<1>3. ASSUME owner[msg[w]] = w PROVE Outcomes[msg[w]] = "open"
  BY <1>1, <1>3 DEF SoleInv, MessagesOwned, Outcomes
<1>4. CASE UNCHANGED state
  <2>1. Outcomes' = Outcomes
    BY <1>4 DEF Outcomes
  <2> QED
    BY <1>2, <2>1, DeliveryStutter
<1>5. CASE /\ Complete(w) /\ owner[msg[w]] = w
           /\ state' = [state EXCEPT ![msg[w]] = "completed"]
  <2>1. Key(w) \in processed
    BY <1>5 DEF Complete, SoleInv, Inv, DoneSoFar, Done
  <2>2. Key(w) # NoKey
    BY <2>1, ConstantsAssumption DEF SoleInv, Inv, Types, TypeOK
  <2>3. Outcomes' = [Outcomes EXCEPT ![msg[w]] = "completed"]
    BY <1>1, <1>5 DEF Outcomes
  <2>4. ASSUME NEW m \in Messages, m = msg[w] PROVE Delivery!Complete(m)
    BY <1>2, <1>3, <1>5, <2>1, <2>2, <2>3, <2>4 DEF Delivery!Complete, Outcomes, Key
  <2> QED
    BY <1>1, <2>4 DEF Delivery!Next
<1>6. CASE /\ Reject(w) /\ owner[msg[w]] = w
           /\ state' = [state EXCEPT ![msg[w]] = "dead"]
  <2>1. Outcomes' = [Outcomes EXCEPT ![msg[w]] = "dead"]
    BY <1>1, <1>6 DEF Outcomes
  <2>2. ASSUME NEW m \in Messages, m = msg[w] PROVE Delivery!DeadLetter(m)
    BY <1>2, <1>3, <1>6, <2>1, <2>2 DEF Delivery!DeadLetter, Outcomes
  <2> QED
    BY <1>1, <2>2 DEF Delivery!Next
<1> QED
  BY <1>4, <1>5, <1>6 DEF Complete, Reject, SettleAs, brokerVars

\* Every step of the service is a step of EventDelivery or leaves it as it is.
LEMMA DeliveryStep ==
  ASSUME SoleInv, [Next]_vars
  PROVE  Delivery!Next \/ UNCHANGED Delivery!vars
<1>1. ASSUME NEW w \in Workers, Publish(w) \/ Mark(w) \/ Complete(w) \/ Reject(w)
      PROVE  Delivery!Next \/ UNCHANGED Delivery!vars
  BY <1>1, PublishDelivers, MarkDelivers, SettleDelivers
<1>2. ASSUME NEW w \in Workers, Receive(w) \/ ReceiveRaises(w)
      PROVE  UNCHANGED Delivery!vars
  <2>1. PICK S \in Batches : Deliver(w, S)
    BY <1>2 DEF Receive, ReceiveRaises
  <2>2. UNCHANGED <<signals, processed>>
    BY <1>2 DEF Receive, ReceiveRaises, cacheVars, topicVars
  <2>3. \A m \in Messages :
          state'[m] = state[m] \/ (state[m] = "ready" /\ state'[m] = "locked")
    BY <2>1 DEF Deliver, Batches, Available
  <2>4. Outcomes' = Outcomes
    BY <2>3 DEF Outcomes
  <2> QED
    BY <2>2, <2>4, DeliveryStutter
<1>3. ASSUME NEW m \in Messages, PeekLockExpires(m)
      PROVE  Delivery!Next \/ UNCHANGED Delivery!vars
  <2>1. /\ UNCHANGED <<signals, processed>> /\ state[m] = "locked"
        /\ state \in [Messages -> {"ready", "locked", "completed", "dead"}]
    BY <1>3 DEF PeekLockExpires, cacheVars, topicVars, SoleInv, Inv, Types, TypeOK
  <2>2. CASE state' = [state EXCEPT ![m] = "ready"]
    <3>1. Outcomes' = Outcomes
      BY <2>1, <2>2 DEF Outcomes
    <3> QED
      BY <2>1, <3>1, DeliveryStutter
  <2>3. CASE state' = [state EXCEPT ![m] = "dead"]
    <3>1. Outcomes' = [Outcomes EXCEPT ![m] = "dead"]
      BY <2>1, <2>3 DEF Outcomes
    <3>2. Delivery!DeadLetter(m)
      BY <2>1, <3>1 DEF Delivery!DeadLetter, Outcomes
    <3> QED
      BY <3>2 DEF Delivery!Next
  <2> QED
    BY <1>3, <2>2, <2>3 DEF PeekLockExpires
<1>4. CASE UNCHANGED <<state, signals, processed>>
  <2>1. Outcomes' = Outcomes
    BY <1>4 DEF Outcomes
  <2> QED
    BY <1>4, <2>1, DeliveryStutter
<1>5. ASSUME NEW w \in Workers,
             \/ Begin(w) \/ Lookup(w) \/ Ingest(w) \/ SetSnapshot(w) \/ ReadHistory(w)
             \/ WriteHistory(w) \/ Crash(w)
      PROVE  Delivery!Next \/ UNCHANGED Delivery!vars
  <2>1. UNCHANGED <<state, signals, processed>>
    BY <1>5 DEF Begin, Lookup, Ingest, SetSnapshot, ReadHistory, WriteHistory, Crash, brokerVars,
                cacheVars, topicVars
  <2> QED
    BY <1>4, <2>1
<1>6. CASE (\E k \in Keys : WindowPasses(k)) \/ UNCHANGED vars
  BY <1>4, <1>6 DEF WindowPasses, vars, brokerVars, cacheVars, topicVars
<1> QED
  BY <1>1, <1>2, <1>3, <1>5, <1>6 DEF Next, Step

\* The initial state is one of EventDelivery, and satisfies the invariants.
LEMMA InitSole == Init => ListInv /\ SoleInv /\ Delivery!Init
<1> SUFFICES ASSUME Init PROVE ListInv /\ SoleInv /\ Delivery!Init
  OBVIOUS
<1>1. ListInv
  BY DEF Init, ListInv, ReadIsCurrent, ListedBeforeMarked, HistoryListsProcessed
<1>2. MessagesOwned /\ OpenIsUnprocessed
  BY ConstantsAssumption DEF Init, MessagesOwned, OpenIsUnprocessed
<1>3. Delivery!Init
  BY DEF Init, Delivery!Init
<1> QED
  BY <1>1, <1>2, <1>3, InitInv DEF SoleInv

-----------------------------------------------------------------------------
(* Theorems about a sole replica *)

\* While the cached history has dropped no row it lists every processed event, whatever
\* fails, stops or is redelivered (storage/cache.py: append_history; service.py:318-336).
\* With a second replica the two awaits of append_history may lose an event.
THEOREM SoleHistoryComplete ==
  ASSUME SoleReplica
  PROVE  Spec => []HistoryListsProcessed
<1>1. Init => ListInv
  BY InitSole
<1>2. Types /\ ListInv /\ [Next]_vars => ListInv'
  BY ListStep
<1>3. Inv => Types
  BY DEF Inv
<1>4. ListInv => HistoryListsProcessed
  BY DEF ListInv
<1> QED
  BY <1>1, <1>2, <1>3, <1>4, InvHolds, PTL DEF Spec

\* A replica that keeps its peek locks implements EventDelivery with a signal as an
\* event's output: whatever else fails and wherever it stops, it publishes nothing for
\* an event that is final or has no open message, and completes no other message.
THEOREM SoleRefinesDelivery ==
  ASSUME SoleReplica, "peek_lock_lost" \notin Faults
  PROVE  Spec => ImplementsDelivery
<1>1. Init => SoleInv /\ Delivery!Init
  BY InitSole
<1>2. SoleInv /\ Inv' /\ [Next]_vars => SoleInv'
  BY OwnedStep, UnprocessedStep DEF SoleInv, Inv
<1>3. SoleInv /\ [Next]_vars => [Delivery!Next]_(Delivery!vars)
  BY DeliveryStep
<1> QED
  BY <1>1, <1>2, <1>3, InvHolds, PTL DEF Spec, ImplementsDelivery, Delivery!Spec

-----------------------------------------------------------------------------
(* Rows and the order of rows *)

\* The events of messages that validate are numbers, so rows have an order.
LEMMA KeysAreNumbers == \A m \in Valid : KeyOf[m] \in Keys /\ KeyOf[m] \in Nat
BY ConstantsAssumption DEF Valid

\* The rows a message may have, and all rows.
RowsOf(m) == {<<KeyOf[m], place, number, m>> : place \in Nat, number \in Nat}
Rows == UNION {RowsOf(m) : m \in Valid}
LaterThan(U, r) == {s \in U : Later(s, r)}
Rank(U) == [r \in U |-> Cardinality(LaterThan(U, r))]

\* The rows of one message are ordered by where they come from and their number there.
LEMMA LaterIsTotal ==
  ASSUME NEW m
  PROVE  /\ \A r \in RowsOf(m) : ~Later(r, r)
         /\ \A r, s \in RowsOf(m) : r # s => Later(r, s) \/ Later(s, r)
         /\ \A r, s, t \in RowsOf(m) : Later(r, s) /\ Later(s, t) => Later(r, t)
<1>1. \A r \in RowsOf(m) : r[2] \in Nat /\ r[3] \in Nat /\ r = <<KeyOf[m], r[2], r[3], m>>
  BY DEF RowsOf
<1>2. \A r \in RowsOf(m) : ~Later(r, r)
  BY <1>1 DEF Later
<1>3. ASSUME NEW r \in RowsOf(m), NEW s \in RowsOf(m), r # s PROVE Later(r, s) \/ Later(s, r)
  <2>1. r[2] # s[2] \/ r[3] # s[3]
    BY <1>1, <1>3
  <2> QED
    BY <1>1, <2>1 DEF Later
<1>4. ASSUME NEW r \in RowsOf(m), NEW s \in RowsOf(m), NEW t \in RowsOf(m),
             Later(r, s), Later(s, t)
      PROVE  Later(r, t)
  BY <1>1, <1>4 DEF Later
<1> QED
  BY <1>2, <1>3, <1>4

\* A later row has fewer rows later than itself.
LEMMA LaterRanksLower ==
  ASSUME NEW m, NEW U \in SUBSET RowsOf(m), IsFiniteSet(U), NEW r \in U, NEW s \in U,
         Later(r, s)
  PROVE  Rank(U)[r] < Rank(U)[s]
<1>1. /\ LaterThan(U, r) \in SUBSET LaterThan(U, s) /\ LaterThan(U, s) \in SUBSET U
      /\ r \in LaterThan(U, s) /\ r \notin LaterThan(U, r)
  BY LaterIsTotal DEF LaterThan
<1>2. IsFiniteSet(LaterThan(U, s)) /\ IsFiniteSet(LaterThan(U, r))
  BY <1>1, FS_Subset
<1>3. /\ Cardinality(LaterThan(U, r)) <= Cardinality(LaterThan(U, s))
      /\ Cardinality(LaterThan(U, r)) # Cardinality(LaterThan(U, s))
  BY <1>1, <1>2, FS_Subset
<1>4. Cardinality(LaterThan(U, r)) \in Nat /\ Cardinality(LaterThan(U, s)) \in Nat
  BY <1>2, FS_CardinalityType
<1> QED
  BY <1>3, <1>4 DEF Rank

\* The ranks of finitely many rows of one message count from 0 without gaps.
LEMMA RanksHaveNoGaps ==
  ASSUME NEW m, NEW U \in SUBSET RowsOf(m), IsFiniteSet(U)
  PROVE  /\ Cardinality(U) \in Nat
         /\ \A r \in U : Rank(U)[r] \in 0..Cardinality(U) - 1
         /\ \A r, s \in U : Rank(U)[r] = Rank(U)[s] => r = s
         /\ \A i \in 0..Cardinality(U) - 1 : \E r \in U : Rank(U)[r] = i
<1> DEFINE n == Cardinality(U)
           R == 0..n - 1
<1>1. n \in Nat
  BY FS_CardinalityType
<1>2. ASSUME NEW r \in U PROVE Rank(U)[r] \in R
  <2>1. LaterThan(U, r) \in SUBSET U /\ LaterThan(U, r) # U
    BY LaterIsTotal DEF LaterThan
  <2>2. /\ Cardinality(LaterThan(U, r)) <= n /\ Cardinality(LaterThan(U, r)) # n
        /\ IsFiniteSet(LaterThan(U, r))
    BY <2>1, FS_Subset
  <2>3. Cardinality(LaterThan(U, r)) \in Nat
    BY <2>2, FS_CardinalityType
  <2> QED
    BY <1>1, <2>2, <2>3 DEF Rank
<1>3. ASSUME NEW r \in U, NEW s \in U, Rank(U)[r] = Rank(U)[s], r # s PROVE FALSE
  <2>1. Later(r, s) \/ Later(s, r)
    BY <1>3, LaterIsTotal
  <2>2. Rank(U)[r] < Rank(U)[s] \/ Rank(U)[s] < Rank(U)[r]
    BY <2>1, LaterRanksLower
  <2> QED
    BY <1>1, <1>2, <1>3, <2>2
<1>4. \A i \in R : \E r \in U : Rank(U)[r] = i
  <2>1. Rank(U) \in Injection(U, R)
    BY <1>2, <1>3 DEF Injection, IsInjective, Rank
  <2>2. IsFiniteSet(R) /\ Cardinality(R) = n
    BY <1>1, FS_Interval
  <2>3. Rank(U) \in Surjection(U, R)
    BY <2>1, <2>2, FS_Injection, SMTT(30)
  <2> QED
    BY <2>3 DEF Surjection
<1> QED
  BY <1>1, <1>2, <1>3, <1>4

\* Of the rows a message has there is a latest one.
LEMMA LatestRow ==
  ASSUME NEW m, NEW U \in SUBSET RowsOf(m), IsFiniteSet(U), U # {}
  PROVE  \E r \in U : \A s \in U : ~Later(s, r)
<1>1. Cardinality(U) \in Nat \ {0}
  BY FS_CardinalityType, FS_EmptySet
<1>2. PICK r \in U : Rank(U)[r] = 0
  <2>1. 0 \in 0..Cardinality(U) - 1
    BY <1>1
  <2> QED
    BY <2>1, RanksHaveNoGaps
<1>3. LaterThan(U, r) = {}
  <2>1. IsFiniteSet(LaterThan(U, r))
    BY FS_Subset DEF LaterThan
  <2> QED
    BY <1>2, <2>1, FS_EmptySet DEF Rank
<1> QED
  BY <1>3 DEF LaterThan

-----------------------------------------------------------------------------
(* What the queries read *)

\* The snapshot shows an event that has both its rows: a replica writes them first.
ShownIsStored == snapshot # NoKey => HasRows(snapshot)

\* The store has a newest message, and a largest number of rows of one.
IsBound(b) ==
  \A m \in Valid :
    /\ ticks[m] > 0 \/ indicators[m] > 0 => m <= b
    /\ ticks[m] <= b /\ indicators[m] <= b
Bounded == \E b \in Nat : IsBound(b)

\* Only an event whose rows are there comes into the snapshot.
LEMMA ShownStep == Inv /\ ShownIsStored /\ [Next]_vars => ShownIsStored'
<1> SUFFICES ASSUME Inv, ShownIsStored, [Next]_vars PROVE ShownIsStored'
  OBVIOUS
<1>1. Grows /\ snapshot \in Keys \cup {NoKey}
  BY GrowsStep DEF Inv, Types, TypeOK
<1>2. ASSUME UNCHANGED snapshot PROVE ShownIsStored'
  BY <1>1, <1>2, RowsStay DEF ShownIsStored
<1>3. ASSUME NEW w \in Workers, SetSnapshot(w) PROVE ShownIsStored'
  <2>1. UNCHANGED storeVars /\ (snapshot' = Key(w) \/ UNCHANGED snapshot)
    BY <1>3 DEF SetSnapshot
  <2>2. HasRows(Key(w))
    BY <1>3 DEF SetSnapshot, Inv, DoneSoFar, Done, Types, HandlesEvent, HasRows, Key
  <2> QED
    BY <1>2, <2>1, <2>2 DEF ShownIsStored, HasRows, storeVars
<1>4. (\E w \in Workers : SetSnapshot(w)) \/ UNCHANGED snapshot
  BY DEF Next, Step, Receive, ReceiveRaises, Begin, Lookup, Ingest, ReadHistory, WriteHistory,
         Publish, Mark, Complete, Reject, Crash, PeekLockExpires, WindowPasses, vars, cacheVars
<1> QED
  BY <1>2, <1>3, <1>4

\* An ingest raises the bound as far as its message and the rows of it.
LEMMA BoundedStep == Types /\ Bounded /\ [Next]_vars => Bounded'
<1> SUFFICES ASSUME Types, Bounded, [Next]_vars PROVE Bounded'
  OBVIOUS
<1>1. CASE UNCHANGED storeVars
  BY <1>1 DEF Bounded, IsBound, storeVars
<1>2. ASSUME NEW w \in Workers, Ingest(w) PROVE Bounded'
  <2>1. /\ msg[w] \in Valid /\ Valid \subseteq Nat
        /\ ticks \in [Valid -> Nat] /\ indicators \in [Valid -> Nat]
    BY <1>2, ConstantsAssumption DEF Ingest, Types, TypeOK, HandlesEvent, Valid
  <2>2. /\ ticks' = ticks \/ ticks' = [ticks EXCEPT ![msg[w]] = @ + 1]
        /\ indicators' = indicators \/ indicators' = [indicators EXCEPT ![msg[w]] = @ + 1]
    BY <1>2 DEF Ingest, storeVars
  <2>3. PICK b \in Nat : IsBound(b)
    BY DEF Bounded
  <2>4. PICK n \in Valid : n = msg[w]
    BY <2>1
  <2>5. PICK c \in Nat : c = b + n + 1
    BY <2>1
  <2>6. ASSUME NEW m \in Valid
        PROVE  /\ ticks'[m] > 0 \/ indicators'[m] > 0 => m <= c
               /\ ticks'[m] <= c /\ indicators'[m] <= c
    <3>1. m \in Nat /\ n \in Nat /\ ticks[m] \in Nat /\ indicators[m] \in Nat
      BY <2>1
    <3>2. /\ ticks'[m] = ticks[m] \/ ticks'[m] = ticks[m] + 1
          /\ indicators'[m] = indicators[m] \/ indicators'[m] = indicators[m] + 1
          /\ m # n => ticks'[m] = ticks[m] /\ indicators'[m] = indicators[m]
      BY <2>1, <2>2, <2>4
    <3>3. /\ ticks[m] <= b /\ indicators[m] <= b
          /\ ticks[m] > 0 \/ indicators[m] > 0 => m <= b
      BY <2>3 DEF IsBound
    <3> QED
      BY <2>5, <3>1, <3>2, <3>3
  <2>7. IsBound(c)'
    BY <2>6 DEF IsBound
  <2> QED
    BY <2>7 DEF Bounded
<1>3. (\E w \in Workers : Ingest(w)) \/ UNCHANGED storeVars
  BY DEF Next, Step, Receive, ReceiveRaises, Begin, Lookup, SetSnapshot, ReadHistory, WriteHistory,
         Publish, Mark, Complete, Reject, Crash, PeekLockExpires, WindowPasses, vars
<1> QED
  BY <1>1, <1>2, <1>3

\* A table has finitely many rows, and one at least for an event stored in it.
LEMMA TableIsFinite ==
  ASSUME Types, Bounded, NEW table \in Tables
  PROVE  /\ IsFiniteSet(TableRows(table)) /\ TableRows(table) \subseteq Rows
         /\ Stored(table) = {r[1] : r \in TableRows(table)}
         /\ \A r \in TableRows(table) : r[2] = 0
<1>1. PICK b \in Nat : IsBound(b)
  BY DEF Bounded
<1> DEFINE P == {p \in (0..b) \X (0..b) : p[1] \in Valid /\ p[2] \in 1..Table[table][p[1]]}
           f == [p \in P |-> <<KeyOf[p[1]], 0, p[2], p[1]>>]
<1>2. /\ Valid \subseteq Nat /\ Table[table] \in [Valid -> Nat]
      /\ \A m \in Valid : Table[table][m] <= b /\ (Table[table][m] > 0 => m <= b)
  <2>1. Valid \subseteq Nat
    BY ConstantsAssumption DEF Valid
  <2>2. ticks \in [Valid -> Nat] /\ indicators \in [Valid -> Nat]
    BY DEF Types, TypeOK
  <2>3. \/ table = "ticks" /\ Table[table] = ticks
        \/ table = "indicators" /\ Table[table] = indicators
    BY DEF Tables, Table
  <2> QED
    BY <1>1, <2>1, <2>2, <2>3 DEF IsBound
<1>3. IsFiniteSet(P)
  <2>1. IsFiniteSet(0..b)
    BY FS_Interval
  <2>2. IsFiniteSet((0..b) \X (0..b))
    BY <2>1, FS_Product
  <2> QED
    BY <2>2, FS_Subset
<1>4. ASSUME NEW r \in TableRows(table)
      PROVE  /\ \E p \in P : f[p] = r
             /\ r \in Rows /\ r[1] \in Stored(table) /\ r[2] = 0
  <2>0. PICK m \in Valid : r \in {<<KeyOf[m], 0, i, m>> : i \in 1..Table[table][m]}
    BY DEF TableRows
  <2>1. PICK i \in 1..Table[table][m] : r = <<KeyOf[m], 0, i, m>>
    BY <2>0
  <2>2. m \in Nat /\ i \in Nat /\ m <= b /\ i <= b /\ Table[table][m] > 0
    BY <1>2, <2>1
  <2>3. <<m, i>> \in P /\ f[<<m, i>>] = r
    BY <2>1, <2>2
  <2>4. r \in Rows
    <3>1. r \in RowsOf(m)
      BY <2>1, <2>2 DEF RowsOf
    <3> QED
      BY <3>1 DEF Rows
  <2>5. r[1] \in Stored(table)
    BY <2>1, <2>2 DEF Stored
  <2>6. r[2] = 0
    BY <2>1
  <2> HIDE DEF P, f
  <2> QED
    BY <2>3, <2>4, <2>5, <2>6
<1>5. f \in [P -> TableRows(table)]
  BY DEF TableRows
<1>6. f \in Surjection(P, TableRows(table))
  BY <1>4, <1>5 DEF Surjection
<1>7. ASSUME NEW k \in Stored(table) PROVE \E r \in TableRows(table) : r[1] = k
  <2>1. PICK m \in Valid : KeyOf[m] = k /\ Table[table][m] > 0
    BY DEF Stored
  <2>2. 1 \in 1..Table[table][m]
    BY <1>2, <2>1
  <2>3. <<k, 0, 1, m>> \in TableRows(table)
    BY <2>1, <2>2 DEF TableRows
  <2> QED
    BY <2>3
<1>8. Stored(table) = {r[1] : r \in TableRows(table)}
  BY <1>4, <1>7
<1> QED
  BY <1>3, <1>4, <1>6, <1>8, FS_Surjection
-----------------------------------------------------------------------------
(* Latest rows and symbols *)

\* The request has the names of the tables, or found no snapshot: what it should know
\* of is in the tables it will read.
WillFind ==
  /\ stage = "missed" =>
       \E table \in Tables :
         asked = [kind |-> "latest", table |-> table] /\ due \subseteq Stored(table)
  /\ stage = "tables" =>
       \E known \in SUBSET Tables :
         /\ asked = [kind |-> "symbols", tables |-> known]
         /\ due \subseteq UNION {Stored(table) : table \in known}

StoredEvents == Stored("ticks") \cup Stored("indicators")

\* A symbol request has the rows of the store.
HasFound ==
  stage = "stored" /\ Asks("symbols") =>
    /\ due # {} => rows # {}
    /\ \A r \in rows : r[1] \in StoredEvents

Answered == stage \in {"stored", "served"} => asked \in Requests

QueryInv == Inv /\ ShownIsStored /\ Bounded
LatestInv == WillFind /\ HasFound /\ Answered /\ LatestServed

\* A request says of which kind it is.
LEMMA RequestKinds ==
  /\ \A q \in HistoryRequests : q.kind = "history" /\ q # NoLimit
  /\ \A q \in LatestRequests : q.kind = "latest" /\ q # NoLimit /\ q.table \in Tables
  /\ \A q \in SymbolRequests : q.kind = "symbols" /\ q # NoLimit /\ q.tables \in SUBSET Tables
BY QueryAssumption DEF HistoryRequests, LatestRequests, SymbolRequests, Requests

\* What is stored stays stored.
LEMMA StoredGrows ==
  ASSUME Inv, [Next]_vars
  PROVE  /\ Stored("ticks") \subseteq Stored("ticks")'
         /\ Stored("indicators") \subseteq Stored("indicators")'
BY GrowsStep DEF Inv, Grows, Stored, Table

\* A table that has rows has one newest row, of an event no older than the others.
LEMMA NewestIsThere ==
  ASSUME Types, Bounded, NEW table \in Tables, NEW L \in Limited(TableRows(table), 1)
  PROVE  /\ Stored(table) # {} => L # {}
         /\ Cardinality(L) <= 1
         /\ \A r \in L : r[1] \in Stored(table) /\ \A k \in Stored(table) : k <= r[1]
<1> DEFINE T == TableRows(table)
<1>1. /\ IsFiniteSet(T) /\ Stored(table) = {r[1] : r \in T}
      /\ Stored(table) \subseteq Nat
  <2>1. Stored(table) \subseteq Nat
    BY KeysAreNumbers DEF Stored
  <2> QED
    BY <2>1, TableIsFinite
<1>2. /\ L \in SUBSET T /\ Cardinality(L) <= 1 /\ (L # T => Cardinality(L) = 1)
      /\ \A r \in L, s \in T \ L : s[1] <= r[1]
  BY QueryAssumption DEF Limited
<1> HIDE DEF T
<1>3. IsFiniteSet(L) /\ Cardinality(L) \in Nat
  BY <1>1, <1>2, FS_Subset, FS_CardinalityType
<1>4. ASSUME T # {} PROVE L # {}
  <2>1. CASE L = T
    BY <1>4, <2>1
  <2>2. CASE L # T
    BY <1>2, <2>2, FS_EmptySet
  <2> QED
    BY <2>1, <2>2
<1>5. ASSUME NEW r \in L, NEW s \in L PROVE r = s
  <2>1. Cardinality(L \ {r}) = Cardinality(L) - 1 /\ IsFiniteSet(L \ {r})
    BY <1>3, FS_RemoveElement
  <2>2. Cardinality(L \ {r}) \in Nat
    BY <2>1, FS_CardinalityType
  <2>3. Cardinality(L \ {r}) = 0
    BY <1>2, <1>3, <2>1, <2>2
  <2>4. L \ {r} = {}
    BY <2>1, <2>3, FS_EmptySet
  <2> QED
    BY <2>4
<1>6. ASSUME NEW r \in L
      PROVE  r[1] \in Stored(table) /\ \A k \in Stored(table) : k <= r[1]
  <2>1. r[1] \in Stored(table)
    BY <1>1, <1>2
  <2>2. ASSUME NEW k \in Stored(table) PROVE k <= r[1]
    <3>1. PICK s \in T : s[1] = k
      BY <1>1
    <3>2. CASE s \in L
      <4>1. k = r[1] /\ k \in Nat
        BY <1>1, <1>5, <3>1, <3>2
      <4> QED
        BY <4>1
    <3>3. CASE s \notin L
      BY <1>2, <3>1, <3>3
    <3> QED
      BY <3>2, <3>3
  <2> QED
    BY <2>1, <2>2
<1> QED
  BY <1>1, <1>2, <1>4, <1>6

\* Neither a step of a replica nor one of another request takes an answer back.
LEMMA LatestFrame ==
  ASSUME Inv, LatestInv, [Next]_vars, UNCHANGED queryVars
  PROVE  LatestInv'
<1>1. /\ Stored("ticks") \subseteq Stored("ticks")'
      /\ Stored("indicators") \subseteq Stored("indicators")'
      /\ StoredEvents \subseteq StoredEvents'
  BY StoredGrows DEF StoredEvents
<1>2. stage' = stage /\ asked' = asked /\ rows' = rows /\ due' = due
  BY DEF queryVars
<1>3. Asks("history")' = Asks("history") /\ Asks("symbols")' = Asks("symbols")
      /\ Asks("latest")' = Asks("latest")
  BY <1>2 DEF Asks
<1>4. \A table \in Tables : Stored(table) \subseteq Stored(table)'
  BY <1>1 DEF Tables
<1>5. WillFind'
  <2>1. ASSUME stage = "missed"
        PROVE  \E table \in Tables :
                 asked' = [kind |-> "latest", table |-> table] /\ due' \subseteq Stored(table)'
    BY <1>2, <1>4, <2>1 DEF LatestInv, WillFind
  <2>2. ASSUME stage = "tables"
        PROVE  \E known \in SUBSET Tables :
                 /\ asked' = [kind |-> "symbols", tables |-> known]
                 /\ due' \subseteq UNION {Stored(table)' : table \in known}
    <3>1. PICK known \in SUBSET Tables :
                 /\ asked = [kind |-> "symbols", tables |-> known]
                 /\ due \subseteq UNION {Stored(table) : table \in known}
      BY <2>2 DEF LatestInv, WillFind
    <3>2. UNION {Stored(table) : table \in known} \subseteq UNION {Stored(table)' : table \in known}
      BY <1>4
    <3> QED
      BY <1>2, <3>1, <3>2
  <2> QED
    BY <1>2, <2>1, <2>2 DEF WillFind
<1>6. HasFound' /\ Answered'
  BY <1>1, <1>2, <1>3 DEF LatestInv, HasFound, Answered
<1>7. ASSUME stage = "served", ~Asks("history")
      PROVE  /\ due # {} => rows # {}
             /\ \A r \in rows : r[1] \in StoredEvents'
             /\ Asks("latest") =>
                  /\ Cardinality(rows) <= 1 /\ Served \subseteq Stored(asked.table)'
                  /\ \A r \in rows : r[2] = 0 => \A k \in due : k <= r[1]
  <2>1. /\ due # {} => rows # {}
        /\ \A r \in rows : r[1] \in StoredEvents
        /\ Asks("latest") =>
             /\ Cardinality(rows) <= 1 /\ Served \subseteq Stored(asked.table)
             /\ \A r \in rows : r[2] = 0 => \A k \in due : k <= r[1]
    BY <1>7 DEF LatestInv, LatestServed, StoredEvents
  <2>2. Asks("latest") => asked.table \in Tables
    BY <1>7, RequestKinds DEF LatestInv, Answered, Requests, Asks
  <2>3. Asks("latest") => Stored(asked.table) \subseteq Stored(asked.table)'
    BY <1>2, <1>4, <2>2
  <2> QED
    BY <1>1, <2>1, <2>3
<1>8. Served' = Served
  BY <1>2 DEF Served
<1>9. LatestServed'
  BY <1>2, <1>3, <1>7, <1>8 DEF LatestServed, StoredEvents
<1> QED
  BY <1>5, <1>6, <1>9 DEF LatestInv

\* A snapshot is a row of both tables.
LEMMA SnapshotIsStored ==
  ASSUME QueryInv
  PROVE  /\ \A r \in SnapshotRows : r[2] = 1 /\ \A table \in Tables : r[1] \in Stored(table)
         /\ snapshot = NoKey => SnapshotRows = {}
         /\ snapshot # NoKey => SnapshotRows # {} /\ Cardinality(SnapshotRows) = 1
<1>1. snapshot # NoKey => SnapshotRows = {<<snapshot, 1, 1, NoMessage>>}
  BY DEF SnapshotRows
<1>2. snapshot # NoKey => \A table \in Tables : snapshot \in Stored(table)
  BY DEF QueryInv, ShownIsStored, HasRows, Tables, Stored, Table
<1>3. snapshot = NoKey => SnapshotRows = {}
  BY DEF SnapshotRows
<1>4. snapshot # NoKey => Cardinality(SnapshotRows) = 1
  BY <1>1, FS_Singleton
<1>5. ASSUME NEW r \in SnapshotRows
      PROVE  r[2] = 1 /\ \A table \in Tables : r[1] \in Stored(table)
  <2>1. snapshot # NoKey
    BY <1>3
  <2>2. r = <<snapshot, 1, 1, NoMessage>>
    BY <1>1, <2>1
  <2>3. r[1] = snapshot /\ r[2] = 1
    BY <2>2
  <2> QED
    BY <1>2, <2>1, <2>3
<1> QED
  BY <1>1, <1>3, <1>4, <1>5

\* A request for the latest row answers with the snapshot or goes on to the table.
LEMMA SnapshotAnswers ==
  ASSUME QueryInv, LatestInv, QuerySnapshot
  PROVE  LatestInv'
<1>1. PICK table \in Tables :
        asked' = [kind |-> "latest", table |-> table] /\ due' = Stored(table)
  BY DEF QuerySnapshot
<1>2. /\ UNCHANGED vars /\ rows' = SnapshotRows
      /\ stage' = IF snapshot = NoKey THEN "missed" ELSE "served"
  BY DEF QuerySnapshot
<1>3. asked' \in LatestRequests /\ asked'.kind = "latest" /\ asked'.table = table /\ asked' # NoLimit
  BY <1>1, QueryAssumption DEF LatestRequests, Requests
<1>4. \A t \in Tables : Stored(t)' = Stored(t)
  BY <1>2 DEF vars, storeVars, Stored, Table
<1>5. StoredEvents' = Stored("ticks") \cup Stored("indicators") /\ "ticks" \in Tables
  BY <1>4 DEF StoredEvents, Tables
<1>6. WillFind'
  BY <1>1, <1>2, <1>4 DEF WillFind
<1>7. HasFound' /\ Answered'
  BY <1>2, <1>3 DEF HasFound, Answered, Requests
<1>8. ASSUME stage' = "served"
      PROVE  /\ rows' # {} /\ Cardinality(rows') <= 1
             /\ \A r \in rows' : r[2] = 1 /\ r[1] \in StoredEvents' /\ r[1] \in Stored(table)
  <2>1. snapshot # NoKey
    BY <1>2, <1>8
  <2>2. rows' # {} /\ Cardinality(rows') = 1
    BY <1>2, <2>1, SnapshotIsStored
  <2> QED
    BY <1>2, <1>5, <2>2, SnapshotIsStored
<1>9. LatestServed'
  <2>1. Served' = {r[1] : r \in rows'}
    BY DEF Served
  <2>2. stage' = "served" => Served' \subseteq Stored(asked.table)'
    BY <1>3, <1>4, <1>8, <2>1
  <2> QED
    BY <1>8, <2>2 DEF LatestServed, StoredEvents
<1> QED
  BY <1>6, <1>7, <1>9 DEF LatestInv

\* Without a snapshot it answers with the newest row of the table.
LEMMA TableAnswers ==
  ASSUME QueryInv, LatestInv, QueryLatest
  PROVE  LatestInv'
<1>1. PICK table \in Tables :
        asked = [kind |-> "latest", table |-> table] /\ due \subseteq Stored(table)
  BY DEF QueryLatest, LatestInv, WillFind
<1>2. /\ UNCHANGED vars /\ rows' \in Limited(TableRows(table), 1) /\ stage' = "served"
      /\ asked' = asked /\ due' = due
  BY <1>1 DEF QueryLatest
<1>3. asked \in LatestRequests /\ asked.kind = "latest" /\ asked.table = table
  BY <1>1 DEF LatestRequests
<1>4. \A t \in Tables : Stored(t)' = Stored(t)
  BY <1>2 DEF vars, storeVars, Stored, Table
<1>5. Stored(table) \subseteq StoredEvents'
  BY <1>4 DEF StoredEvents, Tables
<1>6. /\ Stored(table) # {} => rows' # {}
      /\ Cardinality(rows') <= 1
      /\ \A r \in rows' : r[1] \in Stored(table) /\ \A k \in Stored(table) : k <= r[1]
  BY <1>2, NewestIsThere DEF QueryInv, Inv
<1>7. Served' \subseteq Stored(asked.table)'
  BY <1>2, <1>3, <1>4, <1>6 DEF Served
<1>8. LatestServed'
  <2>1. due' # {} => rows' # {}
    BY <1>1, <1>2, <1>6
  <2>2. \A r \in rows' : r[1] \in StoredEvents'
    BY <1>5, <1>6
  <2>3. \A r \in rows' : \A k \in due' : k <= r[1]
    BY <1>1, <1>2, <1>6
  <2> QED
    BY <1>6, <1>7, <2>1, <2>2, <2>3 DEF LatestServed, StoredEvents
<1>9. WillFind' /\ HasFound' /\ Answered'
  BY <1>2, <1>3 DEF WillFind, HasFound, Answered, Requests
<1> QED
  BY <1>8, <1>9 DEF LatestInv

\* The symbols of a request: the tables there are, then those with rows, then those
\* with a snapshot.
LEMMA SymbolsAnswer ==
  ASSUME QueryInv, LatestInv, ListTables \/ ListStored \/ ListCached
  PROVE  LatestInv'
<1>1. UNCHANGED vars
  BY DEF ListTables, ListStored, ListCached
<1>2. \A table \in Tables : Stored(table)' = Stored(table)
  BY <1>1 DEF vars, storeVars, Stored, Table
<1>3. StoredEvents' = StoredEvents
  BY <1>2 DEF StoredEvents, Tables
<1>4. CASE ListTables
  <2>1. PICK known \in SUBSET Tables :
          /\ \A table \in Tables : Stored(table) # {} => table \in known
          /\ asked' = [kind |-> "symbols", tables |-> known]
    BY <1>4 DEF ListTables
  <2>2. stage' = "tables" /\ due' = Stored("ticks") \cup Stored("indicators")
    BY <1>4 DEF ListTables
  <2>3. \A table \in Tables : \A k \in Stored(table) : table \in known
    BY <2>1
  <2>4. due' \subseteq UNION {Stored(table)' : table \in known}
    BY <1>2, <2>2, <2>3 DEF Tables
  <2>5. WillFind'
    BY <2>1, <2>2, <2>4 DEF WillFind
  <2> QED
    BY <2>2, <2>5 DEF LatestInv, HasFound, Answered, LatestServed
<1>5. CASE ListStored
  <2>1. PICK known \in SUBSET Tables :
          /\ asked = [kind |-> "symbols", tables |-> known]
          /\ due \subseteq UNION {Stored(table) : table \in known}
    BY <1>5 DEF ListStored, LatestInv, WillFind
  <2>2. /\ stage' = "stored" /\ asked' = asked /\ due' = due
        /\ rows' = UNION {TableRows(table) : table \in known}
    BY <1>5, <2>1 DEF ListStored
  <2>3. \A table \in known : Stored(table) = {r[1] : r \in TableRows(table)}
    BY TableIsFinite DEF QueryInv, Inv
  <2>4. /\ due' # {} => rows' # {}
        /\ \A r \in rows' : r[1] \in StoredEvents'
    <3>1. ASSUME NEW k \in due PROVE rows' # {}
      <4>1. PICK table \in known : k \in Stored(table)
        BY <2>1
      <4>2. PICK r \in TableRows(table) : r[1] = k
        BY <2>3, <4>1
      <4> QED
        BY <2>2, <4>2
    <3>2. ASSUME NEW r \in rows' PROVE r[1] \in StoredEvents'
      <4>1. PICK table \in known : r \in TableRows(table)
        BY <2>2
      <4>2. r[1] \in Stored(table) /\ (table = "ticks" \/ table = "indicators")
        BY <2>3, <4>1 DEF Tables
      <4> QED
        BY <1>3, <4>2 DEF StoredEvents
    <3> QED
      BY <2>2, <3>1, <3>2
  <2>5. HasFound'
    BY <2>4 DEF HasFound
  <2>6. asked' \in SymbolRequests
    BY <2>1, <2>2 DEF SymbolRequests
  <2> QED
    BY <2>2, <2>5, <2>6 DEF LatestInv, WillFind, Answered, LatestServed, Requests
<1>6. CASE ListCached
  <2>1. /\ stage = "stored" /\ stage' = "served" /\ Asks("symbols")
        /\ asked' = asked /\ due' = due /\ rows' = rows \cup SnapshotRows
    BY <1>6 DEF ListCached
  <2>2. due' # {} => rows' # {}
    BY <2>1 DEF LatestInv, HasFound
  <2>3. \A r \in SnapshotRows : r[1] \in StoredEvents
    BY SnapshotIsStored DEF Tables, StoredEvents
  <2>4. \A r \in rows' : r[1] \in StoredEvents'
    BY <1>3, <2>1, <2>3 DEF LatestInv, HasFound
  <2>5. ~Asks("latest")'
    BY <2>1 DEF Asks
  <2>6. LatestServed'
    BY <2>2, <2>4, <2>5 DEF LatestServed, StoredEvents
  <2> QED
    BY <2>1, <2>6 DEF LatestInv, WillFind, HasFound, Answered
<1> QED
  BY <1>4, <1>5, <1>6

\* A history request is none of these.
LEMMA HistoryAnswers ==
  ASSUME LatestInv, QueryStore \/ QueryCache
  PROVE  LatestInv'
<1>1. /\ stage' \in {"stored", "served"} /\ asked' \in Requests
      /\ Asks("history")' /\ ~Asks("symbols")'
  <2>1. CASE QueryStore
    BY <2>1, RequestKinds DEF QueryStore, Requests, Asks
  <2>2. CASE QueryCache
    BY <2>2 DEF QueryCache, Asks, LatestInv, Answered
  <2> QED
    BY <2>1, <2>2
<1> QED
  BY <1>1 DEF LatestInv, WillFind, HasFound, Answered, LatestServed

\* Every step keeps what the latest rows and symbols rest on.
LEMMA QueryInvStep == QueryInv /\ [QueryNext]_allVars => QueryInv' /\ [Next]_vars
<1> SUFFICES ASSUME QueryInv, [QueryNext]_allVars PROVE QueryInv' /\ [Next]_vars
  OBVIOUS
<1>1. [Next]_vars
  BY DEF QueryNext, QueryStore, QueryCache, QuerySnapshot, QueryLatest, ListTables, ListStored,
         ListCached, allVars
<1> QED
  BY <1>1, InvStep, ShownStep, BoundedStep DEF QueryInv, Inv

LEMMA LatestStep == QueryInv /\ LatestInv /\ [QueryNext]_allVars => LatestInv'
<1> SUFFICES ASSUME QueryInv, LatestInv, [QueryNext]_allVars PROVE LatestInv'
  OBVIOUS
<1>1. CASE [Next]_vars /\ UNCHANGED queryVars
  BY <1>1, LatestFrame DEF QueryInv
<1>2. CASE QueryStore \/ QueryCache
  BY <1>2, HistoryAnswers
<1>3. CASE QuerySnapshot \/ QueryLatest
  BY <1>3, SnapshotAnswers, TableAnswers
<1>4. CASE ListTables \/ ListStored \/ ListCached
  BY <1>4, SymbolsAnswer
<1> QED
  BY <1>1, <1>2, <1>3, <1>4 DEF QueryNext, allVars

\* The initial state has stored nothing and was asked nothing.
LEMMA InitQuery == QueryInit => QueryInv /\ LatestInv
<1> SUFFICES ASSUME QueryInit PROVE QueryInv /\ LatestInv
  OBVIOUS
<1>1. Init /\ stage = "new"
  BY DEF QueryInit
<1>2. ShownIsStored
  BY <1>1 DEF Init, ShownIsStored
<1>3. IsBound(0)
  BY <1>1 DEF Init, IsBound
<1>4. Bounded
  BY <1>3 DEF Bounded
<1>5. LatestInv
  BY <1>1 DEF LatestInv, WillFind, HasFound, Answered, LatestServed
<1> QED
  BY <1>1, <1>2, <1>4, <1>5, InitInv DEF QueryInv

LEMMA QueryInvHolds == QuerySpec => []QueryInv
BY InitQuery, QueryInvStep, PTL DEF QuerySpec

\* The latest tick or indicators are those of the snapshot, or without one the newest
\* of the table, and are there if any were when the request began; a symbol with rows is
\* in the list of symbols (api/service.py: latest_market, indicators, list_symbols).
\* With any number of replicas, any faults, and whatever they do between the awaits of
\* a request.
THEOREM LatestIsServed == QuerySpec => []LatestServed
<1>1. LatestInv => LatestServed
  BY DEF LatestInv
<1> QED
  BY InitQuery, LatestStep, QueryInvHolds, <1>1, PTL DEF QuerySpec

-----------------------------------------------------------------------------
(* History requests *)

\* A history request has the newest rows of a part of the store in which the events
\* processed when it began are.
StoreAnswered(U) ==
  /\ IsFiniteSet(U) /\ rows \in Limited(U, asked.limit)
  /\ \A k \in due : WithinRange(k, asked) => \E r \in U : r[1] = k
HasStored ==
  stage = "stored" /\ Asks("history") =>
    /\ asked \in HistoryRequests /\ due \subseteq processed
    /\ \E U \in SUBSET Rows : StoreAnswered(U)
HistoryInv == HasStored /\ HistoryServed

\* The cached history of a sole replica does not get shorter.
LEMMA HistoryKept ==
  ASSUME Types, ReadIsCurrent, [Next]_vars
  PROVE  Len(history) \in Nat /\ Len(history') \in Nat /\ Len(history) <= Len(history')
<1>1. history \in Seq(Valid) /\ Len(history) \in Nat /\ Len(history) <= MaxRows
  BY DEF Types, TypeOK
<1>2. history' \in Seq(Valid) /\ Len(history') \in Nat
  BY TypeStep DEF TypeOK
<1>3. ASSUME NEW w \in Workers, WriteHistory(w), ~UNCHANGED history
      PROVE  Len(history) <= Len(history')
  <2>1. /\ msg[w] \in Valid /\ rowsRead[w] = history
        /\ history' = Newest(Append(rowsRead[w], msg[w]), MaxRows)
    BY <1>3 DEF WriteHistory, ReadIsCurrent, Types, HandlesEvent
  <2>2. CASE Len(history') < MaxRows
    <3>1. history' = Append(history, msg[w])
      BY <1>1, <2>1, <2>2, LimitsAssumption, NothingDropped
    <3>2. Len(history') = Len(history) + 1
      BY <1>1, <2>1, <3>1
    <3> QED
      BY <1>1, <3>2
  <2> QED
    BY <1>1, <1>2, <2>2, LimitsAssumption
<1>4. (\E w \in Workers : WriteHistory(w)) \/ UNCHANGED history
  BY DEF Next, Step, Receive, ReceiveRaises, Begin, Lookup, Ingest, SetSnapshot, ReadHistory,
         Publish, Mark, Complete, Reject, Crash, PeekLockExpires, WindowPasses, vars, cacheVars
<1> QED
  BY <1>1, <1>2, <1>3, <1>4

\* The rows of the store and of the cache that a request may get.
LEMMA StoreRowsAreFinite ==
  ASSUME Types, Bounded, NEW q
  PROVE  StoreRows(q) \in SUBSET Rows /\ IsFiniteSet(StoreRows(q))
BY TableIsFinite, FS_Subset DEF StoreRows, Tables

LEMMA CachedRowsAreFinite ==
  ASSUME Types, NEW q
  PROVE  /\ CachedRows(q) \in SUBSET Rows /\ IsFiniteSet(CachedRows(q))
         /\ \A i \in 1..Len(history) : WithinRange(KeyOf[history[i]], q) =>
              \E r \in CachedRows(q) : r[1] = KeyOf[history[i]]
<1>1. history \in Seq(Valid) /\ Len(history) \in Nat
  BY DEF Types, TypeOK
<1> DEFINE P == {j \in 1..Len(history) : WithinRange(KeyOf[history[j]], q)}
           f == [i \in P |-> <<KeyOf[history[i]], 1, i, history[i]>>]
<1>2. IsFiniteSet(1..Len(history))
  BY <1>1, FS_Interval
<1>3. IsFiniteSet(P)
  BY <1>2, FS_Subset
<1>4. CachedRows(q) = {<<KeyOf[history[i]], 1, i, history[i]>> : i \in P}
  BY DEF CachedRows
<1>5. \A i \in P : <<KeyOf[history[i]], 1, i, history[i]>> \in RowsOf(history[i])
  BY <1>1 DEF RowsOf
<1>6. \A i \in P : history[i] \in Valid
  BY <1>1
<1>7. CachedRows(q) \in SUBSET Rows
  <2> HIDE DEF P
  <2> QED
    BY <1>4, <1>5, <1>6 DEF Rows
<1>8. f \in Surjection(P, CachedRows(q))
  <2> HIDE DEF P
  <2> QED
    BY <1>4 DEF Surjection
<1>9. IsFiniteSet(CachedRows(q))
  BY <1>3, <1>8, FS_Surjection
<1>10. ASSUME NEW i \in 1..Len(history), WithinRange(KeyOf[history[i]], q)
       PROVE  \E r \in CachedRows(q) : r[1] = KeyOf[history[i]]
  <2>1. <<KeyOf[history[i]], 1, i, history[i]>> \in CachedRows(q)
    BY <1>4, <1>10
  <2> QED
    BY <2>1
<1> QED
  BY <1>7, <1>9, <1>10

\* The rows that are kept are one of each message of those there are.
LEMMA DedupedRows ==
  ASSUME NEW S \in SUBSET Rows, IsFiniteSet(S)
  PROVE  /\ DedupeRows(S) \in SUBSET S
         /\ \A r, s \in DedupeRows(S) : r[4] = s[4] => r = s
         /\ \A x \in S : \E r \in DedupeRows(S) : r[1] = x[1]
<1>1. DedupeRows(S) \in SUBSET S
  BY DEF DedupeRows
<1>2. \A r \in S : r[4] \in Valid /\ r \in RowsOf(r[4]) /\ r[1] = KeyOf[r[4]]
  BY DEF Rows, RowsOf
<1>3. ASSUME NEW r \in DedupeRows(S), NEW s \in DedupeRows(S), r[4] = s[4] PROVE r = s
  <2>1. ~Later(r, s) /\ ~Later(s, r)
    BY <1>3 DEF DedupeRows
  <2>2. PICK m \in Valid : r \in RowsOf(m) /\ s \in RowsOf(m)
    BY <1>1, <1>2, <1>3
  <2> QED
    BY <2>1, <2>2, LaterIsTotal
<1>4. ASSUME NEW x \in S PROVE \E r \in DedupeRows(S) : r[1] = x[1]
  <2> DEFINE X == {s \in S : s[4] = x[4]}
  <2>1. X \in SUBSET S /\ X # {} /\ X \in SUBSET RowsOf(x[4])
    BY <1>2
  <2>2. IsFiniteSet(X)
    BY <2>1, FS_Subset
  <2>3. PICK r \in X : \A s \in X : ~Later(s, r)
    <3> HIDE DEF X
    <3> QED
      BY <2>1, <2>2, LatestRow
  <2>4. r \in DedupeRows(S) /\ r[4] = x[4]
    BY <2>3 DEF DedupeRows
  <2>5. r[1] = x[1]
    BY <1>1, <1>2, <2>4
  <2> QED
    BY <2>4, <2>5
<1> QED
  BY <1>1, <1>3, <1>4

\* What a limit leaves of rows: if none of an event's rows is left there are as many as
\* the limit asks for, all of newer events.
LEMMA LimitedRows ==
  ASSUME NEW D \in SUBSET Rows, NEW n, n \in Nat \cup {NoLimit}, NEW L \in Limited(D, n),
         NEW d \in D, \A r \in L : r[1] # d[1]
  PROVE  n # NoLimit /\ Cardinality({r \in L : r[1] > d[1]}) = n
<1>1. d \notin L
  OBVIOUS
<1>2. n # NoLimit
  BY <1>1 DEF Limited
<1>3. /\ L \in SUBSET D /\ Cardinality(L) = n
      /\ \A r \in L : d[1] <= r[1]
  BY <1>1, <1>2 DEF Limited
<1>4. \A r \in D : r[1] \in Nat
  BY KeysAreNumbers DEF Rows, RowsOf
<1>5. \A r \in L : r[1] > d[1]
  BY <1>3, <1>4
<1>6. {r \in L : r[1] > d[1]} = L
  BY <1>5
<1> QED
  BY <1>2, <1>3, <1>6

\* A request reads the store: all its events are there.
LEMMA StoreAnswers ==
  ASSUME QueryInv, QueryStore
  PROVE  HistoryInv'
<1>1. PICK q \in HistoryRequests : asked' = q /\ rows' \in Limited(StoreRows(q), q.limit)
  BY DEF QueryStore
<1>2. stage' = "stored" /\ due' = processed /\ processed' = processed
  BY DEF QueryStore, vars, cacheVars
<1>3. PICK U \in SUBSET Rows : U = StoreRows(q) /\ IsFiniteSet(U)
  BY StoreRowsAreFinite DEF QueryInv, Inv
<1>4. ASSUME NEW k \in processed, WithinRange(k, q) PROVE \E r \in U : r[1] = k
  <2>1. PICK m \in Valid : KeyOf[m] = k /\ ticks[m] > 0
    BY DEF QueryInv, Inv, ProcessedIsStored, HasRows
  <2>2. k \in Stored("ticks")
    BY <2>1 DEF Stored, Table
  <2>3. PICK r \in TableRows("ticks") : r[1] = k
    BY <2>2, TableIsFinite DEF QueryInv, Inv, Tables
  <2> QED
    BY <1>3, <1>4, <2>3 DEF StoreRows
<1>5. rows' \in Limited(U, asked'.limit)
  BY <1>1, <1>3
<1>6. StoreAnswered(U)'
  BY <1>1, <1>2, <1>3, <1>4, <1>5 DEF StoreAnswered
<1> QED
  BY <1>1, <1>2, <1>6 DEF HistoryInv, HasStored, HistoryServed

\* It reads the cache: an event it should know of is among the rows, or both the
\* store's limit and the cache have dropped it.
LEMMA KnownRows ==
  ASSUME Inv, HistoryListsProcessed, HasStored, stage = "stored", Asks("history")
  PROVE  /\ rows \cup CachedRows(asked) \in SUBSET Rows
         /\ IsFiniteSet(rows \cup CachedRows(asked))
         /\ Len(history) < MaxRows \/ asked.limit = NoLimit =>
              \A k \in due : WithinRange(k, asked) =>
                \E r \in rows \cup CachedRows(asked) : r[1] = k
<1>1. PICK U \in SUBSET Rows : StoreAnswered(U)
  BY DEF HasStored
<1>2. asked \in HistoryRequests /\ due \subseteq processed
  BY DEF HasStored
<1>3. rows \in SUBSET U /\ (asked.limit = NoLimit => rows = U)
  BY <1>1 DEF StoreAnswered, Limited
<1>4. rows \in SUBSET Rows /\ IsFiniteSet(rows)
  BY <1>1, <1>3, FS_Subset DEF StoreAnswered
<1>5. CachedRows(asked) \in SUBSET Rows /\ IsFiniteSet(CachedRows(asked))
  BY CachedRowsAreFinite DEF Inv
<1>6. IsFiniteSet(rows \cup CachedRows(asked))
  BY <1>4, <1>5, FS_Union
<1>7. ASSUME NEW k \in due, WithinRange(k, asked), asked.limit = NoLimit
      PROVE  \E r \in rows \cup CachedRows(asked) : r[1] = k
  BY <1>1, <1>3, <1>7 DEF StoreAnswered
<1>8. ASSUME NEW k \in due, WithinRange(k, asked), Len(history) < MaxRows
      PROVE  \E r \in rows \cup CachedRows(asked) : r[1] = k
  <2>1. PICK i \in 1..Len(history) : KeyOf[history[i]] = k
    BY <1>2, <1>8 DEF HistoryListsProcessed
  <2>2. \E r \in CachedRows(asked) : r[1] = KeyOf[history[i]]
    BY <1>8, <2>1, CachedRowsAreFinite DEF Inv
  <2> QED
    BY <2>1, <2>2
<1> QED
  BY <1>4, <1>5, <1>6, <1>7, <1>8

LEMMA CacheAnswers ==
  ASSUME Inv, HistoryListsProcessed, HasStored, QueryCache
  PROVE  HistoryInv'
<1>1. /\ stage = "stored" /\ Asks("history") /\ stage' = "served"
      /\ asked' = asked /\ due' = due /\ history' = history
      /\ rows' \in Limited(DedupeRows(rows \cup CachedRows(asked)), asked.limit)
  BY DEF QueryCache, vars, cacheVars
<1>2. PICK q \in HistoryRequests : q = asked /\ q.limit \in Nat \cup {NoLimit}
  BY <1>1, QueryAssumption DEF HasStored, HistoryRequests
<1>3. PICK S \in SUBSET Rows : /\ S = rows \cup CachedRows(asked) /\ IsFiniteSet(S)
  BY <1>1, KnownRows
<1>4. PICK D \in SUBSET Rows : D = DedupeRows(S)
  BY <1>3, DedupedRows
<1>5. /\ \A r, s \in D : r[4] = s[4] => r = s
      /\ \A x \in S : \E r \in D : r[1] = x[1]
  BY <1>3, <1>4, DedupedRows
<1>6. rows' \in Limited(D, q.limit) /\ rows' \in SUBSET D
  BY <1>1, <1>2, <1>3, <1>4 DEF Limited
<1>7. \A r, s \in rows' : r[4] = s[4] => r = s
  BY <1>5, <1>6
<1>8. q.limit # NoLimit => Cardinality(rows') <= q.limit
  BY <1>6 DEF Limited
<1>9. ASSUME Len(history) < MaxRows \/ q.limit = NoLimit,
             NEW k \in due, WithinRange(k, q), k \notin Served'
      PROVE  q.limit # NoLimit /\ Cardinality({r \in rows' : r[1] > k}) = q.limit
  <2>1. PICK x \in S : x[1] = k
    BY <1>1, <1>2, <1>3, <1>9, KnownRows
  <2>2. PICK d \in D : d[1] = k
    BY <1>5, <2>1
  <2>3. \A r \in rows' : r[1] # d[1]
    BY <1>9, <2>2 DEF Served
  <2>4. q.limit # NoLimit /\ Cardinality({r \in rows' : r[1] > d[1]}) = q.limit
    BY <1>2, <1>6, <2>3, LimitedRows
  <2> QED
    BY <2>2, <2>4
<1>10. HistoryServed'
  BY <1>1, <1>2, <1>7, <1>8, <1>9 DEF HistoryServed
<1> QED
  BY <1>1, <1>10 DEF HistoryInv, HasStored

\* What happens between and after the awaits of a request takes nothing back.
LEMMA HistoryFrame ==
  ASSUME Inv, ReadIsCurrent, HistoryInv, [Next]_vars, UNCHANGED queryVars
  PROVE  HistoryInv'
<1>1. stage' = stage /\ asked' = asked /\ rows' = rows /\ due' = due
  BY DEF queryVars
<1>2. Asks("history")' = Asks("history") /\ Served' = Served
  BY <1>1 DEF Asks, Served
<1>3. processed \subseteq processed'
  BY GrowsStep DEF Inv, Grows
<1>4. \A U \in SUBSET Rows : StoreAnswered(U) => StoreAnswered(U)'
  BY <1>1 DEF StoreAnswered
<1>5. HasStored'
  <2>1. ASSUME stage = "stored", Asks("history") PROVE \E U \in SUBSET Rows : StoreAnswered(U)'
    BY <1>4, <2>1 DEF HistoryInv, HasStored
  <2> QED
    BY <1>1, <1>2, <1>3, <2>1 DEF HistoryInv, HasStored
<1>6. Len(history') < MaxRows => Len(history) < MaxRows
  BY HistoryKept, LimitsAssumption DEF Inv
<1>7. HistoryServed'
  BY <1>1, <1>2, <1>6 DEF HistoryInv, HistoryServed
<1> QED
  BY <1>5, <1>7 DEF HistoryInv

\* The other requests are served without history.
LEMMA OthersAnswer ==
  ASSUME LatestInv, QuerySnapshot \/ QueryLatest \/ ListTables \/ ListStored \/ ListCached
  PROVE  HistoryInv'
<1>1. ~Asks("history")'
  <2>1. CASE QuerySnapshot \/ ListTables
    <3>1. asked'.kind # "history"
      BY <2>1 DEF QuerySnapshot, ListTables
    <3> QED
      BY <3>1 DEF Asks
  <2>2. CASE QueryLatest \/ ListStored
    <3>1. asked.kind # "history" /\ asked' = asked
      BY <2>2 DEF QueryLatest, ListStored, LatestInv, WillFind
    <3> QED
      BY <3>1 DEF Asks
  <2>3. CASE ListCached
    <3>1. asked.kind # "history" /\ asked' = asked
      BY <2>3 DEF ListCached, Asks
    <3> QED
      BY <3>1 DEF Asks
  <2> QED
    BY <2>1, <2>2, <2>3
<1> QED
  BY <1>1 DEF HistoryInv, HasStored, HistoryServed

LEMMA HistoryStep ==
  ASSUME QueryInv, ListInv, LatestInv, HistoryInv, [QueryNext]_allVars
  PROVE  HistoryInv'
<1>1. CASE [Next]_vars /\ UNCHANGED queryVars
  BY <1>1, HistoryFrame DEF QueryInv, ListInv
<1>2. CASE QueryStore
  BY <1>2, StoreAnswers
<1>3. CASE QueryCache
  BY <1>3, CacheAnswers DEF QueryInv, ListInv, HistoryInv
<1>4. CASE QuerySnapshot \/ QueryLatest \/ ListTables \/ ListStored \/ ListCached
  BY <1>4, OthersAnswer
<1> QED
  BY <1>1, <1>2, <1>3, <1>4 DEF QueryNext, allVars

\* A history request (api/service.py: market_history) is answered with one row of each
\* publication at most, no more than it asked for, and, while the cached history has dropped
\* nothing, with every event of its range that was processed when it began, unless rows of
\* newer ones use up the limit: for any number of events, copies, deliveries and cached
\* rows, any limit, any faults, and whatever the one replica does between the two reads.
THEOREM HistoryIsServed ==
  ASSUME SoleReplica
  PROVE  QuerySpec => []HistoryServed
<1>1. QueryInit => ListInv /\ HistoryInv
  BY InitSole DEF QueryInit, HistoryInv, HasStored, HistoryServed
<1>2. QueryInv /\ ListInv /\ [Next]_vars => ListInv'
  BY ListStep DEF QueryInv, Inv
<1>3. QueryInv /\ ListInv /\ LatestInv /\ HistoryInv /\ [QueryNext]_allVars => HistoryInv'
  BY HistoryStep
<1>4. HistoryInv => HistoryServed
  BY DEF HistoryInv
<1> QED
  BY InitQuery, LatestStep, QueryInvStep, <1>1, <1>2, <1>3, <1>4, PTL DEF QuerySpec
=============================================================================
