--------------------------- MODULE AIAnalysisProofs ---------------------------
(***************************************************************************)
(* Theorems about AIAnalysis for any number of replicas, messages, events  *)
(* and symbols, any model and any set of faults, a peek lock that is lost  *)
(* while its message is handled included; and, while peek locks are kept,  *)
(* that the service implements EventDelivery.                              *)
(***************************************************************************)
EXTENDS AIAnalysis, FiniteSetTheorems, TLAPS

\* Steps at which a replica handles an event, and of these one of its symbols.
OnEvent == Steps \ {"idle", "reject"}
OnSymbol == {"retrieve", "lookup", "generate", "store", "publish", "show", "mark"}

\* The locals of an attempt are a record of four fields.
Shape(r) ==
  r = [pos |-> r.pos, attempt |-> r.attempt, context |-> r.context, draft |-> r.draft]
WorkShape ==
  /\ work = [w \in Workers |-> work[w]]
  /\ \A w \in Workers : Shape(work[w]) /\ work[w].pos \in Nat \ {0}
                        /\ work[w].attempt \in 1..MaxAttempts

PollTypes ==
  /\ pc \in [Workers -> Steps]
  /\ turn \in [Workers -> {"news", "signals"}]
  /\ batch \in [Workers -> SUBSET Messages]
  /\ msg \in [Workers -> Messages \cup {NoMessage}]
  /\ WorkShape
BrokerTypes ==
  /\ state \in [Messages -> {"ready", "locked", "completed", "dead"}]
  /\ owner \in [Messages -> Workers \cup {Nobody}]
  /\ deliveries \in [Messages -> Nat]
StoreTypes ==
  /\ index \subseteq Events /\ marked \subseteq Outputs
  /\ insights = [s \in Symbols |-> insights[s]] /\ topic = [o \in Outputs |-> topic[o]]
  /\ late \subseteq Outputs

\* What a replica has done for its event when it has come to a step: the symbols
\* before the one it is at are marked, and of that one what the steps before did is
\* there, whatever the other replicas did in between.
Local(w) ==
  /\ pc[w] = "idle" <=> msg[w] = NoMessage
  /\ pc[w] \in {"idle", "index", "reject"} => work[w].pos = 1
  /\ pc[w] \in OnEvent =>
       /\ Event(w) \in Events
       /\ \A i \in DOMAIN SymbolsOf[Event(w)] :
            i < work[w].pos => <<Event(w), SymbolsOf[Event(w)][i]>> \in marked
  /\ pc[w] \in OnSymbol => work[w].pos \in DOMAIN SymbolsOf[Event(w)]
  /\ pc[w] = "show" => Insight(w) \in topic[Output(w)]
  /\ pc[w] = "mark" => topic[Output(w)] # {} /\ insights[Symbol(w)] # {}
  /\ pc[w] = "complete" => OutputSet(Event(w)) \subseteq marked

Types == PollTypes /\ BrokerTypes /\ StoreTypes
Inv ==
  /\ Types
  /\ \A w \in Workers : Local(w)
  /\ MarkedIsPublished /\ CompletedIsMarked /\ ServedWasPublished

-----------------------------------------------------------------------------
(* Moves of the poll loop *)

\* Nothing changes for the replicas other than w.
Others(w) ==
  \A v \in Workers \ {w} : pc'[v] = pc[v] /\ msg'[v] = msg[v] /\ work'[v] = work[v]

LEMMA FreshShape == Shape(Fresh) /\ Fresh.pos = 1 /\ 1 \in Nat \ {0} /\ Fresh.attempt \in 1..MaxAttempts
BY AIAssumption DEF Fresh, Locals, Shape

\* Replacing one replica's locals by well-shaped ones.
LEMMA WorkUpdate ==
  ASSUME WorkShape, NEW w \in Workers, NEW r, Shape(r), r.pos \in Nat \ {0},
         r.attempt \in 1..MaxAttempts, work' = [work EXCEPT ![w] = r]
  PROVE  /\ WorkShape' /\ work'[w] = r
         /\ \A v \in Workers \ {w} : work'[v] = work[v]
<1>1. work' = [v \in Workers |-> IF v = w THEN r ELSE work[v]]
  BY DEF WorkShape
<1>2. work'[w] = r /\ \A v \in Workers \ {w} : work'[v] = work[v]
  BY <1>1
<1>3. work' = [v \in Workers |-> work'[v]]
  BY <1>1
<1>4. ASSUME NEW v \in Workers
      PROVE  Shape(work'[v]) /\ work'[v].pos \in Nat \ {0} /\ work'[v].attempt \in 1..MaxAttempts
  <2>1. CASE v = w
    BY <1>2, <2>1
  <2>2. CASE v # w
    <3>1. work'[v] = work[v]
      BY <1>2, <2>2
    <3>2. Shape(work[v]) /\ work[v].pos \in Nat \ {0} /\ work[v].attempt \in 1..MaxAttempts
      BY DEF WorkShape
    <3>3. QED
      BY <3>1, <3>2
  <2>3. QED
    BY <2>1, <2>2
<1>5. WorkShape'
  BY <1>3, <1>4 DEF WorkShape, Shape
<1>6. QED
  BY <1>2, <1>5

LEMMA Aborts ==
  ASSUME PollTypes, NEW w \in Workers, AbortPoll(w)
  PROVE  /\ PollTypes' /\ Others(w)
         /\ pc'[w] = "idle" /\ msg'[w] = NoMessage /\ work'[w].pos = 1
<1>1. WorkShape' /\ work'[w].pos = 1 /\ \A v \in Workers \ {w} : work'[v] = work[v]
  <2>1. work' = [work EXCEPT ![w] = Fresh]
    BY DEF AbortPoll
  <2>2. WorkShape
    BY DEF PollTypes
  <2>3. QED
    BY <2>1, <2>2, FreshShape, WorkUpdate
<1>2. QED
  BY <1>1 DEF AbortPoll, Goto, PollTypes, Others, Steps

LEMMA IsDone ==
  ASSUME PollTypes, NEW w \in Workers, Done(w)
  PROVE  /\ PollTypes' /\ Others(w)
         /\ pc'[w] = "idle" /\ msg'[w] = NoMessage /\ work'[w].pos = 1
<1>1. WorkShape' /\ work'[w].pos = 1 /\ \A v \in Workers \ {w} : work'[v] = work[v]
  <2>1. work' = [work EXCEPT ![w] = Fresh]
    BY DEF Done
  <2>2. WorkShape
    BY DEF PollTypes
  <2>3. QED
    BY <2>1, <2>2, FreshShape, WorkUpdate
<1>2. QED
  BY <1>1 DEF Done, Goto, PollTypes, Others, Steps

LEMMA Fails ==
  ASSUME PollTypes, NEW w \in Workers, AttemptFails(w)
  PROVE  /\ PollTypes' /\ Others(w)
         /\ pc'[w] \in {"index", "reject"} /\ msg'[w] = msg[w] /\ work'[w].pos = 1
<1> DEFINE n == work[w].attempt
           r == Locals(1, IF n < MaxAttempts THEN n + 1 ELSE 1)
<1>1. work' = [work EXCEPT ![w] = r]
  BY DEF AttemptFails
<1>2. n \in 1..MaxAttempts /\ MaxAttempts \in Nat \ {0}
  BY AIAssumption DEF PollTypes, WorkShape
<1>3. (IF n < MaxAttempts THEN n + 1 ELSE 1) \in 1..MaxAttempts
  BY <1>2
<1> HIDE DEF n
<1>4. Shape(r) /\ r.pos = 1 /\ r.attempt \in 1..MaxAttempts /\ 1 \in Nat \ {0}
  BY <1>3 DEF Shape, Locals
<1> HIDE DEF r
<1>5. WorkShape' /\ work'[w].pos = 1 /\ \A v \in Workers \ {w} : work'[v] = work[v]
  BY <1>1, <1>4, WorkUpdate DEF PollTypes
<1>6. PICK s \in {"index", "reject"} : pc' = [pc EXCEPT ![w] = s]
  BY DEF AttemptFails, Goto
<1>7. UNCHANGED <<turn, batch, msg>>
  BY DEF AttemptFails, pollVars
<1>8. QED
  BY <1>5, <1>6, <1>7 DEF PollTypes, Others, Steps

LEMMA GoesOn ==
  ASSUME PollTypes, NEW w \in Workers, NEW s \in Steps, GoOn(w, s)
  PROVE  /\ PollTypes' /\ Others(w)
         /\ pc'[w] = s /\ msg'[w] = msg[w] /\ work'[w] = work[w]
<1>1. UNCHANGED <<turn, batch, msg, work>> /\ pc' = [pc EXCEPT ![w] = s]
  BY DEF GoOn, Goto, pollVars
<1>2. QED
  BY <1>1 DEF PollTypes, Others, WorkShape

LEMMA Drafts ==
  ASSUME PollTypes, NEW w \in Workers, NEW s \in Steps, NEW d, Drafted(w, d, s)
  PROVE  /\ PollTypes' /\ Others(w)
         /\ pc'[w] = s /\ msg'[w] = msg[w] /\ work'[w].pos = work[w].pos
         /\ work'[w].draft = d /\ work'[w].context = work[w].context
<1> DEFINE r == [work[w] EXCEPT !.draft = d]
<1>1. work' = [work EXCEPT ![w] = r]
  BY DEF Drafted
<1>2. Shape(work[w]) /\ work[w].pos \in Nat \ {0} /\ work[w].attempt \in 1..MaxAttempts
  BY DEF PollTypes, WorkShape
<1>3. /\ Shape(r) /\ r.pos = work[w].pos /\ r.attempt = work[w].attempt
      /\ r.draft = d /\ r.context = work[w].context
  BY <1>2 DEF Shape
<1> HIDE DEF r
<1>4. /\ WorkShape' /\ work'[w].pos = work[w].pos
      /\ work'[w].draft = d /\ work'[w].context = work[w].context
      /\ \A v \in Workers \ {w} : work'[v] = work[v]
  BY <1>1, <1>2, <1>3, WorkUpdate DEF PollTypes
<1>5. UNCHANGED <<turn, batch, msg>> /\ pc' = [pc EXCEPT ![w] = s]
  BY DEF Drafted, Goto, pollVars
<1>6. QED
  BY <1>4, <1>5 DEF PollTypes, Others

LEMMA Retrieves ==
  ASSUME PollTypes, NEW w \in Workers, NEW context,
         work' = [work EXCEPT ![w].context = context], Goto(w, "lookup"), UNCHANGED pollVars
  PROVE  /\ PollTypes' /\ Others(w)
         /\ pc'[w] = "lookup" /\ msg'[w] = msg[w] /\ work'[w].pos = work[w].pos
         /\ work'[w].context = context
<1> DEFINE r == [work[w] EXCEPT !.context = context]
<1>1. work' = [work EXCEPT ![w] = r]
  OBVIOUS
<1>2. /\ WorkShape /\ Shape(work[w]) /\ work[w].pos \in Nat \ {0}
      /\ work[w].attempt \in 1..MaxAttempts
  BY DEF PollTypes, WorkShape
<1>3. Shape(r) /\ r.pos = work[w].pos /\ r.attempt = work[w].attempt /\ r.context = context
  BY <1>2 DEF Shape
<1> HIDE DEF r
<1>4. /\ WorkShape' /\ work'[w].pos = work[w].pos /\ work'[w].context = context
      /\ \A v \in Workers \ {w} : work'[v] = work[v]
  <2>1. r.pos \in Nat \ {0} /\ r.attempt \in 1..MaxAttempts
    BY <1>2, <1>3
  <2>2. WorkShape' /\ work'[w] = r /\ \A v \in Workers \ {w} : work'[v] = work[v]
    BY <1>1, <1>2, <1>3, <2>1, WorkUpdate
  <2> QED
    BY <1>3, <2>2
<1>5. UNCHANGED <<turn, batch, msg>> /\ pc' = [pc EXCEPT ![w] = "lookup"]
  BY DEF Goto, pollVars
<1>6. QED
  BY <1>4, <1>5 DEF PollTypes, Others, Steps

LEMMA NextOfEvent ==
  ASSUME PollTypes, NEW w \in Workers, NextSymbol(w)
  PROVE  /\ PollTypes' /\ Others(w)
         /\ pc'[w] = "check" /\ msg'[w] = msg[w] /\ work'[w].pos = work[w].pos + 1
<1> DEFINE r == Locals(work[w].pos + 1, work[w].attempt)
<1>1. work' = [work EXCEPT ![w] = r]
  BY DEF NextSymbol
<1>2. work[w].pos \in Nat \ {0} /\ work[w].attempt \in 1..MaxAttempts
  BY DEF PollTypes, WorkShape
<1>3. Shape(r) /\ r.pos = work[w].pos + 1 /\ r.attempt = work[w].attempt
  BY DEF Shape, Locals
<1>4. r.pos \in Nat \ {0} /\ r.attempt \in 1..MaxAttempts
  BY <1>2, <1>3
<1> HIDE DEF r
<1>5. /\ WorkShape' /\ work'[w].pos = work[w].pos + 1
      /\ \A v \in Workers \ {w} : work'[v] = work[v]
  BY <1>1, <1>3, <1>4, WorkUpdate DEF PollTypes
<1>6. UNCHANGED <<turn, batch, msg>> /\ pc' = [pc EXCEPT ![w] = "check"]
  BY DEF NextSymbol, Goto, pollVars
<1>7. QED
  BY <1>5, <1>6 DEF PollTypes, Others, Steps

-----------------------------------------------------------------------------
(* What a replica knows *)

\* Markers, insights on the topic and served insights only become more.
Grows ==
  /\ marked \subseteq marked'
  /\ \A o \in Outputs : topic[o] \subseteq topic'[o]
  /\ \A s \in Symbols : insights[s] # {} => insights'[s] # {}

LEMMA SymbolsAreListed ==
  ASSUME NEW e \in Events
  PROVE  /\ DOMAIN SymbolsOf[e] \subseteq Nat \ {0}
         /\ \A i \in DOMAIN SymbolsOf[e] : SymbolsOf[e][i] \in Symbols
         /\ \A n \in Nat \ {0} : n \notin DOMAIN SymbolsOf[e]
              => \A i \in DOMAIN SymbolsOf[e] : i < n
<1>1. SymbolsOf[e] \in Seq(Symbols)
  BY AIAssumption
<1>2. DOMAIN SymbolsOf[e] = 1..Len(SymbolsOf[e]) /\ Len(SymbolsOf[e]) \in Nat
  BY <1>1
<1>3. QED
  BY <1>1, <1>2

LEMMA OutputTyped ==
  ASSUME NEW w \in Workers, Event(w) \in Events, work[w].pos \in DOMAIN SymbolsOf[Event(w)]
  PROVE  /\ Output(w) \in Outputs /\ Output(w) \in OutputSet(Event(w))
         /\ Symbol(w) \in Symbols /\ Output(w)[2] = Symbol(w)
<1>1. Symbol(w) \in Symbols
  BY SymbolsAreListed DEF Symbol
<1>2. Output(w) \in OutputSet(Event(w))
  BY DEF Output, Symbol, OutputSet
<1>3. QED
  BY <1>1, <1>2 DEF Outputs, Output

\* A replica that does not move keeps what it knows.
LEMMA LocalKept ==
  ASSUME NEW w \in Workers, Local(w), Grows,
         pc'[w] = pc[w], msg'[w] = msg[w], work'[w] = work[w]
  PROVE  Local(w)'
<1>1. Event(w)' = Event(w) /\ Symbol(w)' = Symbol(w) /\ Output(w)' = Output(w)
      /\ Insight(w)' = Insight(w)
  BY DEF Event, Symbol, Output, Insight
<1>2. pc[w] \in OnSymbol => Output(w) \in Outputs /\ Symbol(w) \in Symbols
  BY OutputTyped DEF Local, OnSymbol, OnEvent, Steps
<1>3. pc[w] = "show" => Insight(w) \in topic'[Output(w)]
  BY <1>2 DEF Local, OnSymbol, Grows
<1>4. pc[w] = "mark" => topic'[Output(w)] # {} /\ insights'[Symbol(w)] # {}
  BY <1>2 DEF Local, OnSymbol, Grows
<1>5. QED
  BY <1>1, <1>3, <1>4 DEF Local, Grows

LEMMA LocalsKept ==
  ASSUME Types, \A v \in Workers : Local(v), Grows, NEW w \in Workers, Others(w), Local(w)'
  PROVE  \A v \in Workers : Local(v)'
BY LocalKept DEF Others

LEMMA LocalIdle ==
  ASSUME NEW w \in Workers, pc'[w] = "idle", msg'[w] = NoMessage, work'[w].pos = 1
  PROVE  Local(w)'
BY DEF Local, OnEvent, OnSymbol

\* A replica that starts with an event, for the first time or once more.
LEMMA LocalStart ==
  ASSUME NEW w \in Workers, pc'[w] \in {"index", "reject"}, msg'[w] # NoMessage,
         work'[w].pos = 1, pc'[w] = "index" => EventOf[msg'[w]] \in Events
  PROVE  Local(w)'
<1>1. pc'[w] = "index" =>
        \A i \in DOMAIN SymbolsOf[EventOf[msg'[w]]] : ~(i < 1)
  BY SymbolsAreListed
<1>2. QED
  BY <1>1 DEF Local, OnEvent, OnSymbol, Event

LEMMA LocalFails ==
  ASSUME PollTypes, NEW w \in Workers, Local(w), pc[w] \in OnEvent, AttemptFails(w)
  PROVE  PollTypes' /\ Others(w) /\ Local(w)'
<1>1. /\ PollTypes' /\ Others(w)
      /\ pc'[w] \in {"index", "reject"} /\ msg'[w] = msg[w] /\ work'[w].pos = 1
  BY Fails
<1>2. msg[w] # NoMessage /\ EventOf[msg[w]] \in Events
  BY DEF Local, Event, OnEvent
<1>3. QED
  BY <1>1, <1>2, LocalStart

\* A replica that goes on with the same symbol.
LEMMA LocalOnward ==
  ASSUME NEW w \in Workers, Local(w), Grows, pc[w] \in OnEvent,
         pc'[w] \in {"check", "retrieve", "lookup", "generate", "store", "publish"},
         msg'[w] = msg[w], work'[w].pos = work[w].pos,
         pc'[w] \in OnSymbol => work[w].pos \in DOMAIN SymbolsOf[Event(w)]
  PROVE  Local(w)'
<1>1. Event(w)' = Event(w)
  BY DEF Event
<1>2. msg'[w] # NoMessage
  BY DEF Local, OnEvent
<1>3. QED
  BY <1>1, <1>2 DEF Local, Grows, OnEvent, Steps

-----------------------------------------------------------------------------
(* What all of them share *)

\* A step that writes no marker, publishes and serves nothing and completes no message.
Quiet ==
  /\ UNCHANGED <<marked, insights, topic, late>>
  /\ \A m \in Messages : state'[m] = "completed" => state[m] = "completed"

Shared == MarkedIsPublished /\ CompletedIsMarked /\ ServedWasPublished

LEMMA QuietKeeps ==
  ASSUME Shared, Quiet
  PROVE  Grows /\ Shared'
BY DEF Shared, Quiet, Grows, MarkedIsPublished, CompletedIsMarked, ServedWasPublished

LEMMA QuietStep ==
  ASSUME Inv, Quiet, PollTypes', BrokerTypes', index' \subseteq Events,
         NEW w \in Workers, Others(w), Local(w)'
  PROVE  Inv'
<1>1. Grows /\ Shared'
  BY QuietKeeps DEF Inv, Shared
<1>2. \A v \in Workers : Local(v)'
  BY <1>1, LocalsKept DEF Inv
<1>3. StoreTypes'
  BY DEF Inv, Types, StoreTypes, Quiet
<1>4. QED
  BY <1>1, <1>2, <1>3 DEF Inv, Types, Shared

LEMMA Settles ==
  ASSUME BrokerTypes, NEW m \in Messages, NEW outcome \in {"completed", "dead"},
         SettledAs(m, outcome)
  PROVE  /\ BrokerTypes'
         /\ \A k \in Messages : state'[k] # state[k] => k = m /\ state'[k] = outcome
BY DEF BrokerTypes, SettledAs

LEMMA Delivers ==
  ASSUME BrokerTypes, NEW w \in Workers, NEW S \in SUBSET Messages, Deliver(w, S)
  PROVE  /\ BrokerTypes'
         /\ \A k \in Messages : state'[k] = "completed" => state[k] = "completed"
BY DEF BrokerTypes, Deliver

-----------------------------------------------------------------------------
(* The steps of the poll loop *)

LEMMA ReceiveStep == ASSUME Inv, NEW w \in Workers, Receive(w) PROVE Inv'
<1>1. PICK S \in SUBSET Available(turn[w]) : Deliver(w, S) /\ batch' = [batch EXCEPT ![w] = S]
  BY DEF Receive
<1>2. S \in SUBSET Messages
  BY DEF Available
<1>3. BrokerTypes' /\ \A k \in Messages : state'[k] = "completed" => state[k] = "completed"
  BY <1>1, <1>2, Delivers DEF Inv, Types
<1>4. UNCHANGED <<pc, msg, work, index, marked, insights, topic, late>>
  BY DEF Receive, cacheVars, topicVars
<1>5. turn' \in [Workers -> {"news", "signals"}] /\ batch' \in [Workers -> SUBSET Messages]
  BY <1>1, <1>2 DEF Receive, Inv, Types, PollTypes
<1>6. PollTypes' /\ Others(w)
  BY <1>4, <1>5 DEF Inv, Types, PollTypes, WorkShape, Others
<1>7. Quiet
  BY <1>3, <1>4 DEF Quiet
<1>8. Local(w)'
  BY <1>4, <1>7, QuietKeeps, LocalKept DEF Inv, Shared
<1>9. QED
  BY <1>3, <1>4, <1>6, <1>7, <1>8, QuietStep DEF Inv, Types, StoreTypes

LEMMA ReceiveRaisesStep == ASSUME Inv, NEW w \in Workers, ReceiveRaises(w) PROVE Inv'
<1>1. PICK S \in SUBSET Available(turn[w]) : Deliver(w, S)
  BY DEF ReceiveRaises
<1>2. BrokerTypes' /\ \A k \in Messages : state'[k] = "completed" => state[k] = "completed"
  BY <1>1, Delivers DEF Inv, Types, Available
<1>3. AbortPoll(w) /\ UNCHANGED <<index, marked, insights, topic, late>>
  BY DEF ReceiveRaises, cacheVars, topicVars
<1>4. PollTypes' /\ Others(w) /\ Local(w)'
  BY <1>3, Aborts, LocalIdle DEF Inv, Types
<1>5. QED
  BY <1>2, <1>3, <1>4, QuietStep DEF Quiet, Inv, Types, StoreTypes

LEMMA BeginStep == ASSUME Inv, NEW w \in Workers, Begin(w) PROVE Inv'
<1>1. PICK m \in batch[w] :
        /\ batch' = [batch EXCEPT ![w] = @ \ {m}]
        /\ msg' = [msg EXCEPT ![w] = m]
        /\ Goto(w, IF EventOf[m] = NoEvent THEN "reject" ELSE "index")
  BY DEF Begin
<1>2. pc[w] = "idle" /\ UNCHANGED <<turn, work, state, owner, deliveries, index, marked,
                                   insights, topic, late>>
  BY DEF Begin, brokerVars, cacheVars, topicVars
<1>3. m \in Messages /\ m # NoMessage /\ EventOf[m] \in Events \cup {NoEvent}
  BY AIAssumption DEF Inv, Types, PollTypes
<1>4. PICK s \in {"index", "reject"} :
        pc' = [pc EXCEPT ![w] = s] /\ (s = "index" => EventOf[m] \in Events)
  BY <1>1, <1>3 DEF Goto
<1>5. PollTypes' /\ Others(w)
  BY <1>1, <1>2, <1>3, <1>4 DEF Inv, Types, PollTypes, WorkShape, Others, Steps
<1>6. pc'[w] = s /\ msg'[w] = m /\ work'[w].pos = 1
  BY <1>1, <1>2, <1>4 DEF Inv, Types, PollTypes, Local
<1>7. Local(w)'
  BY <1>3, <1>4, <1>6, LocalStart
<1>8. Quiet /\ BrokerTypes'
  BY <1>2 DEF Quiet, Inv, Types, BrokerTypes
<1>9. QED
  BY <1>2, <1>5, <1>7, <1>8, QuietStep DEF Inv, Types, StoreTypes

LEMMA CrashStep == ASSUME Inv, NEW w \in Workers, Crash(w) PROVE Inv'
<1>1. AbortPoll(w) /\ UNCHANGED <<state, owner, deliveries, index, marked, insights, topic, late>>
  BY DEF Crash, brokerVars, cacheVars, topicVars
<1>2. PollTypes' /\ Others(w) /\ Local(w)'
  BY <1>1, Aborts, LocalIdle DEF Inv, Types
<1>3. Quiet /\ BrokerTypes'
  BY <1>1 DEF Quiet, Inv, Types, BrokerTypes
<1>4. QED
  BY <1>1, <1>2, <1>3, QuietStep DEF Inv, Types, StoreTypes

LEMMA ExpiryStep == ASSUME Inv, NEW m \in Messages, PeekLockExpires(m) PROVE Inv'
<1>1. /\ state' = [state EXCEPT ![m] = IF deliveries[m] < MaxDeliveries THEN "ready" ELSE "dead"]
      /\ owner' = [owner EXCEPT ![m] = Nobody]
      /\ UNCHANGED <<pc, turn, batch, msg, work, deliveries, index, marked, insights, topic, late>>
  BY DEF PeekLockExpires, pollVars, cacheVars, topicVars
<1>2. BrokerTypes' /\ \A k \in Messages : state'[k] = "completed" => state[k] = "completed"
  BY <1>1 DEF Inv, Types, BrokerTypes
<1>3. Grows /\ Shared'
  <2>1. Quiet
    BY <1>1, <1>2 DEF Quiet
  <2>2. QED
    BY <2>1, QuietKeeps DEF Inv, Shared
<1>4. \A v \in Workers : Local(v)'
  BY <1>1, <1>3, LocalKept DEF Inv
<1>5. PollTypes' /\ StoreTypes'
  BY <1>1 DEF Inv, Types, PollTypes, WorkShape, StoreTypes
<1>6. QED
  BY <1>2, <1>3, <1>4, <1>5 DEF Inv, Types, Shared

-----------------------------------------------------------------------------
(* The steps of an attempt *)

\* A step that leaves broker, markers and insights alone.
LEMMA OwnStep ==
  ASSUME Inv, UNCHANGED <<state, owner, deliveries, marked, insights, topic, late>>,
         index' \subseteq Events,
         NEW w \in Workers, PollTypes', Others(w), Grows => Local(w)'
  PROVE  Inv'
<1>1. Quiet /\ BrokerTypes'
  BY DEF Quiet, Inv, Types, BrokerTypes
<1>2. Grows
  BY <1>1, QuietKeeps DEF Inv, Shared
<1>3. QED
  BY <1>1, <1>2, QuietStep

LEMMA IndexStep == ASSUME Inv, NEW w \in Workers, Index(w) PROVE Inv'
<1>1. pc[w] = "index" /\ Event(w) \in Events
      /\ UNCHANGED <<state, owner, deliveries, marked, insights, topic, late>>
  BY DEF Index, Inv, Local, OnEvent, Steps, brokerVars, cacheVars, topicVars
<1>2. index' \subseteq Events
  BY <1>1 DEF Index, Indexed, Inv, Types, StoreTypes
<1>3. CASE GoOn(w, "check")
  <2>1. /\ PollTypes' /\ Others(w)
        /\ pc'[w] = "check" /\ msg'[w] = msg[w] /\ work'[w] = work[w]
    BY <1>3, GoesOn DEF Inv, Types, Steps
  <2>2. Grows => Local(w)'
    BY <1>1, <2>1, LocalOnward DEF Inv, OnEvent, OnSymbol, Steps
  <2>3. QED
    BY <1>1, <1>2, <2>1, <2>2, OwnStep
<1>4. CASE AttemptFails(w)
  BY <1>1, <1>2, <1>4, LocalFails, OwnStep DEF Inv, Types, OnEvent, Steps
<1>5. QED
  BY <1>3, <1>4 DEF Index, Raises

LEMMA CheckStep == ASSUME Inv, NEW w \in Workers, Check(w) PROVE Inv'
<1>1. pc[w] = "check" /\ Event(w) \in Events /\ msg[w] # NoMessage
      /\ UNCHANGED <<state, owner, deliveries, index, marked, insights, topic, late>>
  BY DEF Check, Inv, Local, OnEvent, Steps, brokerVars, cacheVars, topicVars
<1>2. index' \subseteq Events
  BY <1>1 DEF Inv, Types, StoreTypes
<1>3. \A i \in DOMAIN SymbolsOf[Event(w)] :
        i < work[w].pos => <<Event(w), SymbolsOf[Event(w)][i]>> \in marked
  BY <1>1 DEF Inv, Local, OnEvent, Steps
<1>4. work[w].pos \in Nat \ {0}
  BY DEF Inv, Types, PollTypes, WorkShape
<1>5. CASE work[w].pos \notin DOMAIN SymbolsOf[Event(w)] /\ GoOn(w, "complete")
  <2>1. /\ PollTypes' /\ Others(w)
        /\ pc'[w] = "complete" /\ msg'[w] = msg[w] /\ work'[w] = work[w]
    BY <1>5, GoesOn DEF Inv, Types, Steps
  <2>2. \A i \in DOMAIN SymbolsOf[Event(w)] : <<Event(w), SymbolsOf[Event(w)][i]>> \in marked
    BY <1>1, <1>3, <1>4, <1>5, SymbolsAreListed
  <2>3. OutputSet(Event(w)) \subseteq marked
    BY <2>2 DEF OutputSet
  <2>4. Event(w)' = Event(w) /\ marked' = marked
    BY <1>1, <2>1 DEF Event
  <2>5. Local(w)'
    BY <1>1, <1>3, <2>1, <2>3, <2>4 DEF Local, OnEvent, OnSymbol
  <2>6. QED
    BY <1>1, <1>2, <2>1, <2>5, OwnStep
<1>6. CASE work[w].pos \in DOMAIN SymbolsOf[Event(w)] /\ Output(w) \in marked /\ NextSymbol(w)
  <2>1. /\ PollTypes' /\ Others(w)
        /\ pc'[w] = "check" /\ msg'[w] = msg[w] /\ work'[w].pos = work[w].pos + 1
    BY <1>6, NextOfEvent DEF Inv, Types
  <2>2. \A i \in DOMAIN SymbolsOf[Event(w)] :
          i < work[w].pos + 1 => <<Event(w), SymbolsOf[Event(w)][i]>> \in marked
    <3>1. \A i \in DOMAIN SymbolsOf[Event(w)] :
            i < work[w].pos + 1 => i = work[w].pos \/ i < work[w].pos
      BY <1>1, <1>4, SymbolsAreListed
    <3>2. QED
      BY <1>3, <1>6, <3>1 DEF Output, Symbol
  <2>3. Event(w)' = Event(w) /\ marked' = marked
    BY <1>1, <2>1 DEF Event
  <2>4. Local(w)'
    BY <1>1, <2>1, <2>2, <2>3 DEF Local, OnEvent, OnSymbol
  <2>5. QED
    BY <1>1, <1>2, <2>1, <2>4, OwnStep
<1>7. CASE work[w].pos \in DOMAIN SymbolsOf[Event(w)] /\ GoOn(w, "retrieve")
  <2>1. /\ PollTypes' /\ Others(w)
        /\ pc'[w] = "retrieve" /\ msg'[w] = msg[w] /\ work'[w] = work[w]
    BY <1>7, GoesOn DEF Inv, Types, Steps
  <2>2. Grows => Local(w)'
    BY <1>1, <1>7, <2>1, LocalOnward DEF Inv, OnEvent, Steps
  <2>3. QED
    BY <1>1, <1>2, <2>1, <2>2, OwnStep
<1>8. CASE AttemptFails(w)
  BY <1>1, <1>2, <1>8, LocalFails, OwnStep DEF Inv, Types, OnEvent, Steps
<1>9. QED
  BY <1>5, <1>6, <1>7, <1>8 DEF Check, Raises

LEMMA AtSymbol ==
  ASSUME Inv, NEW w \in Workers, pc[w] \in OnSymbol
  PROVE  /\ pc[w] \in OnEvent /\ Event(w) \in Events /\ msg[w] # NoMessage
         /\ work[w].pos \in DOMAIN SymbolsOf[Event(w)]
         /\ Output(w) \in Outputs /\ Output(w) \in OutputSet(Event(w))
         /\ Symbol(w) \in Symbols /\ Output(w)[2] = Symbol(w)
<1>1. pc[w] \in OnEvent
  BY DEF OnSymbol, OnEvent, Steps
<1>2. Event(w) \in Events /\ work[w].pos \in DOMAIN SymbolsOf[Event(w)] /\ msg[w] # NoMessage
  BY <1>1 DEF Inv, Local, OnEvent
<1>3. QED
  BY <1>1, <1>2, OutputTyped

LEMMA FailedStep ==
  ASSUME Inv, UNCHANGED <<state, owner, deliveries, index, marked, insights, topic, late>>,
         NEW w \in Workers, pc[w] \in OnEvent, AttemptFails(w)
  PROVE  Inv'
<1>1. index' \subseteq Events
  BY DEF Inv, Types, StoreTypes
<1>2. PollTypes' /\ Others(w) /\ Local(w)'
  BY LocalFails DEF Inv, Types
<1>3. QED
  BY <1>1, <1>2, OwnStep

\* A step that goes on with the symbol, whatever it does to the other locals.
LEMMA OnwardStep ==
  ASSUME Inv, UNCHANGED <<state, owner, deliveries, index, marked, insights, topic, late>>,
         NEW w \in Workers, pc[w] \in OnSymbol, PollTypes', Others(w),
         pc'[w] \in {"retrieve", "lookup", "generate", "store", "publish"},
         msg'[w] = msg[w], work'[w].pos = work[w].pos
  PROVE  Inv'
<1>1. index' \subseteq Events
  BY DEF Inv, Types, StoreTypes
<1>2. Grows => Local(w)'
  BY AtSymbol, LocalOnward DEF Inv
<1>3. QED
  BY <1>1, <1>2, OwnStep

LEMMA GoneOn ==
  ASSUME Inv, UNCHANGED <<state, owner, deliveries, index, marked, insights, topic, late>>,
         NEW w \in Workers, pc[w] \in OnSymbol, GoOn(w, "generate")
  PROVE  Inv'
<1>1. "generate" \in Steps
  BY DEF Steps
<1>2. /\ PollTypes' /\ Others(w)
      /\ pc'[w] = "generate" /\ msg'[w] = msg[w] /\ work'[w] = work[w]
  BY <1>1, GoesOn DEF Inv, Types
<1>3. QED
  BY <1>2, OnwardStep

LEMMA DraftedStep ==
  ASSUME Inv, UNCHANGED <<state, owner, deliveries, index, marked, insights, topic, late>>,
         NEW w \in Workers, pc[w] \in OnSymbol, NEW d, NEW s \in {"store", "publish"},
         Drafted(w, d, s)
  PROVE  Inv'
<1>1. s \in Steps
  BY DEF Steps
<1>2. /\ PollTypes' /\ Others(w)
      /\ pc'[w] = s /\ msg'[w] = msg[w] /\ work'[w].pos = work[w].pos
  BY <1>1, Drafts DEF Inv, Types
<1>3. QED
  BY <1>2, OnwardStep

LEMMA RetrieveStep == ASSUME Inv, NEW w \in Workers, Retrieve(w) PROVE Inv'
<1>1. pc[w] = "retrieve"
      /\ UNCHANGED <<state, owner, deliveries, index, marked, insights, topic, late>>
  BY DEF Retrieve, brokerVars, cacheVars, topicVars
<1>2. ASSUME NEW context, work' = [work EXCEPT ![w].context = context],
             Goto(w, "lookup"), UNCHANGED pollVars
      PROVE  Inv'
  <2>1. /\ PollTypes' /\ Others(w)
        /\ pc'[w] = "lookup" /\ msg'[w] = msg[w] /\ work'[w].pos = work[w].pos
    BY <1>2, Retrieves DEF Inv, Types
  <2>2. QED
    BY <1>1, <2>1, OnwardStep DEF OnSymbol
<1>3. CASE AttemptFails(w)
  BY <1>1, <1>3, FailedStep DEF OnEvent, Steps
<1>4. QED
  BY <1>2, <1>3 DEF Retrieve, Raises

LEMMA LookupStep == ASSUME Inv, NEW w \in Workers, Lookup(w) PROVE Inv'
<1>1. pc[w] = "lookup" /\ pc[w] \in OnSymbol /\ pc[w] \in OnEvent
      /\ UNCHANGED <<state, owner, deliveries, index, marked, insights, topic, late>>
  BY DEF Lookup, brokerVars, cacheVars, topicVars, OnSymbol, OnEvent, Steps
<1>2. CASE GoOn(w, "generate")
  BY <1>1, <1>2, GoneOn
<1>3. ASSUME NEW d, Drafted(w, d, "publish")
      PROVE  Inv'
  BY <1>1, <1>3, DraftedStep
<1>4. CASE AttemptFails(w)
  BY <1>1, <1>4, FailedStep
<1>5. QED
  BY <1>2, <1>3, <1>4 DEF Lookup, Raises

LEMMA AskStep == ASSUME Inv, NEW w \in Workers, Ask(w) PROVE Inv'
<1>1. pc[w] = "generate" /\ pc[w] \in OnSymbol /\ pc[w] \in OnEvent
      /\ UNCHANGED <<state, owner, deliveries, index, marked, insights, topic, late>>
  BY DEF Ask, brokerVars, cacheVars, topicVars, OnSymbol, OnEvent, Steps
<1>2. ASSUME NEW d, Drafted(w, d, "store")
      PROVE  Inv'
  BY <1>1, <1>2, DraftedStep
<1>3. CASE AttemptFails(w)
  BY <1>1, <1>3, FailedStep
<1>4. QED
  BY <1>2, <1>3 DEF Ask, Raises

LEMMA StoreStep == ASSUME Inv, NEW w \in Workers, Store(w) PROVE Inv'
<1>1. pc[w] = "store" /\ pc[w] \in OnSymbol /\ pc[w] \in OnEvent
      /\ UNCHANGED <<state, owner, deliveries, index, marked, insights, topic, late>>
  BY DEF Store, brokerVars, topicVars, OnSymbol, OnEvent, Steps
<1>2. ASSUME NEW d, Drafted(w, d, "publish")
      PROVE  Inv'
  BY <1>1, <1>2, DraftedStep
<1>3. CASE AttemptFails(w)
  BY <1>1, <1>3, FailedStep
<1>4. QED
  BY <1>2, <1>3 DEF Store, Raises

-----------------------------------------------------------------------------
(* Publishing, serving and marking an insight *)

LEMMA SharedStep ==
  ASSUME Inv, Grows, Shared', StoreTypes', BrokerTypes',
         NEW w \in Workers, PollTypes', Others(w), Local(w)'
  PROVE  Inv'
<1>1. \A v \in Workers : Local(v)'
  BY LocalsKept DEF Inv
<1>2. QED
  BY <1>1 DEF Inv, Types, Shared

LEMMA FailsAfter ==
  ASSUME Inv, Grows, Shared', StoreTypes', BrokerTypes',
         NEW w \in Workers, pc[w] \in OnEvent, AttemptFails(w)
  PROVE  Inv'
<1>1. PollTypes' /\ Others(w) /\ Local(w)'
  BY LocalFails DEF Inv, Types
<1>2. QED
  BY <1>1, SharedStep

LEMMA AcceptedKeeps ==
  ASSUME Inv, NEW w \in Workers, pc[w] = "publish", Accepted(w),
         UNCHANGED <<state, owner, deliveries, index, marked, insights>>
  PROVE  /\ Grows /\ Shared' /\ StoreTypes' /\ BrokerTypes'
         /\ Insight(w) \in topic'[Output(w)]
<1>1. Output(w) \in Outputs
  BY AtSymbol DEF OnSymbol
<1>2. /\ topic' = [topic EXCEPT ![Output(w)] = @ \cup {Insight(w)}]
      /\ late' \subseteq late \cup {Output(w)}
  BY DEF Accepted
<1>3. topic = [o \in Outputs |-> topic[o]]
  BY DEF Inv, Types, StoreTypes
<1>4. topic' = [o \in Outputs |-> IF o = Output(w) THEN topic[o] \cup {Insight(w)} ELSE topic[o]]
  BY <1>2, <1>3
<1>5. \A o \in Outputs : topic[o] \subseteq topic'[o]
  BY <1>4
<1>6. Grows /\ Insight(w) \in topic'[Output(w)]
  BY <1>1, <1>4, <1>5 DEF Grows
<1>7. StoreTypes' /\ BrokerTypes'
  BY <1>1, <1>2, <1>4 DEF Inv, Types, StoreTypes, BrokerTypes
<1>8. MarkedIsPublished'
  BY <1>5 DEF Inv, Types, StoreTypes, MarkedIsPublished
<1>9. ServedWasPublished' /\ CompletedIsMarked'
  BY <1>5 DEF Inv, ServedWasPublished, CompletedIsMarked
<1>10. QED
  BY <1>6, <1>7, <1>8, <1>9 DEF Shared

LEMMA PublishStep == ASSUME Inv, NEW w \in Workers, Publish(w) PROVE Inv'
<1>1. pc[w] = "publish" /\ pc[w] \in OnSymbol /\ pc[w] \in OnEvent
      /\ UNCHANGED <<state, owner, deliveries, index, marked, insights>>
  BY DEF Publish, brokerVars, cacheVars, OnSymbol, OnEvent, Steps
<1>2. CASE Accepted(w) /\ GoOn(w, "show")
  <2>1. /\ Grows /\ Shared' /\ StoreTypes' /\ BrokerTypes'
        /\ Insight(w) \in topic'[Output(w)]
    BY <1>1, <1>2, AcceptedKeeps
  <2>2. /\ PollTypes' /\ Others(w)
        /\ pc'[w] = "show" /\ msg'[w] = msg[w] /\ work'[w] = work[w]
    BY <1>2, GoesOn DEF Inv, Types, Steps
  <2>3. Event(w)' = Event(w) /\ Output(w)' = Output(w) /\ Insight(w)' = Insight(w)
    BY <2>2 DEF Event, Symbol, Output, Insight
  <2>4. Local(w)'
    BY <1>1, <2>1, <2>2, <2>3, AtSymbol DEF Inv, Local, Grows
  <2>5. QED
    BY <2>1, <2>2, <2>4, SharedStep
<1>3. CASE UNCHANGED topicVars /\ AttemptFails(w)
  BY <1>1, <1>3, FailedStep DEF topicVars
<1>4. CASE Accepted(w) /\ AttemptFails(w)
  BY <1>1, <1>4, AcceptedKeeps, FailsAfter
<1>5. QED
  BY <1>2, <1>3, <1>4 DEF Publish, Raises

LEMMA ShownKeeps ==
  ASSUME Inv, NEW w \in Workers, pc[w] = "show",
         insights' = [insights EXCEPT ![Symbol(w)] = {Insight(w)}],
         UNCHANGED <<state, owner, deliveries, index, marked, topic, late>>
  PROVE  /\ Grows /\ Shared' /\ StoreTypes' /\ BrokerTypes'
         /\ topic'[Output(w)] # {} /\ insights'[Symbol(w)] # {}
<1>1. Symbol(w) \in Symbols /\ Output(w) \in Outputs /\ Output(w)[2] = Symbol(w)
  BY AtSymbol DEF OnSymbol
<1>2. Insight(w) \in topic[Output(w)] /\ Insight(w).output = Output(w)
  BY DEF Inv, Local, Insight
<1>3. insights = [s \in Symbols |-> insights[s]]
  BY DEF Inv, Types, StoreTypes
<1>4. insights' = [s \in Symbols |-> IF s = Symbol(w) THEN {Insight(w)} ELSE insights[s]]
  BY <1>3
<1>5. Grows /\ StoreTypes' /\ BrokerTypes' /\ topic'[Output(w)] # {} /\ insights'[Symbol(w)] # {}
  BY <1>1, <1>2, <1>4 DEF Grows, Inv, Types, StoreTypes, BrokerTypes
<1>6. MarkedIsPublished'
  <2>1. ASSUME NEW o \in marked
        PROVE  insights'[o[2]] # {}
    <3>1. o \in Outputs /\ insights[o[2]] # {}
      BY DEF Inv, Types, StoreTypes, MarkedIsPublished
    <3>2. o[2] \in Symbols
      BY <3>1, SymbolsAreListed DEF Outputs, OutputSet
    <3>3. QED
      BY <3>1, <3>2, <1>4
  <2>2. QED
    BY <2>1 DEF Inv, MarkedIsPublished
<1>7. ServedWasPublished'
  BY <1>1, <1>2, <1>4 DEF Inv, ServedWasPublished
<1>8. CompletedIsMarked'
  BY DEF Inv, CompletedIsMarked
<1>9. QED
  BY <1>5, <1>6, <1>7, <1>8 DEF Shared

LEMMA ShowStep == ASSUME Inv, NEW w \in Workers, Show(w) PROVE Inv'
<1> DEFINE written == insights' = [insights EXCEPT ![Symbol(w)] = {Insight(w)}]
<1>1. pc[w] = "show" /\ pc[w] \in OnSymbol /\ pc[w] \in OnEvent
      /\ UNCHANGED <<state, owner, deliveries, index, marked, topic, late>>
  BY DEF Show, brokerVars, topicVars, OnSymbol, OnEvent, Steps
<1>2. CASE written /\ GoOn(w, "mark")
  <2>1. /\ Grows /\ Shared' /\ StoreTypes' /\ BrokerTypes'
        /\ topic'[Output(w)] # {} /\ insights'[Symbol(w)] # {}
    BY <1>1, <1>2, ShownKeeps
  <2>2. /\ PollTypes' /\ Others(w)
        /\ pc'[w] = "mark" /\ msg'[w] = msg[w] /\ work'[w] = work[w]
    BY <1>2, GoesOn DEF Inv, Types, Steps
  <2>3. Event(w)' = Event(w) /\ Output(w)' = Output(w) /\ Symbol(w)' = Symbol(w)
    BY <2>2 DEF Event, Symbol, Output
  <2>4. Local(w)'
    BY <1>1, <2>1, <2>2, <2>3, AtSymbol DEF Inv, Local, Grows
  <2>5. QED
    BY <2>1, <2>2, <2>4, SharedStep
<1>3. CASE written /\ AttemptFails(w)
  BY <1>1, <1>3, ShownKeeps, FailsAfter
<1>4. CASE UNCHANGED insights /\ AttemptFails(w)
  BY <1>1, <1>4, FailedStep
<1>5. QED
  BY <1>2, <1>3, <1>4 DEF Show, Raises

LEMMA MarkedKeeps ==
  ASSUME Inv, NEW w \in Workers, pc[w] = "mark", marked' = marked \cup {Output(w)},
         UNCHANGED <<state, owner, deliveries, index, insights, topic, late>>
  PROVE  Grows /\ Shared' /\ StoreTypes' /\ BrokerTypes'
<1>1. Output(w) \in Outputs /\ Output(w)[2] = Symbol(w)
  BY AtSymbol DEF OnSymbol
<1>2. topic[Output(w)] # {} /\ insights[Symbol(w)] # {}
  BY DEF Inv, Local
<1>3. Grows /\ StoreTypes' /\ BrokerTypes'
  BY <1>1 DEF Grows, Inv, Types, StoreTypes, BrokerTypes
<1>4. MarkedIsPublished'
  BY <1>1, <1>2 DEF Inv, MarkedIsPublished
<1>5. ServedWasPublished' /\ CompletedIsMarked'
  BY DEF Inv, ServedWasPublished, CompletedIsMarked
<1>6. QED
  BY <1>3, <1>4, <1>5 DEF Shared

LEMMA MarkStep == ASSUME Inv, NEW w \in Workers, Mark(w) PROVE Inv'
<1> DEFINE written == marked' = marked \cup {Output(w)}
<1>1. pc[w] = "mark" /\ pc[w] \in OnSymbol /\ pc[w] \in OnEvent
      /\ UNCHANGED <<state, owner, deliveries, index, insights, topic, late>>
  BY DEF Mark, brokerVars, topicVars, OnSymbol, OnEvent, Steps
<1>2. CASE written /\ NextSymbol(w)
  <2>1. Grows /\ Shared' /\ StoreTypes' /\ BrokerTypes'
    BY <1>1, <1>2, MarkedKeeps
  <2>2. /\ PollTypes' /\ Others(w)
        /\ pc'[w] = "check" /\ msg'[w] = msg[w] /\ work'[w].pos = work[w].pos + 1
    BY <1>2, NextOfEvent DEF Inv, Types
  <2>3. Event(w)' = Event(w) /\ Event(w) \in Events /\ msg[w] # NoMessage
    BY <1>1, <2>2, AtSymbol DEF Event
  <2>4. work[w].pos \in Nat \ {0}
    BY DEF Inv, Types, PollTypes, WorkShape
  <2>5. \A i \in DOMAIN SymbolsOf[Event(w)] :
          i < work[w].pos + 1 => i = work[w].pos \/ i < work[w].pos
    BY <2>3, <2>4, SymbolsAreListed
  <2>6. \A i \in DOMAIN SymbolsOf[Event(w)] :
          i < work[w].pos => <<Event(w), SymbolsOf[Event(w)][i]>> \in marked
    BY <1>1 DEF Inv, Local
  <2>7. \A i \in DOMAIN SymbolsOf[Event(w)] :
          i < work[w].pos + 1 => <<Event(w), SymbolsOf[Event(w)][i]>> \in marked'
    BY <1>2, <2>5, <2>6 DEF Output, Symbol
  <2>8. Local(w)'
    BY <2>2, <2>3, <2>7 DEF Local, OnEvent, OnSymbol
  <2>9. QED
    BY <2>1, <2>2, <2>8, SharedStep
<1>3. CASE written /\ AttemptFails(w)
  BY <1>1, <1>3, MarkedKeeps, FailsAfter
<1>4. CASE UNCHANGED marked /\ AttemptFails(w)
  BY <1>1, <1>4, FailedStep
<1>5. QED
  BY <1>2, <1>3, <1>4 DEF Mark, Raises

-----------------------------------------------------------------------------
(* Settling *)

\* The message of an event whose symbols are all marked is completed.
LEMMA CompletedKeeps ==
  ASSUME Inv, NEW w \in Workers, pc[w] = "complete",
         SettledAs(msg[w], "completed") \/ UNCHANGED <<state, owner, deliveries>>,
         UNCHANGED <<index, marked, insights, topic, late>>
  PROVE  Grows /\ Shared' /\ StoreTypes' /\ BrokerTypes'
<1>1. msg[w] \in Messages /\ Event(w) \in Events /\ OutputSet(Event(w)) \subseteq marked
  BY DEF Inv, Types, PollTypes, Local, OnEvent, Steps
<1>2. BrokerTypes' /\ \A k \in Messages : state'[k] # state[k] => k = msg[w]
  BY <1>1, Settles DEF Inv, Types, BrokerTypes
<1>3. Grows /\ StoreTypes'
  BY DEF Grows, Inv, Types, StoreTypes
<1>4. EventOf[msg[w]] # NoEvent /\ OutputSet(EventOf[msg[w]]) \subseteq marked
  BY <1>1, AIAssumption DEF Event
<1>5. CompletedIsMarked'
  BY <1>2, <1>4 DEF Inv, CompletedIsMarked
<1>6. MarkedIsPublished' /\ ServedWasPublished'
  BY DEF Inv, MarkedIsPublished, ServedWasPublished
<1>7. QED
  BY <1>2, <1>3, <1>5, <1>6 DEF Shared

LEMMA CompleteStep == ASSUME Inv, NEW w \in Workers, Complete(w) PROVE Inv'
<1>1. pc[w] = "complete" /\ pc[w] \in OnEvent
      /\ UNCHANGED <<index, marked, insights, topic, late>>
  BY DEF Complete, cacheVars, topicVars, OnEvent, Steps
<1>2. SettledAs(msg[w], "completed") \/ UNCHANGED <<state, owner, deliveries>>
  BY DEF Complete, brokerVars
<1>3. Grows /\ Shared' /\ StoreTypes' /\ BrokerTypes'
  BY <1>1, <1>2, CompletedKeeps
<1>4. CASE Done(w)
  BY <1>3, <1>4, IsDone, LocalIdle, SharedStep DEF Inv, Types
<1>5. CASE AttemptFails(w)
  BY <1>1, <1>3, <1>5, FailsAfter
<1>6. QED
  BY <1>4, <1>5 DEF Complete, Raises

LEMMA RejectStep == ASSUME Inv, NEW w \in Workers, Reject(w) PROVE Inv'
<1>1. pc[w] = "reject" /\ UNCHANGED <<index, marked, insights, topic, late>>
  BY DEF Reject, cacheVars, topicVars
<1>2. msg[w] \in Messages
  BY <1>1 DEF Inv, Types, PollTypes, Local
<1>3. SettledAs(msg[w], "dead") \/ UNCHANGED <<state, owner, deliveries>>
  BY DEF Reject, DeadLettered, brokerVars
<1>4. BrokerTypes' /\ \A k \in Messages : state'[k] = "completed" => state[k] = "completed"
  BY <1>2, <1>3, Settles DEF Inv, Types, BrokerTypes
<1>5. Quiet
  BY <1>1, <1>4 DEF Quiet
<1>6. PollTypes' /\ Others(w) /\ Local(w)'
  <2>1. Done(w) \/ AbortPoll(w)
    BY DEF Reject, DeadLettered
  <2>2. QED
    BY <2>1, IsDone, Aborts, LocalIdle DEF Inv, Types
<1>7. QED
  BY <1>1, <1>4, <1>5, <1>6, QuietStep DEF Inv, Types, StoreTypes

-----------------------------------------------------------------------------
(* The theorems *)

LEMMA InitInv == Init => Inv
<1> SUFFICES ASSUME Init PROVE Inv
  OBVIOUS
<1>1. WorkShape
  BY FreshShape DEF Init, WorkShape, Shape
<1>2. Types
  BY <1>1 DEF Init, Types, PollTypes, BrokerTypes, StoreTypes, Steps
<1>3. \A w \in Workers : Local(w)
  BY FreshShape DEF Init, Local, OnEvent, OnSymbol
<1>4. MarkedIsPublished /\ CompletedIsMarked /\ ServedWasPublished
  BY DEF Init, MarkedIsPublished, CompletedIsMarked, ServedWasPublished
<1>5. QED
  BY <1>2, <1>3, <1>4 DEF Inv

LEMMA StutterStep == ASSUME Inv, UNCHANGED vars PROVE Inv'
<1>1. UNCHANGED <<pc, turn, batch, msg, work, state, owner, deliveries, index, marked,
                  insights, topic, late>>
  BY DEF vars, pollVars, brokerVars, cacheVars, topicVars
<1>2. Types'
  BY <1>1 DEF Inv, Types, PollTypes, WorkShape, Shape, BrokerTypes, StoreTypes
<1>3. Grows /\ Shared'
  BY <1>1, QuietKeeps DEF Quiet, Inv, Shared
<1>4. \A v \in Workers : Local(v)'
  BY <1>1, <1>3, LocalKept DEF Inv
<1>5. QED
  BY <1>2, <1>3, <1>4 DEF Inv, Shared

LEMMA InvStep == Inv /\ [Next]_vars => Inv'
<1> SUFFICES ASSUME Inv, [Next]_vars PROVE Inv'
  OBVIOUS
<1>1. ASSUME NEW w \in Workers, Step(w) PROVE Inv'
  BY <1>1, ReceiveStep, BeginStep, IndexStep, CheckStep, RetrieveStep, LookupStep, AskStep,
     StoreStep, PublishStep, ShowStep, MarkStep, CompleteStep, RejectStep DEF Step
<1>2. ASSUME NEW w \in Workers, ReceiveRaises(w) \/ Crash(w) PROVE Inv'
  BY <1>2, ReceiveRaisesStep, CrashStep
<1>3. ASSUME NEW m \in Messages, PeekLockExpires(m) PROVE Inv'
  BY <1>3, ExpiryStep
<1>4. CASE UNCHANGED vars
  BY <1>4, StutterStep
<1>5. QED
  BY <1>1, <1>2, <1>3, <1>4 DEF Next

LEMMA AlwaysInv == Spec => []Inv
BY InitInv, InvStep, PTL DEF Spec

\* The variables have their types.
THEOREM TypeCorrect == Spec => []TypeOK
<1>1. Inv => TypeOK
  BY DEF Inv, Types, PollTypes, WorkShape, BrokerTypes, StoreTypes, TypeOK
<1>2. QED
  BY <1>1, AlwaysInv, PTL

\* The processed marker of an event and symbol (service.py:515), which makes every later
\* copy skip the symbol, is never there before the insight is published and served.
THEOREM MarkerIsLast == Spec => []MarkedIsPublished
<1>1. Inv => MarkedIsPublished
  BY DEF Inv
<1>2. QED
  BY <1>1, AlwaysInv, PTL

\* Completing is the last step of the retried operation (service.py:373): no message is
\* completed while a symbol of its event lacks its insight, even if its peek lock is lost
\* and another replica has it.
THEOREM NoEventHalfDone == Spec => []CompletedIsMarked
<1>1. Inv => CompletedIsMarked
  BY DEF Inv
<1>2. QED
  BY <1>1, AlwaysInv, PTL

\* What the API serves for a symbol (service.py:511) was published for that symbol, for
\* all the replicas that overwrite each other's entries.
THEOREM ServesPublished == Spec => []ServedWasPublished
<1>1. Inv => ServedWasPublished
  BY DEF Inv
<1>2. QED
  BY <1>1, AlwaysInv, PTL

-----------------------------------------------------------------------------
(* What an insight may cite *)

\* The citation of an indexed document.
InIndex(c) == \E d \in index : c = CitationOf[d]

\* A draft holds a result with citations.
HasResult(draft) == "result" \in DOMAIN draft /\ "citations" \in DOMAIN draft.result

\* What a replica may cite when it has come to a step: the model's own citations are
\* still in a draft that is about to be stored, and gone from one to be published.
CitedAt(w) ==
  /\ pc[w] \in {"lookup", "generate", "store"} =>
       \A c \in Allowed(work[w].context) : InIndex(c)
  /\ pc[w] = "store" => HasResult(work[w].draft)
  /\ pc[w] = "publish" => \A c \in work[w].draft.result.citations : InIndex(c)

CitedInv ==
  /\ \A w \in Workers : CitedAt(w)
  /\ \A g \in generations : HasResult(g.draft)
  /\ CitationsIndexed

\* The guardrails keep no citation that the context does not hold.
LEMMA GuardrailsDrop ==
  ASSUME NEW context, NEW result, "citations" \in DOMAIN result
  PROVE  /\ "citations" \in DOMAIN ApplyGuardrails(context, result)
         /\ ApplyGuardrails(context, result).citations \subseteq Allowed(context)
<1> DEFINE report == Evaluate(context, result)
<1> HIDE DEF report
<1>1. ApplyGuardrails(context, result) =
        [result EXCEPT !.citations = @ \cap Allowed(context),
                       !.grounded = report.grounded, !.reasons = report.reasons]
  BY DEF ApplyGuardrails, report
<1> QED
  BY <1>1

\* Guarding a draft leaves only what its context holds.
LEMMA GuardedDraft ==
  ASSUME NEW context, NEW draft, HasResult(draft), NEW guarded,
         guarded = [draft EXCEPT !.result = ApplyGuardrails(context, @)]
  PROVE  HasResult(guarded) /\ guarded.result.citations \subseteq Allowed(context)
<1>1. "result" \in DOMAIN guarded /\ guarded.result = ApplyGuardrails(context, draft.result)
  BY DEF HasResult
<1> QED
  BY <1>1, GuardrailsDrop DEF HasResult

\* The model's answer is a draft with a result, in JSON or not.
LEMMA AnswerHasResult ==
  ASSUME NEW context, NEW reply
  PROVE  HasResult(Answered(context, reply))
<1>1. "citations" \in DOMAIN FromPayload(reply) /\ "citations" \in DOMAIN FromText(context, reply)
  BY DEF FromPayload, FromText
<1>2. "citations" \in DOMAIN Structured(context, reply)
  BY <1>1 DEF Structured
<1>3. "citations" \in DOMAIN Generate(context, reply)
  BY <1>2, GuardrailsDrop DEF Generate
<1> QED
  BY <1>3 DEF Answered, HasResult

\* The retrieval pipeline finds indexed documents.
LEMMA ContextInIndex ==
  ASSUME NEW e, NEW context \in ContextsFor(e), NEW c \in Allowed(context)
  PROVE  InIndex(c)
<1> DEFINE rows == {[id |-> d, knn |-> Knn[e][d], lexical |-> Lexical[e][d]] : d \in index}
<1>1. PICK found \in RetrieveChunks(rows, TopK, CandidateK) :
        context = Docs([i \in DOMAIN found |-> found[i].id])
  BY DEF ContextsFor
<1>2. \A i \in DOMAIN found : found[i] \in rows
  <2> HIDE DEF rows
  <2>1. PICK S \in SUBSET rows :
          \E s \in Ranked(S) : found = [i \in {j \in DOMAIN s : j <= TopK} |-> s[i]]
    <3> DEFINE k == IF CandidateK > TopK THEN CandidateK ELSE TopK
               cut(s) == [i \in {j \in DOMAIN s : j <= TopK} |-> s[i]]
    <3>1. found \in {cut(s) : s \in UNION {Ranked(S) : S \in KnnSearch(rows, k)}}
      BY <1>1 DEF RetrieveChunks
    <3> HIDE DEF k, cut
    <3>2. PICK S \in KnnSearch(rows, k) : \E s \in Ranked(S) : found = cut(s)
      BY <3>1
    <3>3. S \in SUBSET rows
      BY DEF KnnSearch
    <3> QED
      BY <3>2, <3>3 DEF cut
  <2>2. PICK s \in Ranked(S) : found = [i \in {j \in DOMAIN s : j <= TopK} |-> s[i]]
    BY <2>1
  <2>3. \A i \in DOMAIN s : s[i] \in S
    BY DEF Ranked
  <2> QED
    BY <2>2, <2>3
<1>3. PICK i \in DOMAIN context : c = context[i].citation
  BY DEF Allowed
<1>4. i \in DOMAIN found /\ context[i].citation = CitationOf[found[i].id]
  BY <1>1, <1>3 DEF Docs
<1>5. found[i].id \in index
  BY <1>2, <1>4
<1> QED
  BY <1>3, <1>4, <1>5 DEF InIndex

\* No document leaves the index.
LEMMA IndexGrows == ASSUME [Next]_vars PROVE index \subseteq index'
<1>1. ASSUME NEW w \in Workers, Step(w) \/ ReceiveRaises(w) \/ Crash(w) PROVE index \subseteq index'
  BY <1>1 DEF Step, Receive, Begin, Index, Indexed, Check, Retrieve, Lookup, Ask, Store, Publish,
              Show, Mark, Complete, Reject, ReceiveRaises, Crash
<1> QED
  BY <1>1 DEF Next, PeekLockExpires, vars

\* The other replicas may cite what they could cite before.
LEMMA CitedFrame ==
  ASSUME CitedInv, index \subseteq index', NEW w \in Workers, Others(w), CitedAt(w)',
         \A g \in generations' : HasResult(g.draft), CitationsIndexed'
  PROVE  CitedInv'
<1>1. \A c : InIndex(c) => InIndex(c)'
  BY DEF InIndex
<1>2. ASSUME NEW v \in Workers, v # w PROVE CitedAt(v)'
  <2>1. CitedAt(v) /\ pc'[v] = pc[v] /\ work'[v] = work[v]
    BY <1>2 DEF CitedInv, Others
  <2> QED
    BY <1>1, <2>1 DEF CitedAt
<1> QED
  BY <1>2 DEF CitedInv

\* What is on the topic stays founded.
LEMMA CitedTopic ==
  ASSUME CitedInv, index \subseteq index', topic' = topic
  PROVE  CitationsIndexed'
BY DEF CitedInv, CitationsIndexed

\* A replica at a step that cites nothing.
LEMMA CitedElsewhere ==
  ASSUME CitedInv, index \subseteq index', NEW w \in Workers, Others(w),
         pc'[w] \notin {"lookup", "generate", "store", "publish"},
         generations' = generations, CitationsIndexed'
  PROVE  CitedInv'
<1>1. CitedAt(w)'
  BY DEF CitedAt
<1> QED
  BY <1>1, CitedFrame DEF CitedInv

\* A failing attempt cites nothing.
LEMMA CitedAfterFailure ==
  ASSUME Inv, CitedInv, index \subseteq index', NEW w \in Workers, AttemptFails(w),
         \A g \in generations' : HasResult(g.draft), CitationsIndexed'
  PROVE  CitedInv'
<1>1. Others(w) /\ pc'[w] \in {"index", "reject"}
  BY Fails DEF Inv, Types
<1>2. CitedAt(w)'
  BY <1>1 DEF CitedAt
<1> QED
  BY <1>1, <1>2, CitedFrame

\* The steps that read or write what may be cited.
LEMMA CitedRetrieve ==
  ASSUME Inv, CitedInv, index \subseteq index', NEW w \in Workers, Retrieve(w)
  PROVE  CitedInv'
<1>1. index' = index /\ generations' = generations /\ topic' = topic
  BY DEF Retrieve, cacheVars, topicVars
<1>2. CitationsIndexed'
  BY <1>1, CitedTopic
<1>3. ASSUME NEW context \in ContextsFor(Event(w)),
             work' = [work EXCEPT ![w].context = context], Goto(w, "lookup"), UNCHANGED pollVars
      PROVE  CitedInv'
  <2>1. Others(w) /\ pc'[w] = "lookup" /\ work'[w].context = context
    BY <1>3, Retrieves DEF Inv, Types
  <2>2. \A c \in Allowed(context) : InIndex(c)
    BY ContextInIndex
  <2>3. CitedAt(w)'
    BY <1>1, <2>1, <2>2 DEF CitedAt, InIndex
  <2> QED
    BY <1>1, <1>2, <2>1, <2>3, CitedFrame DEF CitedInv
<1>4. CASE AttemptFails(w)
  BY <1>1, <1>2, <1>4, CitedAfterFailure DEF CitedInv
<1> QED
  BY <1>3, <1>4 DEF Retrieve, Raises

LEMMA CitedLookup ==
  ASSUME Inv, CitedInv, index \subseteq index', NEW w \in Workers, Lookup(w)
  PROVE  CitedInv'
<1>1. index' = index /\ generations' = generations /\ topic' = topic /\ pc[w] = "lookup"
  BY DEF Lookup, cacheVars, topicVars
<1>2. CitationsIndexed'
  BY <1>1, CitedTopic
<1>3. \A c \in Allowed(work[w].context) : InIndex(c)
  BY <1>1 DEF CitedInv, CitedAt
<1>4. CASE GoOn(w, "generate")
  <2>1. Others(w) /\ pc'[w] = "generate" /\ work'[w] = work[w]
    BY <1>4, GoesOn DEF Inv, Types, Steps
  <2>2. CitedAt(w)'
    BY <1>1, <1>3, <2>1 DEF CitedAt, InIndex
  <2> QED
    BY <1>1, <1>2, <2>1, <2>2, CitedFrame DEF CitedInv
<1>5. ASSUME NEW g \in generations, NEW guarded,
             guarded = [g.draft EXCEPT !.result = ApplyGuardrails(work[w].context, @)],
             Drafted(w, guarded, "publish")
      PROVE  CitedInv'
  <2>1. Others(w) /\ pc'[w] = "publish" /\ work'[w].draft = guarded
    BY <1>5, Drafts DEF Inv, Types, Steps
  <2>2. HasResult(g.draft)
    BY DEF CitedInv
  <2>3. guarded.result.citations \subseteq Allowed(work[w].context)
    BY <1>5, <2>2, GuardedDraft
  <2>4. CitedAt(w)'
    BY <1>1, <1>3, <2>1, <2>3 DEF CitedAt, InIndex
  <2> QED
    BY <1>1, <1>2, <2>1, <2>4, CitedFrame DEF CitedInv
<1>6. CASE AttemptFails(w)
  BY <1>1, <1>2, <1>6, CitedAfterFailure DEF CitedInv
<1> QED
  BY <1>4, <1>5, <1>6 DEF Lookup, Raises

LEMMA CitedAsk ==
  ASSUME Inv, CitedInv, index \subseteq index', NEW w \in Workers, Ask(w)
  PROVE  CitedInv'
<1>1. index' = index /\ generations' = generations /\ topic' = topic /\ pc[w] = "generate"
  BY DEF Ask, cacheVars, topicVars
<1>2. CitationsIndexed'
  BY <1>1, CitedTopic
<1>3. ASSUME NEW kind,
             Drafted(w, Answered(work[w].context, Reply(kind, work[w].context)), "store")
      PROVE  CitedInv'
  <2> DEFINE draft == Answered(work[w].context, Reply(kind, work[w].context))
  <2>1. HasResult(draft)
    BY AnswerHasResult
  <2> HIDE DEF draft
  <2>2. Drafted(w, draft, "store")
    BY <1>3 DEF draft
  <2>3. /\ Others(w) /\ pc'[w] = "store"
        /\ work'[w].draft = draft /\ work'[w].context = work[w].context
    BY <2>2, Drafts DEF Inv, Types, Steps
  <2>4. \A c \in Allowed(work[w].context) : InIndex(c)
    BY <1>1 DEF CitedInv, CitedAt
  <2>5. CitedAt(w)'
    BY <1>1, <2>1, <2>3, <2>4 DEF CitedAt, InIndex
  <2> QED
    BY <1>1, <1>2, <2>3, <2>5, CitedFrame DEF CitedInv
<1>4. CASE AttemptFails(w)
  BY <1>1, <1>2, <1>4, CitedAfterFailure DEF CitedInv
<1> QED
  BY <1>3, <1>4 DEF Ask, Raises

LEMMA CitedStore ==
  ASSUME Inv, CitedInv, index \subseteq index', NEW w \in Workers, Store(w)
  PROVE  CitedInv'
<1>1. index' = index /\ topic' = topic /\ pc[w] = "store"
  BY DEF Store, topicVars
<1>2. CitationsIndexed'
  BY <1>1, CitedTopic
<1>3. HasResult(work[w].draft) /\ \A c \in Allowed(work[w].context) : InIndex(c)
  BY <1>1 DEF CitedInv, CitedAt
<1>4. HasResult(Guarded(w)) /\ Guarded(w).result.citations \subseteq Allowed(work[w].context)
  BY <1>3, GuardedDraft DEF Guarded
<1>5. \A g \in generations' : HasResult(g.draft)
  <2>1. \/ generations' = generations
        \/ generations' = {g \in generations : g.key # CacheKey(w)}
                            \cup {[key |-> CacheKey(w), draft |-> Guarded(w)]}
    BY DEF Store
  <2>2. \A g \in generations' : g \in generations \/ g.draft = Guarded(w)
    BY <2>1
  <2> QED
    BY <1>4, <2>2 DEF CitedInv
<1>6. CASE Drafted(w, Guarded(w), "publish")
  <2>1. Others(w) /\ pc'[w] = "publish" /\ work'[w].draft = Guarded(w)
    BY <1>6, Drafts DEF Inv, Types, Steps
  <2>2. CitedAt(w)'
    BY <1>1, <1>3, <1>4, <2>1 DEF CitedAt, InIndex
  <2> QED
    BY <1>1, <1>2, <1>5, <2>1, <2>2, CitedFrame
<1>7. CASE AttemptFails(w)
  BY <1>1, <1>2, <1>5, <1>7, CitedAfterFailure
<1> QED
  BY <1>6, <1>7 DEF Store, Raises

LEMMA CitedPublish ==
  ASSUME Inv, CitedInv, index \subseteq index', NEW w \in Workers, Publish(w)
  PROVE  CitedInv'
<1>1. index' = index /\ generations' = generations /\ pc[w] = "publish"
  BY DEF Publish, cacheVars
<1>2. CitationsIndexed'
  <2>1. CASE Accepted(w)
    <3>1. \A c \in Insight(w).citations : \E d \in index : c = CitationOf[d]
      BY <1>1 DEF CitedInv, CitedAt, Insight, InIndex
    <3>2. topic' = [topic EXCEPT ![Output(w)] = @ \cup {Insight(w)}]
      BY <2>1 DEF Accepted
    <3>3. topic = [o \in Outputs |-> topic[o]]
      BY DEF Inv, Types, StoreTypes
    <3>4. \A o \in Outputs : \A i \in topic'[o] : i \in topic[o] \/ i = Insight(w)
      BY <3>2, <3>3
    <3> QED
      BY <1>1, <3>1, <3>4 DEF CitedInv, CitationsIndexed
  <2>2. CASE UNCHANGED topicVars
    BY <2>2, CitedTopic DEF topicVars
  <2> QED
    BY <2>1, <2>2 DEF Publish
<1>3. CASE GoOn(w, "show")
  <2>1. Others(w) /\ pc'[w] = "show"
    BY <1>3, GoesOn DEF Inv, Types, Steps
  <2> QED
    BY <1>1, <1>2, <2>1, CitedElsewhere
<1>4. CASE AttemptFails(w)
  BY <1>1, <1>2, <1>4, CitedAfterFailure DEF CitedInv
<1> QED
  BY <1>3, <1>4 DEF Publish, Raises

\* The steps at which a replica has no answer in hand lead to such steps.
LEMMA MovesElsewhere ==
  ASSUME PollTypes, NEW w \in Workers,
         \/ Begin(w) \/ Index(w) \/ Check(w) \/ Show(w) \/ Mark(w) \/ Complete(w)
         \/ Reject(w) \/ ReceiveRaises(w) \/ Crash(w)
  PROVE  Others(w) /\ pc'[w] \notin {"lookup", "generate", "store", "publish"}
<1>1. CASE Begin(w)
  <2>1. PICK m \in Messages, s \in {"reject", "index"} :
          msg' = [msg EXCEPT ![w] = m] /\ pc' = [pc EXCEPT ![w] = s] /\ work' = work
    BY <1>1 DEF Begin, Goto, PollTypes
  <2> QED
    BY <2>1 DEF Others, PollTypes
<1>2. \/ Begin(w)
      \/ AbortPoll(w) \/ AttemptFails(w) \/ Done(w) \/ NextSymbol(w)
      \/ \E s \in {"check", "complete", "retrieve", "mark"} : GoOn(w, s)
  BY DEF Index, Check, Show, Mark, Complete, Reject, DeadLettered, ReceiveRaises, Crash, Raises
<1>3. ASSUME NEW s \in {"check", "complete", "retrieve", "mark"}, GoOn(w, s)
      PROVE  Others(w) /\ pc'[w] = s
  BY <1>3, GoesOn DEF Steps
<1> QED
  BY <1>1, <1>2, <1>3, Aborts, Fails, IsDone, NextOfEvent

\* Every step keeps what may be cited.
LEMMA CitedStep ==
  ASSUME Inv, CitedInv, [Next]_vars
  PROVE  CitedInv'
<1>1. index \subseteq index'
  BY IndexGrows
<1>2. ASSUME NEW w \in Workers, Retrieve(w) \/ Lookup(w) \/ Ask(w) \/ Store(w) \/ Publish(w)
      PROVE  CitedInv'
  BY <1>1, <1>2, CitedRetrieve, CitedLookup, CitedAsk, CitedStore, CitedPublish
<1>3. ASSUME NEW w \in Workers,
             \/ Begin(w) \/ Index(w) \/ Check(w) \/ Show(w) \/ Mark(w) \/ Complete(w)
             \/ Reject(w) \/ ReceiveRaises(w) \/ Crash(w)
      PROVE  CitedInv'
  <2>1. generations' = generations /\ topic' = topic
    BY <1>3 DEF Begin, Index, Check, Show, Mark, Complete, Reject, ReceiveRaises, Crash,
                cacheVars, topicVars
  <2>2. Others(w) /\ pc'[w] \notin {"lookup", "generate", "store", "publish"}
    BY <1>3, MovesElsewhere DEF Inv, Types
  <2> QED
    BY <1>1, <2>1, <2>2, CitedTopic, CitedElsewhere
<1>4. CASE UNCHANGED <<pc, work, generations, topic>>
  <2>1. \A c : InIndex(c) => InIndex(c)'
    BY <1>1 DEF InIndex
  <2>2. \A v \in Workers : CitedAt(v)'
    BY <1>4, <2>1 DEF CitedInv, CitedAt
  <2> QED
    BY <1>1, <1>4, <2>2, CitedTopic DEF CitedInv
<1> QED
  BY <1>2, <1>3, <1>4
  DEF Next, Step, Receive, PeekLockExpires, vars, cacheVars, topicVars

\* A published insight cites indexed documents only, whatever the model answers and
\* whichever event the answer was generated for (guardrails.py:91-124): the guardrails
\* are applied to an answer before it is cached and to a cached one before it is used.
THEOREM CitesIndexed == Spec => []CitationsIndexed
<1>1. Init => CitedInv
  BY DEF Init, CitedInv, CitedAt, CitationsIndexed
<1>2. Inv /\ CitedInv /\ [Next]_vars => CitedInv'
  BY CitedStep
<1>3. CitedInv => CitationsIndexed
  BY DEF CitedInv
<1> QED
  BY <1>1, <1>2, <1>3, AlwaysInv, PTL DEF Spec

-----------------------------------------------------------------------------
(* What the guardrails' verdict is worth *)

\* The service's guardrails find the result grounded in the context.
Grounds(context, result) == Evaluate(context, result).grounded

\* The same of the set of a context's documents, which is all that a key of the
\* generation cache holds.
GroundsIn(docs, result) ==
  LET shared == Cardinality((UNION {d.tokens : d \in docs}) \cap result.tokens)
      size == IF result.tokens = {} THEN 1 ELSE Cardinality(result.tokens)
  IN  /\ docs # {} /\ ~result.refusal
      /\ result.citations # {} /\ result.citations \subseteq {d.citation : d \in docs}
      /\ 100 * shared >= MinOverlap * size
DocsOf(context) == {context[i] : i \in DOMAIN context}
IsContext(context) == context = <<>> <=> DOMAIN context = {}

ResultFields == {"citations", "grounded", "reasons", "refusal", "tokens"}
HasVerdict(draft) == {"result", "judged"} \subseteq DOMAIN draft /\ ResultFields \subseteq DOMAIN draft.result

\* The verdict a replica has in hand at a step: until the guardrails are applied for the
\* last time a result judged grounded is one they will find grounded; from then on its
\* flag says so, and no result has the flag without a citation.
Publishable(draft) ==
  /\ HasVerdict(draft)
  /\ draft.judged => draft.result.grounded
  /\ draft.result.grounded => draft.result.citations # {}
VerdictAt(w) ==
  /\ pc[w] \in {"lookup", "generate", "store"} => IsContext(work[w].context)
  /\ pc[w] = "store" =>
       /\ HasVerdict(work[w].draft)
       /\ work[w].draft.judged => GroundsIn(DocsOf(work[w].context), work[w].draft.result)
  /\ pc[w] = "publish" => Publishable(work[w].draft)

VerdictsPublished ==
  \A o \in Outputs : \A i \in topic[o] :
    (i.judged => i.grounded) /\ (i.grounded => i.citations # {})
GenerationsHold ==
  \A g \in generations :
    HasVerdict(g.draft) /\ (g.draft.judged => GroundsIn(g.key.context, g.draft.result))
VerdictInv == (\A w \in Workers : VerdictAt(w)) /\ GenerationsHold /\ VerdictsPublished

\* The verdict depends on the set of the documents only, not on their order.
LEMMA VerdictOfDocs ==
  ASSUME NEW context, IsContext(context), NEW result
  PROVE  Grounds(context, result) <=> GroundsIn(DocsOf(context), result)
<1>1. context # <<>> <=> DocsOf(context) # {}
  BY DEF IsContext, DocsOf
<1>2. Allowed(context) = {d.citation : d \in DocsOf(context)}
  BY DEF Allowed, DocsOf
<1>3. ContextTokens(context) = UNION {d.tokens : d \in DocsOf(context)}
  <2>1. {context[i].tokens : i \in DOMAIN context} = {d.tokens : d \in DocsOf(context)}
    BY DEF DocsOf
  <2> QED
    BY <2>1 DEF ContextTokens
<1> HIDE DEF DocsOf
<1> DEFINE shared == Cardinality(ContextTokens(context) \cap result.tokens)
           size == IF result.tokens = {} THEN 1 ELSE Cardinality(result.tokens)
<1>4. Grounds(context, result) <=>
        /\ context # <<>> /\ ~result.refusal
        /\ result.citations # {} /\ result.citations \subseteq Allowed(context)
        /\ context = <<>> \/ 100 * shared >= MinOverlap * size
  BY DEF Grounds, Evaluate
<1>5. shared = Cardinality((UNION {d.tokens : d \in DocsOf(context)}) \cap result.tokens)
  BY <1>3
<1> HIDE DEF shared, size
<1>6. Grounds(context, result) <=>
        /\ DocsOf(context) # {} /\ ~result.refusal
        /\ result.citations # {} /\ result.citations \subseteq {d.citation : d \in DocsOf(context)}
        /\ 100 * shared >= MinOverlap * size
  BY <1>1, <1>2, <1>4
<1> QED
  BY <1>5, <1>6 DEF GroundsIn, size

\* What the guardrails do to a result, field by field.
LEMMA GuardedResult ==
  ASSUME NEW context, NEW result, ResultFields \subseteq DOMAIN result
  PROVE  LET guarded == ApplyGuardrails(context, result)
         IN  /\ ResultFields \subseteq DOMAIN guarded
             /\ guarded.citations = result.citations \cap Allowed(context)
             /\ guarded.tokens = result.tokens /\ guarded.refusal = result.refusal
             /\ guarded.grounded = Grounds(context, result)
<1> DEFINE report == Evaluate(context, result)
<1>1. report.grounded = Grounds(context, result)
  BY DEF Grounds
<1> HIDE DEF report
<1>2. ApplyGuardrails(context, result) =
        [result EXCEPT !.citations = @ \cap Allowed(context),
                       !.grounded = report.grounded, !.reasons = report.reasons]
  BY DEF ApplyGuardrails, report
<1> QED
  BY <1>1, <1>2 DEF ResultFields

\* The guardrails keep a verdict that they find themselves: what they drop of a result
\* grounded in the context is nothing.  What they find grounded cites something.
LEMMA VerdictKept ==
  ASSUME NEW context, IsContext(context), NEW result, ResultFields \subseteq DOMAIN result
  PROVE  LET guarded == ApplyGuardrails(context, result)
         IN  /\ guarded.grounded => guarded.citations # {}
             /\ GroundsIn(DocsOf(context), result) =>
                  guarded.grounded /\ GroundsIn(DocsOf(context), guarded)
<1> DEFINE guarded == ApplyGuardrails(context, result)
           docs == DocsOf(context)
<1>1. /\ guarded.citations = result.citations \cap Allowed(context)
      /\ guarded.tokens = result.tokens /\ guarded.refusal = result.refusal
      /\ guarded.grounded = Grounds(context, result)
  BY GuardedResult
<1>2. Grounds(context, result) <=> GroundsIn(docs, result)
  BY VerdictOfDocs
<1>3. Allowed(context) = {d.citation : d \in docs}
  BY DEF Allowed, DocsOf
<1> HIDE DEF guarded, docs
<1>4. ASSUME GroundsIn(docs, result)
      PROVE  guarded.citations = result.citations /\ result.citations # {}
  BY <1>1, <1>3, <1>4 DEF GroundsIn
<1>5. ASSUME GroundsIn(docs, result) PROVE GroundsIn(docs, guarded)
  BY <1>1, <1>4, <1>5 DEF GroundsIn
<1> QED
  BY <1>1, <1>2, <1>4, <1>5 DEF guarded, docs

\* A draft whose result goes through the guardrails of a context that has the documents
\* it was judged with can be published, and is still grounded in them.
LEMMA GuardedVerdict ==
  ASSUME NEW context, IsContext(context), NEW draft, HasVerdict(draft),
         draft.judged => GroundsIn(DocsOf(context), draft.result),
         NEW guarded, guarded = [draft EXCEPT !.result = ApplyGuardrails(context, @)]
  PROVE  /\ Publishable(guarded)
         /\ guarded.judged => GroundsIn(DocsOf(context), guarded.result)
<1>1. /\ DOMAIN guarded = DOMAIN draft /\ guarded.judged = draft.judged
      /\ guarded.result = ApplyGuardrails(context, draft.result)
  BY DEF HasVerdict
<1>2. ResultFields \subseteq DOMAIN draft.result
  BY DEF HasVerdict
<1>3. /\ ResultFields \subseteq DOMAIN guarded.result
      /\ guarded.result.grounded => guarded.result.citations # {}
      /\ GroundsIn(DocsOf(context), draft.result) =>
           guarded.result.grounded /\ GroundsIn(DocsOf(context), guarded.result)
  BY <1>1, <1>2, GuardedResult, VerdictKept
<1> QED
  BY <1>1, <1>3 DEF HasVerdict, Publishable

\* The provider's answer: its verdict is the one on the result as the model gave it.
LEMMA AnswerVerdict ==
  ASSUME NEW context, IsContext(context), NEW reply
  PROVE  LET draft == Answered(context, reply)
         IN  HasVerdict(draft) /\ (draft.judged => GroundsIn(DocsOf(context), draft.result))
<1> DEFINE raw == Structured(context, reply)
           draft == Answered(context, reply)
<1>1. ResultFields \subseteq DOMAIN raw
  <2>1. /\ ResultFields \subseteq DOMAIN FromPayload(reply)
        /\ ResultFields \subseteq DOMAIN FromText(context, reply)
    BY DEF FromPayload, FromText, ResultFields
  <2> QED
    BY <2>1 DEF Structured
<1> HIDE DEF raw
<1>2. draft = [result |-> ApplyGuardrails(context, raw), judged |-> Grounds(context, raw)]
  BY DEF Answered, Generate, Grounds, raw
<1> HIDE DEF draft
<1>3. /\ {"result", "judged"} \subseteq DOMAIN draft
      /\ draft.result = ApplyGuardrails(context, raw) /\ draft.judged = Grounds(context, raw)
  BY <1>2
<1>4. ResultFields \subseteq DOMAIN draft.result
  BY <1>1, <1>3, GuardedResult
<1>5. Grounds(context, raw) => GroundsIn(DocsOf(context), draft.result)
  BY <1>1, <1>3, VerdictOfDocs, VerdictKept
<1> QED
  BY <1>3, <1>4, <1>5 DEF HasVerdict, draft

\* A context from retrieval is empty exactly when it has no document.
LEMMA ContextShape ==
  ASSUME NEW e, NEW context \in ContextsFor(e)
  PROVE  IsContext(context)
<1>1. PICK found : context = Docs([i \in DOMAIN found |-> found[i].id])
  BY DEF ContextsFor
<1>2. context = [i \in DOMAIN found |->
                   [citation |-> CitationOf[found[i].id], tokens |-> {ContentOf[found[i].id]}]]
  BY <1>1 DEF Docs
<1> DEFINE doc(i) == [citation |-> CitationOf[found[i].id], tokens |-> {ContentOf[found[i].id]}]
<1> HIDE DEF doc
<1>3. context = [i \in DOMAIN found |-> doc(i)]
  BY <1>2 DEF doc
<1> QED
  BY <1>3 DEF IsContext

\* The other replicas have what they had in hand before.
LEMMA VerdictFrame ==
  ASSUME VerdictInv, NEW w \in Workers, Others(w), VerdictAt(w)', GenerationsHold',
         VerdictsPublished'
  PROVE  VerdictInv'
<1>1. ASSUME NEW v \in Workers, v # w PROVE VerdictAt(v)'
  <2>1. VerdictAt(v) /\ pc'[v] = pc[v] /\ work'[v] = work[v]
    BY <1>1 DEF VerdictInv, Others
  <2> QED
    BY <2>1 DEF VerdictAt
<1> QED
  BY <1>1 DEF VerdictInv

\* A replica at a step with no answer in hand, or with one already published.
LEMMA VerdictElsewhere ==
  ASSUME VerdictInv, NEW w \in Workers, Others(w),
         pc'[w] \notin {"lookup", "generate", "store", "publish"},
         GenerationsHold', VerdictsPublished'
  PROVE  VerdictInv'
<1>1. VerdictAt(w)'
  BY DEF VerdictAt
<1> QED
  BY <1>1, VerdictFrame

\* A failing attempt drops its answer.
LEMMA VerdictAfterFailure ==
  ASSUME Inv, VerdictInv, NEW w \in Workers, AttemptFails(w), GenerationsHold',
         VerdictsPublished'
  PROVE  VerdictInv'
<1>1. Others(w) /\ pc'[w] \in {"index", "reject"}
  BY Fails DEF Inv, Types
<1> QED
  BY <1>1, VerdictElsewhere

LEMMA VerdictCaches ==
  ASSUME VerdictInv, generations' = generations
  PROVE  GenerationsHold'
BY DEF VerdictInv, GenerationsHold

LEMMA VerdictTopic ==
  ASSUME VerdictInv, topic' = topic
  PROVE  VerdictsPublished'
BY DEF VerdictInv, VerdictsPublished

\* The steps that make an answer, keep it or publish it.
LEMMA VerdictRetrieve ==
  ASSUME Inv, VerdictInv, NEW w \in Workers, Retrieve(w)
  PROVE  VerdictInv'
<1>1. GenerationsHold' /\ VerdictsPublished'
  BY VerdictCaches, VerdictTopic DEF Retrieve, cacheVars, topicVars
<1>2. ASSUME NEW context \in ContextsFor(Event(w)),
             work' = [work EXCEPT ![w].context = context], Goto(w, "lookup"), UNCHANGED pollVars
      PROVE  VerdictInv'
  <2>1. Others(w) /\ pc'[w] = "lookup" /\ work'[w].context = context
    BY <1>2, Retrieves DEF Inv, Types
  <2>2. IsContext(context)
    BY ContextShape
  <2>3. VerdictAt(w)'
    BY <2>1, <2>2 DEF VerdictAt
  <2> QED
    BY <1>1, <2>1, <2>3, VerdictFrame
<1>3. CASE AttemptFails(w)
  BY <1>1, <1>3, VerdictAfterFailure
<1> QED
  BY <1>2, <1>3 DEF Retrieve, Raises

LEMMA VerdictLookup ==
  ASSUME Inv, VerdictInv, NEW w \in Workers, Lookup(w)
  PROVE  VerdictInv'
<1>1. GenerationsHold' /\ VerdictsPublished' /\ pc[w] = "lookup"
  BY VerdictCaches, VerdictTopic DEF Lookup, cacheVars, topicVars
<1>2. IsContext(work[w].context)
  BY <1>1 DEF VerdictInv, VerdictAt
<1>3. CASE GoOn(w, "generate")
  <2>1. Others(w) /\ pc'[w] = "generate" /\ work'[w] = work[w]
    BY <1>3, GoesOn DEF Inv, Types, Steps
  <2>2. VerdictAt(w)'
    BY <1>2, <2>1 DEF VerdictAt
  <2> QED
    BY <1>1, <2>1, <2>2, VerdictFrame
<1>4. ASSUME NEW g \in generations, g.key = CacheKey(w), NEW guarded,
             guarded = [g.draft EXCEPT !.result = ApplyGuardrails(work[w].context, @)],
             Drafted(w, guarded, "publish")
      PROVE  VerdictInv'
  <2>1. Others(w) /\ pc'[w] = "publish" /\ work'[w].draft = guarded
    BY <1>4, Drafts DEF Inv, Types, Steps
  <2>2. g.key.context = DocsOf(work[w].context)
    BY <1>4 DEF CacheKey, DocsOf
  <2>3. HasVerdict(g.draft) /\ (g.draft.judged => GroundsIn(DocsOf(work[w].context), g.draft.result))
    BY <2>2 DEF VerdictInv, GenerationsHold
  <2>4. Publishable(guarded)
    BY <1>2, <1>4, <2>3, GuardedVerdict
  <2>5. VerdictAt(w)'
    BY <2>1, <2>4 DEF VerdictAt
  <2> QED
    BY <1>1, <2>1, <2>5, VerdictFrame
<1>5. CASE AttemptFails(w)
  BY <1>1, <1>5, VerdictAfterFailure
<1> QED
  BY <1>3, <1>4, <1>5 DEF Lookup, Raises

LEMMA VerdictAsk ==
  ASSUME Inv, VerdictInv, NEW w \in Workers, Ask(w)
  PROVE  VerdictInv'
<1>1. GenerationsHold' /\ VerdictsPublished' /\ pc[w] = "generate"
  BY VerdictCaches, VerdictTopic DEF Ask, cacheVars, topicVars
<1>2. IsContext(work[w].context)
  BY <1>1 DEF VerdictInv, VerdictAt
<1>3. ASSUME NEW kind,
             Drafted(w, Answered(work[w].context, Reply(kind, work[w].context)), "store")
      PROVE  VerdictInv'
  <2> DEFINE draft == Answered(work[w].context, Reply(kind, work[w].context))
  <2>1. HasVerdict(draft) /\ (draft.judged => GroundsIn(DocsOf(work[w].context), draft.result))
    BY <1>2, AnswerVerdict
  <2> HIDE DEF draft
  <2>2. Drafted(w, draft, "store")
    BY <1>3 DEF draft
  <2>3. /\ Others(w) /\ pc'[w] = "store"
        /\ work'[w].draft = draft /\ work'[w].context = work[w].context
    BY <2>2, Drafts DEF Inv, Types, Steps
  <2>4. VerdictAt(w)'
    BY <1>2, <2>1, <2>3 DEF VerdictAt
  <2> QED
    BY <1>1, <2>3, <2>4, VerdictFrame
<1>4. CASE AttemptFails(w)
  BY <1>1, <1>4, VerdictAfterFailure
<1> QED
  BY <1>3, <1>4 DEF Ask, Raises

LEMMA VerdictStore ==
  ASSUME Inv, VerdictInv, NEW w \in Workers, Store(w)
  PROVE  VerdictInv'
<1>1. VerdictsPublished' /\ pc[w] = "store"
  BY VerdictTopic DEF Store, topicVars
<1>2. /\ IsContext(work[w].context) /\ HasVerdict(work[w].draft)
      /\ work[w].draft.judged => GroundsIn(DocsOf(work[w].context), work[w].draft.result)
  BY <1>1 DEF VerdictInv, VerdictAt
<1>3. /\ Publishable(Guarded(w))
      /\ Guarded(w).judged => GroundsIn(DocsOf(work[w].context), Guarded(w).result)
  BY <1>2, GuardedVerdict DEF Guarded
<1>4. GenerationsHold'
  <2>1. \/ generations' = generations
        \/ generations' = {g \in generations : g.key # CacheKey(w)}
                            \cup {[key |-> CacheKey(w), draft |-> Guarded(w)]}
    BY DEF Store
  <2>2. \A g \in generations' :
          g \in generations \/ (g.draft = Guarded(w) /\ g.key = CacheKey(w))
    BY <2>1
  <2>3. CacheKey(w).context = DocsOf(work[w].context)
    BY DEF CacheKey, DocsOf
  <2> QED
    BY <1>3, <2>2, <2>3 DEF VerdictInv, GenerationsHold, Publishable
<1>5. CASE Drafted(w, Guarded(w), "publish")
  <2>1. Others(w) /\ pc'[w] = "publish" /\ work'[w].draft = Guarded(w)
    BY <1>5, Drafts DEF Inv, Types, Steps
  <2>2. VerdictAt(w)'
    BY <1>3, <2>1 DEF VerdictAt
  <2> QED
    BY <1>1, <1>4, <2>1, <2>2, VerdictFrame
<1>6. CASE AttemptFails(w)
  BY <1>1, <1>4, <1>6, VerdictAfterFailure
<1> QED
  BY <1>5, <1>6 DEF Store, Raises

LEMMA VerdictPublish ==
  ASSUME Inv, VerdictInv, NEW w \in Workers, Publish(w)
  PROVE  VerdictInv'
<1>1. GenerationsHold' /\ pc[w] = "publish"
  BY VerdictCaches DEF Publish, cacheVars
<1>2. VerdictsPublished'
  <2>1. CASE Accepted(w)
    <3>1. /\ Insight(w).judged => Insight(w).grounded
          /\ Insight(w).grounded => Insight(w).citations # {}
      BY <1>1 DEF VerdictInv, VerdictAt, Publishable, Insight
    <3>2. topic' = [topic EXCEPT ![Output(w)] = @ \cup {Insight(w)}]
      BY <2>1 DEF Accepted
    <3>3. topic = [o \in Outputs |-> topic[o]]
      BY DEF Inv, Types, StoreTypes
    <3>4. \A o \in Outputs : \A i \in topic'[o] : i \in topic[o] \/ i = Insight(w)
      BY <3>2, <3>3
    <3> QED
      BY <3>1, <3>4 DEF VerdictInv, VerdictsPublished
  <2>2. CASE UNCHANGED topicVars
    BY <2>2, VerdictTopic DEF topicVars
  <2> QED
    BY <2>1, <2>2 DEF Publish
<1>3. CASE GoOn(w, "show")
  <2>1. Others(w) /\ pc'[w] = "show"
    BY <1>3, GoesOn DEF Inv, Types, Steps
  <2> QED
    BY <1>1, <1>2, <2>1, VerdictElsewhere
<1>4. CASE AttemptFails(w)
  BY <1>1, <1>2, <1>4, VerdictAfterFailure
<1> QED
  BY <1>3, <1>4 DEF Publish, Raises

\* Every step keeps what a verdict is worth.
LEMMA VerdictStep ==
  ASSUME Inv, VerdictInv, [Next]_vars
  PROVE  VerdictInv'
<1>1. ASSUME NEW w \in Workers, Retrieve(w) \/ Lookup(w) \/ Ask(w) \/ Store(w) \/ Publish(w)
      PROVE  VerdictInv'
  BY <1>1, VerdictRetrieve, VerdictLookup, VerdictAsk, VerdictStore, VerdictPublish
<1>2. ASSUME NEW w \in Workers,
             \/ Begin(w) \/ Index(w) \/ Check(w) \/ Show(w) \/ Mark(w) \/ Complete(w)
             \/ Reject(w) \/ ReceiveRaises(w) \/ Crash(w)
      PROVE  VerdictInv'
  <2>1. GenerationsHold' /\ VerdictsPublished'
    BY <1>2, VerdictCaches, VerdictTopic
    DEF Begin, Index, Check, Show, Mark, Complete, Reject, ReceiveRaises, Crash,
        cacheVars, topicVars
  <2>2. Others(w) /\ pc'[w] \notin {"lookup", "generate", "store", "publish"}
    BY <1>2, MovesElsewhere DEF Inv, Types
  <2> QED
    BY <2>1, <2>2, VerdictElsewhere
<1>3. CASE UNCHANGED <<pc, work, generations, topic>>
  <2>1. \A v \in Workers : VerdictAt(v)'
    BY <1>3 DEF VerdictInv, VerdictAt
  <2> QED
    BY <1>3, <2>1, VerdictCaches, VerdictTopic DEF VerdictInv
<1> QED
  BY <1>1, <1>2, <1>3
  DEF Next, Step, Receive, PeekLockExpires, vars, cacheVars, topicVars

\* An answer that the guardrails find grounded as the model gave it is published as
\* grounded, by the provider's guardrails, the service's (service.py:546) and, for another
\* event, the service's once more (:542): the key of the generation cache (:628) holds the
\* documents the verdict depends on.  And no insight says it is grounded without citing a
\* document (guardrails.py:91-124).  The converse of the first half fails: see RejectionStays.
THEOREM VerdictsHold == Spec => []VerdictsPublished
<1>1. Init => VerdictInv
  BY DEF Init, VerdictInv, VerdictAt, GenerationsHold, VerdictsPublished
<1>2. Inv /\ VerdictInv /\ [Next]_vars => VerdictInv'
  BY VerdictStep
<1>3. VerdictInv => VerdictsPublished
  BY DEF VerdictInv
<1> QED
  BY <1>1, <1>2, <1>3, AlwaysInv, PTL DEF Spec

-----------------------------------------------------------------------------
(* Sorting a finite set *)

\* The pairs of R order the elements of U strictly and totally.
Orders(R, U) ==
  /\ \A a \in U : <<a, a>> \notin R
  /\ \A a, b, c \in U : <<a, b>> \in R /\ <<b, c>> \in R => <<a, c>> \in R
  /\ \A a, b \in U : a # b => <<a, b>> \in R \/ <<b, a>> \in R

\* The elements in front of one in the order have fewer in front of themselves.
LEMMA FewerInFront ==
  ASSUME NEW U, IsFiniteSet(U), NEW R, Orders(R, U), NEW a \in U, NEW b \in U, <<a, b>> \in R
  PROVE  LET front(x) == {c \in U : <<c, x>> \in R}
         IN  /\ Cardinality(front(a)) \in Nat /\ Cardinality(front(b)) \in Nat
             /\ Cardinality(front(a)) < Cardinality(front(b))
<1> DEFINE front(x) == {c \in U : <<c, x>> \in R}
<1>1. front(a) \in SUBSET front(b) /\ front(b) \in SUBSET U /\ front(a) # front(b)
  <2>1. a \in front(b) /\ a \notin front(a)
    BY DEF Orders
  <2> QED
    BY <2>1 DEF Orders
<1>2. IsFiniteSet(front(b)) /\ IsFiniteSet(front(a))
  BY <1>1, FS_Subset
<1>3. Cardinality(front(a)) <= Cardinality(front(b)) /\ Cardinality(front(a)) # Cardinality(front(b))
  BY <1>1, <1>2, FS_Subset
<1>4. Cardinality(front(a)) \in Nat /\ Cardinality(front(b)) \in Nat
  BY <1>2, FS_CardinalityType
<1> QED
  BY <1>3, <1>4

\* So their numbers are their places in a sequence of all elements.
LEMMA Sorting ==
  ASSUME NEW U, IsFiniteSet(U), NEW R, Orders(R, U)
  PROVE  \E s \in [1..Cardinality(U) -> U] :
           /\ \A a \in U : \E i \in 1..Cardinality(U) : s[i] = a
           /\ \A i, j \in 1..Cardinality(U) : i < j => <<s[i], s[j]>> \in R
<1> DEFINE front(x) == {c \in U : <<c, x>> \in R}
           place == [a \in U |-> Cardinality(front(a)) + 1]
<1>1. PICK n \in Nat : n = Cardinality(U)
  BY FS_CardinalityType
<1>2. ASSUME NEW a \in U PROVE place[a] \in 1..n
  <2>1. front(a) \in SUBSET U /\ front(a) # U
    BY DEF Orders
  <2>2. /\ Cardinality(front(a)) <= n /\ Cardinality(front(a)) # n
        /\ IsFiniteSet(front(a))
    BY <1>1, <2>1, FS_Subset
  <2>3. Cardinality(front(a)) \in Nat
    BY <2>2, FS_CardinalityType
  <2> QED
    BY <2>2, <2>3
<1>3. ASSUME NEW a \in U, NEW b \in U, <<a, b>> \in R PROVE place[a] < place[b]
  <2>1. /\ Cardinality(front(a)) \in Nat /\ Cardinality(front(b)) \in Nat
        /\ Cardinality(front(a)) < Cardinality(front(b))
    BY <1>3, FewerInFront
  <2> HIDE DEF front
  <2> QED
    BY <2>1
<1>4. ASSUME NEW a \in U, NEW b \in U, place[a] = place[b] PROVE a = b
  <2> HIDE DEF place
  <2>1. place[a] \in Int /\ ~(place[a] < place[b]) /\ ~(place[b] < place[a])
    BY <1>2, <1>4
  <2>2. <<a, b>> \notin R /\ <<b, a>> \notin R
    BY <1>3, <2>1
  <2> QED
    BY <2>2 DEF Orders
<1>5. \A i \in 1..n : \E a \in U : place[a] = i
  <2>1. place \in Injection(U, 1..n)
    BY <1>2, <1>4 DEF Injection, IsInjective
  <2>2. IsFiniteSet(1..n) /\ Cardinality(1..n) = n
    BY FS_Interval
  <2>3. place \in Surjection(U, 1..n)
    BY <1>1, <2>1, <2>2, FS_Injection
  <2> QED
    BY <2>3 DEF Surjection
<1> HIDE DEF place
<1> DEFINE s == [i \in 1..n |-> CHOOSE a \in U : place[a] = i]
<1>6. \A i \in 1..n : s[i] \in U /\ place[s[i]] = i
  BY <1>5
<1>7. s \in [1..n -> U]
  BY <1>6
<1> HIDE DEF s
<1>8. ASSUME NEW a \in U PROVE \E i \in 1..n : s[i] = a
  <2>1. PICK i \in 1..n : i = place[a]
    BY <1>2
  <2>2. s[i] \in U /\ place[s[i]] = place[a]
    BY <1>6, <2>1
  <2> QED
    BY <1>4, <2>2
<1>9. ASSUME NEW i \in 1..n, NEW j \in 1..n, i < j PROVE <<s[i], s[j]>> \in R
  <2>1. PICK a \in U, b \in U : a = s[i] /\ b = s[j] /\ place[a] = i /\ place[b] = j
    BY <1>6
  <2>2. a # b /\ ~(place[b] < place[a])
    BY <1>9, <2>1
  <2>3. <<a, b>> \in R
    BY <1>3, <2>2 DEF Orders
  <2> QED
    BY <2>1, <2>3
<1> QED
  BY <1>1, <1>7, <1>8, <1>9

\* A sequence in the order repeats nothing, so the elements of a beginning are as many.
LEMMA Beginning ==
  ASSUME NEW U, NEW R, Orders(R, U), NEW n \in Nat, NEW s \in [1..n -> U],
         \A i, j \in 1..n : i < j => <<s[i], s[j]>> \in R,
         NEW m \in 0..n, NEW T, T = {s[i] : i \in 1..m}
  PROVE  IsFiniteSet(T) /\ Cardinality(T) = m
<1> DEFINE f == [i \in 1..m |-> s[i]]
<1>1. f \in Surjection(1..m, T)
  BY DEF Surjection
<1>2. f \in Injection(1..m, T)
  <2>1. ASSUME NEW i \in 1..m, NEW j \in 1..m, s[i] = s[j] PROVE i = j
    <3>1. i \in 1..n /\ j \in 1..n /\ s[i] \in U /\ s[j] \in U
      OBVIOUS
    <3>2. ~(i < j) /\ ~(j < i)
      BY <2>1, <3>1 DEF Orders
    <3> QED
      BY <3>2
  <2> QED
    BY <2>1 DEF Injection, IsInjective
<1>3. IsFiniteSet(1..m) /\ Cardinality(1..m) = m
  BY FS_Interval
<1> HIDE DEF f
<1> QED
  BY <1>1, <1>2, <1>3, FS_Surjection

-----------------------------------------------------------------------------
(* The two orders of the rows *)

\* The rows of an index: a document has one row.
Rows == [id : Int, knn : Int, lexical : Int]
OneRowEach(rows) == rows \subseteq Rows /\ \A a, b \in rows : a.id = b.id => a = b

\* The sort key compares its four parts one after the other.
LEMMA BeforeIsLexicographic ==
  ASSUME NEW a \in Rows, NEW b \in Rows
  PROVE  Before(a, b) <=>
           \/ RankingScore(a) > RankingScore(b)
           \/ /\ RankingScore(a) = RankingScore(b)
              /\ \/ a.knn > b.knn
                 \/ a.knn = b.knn /\ a.lexical > b.lexical
                 \/ a.knn = b.knn /\ a.lexical = b.lexical /\ a.id < b.id
<1> DEFINE key(r) == <<-RankingScore(r), -r.knn, -r.lexical, r.id>>
           less(i) == key(a)[i] < key(b)[i] /\ \A j \in 1..(i - 1) : key(a)[j] = key(b)[j]
<1>1. \A r \in Rows : RankingScore(r) \in Int /\ r.knn \in Int /\ r.lexical \in Int /\ r.id \in Int
  BY DEF Rows, RankingScore
<1>2. Before(a, b) <=> \E i \in {1, 2, 3, 4} : less(i)
  <2>1. 1..4 = {1, 2, 3, 4}
    OBVIOUS
  <2> QED
    BY <2>1 DEF Before
<1>3. less(1) <=> RankingScore(a) > RankingScore(b)
  BY <1>1
<1>4. less(2) <=> RankingScore(a) = RankingScore(b) /\ a.knn > b.knn
  <2>1. 1..(2 - 1) = {1}
    OBVIOUS
  <2> QED
    BY <1>1, <2>1
<1>5. less(3) <=> RankingScore(a) = RankingScore(b) /\ a.knn = b.knn /\ a.lexical > b.lexical
  <2>1. 1..(3 - 1) = {1, 2}
    OBVIOUS
  <2> QED
    BY <1>1, <2>1
<1>6. less(4) <=> /\ RankingScore(a) = RankingScore(b) /\ a.knn = b.knn
                  /\ a.lexical = b.lexical /\ a.id < b.id
  <2>1. 1..(4 - 1) = {1, 2, 3}
    OBVIOUS
  <2> QED
    BY <1>1, <2>1
<1> QED
  BY <1>2, <1>3, <1>4, <1>5, <1>6

\* It tells any two rows apart, hence orders them.
LEMMA BeforeOrders ==
  ASSUME NEW rows, OneRowEach(rows)
  PROVE  Orders({p \in rows \X rows : Before(p[1], p[2])}, rows)
<1> DEFINE R == {p \in rows \X rows : Before(p[1], p[2])}
<1>1. \A a, b \in rows : <<a, b>> \in R <=> Before(a, b)
  OBVIOUS
<1>2. \A a \in rows : /\ a \in Rows /\ RankingScore(a) \in Int
                      /\ a.knn \in Int /\ a.lexical \in Int /\ a.id \in Int
  BY DEF OneRowEach, Rows, RankingScore
<1> HIDE DEF R
<1>3. \A a \in rows : ~Before(a, a)
  BY <1>2, BeforeIsLexicographic
<1>4. ASSUME NEW a \in rows, NEW b \in rows, NEW c \in rows, Before(a, b), Before(b, c)
      PROVE  Before(a, c)
  BY <1>2, <1>4, BeforeIsLexicographic
<1>5. ASSUME NEW a \in rows, NEW b \in rows, a # b PROVE Before(a, b) \/ Before(b, a)
  <2>1. a.id # b.id
    BY <1>5 DEF OneRowEach
  <2> QED
    BY <1>2, <2>1, BeforeIsLexicographic
<1> QED
  BY <1>1, <1>3, <1>4, <1>5 DEF Orders, R

\* Nearer, and of equally near ones the one with the smaller id.
Nearer(a, b) == a.knn > b.knn \/ (a.knn = b.knn /\ a.id < b.id)

LEMMA NearerOrders ==
  ASSUME NEW rows, OneRowEach(rows)
  PROVE  Orders({p \in rows \X rows : Nearer(p[1], p[2])}, rows)
<1> DEFINE R == {p \in rows \X rows : Nearer(p[1], p[2])}
<1>1. \A a, b \in rows : <<a, b>> \in R <=> Nearer(a, b)
  OBVIOUS
<1>2. \A a \in rows : a.knn \in Int /\ a.id \in Int
  BY DEF OneRowEach, Rows
<1> HIDE DEF R
<1>3. /\ \A a \in rows : ~Nearer(a, a)
      /\ \A a, b, c \in rows : Nearer(a, b) /\ Nearer(b, c) => Nearer(a, c)
  BY <1>2 DEF Nearer
<1>4. \A a, b \in rows : a # b => Nearer(a, b) \/ Nearer(b, a)
  BY <1>2 DEF Nearer, OneRowEach
<1> QED
  BY <1>1, <1>3, <1>4 DEF Orders, R

-----------------------------------------------------------------------------
(* Retrieval *)

Capped(k, n) == IF k < n THEN k ELSE n

\* There are nearest neighbours to be found.
LEMMA NeighboursExist ==
  ASSUME NEW rows, IsFiniteSet(rows), OneRowEach(rows), NEW k \in Nat
  PROVE  KnnSearch(rows, k) # {}
<1> DEFINE R == {p \in rows \X rows : Nearer(p[1], p[2])}
<1>1. PICK n \in Nat : n = Cardinality(rows)
  BY FS_CardinalityType
<1>2. PICK m \in 0..n : m = Capped(k, n)
  BY DEF Capped
<1>3. Orders(R, rows)
  BY NearerOrders
<1> HIDE DEF R
<1>4. PICK s \in [1..n -> rows] :
        /\ \A a \in rows : \E i \in 1..n : s[i] = a
        /\ \A i, j \in 1..n : i < j => <<s[i], s[j]>> \in R
  BY <1>1, <1>3, Sorting
<1>5. PICK S \in SUBSET rows : S = {s[i] : i \in 1..m}
  <2>1. \A i \in 1..m : s[i] \in rows
    BY <1>4
  <2>2. {s[i] : i \in 1..m} \in SUBSET rows
    BY <2>1
  <2> QED
    BY <2>2
<1>6. Cardinality(S) = m
  BY <1>3, <1>4, <1>5, Beginning
<1>7. ASSUME NEW a \in S, NEW b \in rows \ S PROVE a.knn >= b.knn
  <2>1. PICK i \in 1..m : a = s[i]
    BY <1>5
  <2>2. PICK j \in 1..n : b = s[j]
    BY <1>4
  <2>3. j \notin 1..m
    BY <1>5, <1>7, <2>2
  <2>4. i \in 1..n /\ i < j
    BY <2>3
  <2>5. Nearer(a, b)
    BY <1>4, <2>1, <2>2, <2>4 DEF R
  <2>6. a.knn \in Int /\ b.knn \in Int
    BY <1>5, <1>7 DEF OneRowEach, Rows
  <2> QED
    BY <2>5, <2>6 DEF Nearer
<1>8. S \in KnnSearch(rows, k)
  BY <1>1, <1>2, <1>5, <1>6, <1>7 DEF KnnSearch, Capped
<1> QED
  BY <1>8

\* Any finite set of rows can be ranked.
LEMMA RankingExists ==
  ASSUME NEW S, IsFiniteSet(S), OneRowEach(S)
  PROVE  Ranked(S) # {}
<1> DEFINE R == {p \in S \X S : Before(p[1], p[2])}
<1>1. Orders(R, S)
  BY BeforeOrders
<1>2. PICK s \in [1..Cardinality(S) -> S] :
        \A i, j \in 1..Cardinality(S) : i < j => <<s[i], s[j]>> \in R
  <2> HIDE DEF R
  <2> QED
    BY <1>1, Sorting
<1>3. s \in Ranked(S)
  BY <1>2 DEF Ranked
<1> QED
  BY <1>3

\* A ranking leaves no row out.
LEMMA EveryRowIsRanked ==
  ASSUME NEW S, IsFiniteSet(S), OneRowEach(S), NEW s \in Ranked(S), NEW row \in S
  PROVE  \E i \in 1..Cardinality(S) : s[i] = row
<1> DEFINE R == {p \in S \X S : Before(p[1], p[2])}
<1>1. Orders(R, S)
  BY BeforeOrders
<1>2. PICK n \in Nat : n = Cardinality(S)
  BY FS_CardinalityType
<1>3. s \in [1..n -> S] /\ \A i, j \in 1..n : i < j => Before(s[i], s[j])
  BY <1>2 DEF Ranked
<1>4. PICK T : T = {s[i] : i \in 1..n}
  OBVIOUS
<1>5. \A i, j \in 1..n : i < j => <<s[i], s[j]>> \in R
  BY <1>3
<1> HIDE DEF R
<1>6. Cardinality(T) = n
  <2>1. n \in 0..n
    OBVIOUS
  <2> QED
    BY <1>1, <1>3, <1>4, <1>5, <2>1, Beginning
<1>7. T \in SUBSET S
  BY <1>3, <1>4
<1>8. T = S
  BY <1>2, <1>6, <1>7, FS_Subset
<1> QED
  BY <1>2, <1>4, <1>8

\* What comes back: as many rows as asked for or as there are, best first, none twice;
\* and a row that is left out ranks behind them or is no nearer than they are.
Answers(rows, topK, found) ==
  LET n == Capped(topK, Cardinality(rows))
  IN  /\ found \in [1..n -> rows]
      /\ \A i, j \in 1..n : i < j => Before(found[i], found[j]) /\ found[i] # found[j]
      /\ \A row \in rows : (\A i \in 1..n : found[i] # row) =>
           n = topK /\ \A i \in 1..n : Before(found[i], row) \/ found[i].knn >= row.knn

\* retrieve_chunks has such an answer for any index and query, and no other.
LEMMA RetrievalAnswers ==
  ASSUME NEW rows, IsFiniteSet(rows), OneRowEach(rows), NEW topK \in Nat, NEW candidateK \in Nat
  PROVE  /\ RetrieveChunks(rows, topK, candidateK) # {}
         /\ \A found \in RetrieveChunks(rows, topK, candidateK) : Answers(rows, topK, found)
<1>1. PICK n \in Nat : n = Cardinality(rows)
  BY FS_CardinalityType
<1>2. PICK k \in Nat : k = (IF candidateK > topK THEN candidateK ELSE topK) /\ topK <= k
  OBVIOUS
<1> DEFINE cut(s) == [i \in {j \in DOMAIN s : j <= topK} |-> s[i]]
<1>3. RetrieveChunks(rows, topK, candidateK) = {cut(s) : s \in UNION {Ranked(S) : S \in KnnSearch(rows, k)}}
  BY <1>2 DEF RetrieveChunks
<1>4. ASSUME NEW S \in KnnSearch(rows, k)
      PROVE  /\ S \in SUBSET rows /\ IsFiniteSet(S) /\ OneRowEach(S) /\ Cardinality(S) = Capped(k, n)
             /\ \A a \in S, b \in rows \ S : a.knn >= b.knn
  <2>1. /\ S \in SUBSET rows /\ Cardinality(S) = Capped(k, n)
        /\ \A a \in S, b \in rows \ S : a.knn >= b.knn
    BY <1>1 DEF KnnSearch, Capped
  <2>2. IsFiniteSet(S)
    BY <2>1, FS_Subset
  <2> QED
    BY <2>1, <2>2 DEF OneRowEach
<1>5. RetrieveChunks(rows, topK, candidateK) # {}
  <2>1. PICK S \in KnnSearch(rows, k) : TRUE
    BY NeighboursExist
  <2>2. PICK s \in Ranked(S) : TRUE
    BY <1>4, RankingExists
  <2> HIDE DEF cut
  <2> QED
    BY <1>3, <2>1, <2>2
<1>6. ASSUME NEW S \in KnnSearch(rows, k), NEW s \in Ranked(S)
      PROVE  Answers(rows, topK, cut(s))
  <2>1. PICK m \in Nat : m = Capped(topK, n)
    BY DEF Capped
  <2>2. PICK size \in Nat : /\ size = Cardinality(S) /\ size = Capped(k, n) /\ s \in [1..size -> S]
                            /\ \A i, j \in 1..size : i < j => Before(s[i], s[j])
    <3>1. Cardinality(S) \in Nat /\ DOMAIN s = 1..Cardinality(S)
      BY <1>4, FS_CardinalityType DEF Ranked
    <3> QED
      BY <1>4, <3>1 DEF Ranked
  <2>3. m <= size /\ (m < size => m = topK) /\ (size < n => m = topK) /\ m <= topK
    BY <1>2, <2>1, <2>2 DEF Capped
  <2>4. {j \in DOMAIN s : j <= topK} = 1..m
    <3>1. size <= topK => m = size
      BY <2>1, <2>2, <2>3
    <3> QED
      BY <2>2, <2>3, <3>1
  <2>5. PICK found \in [1..m -> S] : found = cut(s) /\ \A i \in 1..m : found[i] = s[i]
    <3>1. cut(s) = [i \in 1..m |-> s[i]]
      BY <2>4
    <3>2. \A i \in 1..m : s[i] \in S
      BY <2>2, <2>3
    <3> HIDE DEF cut
    <3> QED
      BY <3>1, <3>2
  <2> HIDE DEF cut
  <2>6. ASSUME NEW i \in 1..size, NEW j \in 1..size, i < j PROVE Before(s[i], s[j]) /\ s[i] # s[j]
    <3>1. PICK a \in rows : a = s[i]
      BY <1>4, <2>2
    <3>2. ~Before(a, a)
      <4>1. a \in Rows /\ a.id \in Int /\ a.knn \in Int /\ a.lexical \in Int /\ RankingScore(a) \in Int
        BY DEF OneRowEach, Rows, RankingScore
      <4> QED
        BY <4>1, BeforeIsLexicographic
    <3> QED
      BY <2>2, <2>6, <3>1, <3>2
  <2>7. \A row \in S : \E i \in 1..size : s[i] = row
    <3>1. IsFiniteSet(S) /\ OneRowEach(S)
      BY <1>4
    <3>2. ASSUME NEW row \in S PROVE \E i \in 1..size : s[i] = row
      <4>1. \E i \in 1..Cardinality(S) : s[i] = row
        BY <3>1, EveryRowIsRanked
      <4> QED
        BY <2>2, <4>1
    <3> QED
      BY <3>2
  <2>8. ASSUME NEW row \in rows, \A i \in 1..m : found[i] # row, NEW l \in 1..m
        PROVE  Before(found[l], row) \/ found[l].knn >= row.knn
    <3>1. CASE row \in S
      <4>1. PICK i \in 1..size : s[i] = row
        BY <2>7, <3>1
      <4>2. l \in 1..size /\ l < i
        BY <2>3, <2>5, <2>8, <4>1
      <4> QED
        BY <2>5, <2>6, <4>1, <4>2
    <3>2. CASE row \notin S
      BY <1>4, <2>5, <3>2
    <3> QED
      BY <3>1, <3>2
  <2>9. ASSUME NEW row \in rows, \A i \in 1..m : found[i] # row PROVE m = topK
    <3>1. CASE row \in S
      <4>1. PICK i \in 1..size : s[i] = row
        BY <2>7, <3>1
      <4> QED
        BY <2>3, <2>5, <2>9, <4>1
    <3>2. CASE row \notin S
      <4>1. size <= n /\ size # n
        BY <1>1, <1>4, <2>2, <3>2, FS_Subset
      <4> QED
        BY <2>3, <4>1
    <3> QED
      BY <3>1, <3>2
  <2>10. \A i, j \in 1..m : i < j => Before(found[i], found[j]) /\ found[i] # found[j]
    <3>1. \A i \in 1..m : i \in 1..size
      BY <2>3
    <3> QED
      BY <2>5, <2>6, <3>1
  <2>11. found \in [1..m -> rows]
    BY <1>4, <2>5
  <2> QED
    BY <1>1, <2>1, <2>5, <2>8, <2>9, <2>10, <2>11 DEF Answers
<1>7. ASSUME NEW found \in RetrieveChunks(rows, topK, candidateK) PROVE Answers(rows, topK, found)
  <2> HIDE DEF cut
  <2>1. PICK s \in UNION {Ranked(S) : S \in KnnSearch(rows, k)} : found = cut(s)
    BY <1>3
  <2>2. PICK S \in KnnSearch(rows, k) : s \in Ranked(S)
    BY <2>1
  <2> QED
    BY <1>6, <2>1, <2>2
<1> QED
  BY <1>5, <1>7

-----------------------------------------------------------------------------
(* The index *)

\* What the index holds for the query of an event.
RowsFor(e) == {[id |-> d, knn |-> Knn[e][d], lexical |-> Lexical[e][d]] : d \in index}

\* Every query has a context, and each is of as many documents as the index has, up to
\* TopK, none of them twice, best first, and none left out that belongs before one taken.
QueriesAnswered ==
  \A e \in Events :
    /\ ContextsFor(e) # {}
    /\ \A context \in ContextsFor(e) :
         /\ DOMAIN context = 1..Capped(TopK, Cardinality(index))
         /\ \E found : /\ Answers(RowsFor(e), TopK, found)
                       /\ context = Docs([i \in DOMAIN found |-> found[i].id])

LEMMA RowsOfIndex ==
  ASSUME index \subseteq Events, IsFiniteSet(index), NEW e \in Events
  PROVE  /\ IsFiniteSet(RowsFor(e)) /\ Cardinality(RowsFor(e)) = Cardinality(index)
         /\ OneRowEach(RowsFor(e))
<1> DEFINE row(d) == [id |-> d, knn |-> Knn[e][d], lexical |-> Lexical[e][d]]
           f == [d \in index |-> row(d)]
<1>1. RowsFor(e) = {row(d) : d \in index}
  BY DEF RowsFor
<1>2. f \in Surjection(index, RowsFor(e))
  BY <1>1 DEF Surjection
<1>3. f \in Injection(index, RowsFor(e))
  <2>1. \A d \in index : row(d).id = d
    OBVIOUS
  <2> HIDE DEF row
  <2> QED
    BY <1>1, <2>1 DEF Injection, IsInjective
<1>4. OneRowEach(RowsFor(e))
  <2>1. \A d \in index : d \in Int /\ Knn[e][d] \in Int /\ Lexical[e][d] \in Int
    BY AIAssumption
  <2>2. \A d \in index : row(d) \in Rows /\ row(d).id = d
    BY <2>1 DEF Rows
  <2> HIDE DEF row
  <2> QED
    BY <1>1, <2>2 DEF OneRowEach
<1> HIDE DEF f
<1> QED
  BY <1>2, <1>3, <1>4, FS_Surjection

IndexIsFinite == IsFiniteSet(index)

\* The index is finite: it grows by the document of one event at a time.
LEMMA IndexStaysFinite ==
  ASSUME IndexIsFinite, [Next]_vars
  PROVE  IndexIsFinite'
<1>1. ASSUME NEW w \in Workers, Step(w) \/ ReceiveRaises(w) \/ Crash(w)
      PROVE  index' = index \/ index' = index \cup {Event(w)}
  BY <1>1 DEF Step, Receive, Begin, Index, Indexed, Check, Retrieve, Lookup, Ask, Store, Publish,
              Show, Mark, Complete, Reject, ReceiveRaises, Crash
<1>2. \A e : IsFiniteSet(index \cup {e})
  BY FS_AddElement DEF IndexIsFinite
<1> QED
  BY <1>1, <1>2 DEF IndexIsFinite, Next, PeekLockExpires, vars

\* Retrieval never leaves a replica without a context, whatever has been indexed by
\* then and however the scores tie (rag/pipeline.py:53-89, 164-190).
THEOREM EveryQueryIsAnswered == Spec => []QueriesAnswered
<1>1. Init => IndexIsFinite
  BY FS_EmptySet DEF Init, IndexIsFinite
<1>2. IndexIsFinite /\ [Next]_vars => IndexIsFinite'
  BY IndexStaysFinite
<1>3. Inv /\ IndexIsFinite => QueriesAnswered
  <2> SUFFICES ASSUME Inv, IndexIsFinite, NEW e \in Events
               PROVE  /\ ContextsFor(e) # {}
                      /\ \A context \in ContextsFor(e) :
                           /\ DOMAIN context = 1..Capped(TopK, Cardinality(index))
                           /\ \E found : /\ Answers(RowsFor(e), TopK, found)
                                         /\ context = Docs([i \in DOMAIN found |-> found[i].id])
    BY DEF QueriesAnswered
  <2>1. /\ IsFiniteSet(RowsFor(e)) /\ Cardinality(RowsFor(e)) = Cardinality(index)
        /\ OneRowEach(RowsFor(e))
    BY RowsOfIndex DEF IndexIsFinite, Inv, Types, StoreTypes
  <2>2. /\ RetrieveChunks(RowsFor(e), TopK, CandidateK) # {}
        /\ \A found \in RetrieveChunks(RowsFor(e), TopK, CandidateK) :
             Answers(RowsFor(e), TopK, found)
    BY <2>1, RetrievalAnswers, AIAssumption
  <2>3. ContextsFor(e) = {Docs([i \in DOMAIN found |-> found[i].id]) :
                             found \in RetrieveChunks(RowsFor(e), TopK, CandidateK)}
    BY DEF ContextsFor, RowsFor
  <2>4. ASSUME NEW context \in ContextsFor(e)
        PROVE  /\ DOMAIN context = 1..Capped(TopK, Cardinality(index))
               /\ \E found : /\ Answers(RowsFor(e), TopK, found)
                             /\ context = Docs([i \in DOMAIN found |-> found[i].id])
    <3>1. PICK found : /\ Answers(RowsFor(e), TopK, found)
                       /\ context = Docs([i \in DOMAIN found |-> found[i].id])
      BY <2>2, <2>3
    <3>2. DOMAIN found = 1..Capped(TopK, Cardinality(index))
      BY <2>1, <3>1 DEF Answers
    <3>3. DOMAIN context = DOMAIN found
      BY <3>1 DEF Docs
    <3> QED
      BY <3>1, <3>2, <3>3
  <2>5. ContextsFor(e) # {}
    <3>1. PICK found \in RetrieveChunks(RowsFor(e), TopK, CandidateK) : TRUE
      BY <2>2
    <3> QED
      BY <2>3, <3>1
  <2> QED
    BY <2>4, <2>5
<1> QED
  BY <1>1, <1>2, <1>3, AlwaysInv, PTL DEF Spec

-----------------------------------------------------------------------------
(* Who holds a message while peek locks are kept *)

\* Each event has one message, and a symbol at least.
OneMessage ==
  \A m, n \in Messages : EventOf[m] = EventOf[n] /\ EventOf[m] \in Events => m = n
HasSymbols == \A e \in Events : SymbolsOf[e] # <<>>

\* A replica holds the peek locks of its batch, and of the message it handles unless it
\* has completed it without knowing.
Holds(w) ==
  /\ \A m \in batch[w] : owner[m] = w
  /\ msg[w] # NoMessage => owner[msg[w]] = w \/ state[msg[w]] = "completed"
  /\ msg[w] \notin batch[w]
HeldInv ==
  /\ \A w \in Workers : Holds(w)
  /\ \A v, w \in Workers : msg[v] = msg[w] /\ msg[w] # NoMessage => v = w
  /\ \A m \in Messages : owner[m] \in Workers <=> state[m] = "locked"

\* The replicas only drop messages, and the broker does nothing.
LEMMA HeldFrame ==
  ASSUME HeldInv, UNCHANGED <<state, owner>>, PollTypes,
         \A v \in Workers : batch'[v] \in {batch[v], {}} /\ msg'[v] \in {msg[v], NoMessage}
  PROVE  HeldInv'
<1>1. ASSUME NEW v \in Workers PROVE Holds(v)'
  <2>1. Holds(v) /\ NoMessage \notin batch[v]
    BY AIAssumption DEF HeldInv, PollTypes
  <2> QED
    BY <2>1 DEF Holds
<1> QED
  BY <1>1 DEF HeldInv

\* The broker locks messages that nobody holds.
LEMMA HeldAfterDeliver ==
  ASSUME HeldInv, PollTypes, BrokerTypes, NEW w \in Workers, NEW t,
         NEW S \in SUBSET Available(t), Deliver(w, S), msg[w] = NoMessage,
         batch'[w] \in {S, {}}, \A v \in Workers \ {w} : batch'[v] = batch[v],
         \A v \in Workers : msg'[v] = msg[v]
  PROVE  HeldInv' /\ \A m \in Messages : state'[m] = state[m]
                                         \/ (state[m] = "ready" /\ state'[m] = "locked")
<1>1. \A m \in Messages : /\ m \in S => state[m] = "ready" /\ state'[m] = "locked" /\ owner'[m] = w
                          /\ m \notin S => state'[m] = state[m] /\ owner'[m] = owner[m]
  BY DEF Deliver, Available
<1>2. \A m \in Messages : m \in S => owner[m] \notin Workers
  BY <1>1 DEF HeldInv
<1>3. S \subseteq Messages /\ NoMessage \notin Messages
  BY AIAssumption DEF Available
<1>4. ASSUME NEW v \in Workers PROVE Holds(v)'
  <2>1. Holds(v) /\ batch[v] \subseteq Messages /\ msg[v] \in Messages \cup {NoMessage}
    BY DEF HeldInv, PollTypes
  <2>2. CASE v = w
    BY <1>1, <1>3, <2>2 DEF Holds
  <2>3. CASE v # w
    <3>1. \A m \in batch[v] : owner'[m] = v
      BY <1>1, <1>2, <2>1 DEF Holds
    <3>2. msg[v] # NoMessage => owner'[msg[v]] = v \/ state'[msg[v]] = "completed"
      BY <1>1, <1>2, <2>1 DEF Holds
    <3> QED
      BY <2>1, <2>3, <3>1, <3>2 DEF Holds
  <2> QED
    BY <2>2, <2>3
<1>5. \A m \in Messages : owner'[m] \in Workers <=> state'[m] = "locked"
  BY <1>1 DEF HeldInv
<1> QED
  BY <1>1, <1>4, <1>5 DEF HeldInv

\* The replica that holds a message settles it, and knows or does not.
LEMMA HeldAfterSettle ==
  ASSUME HeldInv, PollTypes, BrokerTypes, NEW w \in Workers, NEW outcome \in {"completed", "dead"},
         msg[w] \in Messages, owner[msg[w]] = w, SettledAs(msg[w], outcome),
         \A v \in Workers \ {w} : batch'[v] = batch[v] /\ msg'[v] = msg[v],
         batch'[w] \in {batch[w], {}},
         msg'[w] = NoMessage \/ (msg'[w] = msg[w] /\ outcome = "completed")
  PROVE  HeldInv' /\ \A v \in Workers \ {w} : msg[v] # NoMessage => state'[msg[v]] = state[msg[v]]
<1>1. \A m \in Messages : /\ m = msg[w] => state'[m] = outcome /\ owner'[m] = Nobody
                          /\ m # msg[w] => state'[m] = state[m] /\ owner'[m] = owner[m]
  BY DEF SettledAs, BrokerTypes
<1>2. state[msg[w]] = "locked" /\ NoMessage \notin Messages /\ Nobody \notin Workers
  BY AIAssumption DEF HeldInv
<1>3. ASSUME NEW v \in Workers PROVE Holds(v) /\ batch[v] \subseteq Messages
                                   /\ msg[v] \in Messages \cup {NoMessage}
  BY DEF HeldInv, PollTypes
<1>4. ASSUME NEW v \in Workers, v # w PROVE msg[v] # msg[w] /\ msg[w] \notin batch[v]
  BY <1>2, <1>3, <1>4 DEF HeldInv, Holds
<1>5. ASSUME NEW v \in Workers PROVE Holds(v)'
  <2>1. CASE v = w
    <3>1. \A m \in batch'[w] : owner'[m] = w
      BY <1>1, <1>3 DEF Holds
    <3>2. msg'[w] # NoMessage => state'[msg'[w]] = "completed"
      BY <1>1
    <3>3. msg'[w] \notin batch'[w]
      BY <1>2, <1>3 DEF Holds
    <3> QED
      BY <2>1, <3>1, <3>2, <3>3 DEF Holds
  <2>2. CASE v # w
    <3>1. \A m \in batch[v] : owner'[m] = v
      BY <1>1, <1>3, <1>4, <2>2 DEF Holds
    <3>2. msg[v] # NoMessage => owner'[msg[v]] = v \/ state'[msg[v]] = "completed"
      BY <1>1, <1>3, <1>4, <2>2 DEF Holds
    <3> QED
      BY <1>3, <2>2, <3>1, <3>2 DEF Holds
  <2> QED
    BY <2>1, <2>2
<1>6. \A m \in Messages : owner'[m] \in Workers <=> state'[m] = "locked"
  BY <1>1, <1>2 DEF HeldInv
<1>7. \A v \in Workers \ {w} : msg[v] # NoMessage => state'[msg[v]] = state[msg[v]]
  BY <1>1, <1>3, <1>4
<1>8. \A v, u \in Workers : msg'[v] = msg'[u] /\ msg'[u] # NoMessage => v = u
  BY <1>4 DEF HeldInv
<1> QED
  BY <1>5, <1>6, <1>7, <1>8 DEF HeldInv

\* A message whose peek lock expires is in nobody's hands.
LEMMA HeldAfterExpiry ==
  ASSUME HeldInv, PollTypes, BrokerTypes, "peek_lock_lost" \notin Faults,
         NEW m \in Messages, PeekLockExpires(m)
  PROVE  HeldInv' /\ \A v \in Workers : msg[v] # NoMessage => state'[msg[v]] = state[msg[v]]
<1>1. /\ state[m] = "locked" /\ owner[m] \in Workers /\ ~Handling(owner[m], m)
      /\ state'[m] # "locked" /\ owner'[m] = Nobody /\ Nobody \notin Workers
      /\ \A k \in Messages \ {m} : state'[k] = state[k] /\ owner'[k] = owner[k]
      /\ UNCHANGED <<batch, msg>>
  BY AIAssumption DEF PeekLockExpires, BrokerTypes, HeldInv, pollVars
<1>2. ASSUME NEW v \in Workers
      PROVE  /\ Holds(v) /\ batch[v] \subseteq Messages /\ msg[v] \in Messages \cup {NoMessage}
             /\ msg[v] # m /\ m \notin batch[v]
  <2>1. Holds(v) /\ batch[v] \subseteq Messages /\ msg[v] \in Messages \cup {NoMessage}
    BY DEF HeldInv, PollTypes
  <2>2. m \in batch[v] => owner[m] = v
    BY <2>1 DEF Holds
  <2>3. msg[v] = m => owner[m] = v
    BY <1>1, <2>1, AIAssumption DEF Holds
  <2> QED
    BY <1>1, <2>1, <2>2, <2>3 DEF Handling
<1>3. ASSUME NEW v \in Workers PROVE Holds(v)'
  <2>1. \A k \in batch[v] : owner'[k] = v
    BY <1>1, <1>2 DEF Holds
  <2>2. msg[v] # NoMessage => owner'[msg[v]] = v \/ state'[msg[v]] = "completed"
    BY <1>1, <1>2 DEF Holds
  <2> QED
    BY <1>1, <1>2, <2>1, <2>2 DEF Holds
<1>4. \A k \in Messages : owner'[k] \in Workers <=> state'[k] = "locked"
  BY <1>1 DEF HeldInv
<1>5. \A v \in Workers : msg[v] # NoMessage => state'[msg[v]] = state[msg[v]]
  BY <1>1, <1>2
<1> QED
  BY <1>1, <1>3, <1>4, <1>5 DEF HeldInv

\* What every step of an attempt does to the messages: nothing.
AttemptStep(w) ==
  \/ Index(w) \/ Check(w) \/ Retrieve(w) \/ Lookup(w) \/ Ask(w) \/ Store(w) \/ Publish(w)
  \/ Show(w) \/ Mark(w)

LEMMA AttemptKeepsMessages ==
  ASSUME NEW w \in Workers, AttemptStep(w)
  PROVE  UNCHANGED <<batch, msg, state, owner>> /\ pc[w] \in OnEvent
BY DEF AttemptStep, Index, Check, Retrieve, Lookup, Ask, Store, Publish, Show, Mark, GoOn, Raises,
       AttemptFails, NextSymbol, Drafted, pollVars, brokerVars, OnEvent, Steps

\* The control of an attempt: it goes on with its symbol, to the next one, or starts again.
LEMMA AttemptMoves ==
  ASSUME Inv, NEW w \in Workers, AttemptStep(w)
  PROVE  /\ Others(w)
         /\ pc'[w] \in OnSymbol => /\ work'[w].pos = work[w].pos /\ pc[w] # "mark"
                                   /\ pc[w] \in OnSymbol \/ (Check(w) /\ Output(w) \notin marked)
<1>1. CASE AttemptFails(w) \/ NextSymbol(w)
  BY <1>1, Fails, NextOfEvent DEF Inv, Types, OnSymbol
<1>2. ASSUME NEW s \in Steps, GoOn(w, s)
      PROVE  Others(w) /\ work'[w].pos = work[w].pos /\ pc'[w] = s
  BY <1>2, GoesOn DEF Inv, Types
<1>3. ASSUME NEW s \in Steps, NEW d, Drafted(w, d, s)
      PROVE  Others(w) /\ work'[w].pos = work[w].pos
  BY <1>3, Drafts DEF Inv, Types
<1>4. CASE Index(w) \/ Check(w)
  <2>1. \/ AttemptFails(w) \/ NextSymbol(w)
        \/ \E s \in {"check", "complete"} : GoOn(w, s)
        \/ Check(w) /\ Output(w) \notin marked /\ GoOn(w, "retrieve")
    BY <1>4 DEF Index, Check, Raises
  <2>2. pc[w] # "mark"
    BY <1>4 DEF Index, Check
  <2> QED
    BY <1>1, <1>2, <2>1, <2>2 DEF Steps, OnSymbol
<1>5. CASE Retrieve(w)
  <2>1. ASSUME NEW context, work' = [work EXCEPT ![w].context = context], Goto(w, "lookup"),
               UNCHANGED pollVars
        PROVE  Others(w) /\ work'[w].pos = work[w].pos
    BY <2>1, Retrieves DEF Inv, Types
  <2>2. pc[w] = "retrieve"
    BY <1>5 DEF Retrieve
  <2> QED
    BY <1>1, <1>5, <2>1, <2>2 DEF Retrieve, Raises, OnSymbol
<1>6. CASE Lookup(w) \/ Ask(w) \/ Store(w)
  <2>1. \/ AttemptFails(w) \/ GoOn(w, "generate")
        \/ \E s \in {"publish", "store"} : \E d : Drafted(w, d, s)
    <3>1. CASE Lookup(w)
      BY <3>1 DEF Lookup, Raises
    <3>2. CASE Ask(w)
      BY <3>2 DEF Ask, Raises
    <3>3. CASE Store(w)
      BY <3>3 DEF Store, Raises
    <3> QED
      BY <1>6, <3>1, <3>2, <3>3
  <2>2. pc[w] \in OnSymbol /\ pc[w] # "mark"
    BY <1>6 DEF Lookup, Ask, Store, OnSymbol
  <2> QED
    BY <1>1, <1>2, <1>3, <2>1, <2>2 DEF Steps
<1>7. CASE Publish(w) \/ Show(w)
  <2>1. AttemptFails(w) \/ \E s \in {"show", "mark"} : GoOn(w, s)
    BY <1>7 DEF Publish, Show, Raises
  <2>2. pc[w] \in OnSymbol /\ pc[w] # "mark"
    BY <1>7 DEF Publish, Show, OnSymbol
  <2> QED
    BY <1>1, <1>2, <2>1, <2>2 DEF Steps
<1>8. CASE Mark(w)
  BY <1>1, <1>8 DEF Mark, Raises
<1> QED
  BY <1>4, <1>5, <1>6, <1>7, <1>8 DEF AttemptStep

\* A settled message of a replica at a step of an attempt.
LEMMA HeldSettling ==
  ASSUME Inv, HeldInv, NEW w \in Workers, Complete(w) \/ Reject(w)
  PROVE  /\ HeldInv' /\ Others(w)
         /\ \A v \in Workers \ {w} : msg[v] # NoMessage => state'[msg[v]] = state[msg[v]]
         /\ pc'[w] \in {"idle", "index", "reject"}
<1>1. /\ msg[w] \in Messages /\ NoMessage \notin Messages
      /\ PollTypes /\ BrokerTypes
  BY AIAssumption DEF Inv, Types, PollTypes, Local, Complete, Reject
<1>2. \/ AttemptFails(w) \/ Done(w) \/ AbortPoll(w)
  BY DEF Complete, Reject, DeadLettered, Raises
<1>3. Others(w) /\ pc'[w] \in {"idle", "index", "reject"}
  BY <1>1, <1>2, Fails, IsDone, Aborts
<1>4. /\ \A v \in Workers \ {w} : batch'[v] = batch[v] /\ msg'[v] = msg[v]
      /\ batch'[w] \in {batch[w], {}} /\ msg'[w] \in {msg[w], NoMessage}
  BY <1>1, <1>2 DEF AttemptFails, Done, AbortPoll, pollVars, PollTypes
<1>5. CASE UNCHANGED brokerVars
  BY <1>1, <1>3, <1>4, <1>5, HeldFrame DEF brokerVars
<1>6. CASE /\ owner[msg[w]] = w
           /\ \/ SettledAs(msg[w], "completed")
              \/ SettledAs(msg[w], "dead") /\ msg'[w] = NoMessage
  <2>1. ASSUME NEW outcome \in {"completed", "dead"}, SettledAs(msg[w], outcome),
               msg'[w] = NoMessage \/ outcome = "completed"
        PROVE  HeldInv' /\ \A v \in Workers \ {w} :
                             msg[v] # NoMessage => state'[msg[v]] = state[msg[v]]
    BY <1>1, <1>4, <1>6, <2>1, HeldAfterSettle
  <2> QED
    BY <1>3, <1>6, <2>1
<1>7. ASSUME Done(w) \/ AbortPoll(w) PROVE msg'[w] = NoMessage
  BY <1>1, <1>7, IsDone, Aborts
<1> QED
  BY <1>5, <1>6, <1>7 DEF Complete, Reject, DeadLettered

\* While an attempt is about a symbol nobody marks it, and a message completed without
\* knowing has no symbol left to do.
Ahead(w) ==
  /\ pc[w] \in OnSymbol => Output(w) \notin marked
  /\ pc[w] \in OnEvent => state[msg[w]] = "locked" \/ OutputSet(Event(w)) \subseteq marked
AheadInv == HeldInv /\ \A w \in Workers : Ahead(w)

\* A replica that does not move is as far ahead as before.
LEMMA AheadFrame ==
  ASSUME NEW v \in Workers, Ahead(v), Local(v), marked \subseteq marked',
         pc'[v] = pc[v], msg'[v] = msg[v], work'[v] = work[v],
         msg[v] # NoMessage => (state[msg[v]] = "locked" => state'[msg[v]] = "locked"),
         pc[v] \in OnSymbol => Output(v) \notin marked'
  PROVE  Ahead(v)'
<1>1. Event(v)' = Event(v) /\ Output(v)' = Output(v)
  BY DEF Event, Output, Symbol
<1>2. pc[v] \in OnEvent => msg[v] # NoMessage
  BY DEF Local, OnEvent
<1> QED
  BY <1>1, <1>2 DEF Ahead

\* No marker is written but by the replica that is at the symbol.
LEMMA MarkersGrow ==
  ASSUME [Next]_vars
  PROVE  /\ marked \subseteq marked'
         /\ marked' = marked \/ \E w \in Workers : Mark(w) /\ marked' = marked \cup {Output(w)}
<1>1. ASSUME NEW w \in Workers, Step(w) \/ ReceiveRaises(w) \/ Crash(w)
      PROVE  \/ marked' = marked
             \/ Mark(w) /\ marked' = marked \cup {Output(w)}
  BY <1>1 DEF Step, Receive, Begin, Index, Check, Retrieve, Lookup, Ask, Store, Publish,
              Show, Mark, Complete, Reject, ReceiveRaises, Crash, cacheVars
<1> QED
  BY <1>1 DEF Next, PeekLockExpires, vars, cacheVars

\* Of one event only one replica is ahead, so nobody else marks its symbol.
LEMMA OthersMarkOthers ==
  ASSUME OneMessage, Inv, AheadInv, NEW v \in Workers, NEW w \in Workers, v # w,
         pc[v] \in OnSymbol, pc[w] \in OnSymbol
  PROVE  Output(v) # Output(w)
<1>1. /\ Event(v) \in Events /\ msg[v] \in Messages /\ msg[v] # NoMessage
      /\ msg[w] \in Messages
  BY DEF Inv, Types, PollTypes, Local, OnSymbol, OnEvent, Steps
<1>2. msg[v] # msg[w]
  BY <1>1 DEF AheadInv, HeldInv
<1>3. Event(v) # Event(w)
  BY <1>1, <1>2 DEF OneMessage, Event
<1> QED
  BY <1>3 DEF Output

LEMMA AheadAttempt ==
  ASSUME OneMessage, Inv, AheadInv, [Next]_vars, NEW w \in Workers, AttemptStep(w)
  PROVE  AheadInv'
<1>1. /\ UNCHANGED <<batch, msg, state, owner>> /\ pc[w] \in OnEvent
      /\ Others(w)
      /\ pc'[w] \in OnSymbol => /\ work'[w].pos = work[w].pos /\ pc[w] # "mark"
                                /\ pc[w] \in OnSymbol \/ (Check(w) /\ Output(w) \notin marked)
      /\ marked \subseteq marked'
  BY AttemptKeepsMessages, AttemptMoves, MarkersGrow
<1>2. HeldInv'
  BY <1>1, HeldFrame DEF AheadInv, Inv, Types
<1>3. marked' = marked \/ (pc[w] = "mark" /\ marked' = marked \cup {Output(w)})
  BY DEF AttemptStep, Index, Check, Retrieve, Lookup, Ask, Store, Publish, Show, Mark, cacheVars
<1>4. ASSUME NEW v \in Workers, v # w PROVE Ahead(v)'
  <2>1. Ahead(v) /\ Local(v)
    BY DEF AheadInv, Inv
  <2>2. pc[v] \in OnSymbol => Output(v) \notin marked'
    <3>1. pc[v] \in OnSymbol => Output(v) \notin marked
      BY <2>1 DEF Ahead
    <3>2. pc[v] \in OnSymbol /\ pc[w] = "mark" => Output(v) # Output(w)
      BY <1>4, OthersMarkOthers DEF OnSymbol
    <3> QED
      BY <1>3, <3>1, <3>2
  <2>3. pc'[v] = pc[v] /\ msg'[v] = msg[v] /\ work'[v] = work[v] /\ state' = state
    BY <1>1, <1>4 DEF Others
  <2> QED
    BY <1>1, <2>1, <2>2, <2>3, AheadFrame
<1>5. Ahead(w)'
  <2>1. Event(w)' = Event(w) /\ Ahead(w)
    BY <1>1 DEF Event, AheadInv
  <2>2. OutputSet(Event(w)) \subseteq marked => OutputSet(Event(w)) \subseteq marked'
    BY <1>1
  <2>3. state'[msg'[w]] = "locked" \/ OutputSet(Event(w)') \subseteq marked'
    BY <1>1, <2>1, <2>2 DEF Ahead
  <2>4. ASSUME pc'[w] \in OnSymbol PROVE Output(w)' \notin marked'
    <3>1. Output(w)' = Output(w)
      BY <1>1, <2>4, <2>1 DEF Output, Symbol
    <3>2. Output(w) \notin marked
      BY <1>1, <2>1, <2>4 DEF Ahead
    <3> QED
      BY <1>1, <1>3, <2>4, <3>1, <3>2
  <2> QED
    BY <2>3, <2>4 DEF Ahead
<1> QED
  BY <1>2, <1>4, <1>5 DEF AheadInv

\* The steps that write no marker.
LEMMA AheadUnmarked ==
  ASSUME Inv, AheadInv, HeldInv', marked' = marked, NEW w \in Workers, Others(w), Ahead(w)',
         \A v \in Workers \ {w} :
           msg[v] # NoMessage => (state[msg[v]] = "locked" => state'[msg[v]] = "locked")
  PROVE  AheadInv'
<1>1. ASSUME NEW v \in Workers, v # w PROVE Ahead(v)'
  <2>1. Ahead(v) /\ Local(v)
    BY DEF AheadInv, Inv
  <2>2. pc'[v] = pc[v] /\ msg'[v] = msg[v] /\ work'[v] = work[v]
    BY <1>1 DEF Others
  <2>3. pc[v] \in OnSymbol => Output(v) \notin marked'
    BY <2>1 DEF Ahead
  <2> QED
    BY <1>1, <2>1, <2>2, <2>3, AheadFrame
<1> QED
  BY <1>1 DEF AheadInv

LEMMA AheadReceive ==
  ASSUME Inv, AheadInv, NEW w \in Workers, Receive(w) \/ ReceiveRaises(w)
  PROVE  /\ AheadInv'
         /\ \A m \in Messages : state'[m] = state[m]
                                \/ (state[m] = "ready" /\ state'[m] = "locked")
<1>1. PollTypes /\ BrokerTypes /\ HeldInv /\ Local(w)
  BY DEF Inv, Types, AheadInv
<1>2. pc[w] = "idle" /\ batch[w] = {} /\ msg[w] = NoMessage /\ marked' = marked
  BY <1>1 DEF Receive, ReceiveRaises, Local, cacheVars
<1>3. Others(w) /\ pc'[w] = "idle" /\ \A v \in Workers : msg'[v] = msg[v]
  <2>1. CASE Receive(w)
    BY <1>2, <2>1 DEF Receive, Others
  <2>2. CASE AbortPoll(w)
    BY <1>1, <1>2, <2>2, Aborts DEF Others
  <2> QED
    BY <2>1, <2>2 DEF ReceiveRaises
<1>4. PICK S \in SUBSET Available(turn[w]) :
        /\ Deliver(w, S)
        /\ batch' = [batch EXCEPT ![w] = S] \/ batch' = [batch EXCEPT ![w] = {}]
  BY DEF Receive, ReceiveRaises, AbortPoll
<1>5. batch'[w] \in {S, {}} /\ \A v \in Workers \ {w} : batch'[v] = batch[v]
  BY <1>1, <1>4 DEF PollTypes
<1>6. HeldInv' /\ \A m \in Messages : state'[m] = state[m]
                                      \/ (state[m] = "ready" /\ state'[m] = "locked")
  BY <1>1, <1>2, <1>3, <1>4, <1>5, HeldAfterDeliver
<1>7. Ahead(w)'
  BY <1>3 DEF Ahead, OnSymbol, OnEvent
<1>8. \A v \in Workers : msg[v] # NoMessage => msg[v] \in Messages
  BY <1>1 DEF PollTypes
<1> QED
  BY <1>2, <1>3, <1>6, <1>7, <1>8, AheadUnmarked

LEMMA AheadBegin ==
  ASSUME Inv, AheadInv, NEW w \in Workers, Begin(w)
  PROVE  AheadInv'
<1>1. PollTypes /\ BrokerTypes /\ HeldInv /\ Holds(w)
  BY DEF Inv, Types, AheadInv, HeldInv
<1>2. PICK m \in batch[w] :
        /\ batch' = [batch EXCEPT ![w] = @ \ {m}] /\ msg' = [msg EXCEPT ![w] = m]
        /\ Goto(w, IF EventOf[m] = NoEvent THEN "reject" ELSE "index")
  BY DEF Begin
<1>3. /\ m \in Messages /\ m # NoMessage /\ owner[m] = w /\ state[m] = "locked"
  BY <1>1, AIAssumption DEF PollTypes, Holds, HeldInv
<1>4. UNCHANGED <<work, state, owner, marked>>
  BY DEF Begin, brokerVars, cacheVars
<1>5. /\ batch'[w] = batch[w] \ {m} /\ msg'[w] = m /\ pc'[w] \in {"reject", "index"}
      /\ \A v \in Workers \ {w} : batch'[v] = batch[v] /\ msg'[v] = msg[v] /\ pc'[v] = pc[v]
  BY <1>1, <1>2 DEF PollTypes, Goto
<1>6. ASSUME NEW v \in Workers, v # w PROVE Holds(v) /\ msg[v] # m
  <2>1. Holds(v)
    BY <1>1 DEF HeldInv
  <2> QED
    BY <1>3, <1>6, <2>1 DEF Holds
<1>7. HeldInv'
  <2>1. Holds(w)'
    BY <1>1, <1>3, <1>4, <1>5 DEF Holds
  <2>2. ASSUME NEW v \in Workers, v # w PROVE Holds(v)'
    BY <1>4, <1>5, <1>6, <2>2 DEF Holds
  <2>3. \A v, u \in Workers : msg'[v] = msg'[u] /\ msg'[u] # NoMessage => v = u
    BY <1>1, <1>5, <1>6 DEF HeldInv
  <2> QED
    BY <1>1, <1>4, <2>1, <2>2, <2>3 DEF HeldInv
<1>8. Others(w)
  BY <1>4, <1>5 DEF Others
<1>9. Ahead(w)'
  BY <1>3, <1>4, <1>5 DEF Ahead, OnSymbol
<1> QED
  BY <1>4, <1>7, <1>8, <1>9, AheadUnmarked

LEMMA AheadSettle ==
  ASSUME Inv, AheadInv, NEW w \in Workers, Complete(w) \/ Reject(w)
  PROVE  AheadInv'
<1>1. /\ HeldInv' /\ Others(w) /\ pc'[w] \in {"idle", "index", "reject"}
      /\ \A v \in Workers \ {w} : msg[v] # NoMessage => state'[msg[v]] = state[msg[v]]
  BY HeldSettling DEF AheadInv
<1>2. marked' = marked
  BY DEF Complete, Reject, cacheVars
<1>3. ASSUME pc'[w] = "index" PROVE OutputSet(Event(w)') \subseteq marked
  <2>1. Complete(w)
    <3>1. ~(AbortPoll(w) \/ Done(w))
      BY <1>3, Aborts, IsDone DEF Inv, Types
    <3> QED
      BY <3>1 DEF Reject, DeadLettered
  <2>2. AttemptFails(w)
    <3>1. ~Done(w)
      BY <1>3, IsDone DEF Inv, Types
    <3> QED
      BY <2>1, <3>1 DEF Complete, Raises
  <2>3. msg'[w] = msg[w]
    BY <2>2, Fails DEF Inv, Types
  <2>4. OutputSet(Event(w)) \subseteq marked
    BY <2>1 DEF Complete, Inv, Local
  <2> QED
    BY <2>3, <2>4 DEF Event
<1>4. Ahead(w)'
  BY <1>1, <1>2, <1>3 DEF Ahead, OnSymbol, OnEvent
<1> QED
  BY <1>1, <1>2, <1>4, AheadUnmarked

\* Every step keeps the replicas ahead.
LEMMA AheadStep ==
  ASSUME OneMessage, "peek_lock_lost" \notin Faults, Inv, AheadInv, [Next]_vars
  PROVE  AheadInv'
<1>1. ASSUME NEW w \in Workers, Crash(w) PROVE AheadInv'
  <2>1. Others(w) /\ pc'[w] = "idle" /\ UNCHANGED <<state, owner, marked>>
    BY <1>1, Aborts DEF Crash, Inv, Types, brokerVars, cacheVars
  <2>2. \A v \in Workers : batch'[v] \in {batch[v], {}} /\ msg'[v] \in {msg[v], NoMessage}
    BY <1>1 DEF Crash, AbortPoll, Inv, Types, PollTypes
  <2>3. HeldInv'
    BY <2>1, <2>2, HeldFrame DEF AheadInv, Inv, Types
  <2>4. Ahead(w)'
    BY <2>1 DEF Ahead, OnSymbol, OnEvent
  <2> QED
    BY <2>1, <2>3, <2>4, AheadUnmarked
<1>2. ASSUME UNCHANGED <<pc, msg, work, marked>>, HeldInv',
             \A v \in Workers : msg[v] # NoMessage => state'[msg[v]] = state[msg[v]]
      PROVE  AheadInv'
  <2>1. ASSUME NEW v \in Workers PROVE Ahead(v)'
    <3>1. Ahead(v) /\ Local(v)
      BY DEF AheadInv, Inv
    <3>2. pc[v] \in OnSymbol => Output(v) \notin marked'
      BY <1>2, <3>1 DEF Ahead
    <3> QED
      BY <1>2, <3>1, <3>2, AheadFrame
  <2> QED
    BY <1>2, <2>1 DEF AheadInv
<1>3. ASSUME NEW m \in Messages, PeekLockExpires(m) PROVE AheadInv'
  <2>1. HeldInv' /\ \A v \in Workers : msg[v] # NoMessage => state'[msg[v]] = state[msg[v]]
    BY <1>3, HeldAfterExpiry DEF AheadInv, Inv, Types
  <2>2. UNCHANGED <<pc, msg, work, marked>>
    BY <1>3 DEF PeekLockExpires, pollVars, cacheVars
  <2> QED
    BY <1>2, <2>1, <2>2
<1>4. CASE UNCHANGED vars
  <2>1. UNCHANGED <<pc, msg, work, marked, batch, state, owner>>
    BY <1>4 DEF vars, pollVars, brokerVars, cacheVars
  <2>2. HeldInv'
    BY <2>1, HeldFrame DEF AheadInv, Inv, Types
  <2> QED
    BY <1>2, <2>1, <2>2
<1>5. ASSUME NEW w \in Workers, AttemptStep(w) PROVE AheadInv'
  BY <1>5, AheadAttempt
<1>6. ASSUME NEW w \in Workers, Receive(w) \/ ReceiveRaises(w) PROVE AheadInv'
  BY <1>6, AheadReceive
<1>7. ASSUME NEW w \in Workers, Begin(w) PROVE AheadInv'
  BY <1>7, AheadBegin
<1>8. ASSUME NEW w \in Workers, Complete(w) \/ Reject(w) PROVE AheadInv'
  BY <1>8, AheadSettle
<1> QED
  BY <1>1, <1>3, <1>4, <1>5, <1>6, <1>7, <1>8 DEF Next, Step, AttemptStep

-----------------------------------------------------------------------------
(* What the service promises *)

\* The state that EventDelivery sees.
Copied == [o \in Outputs |-> Cardinality(topic[o]) + Cardinality({o} \cap late)]
Final == {e \in Events : OutputSet(e) \subseteq marked}
Outcomes == [m \in Messages |-> IF state[m] \in {"ready", "locked"} THEN "open" ELSE state[m]]

TopicFinite == \A o \in Outputs : IsFiniteSet(topic[o])

LEMMA DeliveryStutter ==
  ASSUME Outcomes' = Outcomes, UNCHANGED <<topic, late, marked>>
  PROVE  UNCHANGED Delivery!vars
BY DEF Delivery!vars, Outcomes

\* The outputs of an event are those of its symbols.
LEMMA DeliveryOutputs ==
  ASSUME NEW e \in Events
  PROVE  Delivery!OutputSet(e) = OutputSet(e) /\ OutputSet(e) \subseteq Outputs
BY DEF Delivery!OutputSet, OutputSet, OutputsOf, Outputs

\* A replica that is at a symbol has an open message, and its event is not done.
LEMMA OpenCopy ==
  ASSUME Inv, AheadInv, NEW w \in Workers, pc[w] \in OnSymbol
  PROVE  /\ Event(w) \in Events /\ Output(w) \in Outputs /\ Output(w) \in OutputSet(Event(w))
         /\ Output(w) \notin marked
         /\ Delivery!Copies(Event(w), {"open"}) # {}
<1>1. /\ Event(w) \in Events /\ work[w].pos \in DOMAIN SymbolsOf[Event(w)]
      /\ msg[w] \in Messages
  BY DEF Inv, Types, PollTypes, Local, OnSymbol, OnEvent, Steps
<1>2. Output(w) \in Outputs /\ Output(w) \in OutputSet(Event(w))
  BY <1>1, OutputTyped
<1>3. Output(w) \notin marked
  BY DEF AheadInv, Ahead
<1>4. state[msg[w]] = "locked"
  BY <1>2, <1>3 DEF AheadInv, Ahead, OnSymbol, OnEvent, Steps
<1>5. msg[w] \in Delivery!Copies(Event(w), {"open"})
  BY <1>1, <1>4 DEF Delivery!Copies, Event
<1> QED
  BY <1>1, <1>2, <1>3, <1>5

\* The topic gets one more copy, or the insight it already holds.
LEMMA AcceptedDelivers ==
  ASSUME Inv, AheadInv, TopicFinite, NEW w \in Workers, pc[w] \in OnSymbol, Accepted(w),
         UNCHANGED <<state, marked>>
  PROVE  TopicFinite' /\ (Delivery!Next \/ UNCHANGED Delivery!vars)
<1>1. /\ Event(w) \in Events /\ Output(w) \in Outputs /\ Output(w) \in OutputSet(Event(w))
      /\ Output(w) \notin marked
      /\ Delivery!Copies(Event(w), {"open"}) # {}
  BY OpenCopy
<1>2. late' = late
  <2>1. Output(w) \notin Finished
    BY <1>1 DEF Finished
  <2> QED
    BY <2>1 DEF Accepted
<1>3. /\ topic' = [topic EXCEPT ![Output(w)] = @ \cup {Insight(w)}]
      /\ topic = [o \in Outputs |-> topic[o]]
  BY DEF Accepted, Inv, Types, StoreTypes
<1>4. Outcomes' = Outcomes
  BY DEF Outcomes
<1>5. CASE Insight(w) \in topic[Output(w)]
  <2>1. topic[Output(w)] \cup {Insight(w)} = topic[Output(w)]
    BY <1>5
  <2>2. topic' = topic
    BY <1>3, <2>1
  <2> QED
    BY <1>2, <1>4, <2>2, DeliveryStutter DEF TopicFinite
<1>6. CASE Insight(w) \notin topic[Output(w)]
  <2> DEFINE grown == topic[Output(w)] \cup {Insight(w)}
  <2>1. IsFiniteSet(grown) /\ Cardinality(grown) = Cardinality(topic[Output(w)]) + 1
    BY <1>1, <1>6, FS_AddElement DEF TopicFinite
  <2>2. \A o \in Outputs : IsFiniteSet({o} \cap late) /\ Cardinality({o} \cap late) \in Nat
    BY FS_Singleton, FS_Subset, FS_CardinalityType
  <2>3. Cardinality(topic[Output(w)]) \in Nat
    BY <1>1, FS_CardinalityType DEF TopicFinite
  <2>4. topic'[Output(w)] = grown /\ \A o \in Outputs : o # Output(w) => topic'[o] = topic[o]
    BY <1>1, <1>3
  <2> HIDE DEF grown
  <2>5. TopicFinite'
    BY <2>1, <2>4 DEF TopicFinite
  <2>6. ASSUME NEW o \in Outputs
        PROVE  Cardinality(topic'[o]) + Cardinality({o} \cap late')
                 = IF o = Output(w) THEN Cardinality(topic[o]) + Cardinality({o} \cap late) + 1
                                    ELSE Cardinality(topic[o]) + Cardinality({o} \cap late)
    BY <1>2, <2>1, <2>2, <2>3, <2>4
  <2>7. Copied' = [Copied EXCEPT ![Output(w)] = @ + 1]
    BY <2>6 DEF Copied
  <2>8. Event(w) \notin Final
    BY <1>1 DEF Final
  <2>9. Delivery!Publish(Event(w), Output(w))
    BY <1>1, <1>4, <2>7, <2>8, DeliveryOutputs DEF Delivery!Publish, Copied, Final, Outcomes
  <2> QED
    BY <1>1, <2>5, <2>9 DEF Delivery!Next
<1> QED
  BY <1>5, <1>6

\* Marking the last symbol of an event makes it done: each of them was published before.
LEMMA MarkDelivers ==
  ASSUME Inv, Inv', AheadInv, TopicFinite, NEW w \in Workers, Mark(w)
  PROVE  Delivery!Next \/ UNCHANGED Delivery!vars
<1>1. pc[w] \in OnSymbol /\ UNCHANGED <<state, topic, late>>
  BY DEF Mark, OnSymbol, brokerVars, topicVars
<1>2. Outcomes' = Outcomes /\ Copied' = Copied
  BY <1>1 DEF Outcomes, Copied
<1>3. /\ Event(w) \in Events /\ Delivery!Copies(Event(w), {"open"}) # {}
  BY <1>1, OpenCopy
<1>4. marked' = marked \/ marked' = marked \cup {Output(w)}
  BY DEF Mark
<1>5. \A e \in Events \ {Event(w)} : Output(w) \notin OutputSet(e)
  BY DEF Output, OutputSet
<1>6. \A e \in Events \ {Event(w)} : e \in Final' <=> e \in Final
  BY <1>4, <1>5 DEF Final
<1>7. Final \subseteq Final' /\ Final' \subseteq Events
  BY <1>4 DEF Final
<1>8. CASE Event(w) \in Final'
  <2>1. Final' = Final \cup {Event(w)}
    BY <1>3, <1>6, <1>7, <1>8
  <2>2. \A o \in Delivery!OutputSet(Event(w)) : Copied[o] > 0
    <3>1. SUFFICES ASSUME NEW o \in OutputSet(Event(w)) PROVE Copied[o] > 0
      BY <1>3, DeliveryOutputs
    <3>2. o \in Outputs /\ o \in marked'
      BY <1>3, <1>8, DeliveryOutputs DEF Final
    <3>3. topic[o] # {}
      BY <1>1, <3>2 DEF Inv, MarkedIsPublished
    <3>4. Cardinality(topic[o]) \in Nat /\ Cardinality(topic[o]) # 0
      BY <3>2, <3>3, FS_CardinalityType, FS_EmptySet DEF TopicFinite
    <3>5. Cardinality({o} \cap late) \in Nat
      BY FS_Singleton, FS_Subset, FS_CardinalityType
    <3> QED
      BY <3>2, <3>4, <3>5 DEF Copied
  <2>3. Delivery!MarkDone(Event(w))
    BY <1>2, <1>3, <2>1, <2>2 DEF Delivery!MarkDone, Copied, Final, Outcomes
  <2> QED
    BY <1>3, <2>3 DEF Delivery!Next
<1>9. CASE Event(w) \notin Final'
  <2>1. Final' = Final
    BY <1>6, <1>7, <1>9
  <2> QED
    BY <1>2, <2>1 DEF Delivery!vars, Copied, Final, Outcomes
<1> QED
  BY <1>8, <1>9

\* A message is completed when its event is done, or dead-lettered.
LEMMA SettleDelivers ==
  ASSUME Inv, AheadInv, NEW w \in Workers, Complete(w) \/ Reject(w)
  PROVE  Delivery!Next \/ UNCHANGED Delivery!vars
<1>1. /\ msg[w] \in Messages /\ BrokerTypes
      /\ owner[msg[w]] = w => state[msg[w]] = "locked"
      /\ UNCHANGED <<topic, late, marked>>
  BY DEF Inv, Types, PollTypes, Local, Complete, Reject, AheadInv, HeldInv, topicVars, cacheVars
<1>2. Copied' = Copied /\ Final' = Final
  BY <1>1 DEF Copied, Final
<1>3. CASE UNCHANGED brokerVars
  <2>1. Outcomes' = Outcomes
    BY <1>3 DEF Outcomes, brokerVars
  <2> QED
    BY <1>1, <2>1, DeliveryStutter
<1>4. CASE Complete(w) /\ owner[msg[w]] = w /\ SettledAs(msg[w], "completed")
  <2>1. Outcomes[msg[w]] = "open" /\ Outcomes' = [Outcomes EXCEPT ![msg[w]] = "completed"]
    BY <1>1, <1>4 DEF Outcomes, SettledAs, BrokerTypes
  <2>2. Event(w) \in Final /\ Event(w) # NoEvent
    BY <1>4, AIAssumption DEF Complete, Inv, Local, OnEvent, Steps, Final
  <2>3. ASSUME NEW m \in Messages, m = msg[w] PROVE Delivery!Complete(m)
    BY <1>2, <2>1, <2>2, <2>3 DEF Delivery!Complete, Event, Copied, Final, Outcomes
  <2> QED
    BY <1>1, <2>3 DEF Delivery!Next
<1>5. CASE Reject(w) /\ owner[msg[w]] = w /\ SettledAs(msg[w], "dead")
  <2>1. Outcomes[msg[w]] = "open" /\ Outcomes' = [Outcomes EXCEPT ![msg[w]] = "dead"]
    BY <1>1, <1>5 DEF Outcomes, SettledAs, BrokerTypes
  <2>2. ASSUME NEW m \in Messages, m = msg[w] PROVE Delivery!DeadLetter(m)
    BY <1>2, <2>1, <2>2 DEF Delivery!DeadLetter, Copied, Final, Outcomes
  <2> QED
    BY <1>1, <2>2 DEF Delivery!Next
<1> QED
  BY <1>3, <1>4, <1>5 DEF Complete, Reject, DeadLettered

\* The other steps publish and mark nothing, and settle nothing but an expired message.
LEMMA OtherDelivers ==
  ASSUME Inv, AheadInv, [Next]_vars,
         ~\E w \in Workers : Publish(w) \/ Mark(w) \/ Complete(w) \/ Reject(w)
  PROVE  UNCHANGED <<topic, late>> /\ (Delivery!Next \/ UNCHANGED Delivery!vars)
<1>1. CASE UNCHANGED <<state, topic, late, marked>>
  <2>1. Outcomes' = Outcomes
    BY <1>1 DEF Outcomes
  <2> QED
    BY <1>1, <2>1, DeliveryStutter
<1>2. ASSUME NEW w \in Workers, Receive(w) \/ ReceiveRaises(w)
      PROVE  UNCHANGED <<topic, late>> /\ UNCHANGED Delivery!vars
  <2>1. UNCHANGED <<topic, late, marked>>
    BY <1>2 DEF Receive, ReceiveRaises, cacheVars, topicVars
  <2>2. \A m \in Messages : state'[m] = state[m] \/ (state[m] = "ready" /\ state'[m] = "locked")
    BY <1>2, AheadReceive
  <2>3. Outcomes' = Outcomes
    BY <2>2 DEF Outcomes
  <2> QED
    BY <2>1, <2>3, DeliveryStutter
<1>3. ASSUME NEW m \in Messages, PeekLockExpires(m)
      PROVE  UNCHANGED <<topic, late>> /\ (Delivery!Next \/ UNCHANGED Delivery!vars)
  <2>1. /\ UNCHANGED <<topic, late, marked>> /\ state[m] = "locked" /\ BrokerTypes
    BY <1>3 DEF PeekLockExpires, cacheVars, topicVars, Inv, Types
  <2>2. CASE state' = [state EXCEPT ![m] = "ready"]
    <3>1. Outcomes' = Outcomes
      BY <2>1, <2>2 DEF Outcomes, BrokerTypes
    <3> QED
      BY <2>1, <3>1, DeliveryStutter
  <2>3. CASE state' = [state EXCEPT ![m] = "dead"]
    <3>1. Outcomes[m] = "open" /\ Outcomes' = [Outcomes EXCEPT ![m] = "dead"]
      BY <2>1, <2>3 DEF Outcomes, BrokerTypes
    <3>2. Copied' = Copied /\ Final' = Final
      BY <2>1 DEF Copied, Final
    <3>3. Delivery!DeadLetter(m)
      BY <3>1, <3>2 DEF Delivery!DeadLetter, Copied, Final, Outcomes
    <3> QED
      BY <2>1, <3>3 DEF Delivery!Next
  <2> QED
    BY <1>3, <2>2, <2>3 DEF PeekLockExpires
<1>4. ASSUME NEW w \in Workers,
             \/ Begin(w) \/ Index(w) \/ Check(w) \/ Retrieve(w) \/ Lookup(w) \/ Ask(w)
             \/ Store(w) \/ Show(w) \/ Crash(w)
      PROVE  UNCHANGED <<state, topic, late, marked>>
  BY <1>4 DEF Begin, Index, Check, Retrieve, Lookup, Ask, Store, Show, Crash, brokerVars,
              cacheVars, topicVars
<1>5. CASE UNCHANGED vars
  BY <1>1, <1>5 DEF vars, brokerVars, cacheVars, topicVars
<1> QED
  BY <1>1, <1>2, <1>3, <1>4, <1>5 DEF Next, Step

\* Every step of the service is a step of EventDelivery or leaves it as it is.
LEMMA DeliveryStep ==
  ASSUME Inv, Inv', AheadInv, TopicFinite, [Next]_vars
  PROVE  TopicFinite' /\ (Delivery!Next \/ UNCHANGED Delivery!vars)
<1>1. ASSUME NEW w \in Workers, Publish(w)
      PROVE  TopicFinite' /\ (Delivery!Next \/ UNCHANGED Delivery!vars)
  <2>1. pc[w] \in OnSymbol /\ UNCHANGED <<state, marked>>
    BY <1>1 DEF Publish, OnSymbol, brokerVars, cacheVars
  <2>2. CASE Accepted(w)
    BY <2>1, <2>2, AcceptedDelivers
  <2>3. CASE UNCHANGED topicVars
    <3>1. Outcomes' = Outcomes /\ UNCHANGED <<topic, late, marked>>
      BY <2>1, <2>3 DEF Outcomes, topicVars
    <3> QED
      BY <3>1, DeliveryStutter DEF TopicFinite
  <2> QED
    BY <1>1, <2>2, <2>3 DEF Publish
<1>2. ASSUME NEW w \in Workers, Mark(w) \/ Complete(w) \/ Reject(w)
      PROVE  TopicFinite' /\ (Delivery!Next \/ UNCHANGED Delivery!vars)
  <2>1. topic' = topic
    BY <1>2 DEF Mark, Complete, Reject, topicVars
  <2> QED
    BY <1>2, <2>1, MarkDelivers, SettleDelivers DEF TopicFinite
<1> QED
  BY <1>1, <1>2, OtherDelivers DEF TopicFinite

\* The initial state is one of EventDelivery, and satisfies the invariants.
LEMMA InitDelivers ==
  ASSUME HasSymbols, Init
  PROVE  AheadInv /\ TopicFinite /\ Delivery!Init
<1>1. AheadInv
  <2>1. HeldInv
    BY AIAssumption DEF Init, HeldInv, Holds
  <2>2. \A w \in Workers : Ahead(w)
    BY DEF Init, Ahead, OnSymbol, OnEvent
  <2> QED
    BY <2>1, <2>2 DEF AheadInv
<1>2. TopicFinite
  BY FS_EmptySet DEF Init, TopicFinite
<1>3. ASSUME NEW e \in Events PROVE ~(OutputSet(e) \subseteq marked)
  <2>1. SymbolsOf[e] \in Seq(Symbols) /\ SymbolsOf[e] # <<>>
    BY AIAssumption DEF HasSymbols
  <2>2. 1 \in DOMAIN SymbolsOf[e]
    BY <2>1
  <2> QED
    BY <2>2 DEF OutputSet, Init
<1>4. ASSUME NEW o \in Outputs PROVE Cardinality(topic[o]) + Cardinality({o} \cap late) = 0
  <2>1. topic[o] = {} /\ {o} \cap late = {}
    BY DEF Init
  <2>2. Cardinality({}) = 0
    BY FS_EmptySet
  <2> QED
    BY <2>1, <2>2
<1>5. Copied = [o \in Outputs |-> 0] /\ Final = {} /\ Outcomes = [m \in Messages |-> "open"]
  BY <1>3, <1>4 DEF Copied, Final, Outcomes, Init
<1>6. Delivery!Init
  BY <1>5 DEF Delivery!Init, Copied, Final, Outcomes
<1> QED
  BY <1>1, <1>2, <1>6

\* While no peek lock is lost and each event has one message, the service implements
\* EventDelivery: nothing is published for an event whose symbols are all marked, although
\* a settlement that raises after it took effect sends the whole operation round again
\* (service.py:338-383), and no message is completed before its event is done.
THEOREM RefinesDelivery ==
  ASSUME OneMessage, HasSymbols, "peek_lock_lost" \notin Faults
  PROVE  Spec => ImplementsDelivery
<1>1. Init => AheadInv /\ TopicFinite /\ Delivery!Init
  BY InitDelivers
<1>2. Inv /\ Inv' /\ AheadInv /\ TopicFinite /\ [Next]_vars
        => AheadInv' /\ TopicFinite' /\ [Delivery!Next]_(Delivery!vars)
  BY AheadStep, DeliveryStep
<1> QED
  BY <1>1, <1>2, AlwaysInv, PTL DEF Spec, ImplementsDelivery, Delivery!Spec
=============================================================================
