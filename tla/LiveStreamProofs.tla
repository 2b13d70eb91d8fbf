--------------------------- MODULE LiveStreamProofs ---------------------------
(***************************************************************************)
(* Theorems about LiveStream for any number of connections, topics and     *)
(* messages, any queue size and whatever calls of the bus fail.            *)
(***************************************************************************)
EXTENDS LiveStream, TLAPS

\* Messages of a topic the pump has not disposed of.
Pending(t) == {m \in Messages : TopicOf[m] = t /\ state[m] \in {"ready", "locked"}}

\* The pump of t has not failed, so it goes through the topic in order.
Undisturbed(t) == running /\ t \notin disturbed

\* The filter the client asked for last.
Current(c) == IF wanted[c] = <<>> THEN {} ELSE wanted[c][Len(wanted[c])]

\* Of a frame on its way to c: the filter it was let through by is one the client asked
\* for, none older than the one acknowledged; it is ahead of the messages of its topic
\* the client has, and behind those that are to come.
Good(c, f) ==
  /\ f \in Frames /\ f.version <= Len(wanted[c])
  /\ f.kind = "data" =>
       /\ f.version \in 1..Len(wanted[c]) /\ f.version >= got[c].acked
       /\ SymbolOf[f.message] \in wanted[c][f.version]
       /\ TopicOf[f.message] \notin disturbed => f.message > got[c].last[TopicOf[f.message]]
       /\ Undisturbed(TopicOf[f.message]) =>
            \A m \in Pending(TopicOf[f.message]) : f.message < m

\* Of two frames on their way, the first of which is sent first.
Follows(f, g) ==
  g.kind = "data" =>
    /\ f.kind = "subscribed" => f.version <= g.version
    /\ /\ f.kind = "data" /\ TopicOf[f.message] = TopicOf[g.message]
       /\ TopicOf[g.message] \notin disturbed
       => f.message < g.message

\* What is on its way to c.
Line(c) ==
  /\ queue[c] \in Seq(Frames) /\ Len(queue[c]) <= QueueSize
  /\ \A i \in 1..Len(queue[c]) :
       /\ Good(c, queue[c][i])
       /\ \A k \in 1..(i - 1) : Follows(queue[c][k], queue[c][i])
  /\ sending[c] # NoFrame =>
       Good(c, sending[c]) /\ \A i \in 1..Len(queue[c]) : Follows(sending[c], queue[c][i])

\* What c asked for and what it has.
Client(c) ==
  /\ reply[c] # NoFrame =>
       reply[c] \in Frames /\ reply[c].kind # "data" /\ reply[c].version <= Len(wanted[c])
  /\ got[c] \in [acked : Nat, last : [Topics -> Nat]] /\ got[c].acked <= Len(wanted[c])
  /\ \A t \in Topics : Undisturbed(t) => \A m \in Pending(t) : got[c].last[t] < m
  /\ wanted[c] \in Seq(SUBSET Symbols)
  /\ commands[c] \in 0..MaxCommands /\ Len(wanted[c]) <= commands[c]
  /\ filter[c] = Current(c)
  /\ phase[c] = "new" => wanted[c] = <<>>

Conn(c) == Line(c) /\ Client(c)

\* While its pump has not failed, a topic's locked messages are the pump's, and older
\* than those it has not received.
Bus ==
  /\ state \in [Messages -> {"ready", "locked", "gone"}]
  /\ batch \in [Topics -> SUBSET Messages]
  /\ \A t \in Topics : \A m \in batch[t] : TopicOf[m] = t /\ state[m] = "locked"
  /\ \A t \in Topics : Undisturbed(t) =>
       /\ \A m \in Messages : TopicOf[m] = t /\ state[m] = "locked" => m \in batch[t]
       /\ \A m \in batch[t], k \in Messages : TopicOf[k] = t /\ state[k] = "ready" => m < k

Shapes ==
  /\ running \in BOOLEAN /\ registered \subseteq Connections
  /\ phase \in [Connections -> {"new", "open", "closed"}]
  /\ connected \in [Connections -> BOOLEAN] /\ listening \in [Connections -> BOOLEAN]
  /\ filter = [c \in Connections |-> filter[c]]
  /\ queue = [c \in Connections |-> queue[c]]
  /\ reply = [c \in Connections |-> reply[c]]
  /\ sending = [c \in Connections |-> sending[c]]
  /\ wanted = [c \in Connections |-> wanted[c]]
  /\ commands = [c \in Connections |-> commands[c]]
  /\ got = [c \in Connections |-> got[c]]

Inv == Shapes /\ Bus /\ \A c \in Connections : Conn(c)

-----------------------------------------------------------------------------
(* What the invariant says of the properties *)

LEMMA InPipeline ==
  ASSUME NEW c \in Connections, Conn(c), NEW i \in DOMAIN Pipeline(c)
  PROVE  /\ Good(c, Pipeline(c)[i])
         /\ \A k \in 1..(i - 1) : Follows(Pipeline(c)[k], Pipeline(c)[i])
<1>1. queue[c] \in Seq(Frames)
  BY DEF Conn, Line
<1>2. CASE sending[c] = NoFrame
  <2>1. Pipeline(c) = queue[c]
    BY <1>1, <1>2 DEF Pipeline
  <2>2. i \in 1..Len(queue[c])
    BY <1>1, <2>1
  <2>3. QED
    BY <2>1, <2>2 DEF Conn, Line
<1>3. CASE sending[c] # NoFrame
  <2>1. sending[c] \in Frames
    BY <1>3 DEF Conn, Line, Good
  <2>2. Pipeline(c) = <<sending[c]>> \o queue[c]
    BY <1>3 DEF Pipeline
  <2>3. /\ Len(Pipeline(c)) = Len(queue[c]) + 1 /\ Pipeline(c)[1] = sending[c]
        /\ \A j \in 1..Len(queue[c]) : Pipeline(c)[j + 1] = queue[c][j]
        /\ DOMAIN Pipeline(c) = 1..(Len(queue[c]) + 1) /\ Len(queue[c]) \in Nat
    BY <1>1, <2>1, <2>2
  <2>4. CASE i = 1
    BY <1>3, <2>3, <2>4 DEF Conn, Line
  <2>5. CASE i # 1
    <3>1. i - 1 \in 1..Len(queue[c]) /\ (i - 1) + 1 = i
      BY <2>3, <2>5
    <3>2. Pipeline(c)[i] = queue[c][i - 1]
      BY <2>3, <3>1
    <3>3. ASSUME NEW k \in 1..(i - 1)
          PROVE  Follows(Pipeline(c)[k], Pipeline(c)[i])
      <4>1. CASE k = 1
        BY <1>3, <2>3, <3>1, <3>2, <4>1 DEF Conn, Line
      <4>2. CASE k # 1
        <5>1. k - 1 \in 1..((i - 1) - 1) /\ k - 1 \in 1..Len(queue[c]) /\ (k - 1) + 1 = k
          BY <2>3, <3>1, <4>2
        <5>2. Pipeline(c)[k] = queue[c][k - 1]
          BY <2>3, <5>1
        <5>3. QED
          BY <3>1, <3>2, <5>1, <5>2 DEF Conn, Line
      <4>3. QED
        BY <4>1, <4>2
    <3>4. QED
      BY <3>1, <3>2, <3>3 DEF Conn, Line
  <2>6. QED
    BY <2>4, <2>5
<1>4. QED
  BY <1>2, <1>3

LEMMA InvGivesAckedFilter == Inv => AckedFilter
<1> SUFFICES ASSUME Inv, NEW c \in Connections, NEW i \in DOMAIN Pipeline(c),
                    Pipeline(c)[i].kind = "data"
             PROVE  /\ Pipeline(c)[i].version >= got[c].acked
                    /\ SymbolOf[Pipeline(c)[i].message] \in wanted[c][Pipeline(c)[i].version]
                    /\ \A k \in 1..i - 1 : Pipeline(c)[k].kind = "subscribed"
                         => Pipeline(c)[i].version >= Pipeline(c)[k].version
  BY DEF AckedFilter
<1>1. Good(c, Pipeline(c)[i]) /\ \A k \in 1..(i - 1) : Follows(Pipeline(c)[k], Pipeline(c)[i])
  BY InPipeline DEF Inv
<1>2. ASSUME NEW k \in 1..i - 1, Pipeline(c)[k].kind = "subscribed"
      PROVE  Pipeline(c)[i].version >= Pipeline(c)[k].version
  <2>1. Pipeline(c)[k].version <= Pipeline(c)[i].version
    BY <1>1, <1>2 DEF Follows
  <2>2. QED
    BY <2>1
<1>3. QED
  BY <1>1, <1>2 DEF Good

LEMMA InvGivesInOrder == Inv => InOrder
<1> SUFFICES ASSUME Inv, NEW c \in Connections, NEW i \in DOMAIN Pipeline(c),
                    Pipeline(c)[i].kind = "data",
                    TopicOf[Pipeline(c)[i].message] \notin disturbed
             PROVE  /\ Pipeline(c)[i].message > got[c].last[TopicOf[Pipeline(c)[i].message]]
                    /\ \A k \in 1..i - 1 :
                         /\ Pipeline(c)[k].kind = "data"
                         /\ TopicOf[Pipeline(c)[k].message] = TopicOf[Pipeline(c)[i].message]
                         => Pipeline(c)[i].message > Pipeline(c)[k].message
  BY DEF InOrder
<1>1. Good(c, Pipeline(c)[i]) /\ \A k \in 1..(i - 1) : Follows(Pipeline(c)[k], Pipeline(c)[i])
  BY InPipeline DEF Inv
<1>2. ASSUME NEW k \in 1..i - 1, Pipeline(c)[k].kind = "data",
             TopicOf[Pipeline(c)[k].message] = TopicOf[Pipeline(c)[i].message]
      PROVE  Pipeline(c)[i].message > Pipeline(c)[k].message
  <2>1. Pipeline(c)[k].message < Pipeline(c)[i].message
    BY <1>1, <1>2 DEF Follows
  <2>2. QED
    BY <2>1
<1>3. QED
  BY <1>1, <1>2 DEF Good

-----------------------------------------------------------------------------
(* What a step of the bus leaves of a connection's invariant *)

\* The bus only moves on: no call that failed is forgotten, a closed broker stays
\* closed, and no message of a topic in order comes back.
BusStep ==
  /\ disturbed \subseteq disturbed' /\ (running' => running)
  /\ \A t \in Topics : Undisturbed(t)' => Pending(t)' \subseteq Pending(t)

LEMMA QuietBus == UNCHANGED <<running, state, disturbed>> => BusStep
BY DEF BusStep, Pending, Undisturbed

\* The topic of a data frame.
LEMMA DataFrame ==
  ASSUME NEW f \in Frames, f.kind = "data"
  PROVE  f.message \in Messages /\ TopicOf[f.message] \in Topics /\ f.version \in Nat
         /\ f.message \in Nat /\ f.message > 0
<1>1. f.message \in Messages /\ f.version \in Nat
  BY LiveAssumption DEF Frames
<1>2. TopicOf[f.message] \in Topics
  BY <1>1, LiveAssumption
<1>3. f.message \in Nat \ {0}
  BY <1>1, LiveAssumption
<1>4. QED
  BY <1>1, <1>2, <1>3

\* A frame that is good stays so while the connection keeps what it has: only what the
\* bus does can matter.
LEMMA GoodKept ==
  ASSUME NEW c \in Connections, BusStep, wanted'[c] = wanted[c], got'[c] = got[c],
         NEW f \in Frames
  PROVE  Good(c, f) => Good(c, f)'
<1> SUFFICES ASSUME Good(c, f) PROVE Good(c, f)'
  OBVIOUS
<1>1. f.version <= Len(wanted'[c])
  BY DEF Good
<1>2. ASSUME f.kind = "data"
      PROVE  /\ f.version \in 1..Len(wanted'[c]) /\ f.version >= got'[c].acked
             /\ SymbolOf[f.message] \in wanted'[c][f.version]
             /\ TopicOf[f.message] \notin disturbed' => f.message > got'[c].last[TopicOf[f.message]]
             /\ Undisturbed(TopicOf[f.message])' =>
                  \A m \in Pending(TopicOf[f.message])' : f.message < m
  <2>1. TopicOf[f.message] \in Topics
    BY <1>2, DataFrame
  <2>2. Undisturbed(TopicOf[f.message])' => Undisturbed(TopicOf[f.message])
    BY <2>1 DEF BusStep, Undisturbed
  <2>3. QED
    BY <1>2, <2>1, <2>2 DEF Good, BusStep
<1>3. QED
  BY <1>1, <1>2 DEF Good

LEMMA FollowsKept ==
  ASSUME BusStep, NEW f, NEW g
  PROVE  Follows(f, g) => Follows(f, g)'
BY DEF Follows, BusStep

LEMMA LineKept ==
  ASSUME NEW c \in Connections, Line(c), BusStep,
         UNCHANGED <<queue[c], sending[c], wanted[c], got[c]>>
  PROVE  Line(c)'
<1>1. \A f \in Frames : Good(c, f) => Good(c, f)'
  BY GoodKept
<1>2. \A f, g : Follows(f, g) => Follows(f, g)'
  BY FollowsKept
<1>3. QED
  BY <1>1, <1>2 DEF Line, Good

LEMMA ClientKept ==
  ASSUME NEW c \in Connections, Client(c), BusStep,
         UNCHANGED <<reply[c], wanted[c], commands[c], got[c], filter[c]>>,
         phase'[c] = "new" => phase[c] = "new"
  PROVE  Client(c)'
<1>1. \A t \in Topics : Undisturbed(t)' => \A m \in Pending(t)' : got'[c].last[t] < m
  BY DEF Client, BusStep, Undisturbed
<1>2. filter'[c] = Current(c)'
  BY DEF Client, Current
<1>3. QED
  BY <1>1, <1>2 DEF Client

LEMMA ConnKept ==
  ASSUME NEW c \in Connections, Conn(c), BusStep,
         UNCHANGED <<queue[c], reply[c], sending[c], wanted[c], commands[c], got[c], filter[c]>>,
         phase'[c] = "new" => phase[c] = "new"
  PROVE  Conn(c)'
BY LineKept, ClientKept DEF Conn

\* A frame that comes behind every good one may be put into the queue, or into what
\* is left of it without its oldest entry.
LEMMA LinePut ==
  ASSUME NEW c \in Connections, Line(c), BusStep,
         \A f \in Frames : Good(c, f) => Good(c, f)',
         NEW q \in Seq(Frames), Len(q) < QueueSize, NEW d \in {0, 1},
         \A i \in 1..Len(q) : i + d \in 1..Len(queue[c]) /\ q[i] = queue[c][i + d],
         NEW g \in Frames, Good(c, g)',
         \A f \in Frames : Good(c, f) => Follows(f, g)',
         queue'[c] = Append(q, g), sending'[c] = sending[c]
  PROVE  Line(c)'
<1>1. \A f, h : Follows(f, h) => Follows(f, h)'
  BY FollowsKept
<1>2. /\ queue'[c] \in Seq(Frames) /\ Len(queue'[c]) = Len(q) + 1 /\ Len(q) \in Nat
      /\ \A i \in 1..Len(q) : queue'[c][i] = q[i]
      /\ queue'[c][Len(q) + 1] = g
  OBVIOUS
<1>3. Len(queue'[c]) <= QueueSize
  BY <1>2, LiveAssumption
<1>4. \A i \in 1..Len(q) : Good(c, q[i]) /\ q[i] \in Frames
  BY DEF Line, Good
<1>5. ASSUME NEW i \in 1..Len(queue'[c]), NEW f, f = queue'[c][i]
      PROVE  /\ Good(c, f)'
             /\ \A k \in 1..(i - 1) : \A e : e = queue'[c][k] => Follows(e, f)'
  <2>1. CASE i = Len(q) + 1
    <3>1. f = g /\ \A k \in 1..(i - 1) : k \in 1..Len(q) /\ queue'[c][k] = q[k]
      BY <1>2, <1>5, <2>1
    <3>2. QED
      BY <3>1, <1>4
  <2>2. CASE i # Len(q) + 1
    <3>1. i \in 1..Len(q) /\ f = q[i] /\ q[i] = queue[c][i + d] /\ i + d \in 1..Len(queue[c])
      BY <1>2, <1>5, <2>2
    <3>2. Good(c, f)'
      BY <1>4, <3>1
    <3>3. ASSUME NEW k \in 1..(i - 1), NEW e, e = queue'[c][k]
          PROVE  Follows(e, f)'
      <4>1. k \in 1..Len(q) /\ e = q[k] /\ q[k] = queue[c][k + d]
            /\ k + d \in 1..((i + d) - 1)
        BY <1>2, <3>1, <3>3
      <4>2. Follows(queue[c][k + d], queue[c][i + d])
        BY <3>1, <4>1 DEF Line
      <4>3. Follows(e, f)
        BY <3>1, <4>1, <4>2
      <4>4. QED
        BY <1>1, <4>3
    <3>4. QED
      BY <3>2, <3>3
  <2>3. QED
    BY <2>1, <2>2
<1>6. \A i \in 1..Len(queue'[c]) : Good(c, queue[c][i])'
  <2> SUFFICES ASSUME NEW i \in 1..Len(queue'[c]) PROVE Good(c, queue[c][i])'
    OBVIOUS
  <2>1. PICK f : f = queue'[c][i]
    OBVIOUS
  <2>2. Good(c, f)'
    BY <1>5, <2>1
  <2>3. QED
    BY <2>1, <2>2 DEF Good
<1>7. ASSUME NEW i \in 1..Len(queue'[c]), NEW k \in 1..(i - 1)
      PROVE  Follows(queue[c][k], queue[c][i])'
  <2>1. PICK f : f = queue'[c][i]
    OBVIOUS
  <2>2. PICK e : e = queue'[c][k]
    OBVIOUS
  <2>3. Follows(e, f)'
    BY <1>5, <2>1, <2>2
  <2>4. QED
    BY <2>1, <2>2, <2>3 DEF Follows
<1>8. ASSUME sending[c] # NoFrame
      PROVE  /\ Good(c, sending[c])'
             /\ \A i \in 1..Len(queue'[c]) : Follows(sending[c], queue[c][i])'
  <2>1. PICK f \in Frames : f = sending[c] /\ f = sending'[c]
    BY <1>8 DEF Line, Good
  <2>2. Good(c, f) /\ \A i \in 1..Len(queue[c]) : Follows(f, queue[c][i])
    BY <1>8, <2>1 DEF Line
  <2>3. Good(c, f)' /\ Follows(f, g)'
    BY <2>2
  <2>4. ASSUME NEW i \in 1..Len(queue'[c]), NEW e, e = queue'[c][i]
        PROVE  Follows(f, e)'
    <3>1. CASE i = Len(q) + 1
      BY <1>2, <2>3, <2>4, <3>1
    <3>2. CASE i # Len(q) + 1
      <4>1. i \in 1..Len(q) /\ e = queue[c][i + d] /\ i + d \in 1..Len(queue[c])
        BY <1>2, <2>4, <3>2
      <4>2. Follows(f, e)
        BY <2>2, <4>1
      <4>3. QED
        BY <1>1, <4>2
    <3>3. QED
      BY <3>1, <3>2
  <2>5. ASSUME NEW i \in 1..Len(queue'[c])
        PROVE  Follows(sending[c], queue[c][i])'
    <3>1. PICK e : e = queue'[c][i]
      OBVIOUS
    <3>2. Follows(f, e)'
      BY <2>4, <3>1
    <3>3. QED
      BY <2>1, <3>1, <3>2 DEF Follows
  <2>6. Good(c, sending[c])'
    BY <2>1, <2>3 DEF Good
  <2>7. QED
    BY <2>5, <2>6
<1>9. QED
  BY <1>2, <1>3, <1>6, <1>7, <1>8 DEF Line

\* The oldest frame of the queue, or the client, takes one step.
LEMMA LineTake ==
  ASSUME NEW c \in Connections, Line(c), BusStep, UNCHANGED <<wanted[c], got[c]>>,
         queue[c] # <<>>, sending'[c] = Head(queue[c]), queue'[c] = Tail(queue[c])
  PROVE  Line(c)'
<1>1. \A f \in Frames : Good(c, f) => Good(c, f)'
  BY GoodKept
<1>2. \A f, h : Follows(f, h) => Follows(f, h)'
  BY FollowsKept
<1>3. /\ queue'[c] \in Seq(Frames) /\ Len(queue'[c]) = Len(queue[c]) - 1
      /\ Len(queue'[c]) <= QueueSize /\ Len(queue[c]) \in Nat /\ 1 \in 1..Len(queue[c])
      /\ \A i \in 1..Len(queue'[c]) : queue'[c][i] = queue[c][i + 1] /\ i + 1 \in 1..Len(queue[c])
      /\ sending'[c] = queue[c][1]
  BY LiveAssumption DEF Line
<1>4. ASSUME NEW i \in 1..Len(queue'[c]), NEW f, f = queue'[c][i]
      PROVE  /\ Good(c, f)'
             /\ \A k \in 1..(i - 1) : \A e : e = queue'[c][k] => Follows(e, f)'
             /\ \A e : e = sending'[c] => Follows(e, f)'
  <2>1. f = queue[c][i + 1] /\ i + 1 \in 1..Len(queue[c])
    BY <1>3, <1>4
  <2>2. Good(c, f) /\ f \in Frames
    BY <2>1 DEF Line, Good
  <2>3. ASSUME NEW k \in 0..(i - 1), NEW e, e = queue[c][k + 1]
        PROVE  Follows(e, f)'
    <3>1. k + 1 \in 1..((i + 1) - 1)
      BY <2>1
    <3>2. Follows(e, f)
      BY <2>1, <2>3, <3>1 DEF Line
    <3>3. QED
      BY <3>2, <1>2
  <2>4. ASSUME NEW k \in 1..(i - 1), NEW e, e = queue'[c][k]
        PROVE  Follows(e, f)'
    <3>1. k \in 0..(i - 1) /\ e = queue[c][k + 1]
      BY <1>3, <2>4
    <3>2. QED
      BY <2>3, <3>1
  <2>5. ASSUME NEW e, e = sending'[c]
        PROVE  Follows(e, f)'
    <3>1. 0 \in 0..(i - 1) /\ e = queue[c][0 + 1]
      BY <1>3, <2>5
    <3>2. QED
      BY <2>3, <3>1
  <2>6. QED
    BY <1>1, <2>2, <2>4, <2>5
<1>5. ASSUME NEW i \in 1..Len(queue'[c])
      PROVE  /\ Good(c, queue[c][i])' /\ Follows(sending[c], queue[c][i])'
             /\ \A k \in 1..(i - 1) : Follows(queue[c][k], queue[c][i])'
  <2>1. PICK f : f = queue'[c][i]
    OBVIOUS
  <2>2. Good(c, queue[c][i])'
    BY <1>4, <2>1 DEF Good
  <2>3. Follows(sending[c], queue[c][i])'
    BY <1>4, <2>1 DEF Follows
  <2>4. \A k \in 1..(i - 1) : Follows(queue[c][k], queue[c][i])'
    BY <1>4, <2>1 DEF Follows
  <2>5. QED
    BY <2>2, <2>3, <2>4
<1>6. Good(c, sending[c])'
  <2>1. PICK f : f = queue[c][1]
    OBVIOUS
  <2>2. Good(c, f) /\ f \in Frames
    BY <1>3, <2>1 DEF Line, Good
  <2>3. Good(c, f)'
    BY <1>1, <2>2
  <2>4. QED
    BY <1>3, <2>1, <2>3 DEF Good
<1>7. QED
  BY <1>3, <1>5, <1>6 DEF Line

-----------------------------------------------------------------------------
(* Steps of a connection *)

LEMMA OneConnection ==
  ASSUME Inv, NEW c \in Connections, UNCHANGED <<running, busVars>>, Shapes', Conn(c)',
         \A d \in Connections \ {c} :
           UNCHANGED <<queue[d], reply[d], sending[d], wanted[d], commands[d], got[d],
                       filter[d], phase[d]>>
  PROVE  Inv'
<1>1. BusStep
  BY QuietBus DEF busVars
<1>2. Bus'
  BY DEF Inv, Bus, busVars, Undisturbed
<1>3. ASSUME NEW d \in Connections \ {c} PROVE Conn(d)'
  BY <1>1, <1>3, ConnKept DEF Inv
<1>4. QED
  BY <1>2, <1>3 DEF Inv

LEMMA EmptyQueue == <<>> \in Seq(Frames) /\ Len(<<>>) = 0 /\ Len(<<>>) <= QueueSize
<1>1. QueueSize \in Nat
  BY LiveAssumption
<1>2. <<>> \in Seq(Frames) /\ Len(<<>>) = 0
  OBVIOUS
<1>3. QED
  BY <1>1, <1>2

LEMMA ConnectInv ==
  ASSUME Inv, NEW c \in Connections, Connect(c)
  PROVE  Inv'
<1> USE DEF Connect, Register, busVars
<1>1. BusStep
  BY QuietBus
<1>2. Shapes'
  BY DEF Inv, Shapes
<1>3. /\ queue'[c] = <<>> /\ filter'[c] = {} /\ wanted'[c] = <<>> /\ phase'[c] = "open"
      /\ UNCHANGED <<reply[c], sending[c], wanted[c], commands[c], got[c]>>
  BY DEF Inv, Shapes, Conn, Client
<1>4. Line(c)'
  <2>1. queue'[c] \in Seq(Frames) /\ Len(queue'[c]) = 0 /\ Len(queue'[c]) <= QueueSize
    BY <1>3, EmptyQueue
  <2>2. sending[c] # NoFrame => Good(c, sending[c])'
    <3> SUFFICES ASSUME sending[c] # NoFrame PROVE Good(c, sending[c])'
      OBVIOUS
    <3>1. PICK f \in Frames : f = sending[c] /\ Good(c, f)
      BY DEF Inv, Conn, Line, Good
    <3>2. Good(c, f)'
      BY <1>1, <1>3, <3>1, GoodKept
    <3>3. QED
      BY <1>3, <3>1, <3>2 DEF Good
  <2>3. QED
    BY <1>3, <2>1, <2>2 DEF Line
<1>5. Client(c)'
  <2>1. Current(c)' = filter'[c]
    BY <1>3 DEF Current
  <2>2. \A t \in Topics : Undisturbed(t)' => \A m \in Pending(t)' : got'[c].last[t] < m
    BY <1>1, <1>3 DEF Inv, Conn, Client, BusStep, Undisturbed
  <2>3. QED
    BY <1>3, <2>1, <2>2 DEF Inv, Conn, Client
<1>6. QED
  BY <1>2, <1>4, <1>5, OneConnection DEF Conn, Inv, Shapes

LEMMA LeaveInv ==
  ASSUME Inv, NEW c \in Connections, Leave(c)
  PROVE  Inv'
<1> USE DEF Leave, Unregister, busVars
<1>1. Shapes'
  BY DEF Inv, Shapes
<1>2. /\ queue'[c] = <<>> /\ filter'[c] = {} /\ wanted'[c] = <<>> /\ phase'[c] = "closed"
      /\ reply'[c] = NoFrame /\ sending'[c] = NoFrame /\ got'[c] = Nothing
      /\ UNCHANGED commands[c]
  BY DEF Inv, Shapes
<1>3. Line(c)'
  <2>1. queue'[c] \in Seq(Frames) /\ Len(queue'[c]) = 0 /\ Len(queue'[c]) <= QueueSize
    BY <1>2, EmptyQueue
  <2>2. QED
    BY <1>2, <2>1 DEF Line
<1>4. Client(c)'
  <2>1. Current(c)' = filter'[c]
    BY <1>2 DEF Current
  <2>2. got'[c] \in [acked : Nat, last : [Topics -> Nat]] /\ got'[c].acked = 0
        /\ \A t \in Topics : got'[c].last[t] = 0
    BY <1>2 DEF Nothing
  <2>3. \A t \in Topics : \A m \in Pending(t)' : got'[c].last[t] < m
    BY <2>2, LiveAssumption DEF Pending
  <2>4. QED
    BY <1>2, <2>1, <2>2, <2>3 DEF Inv, Conn, Client
<1>5. QED
  BY <1>1, <1>3, <1>4, OneConnection DEF Conn, Inv, Shapes

\* A subscription the client asks for makes none of the frames on their way worse.
LEMMA GoodWanted ==
  ASSUME NEW c \in Connections, BusStep, UNCHANGED got[c], wanted[c] \in Seq(SUBSET Symbols),
         NEW S \in SUBSET Symbols, wanted'[c] = Append(wanted[c], S), NEW f \in Frames
  PROVE  Good(c, f) => Good(c, f)'
<1> SUFFICES ASSUME Good(c, f) PROVE Good(c, f)'
  OBVIOUS
<1>1. /\ Len(wanted'[c]) = Len(wanted[c]) + 1 /\ Len(wanted[c]) \in Nat
      /\ \A i \in 1..Len(wanted[c]) : wanted'[c][i] = wanted[c][i]
  OBVIOUS
<1>2. f.version \in Nat
  BY LiveAssumption DEF Frames
<1>3. f.version <= Len(wanted'[c])
  BY <1>1, <1>2 DEF Good
<1>4. ASSUME f.kind = "data"
      PROVE  /\ f.version \in 1..Len(wanted'[c]) /\ f.version >= got'[c].acked
             /\ SymbolOf[f.message] \in wanted'[c][f.version]
             /\ TopicOf[f.message] \notin disturbed' => f.message > got'[c].last[TopicOf[f.message]]
             /\ Undisturbed(TopicOf[f.message])' =>
                  \A m \in Pending(TopicOf[f.message])' : f.message < m
  <2>1. TopicOf[f.message] \in Topics
    BY <1>4, DataFrame
  <2>2. Undisturbed(TopicOf[f.message])' => Undisturbed(TopicOf[f.message])
    BY <2>1 DEF BusStep, Undisturbed
  <2>3. f.version \in 1..Len(wanted[c]) /\ f.version \in 1..Len(wanted'[c])
    BY <1>1, <1>4 DEF Good
  <2>4. wanted'[c][f.version] = wanted[c][f.version]
    BY <1>1, <2>3
  <2>5. QED
    BY <1>4, <2>1, <2>2, <2>3, <2>4 DEF Good, BusStep
<1>5. QED
  BY <1>3, <1>4 DEF Good

\* A reply waits or goes to the end of the queue; either way what was there stays good.
LEMMA AnswerLine ==
  ASSUME NEW c \in Connections, Line(c), queue = [d \in Connections |-> queue[d]],
         BusStep, NEW f \in Frames, f.kind # "data", f.version <= Len(wanted'[c]),
         \A g \in Frames : Good(c, g) => Good(c, g)',
         Answer(c, f), UNCHANGED <<sending, got[c]>>
  PROVE  Line(c)'
<1>1. \A g, h : Follows(g, h) => Follows(g, h)'
  BY FollowsKept
<1>2. CASE Len(queue[c]) < QueueSize
  <2>1. queue'[c] = Append(queue[c], f)
    BY <1>2 DEF Answer
  <2>2. Good(c, f)' /\ \A g \in Frames : Follows(g, f)'
    BY DEF Good, Follows
  <2>3. queue[c] \in Seq(Frames) /\ 0 \in {0, 1}
        /\ \A i \in 1..Len(queue[c]) : i + 0 \in 1..Len(queue[c]) /\ queue[c][i] = queue[c][i + 0]
    BY DEF Line
  <2>4. sending'[c] = sending[c]
    OBVIOUS
  <2>5. QED
    BY <1>2, <2>1, <2>2, <2>3, <2>4, LinePut
<1>3. CASE ~(Len(queue[c]) < QueueSize)
  <2>1. queue' = queue
    BY <1>3 DEF Answer
  <2>2. QED
    BY <1>1, <2>1 DEF Line, Good
<1>4. QED
  BY <1>2, <1>3

LEMMA ControlFrame ==
  ASSUME NEW v \in 0..MaxCommands, NEW k \in {"subscribed", "error"}
  PROVE  /\ Control(k, v) \in Frames /\ Control(k, v) # NoFrame
         /\ Control(k, v).kind = k /\ Control(k, v).version = v
<1>1. Control(k, v) \in Frames /\ Control(k, v).kind = k /\ Control(k, v).version = v
  BY DEF Control, Frames
<1>2. Control(k, v) \in [kind : {"data", "subscribed", "error"}, message : Nat, version : Nat]
  BY LiveAssumption DEF Control
<1>3. QED
  BY <1>1, <1>2, LiveAssumption

LEMMA DataIsFrame ==
  ASSUME NEW v \in 0..MaxCommands, NEW m \in Messages
  PROVE  Data(m, v) \in Frames /\ Data(m, v).kind = "data"
         /\ Data(m, v).message = m /\ Data(m, v).version = v
BY DEF Data, Frames

LEMMA SubscribeInv ==
  ASSUME Inv, NEW c \in Connections, NEW S \in SUBSET Symbols, Subscribe(c, S)
  PROVE  Inv'
<1> USE DEF busVars
<1>1. BusStep
  BY QuietBus DEF Subscribe
<1>2. Shapes'
  BY DEF Inv, Shapes, Subscribe, MayCommand, Answer
<1>3. /\ wanted[c] \in Seq(SUBSET Symbols) /\ wanted'[c] = Append(wanted[c], S)
      /\ filter'[c] = S /\ commands'[c] = commands[c] + 1 /\ commands[c] < MaxCommands
      /\ phase'[c] = "open" /\ UNCHANGED <<sending, got[c]>> /\ commands[c] \in 0..MaxCommands
      /\ Len(wanted[c]) <= commands[c]
  BY DEF Inv, Shapes, Conn, Client, Subscribe, MayCommand
<1>4. /\ Len(wanted'[c]) = Len(wanted[c]) + 1 /\ Len(wanted[c]) \in Nat
      /\ wanted'[c] \in Seq(SUBSET Symbols) /\ wanted'[c][Len(wanted'[c])] = S
      /\ Len(wanted[c]) + 1 \in 0..MaxCommands /\ wanted'[c] # <<>>
      /\ commands'[c] \in 0..MaxCommands /\ Len(wanted'[c]) <= commands'[c]
  <2>1. MaxCommands \in Nat
    BY LiveAssumption
  <2>2. /\ Len(wanted'[c]) = Len(wanted[c]) + 1 /\ Len(wanted[c]) \in Nat
        /\ wanted'[c] \in Seq(SUBSET Symbols) /\ wanted'[c][Len(wanted'[c])] = S
    BY <1>3
  <2>3. wanted'[c] # <<>>
    BY <2>2
  <2>4. Len(wanted[c]) + 1 \in 0..MaxCommands /\ commands'[c] \in 0..MaxCommands
        /\ Len(wanted[c]) + 1 <= commands'[c]
    <3> HIDE DEF busVars
    <3>1. ASSUME NEW l \in Nat, NEW n \in 0..MaxCommands, l <= n, n < MaxCommands
          PROVE  l + 1 \in 0..MaxCommands /\ n + 1 \in 0..MaxCommands /\ l + 1 <= n + 1
      BY <2>1, <3>1
    <3>2. QED
      BY <1>3, <2>2, <3>1
  <2>5. QED
    BY <2>2, <2>3, <2>4
<1>5. PICK f : f = Control(IF S = {} THEN "error" ELSE "subscribed", Len(wanted[c]) + 1)
  OBVIOUS
<1>6. f \in Frames /\ f.kind # "data" /\ f.version = Len(wanted[c]) + 1
  BY <1>4, <1>5, ControlFrame
<1>7. Answer(c, f)
  BY <1>5 DEF Subscribe
<1>8. Line(c)'
  <2>1. \A g \in Frames : Good(c, g) => Good(c, g)'
    BY <1>1, <1>3, GoodWanted
  <2>2. f.version <= Len(wanted'[c])
    BY <1>4, <1>6
  <2>3. queue = [d \in Connections |-> queue[d]] /\ Line(c)
    BY DEF Inv, Shapes, Conn
  <2>4. QED
    BY <1>1, <1>3, <1>6, <1>7, <2>1, <2>2, <2>3, AnswerLine
<1>9. Client(c)'
  <2>1. filter'[c] = Current(c)'
    BY <1>3, <1>4 DEF Current
  <2>2. reply'[c] \in {reply[c], f}
    BY <1>7 DEF Answer, Inv, Shapes
  <2>3. reply'[c] # NoFrame =>
          reply'[c] \in Frames /\ reply'[c].kind # "data" /\ reply'[c].version <= Len(wanted'[c])
    <3>1. CASE reply'[c] = f
      BY <1>4, <1>6, <3>1
    <3>2. CASE reply'[c] = reply[c]
      <4>1. reply[c] # NoFrame => reply[c] \in Frames /\ reply[c].kind # "data"
              /\ reply[c].version <= Len(wanted[c])
        BY DEF Inv, Conn, Client
      <4>2. reply[c] \in Frames => reply[c].version \in Nat
        BY LiveAssumption DEF Frames
      <4>3. QED
        BY <1>4, <3>2, <4>1, <4>2
    <3>3. QED
      BY <2>2, <3>1, <3>2
  <2>4. \A t \in Topics : Undisturbed(t)' => \A m \in Pending(t)' : got'[c].last[t] < m
    BY <1>1, <1>3 DEF Inv, Conn, Client, BusStep, Undisturbed
  <2>5. got'[c] \in [acked : Nat, last : [Topics -> Nat]] /\ got'[c].acked <= Len(wanted'[c])
    BY <1>3, <1>4 DEF Inv, Conn, Client
  <2>6. QED
    BY <1>3, <1>4, <2>1, <2>3, <2>4, <2>5 DEF Client
<1>10. ASSUME NEW d \in Connections \ {c}
       PROVE  UNCHANGED <<queue[d], reply[d], sending[d], wanted[d], commands[d], got[d],
                          filter[d], phase[d]>>
  BY DEF Inv, Shapes, Subscribe, MayCommand, Answer
<1>11. QED
  BY <1>2, <1>8, <1>9, <1>10, OneConnection DEF Conn, Subscribe

\* Of the steps that leave what the client asked for and what it has alone.
LEMMA ClientAfter ==
  ASSUME NEW c \in Connections, Client(c), BusStep, NEW f \in Frames \cup {NoFrame},
         f # NoFrame => f.kind # "data" /\ f.version <= Len(wanted[c]),
         reply'[c] \in {reply[c], f}, UNCHANGED <<wanted[c], got[c], filter[c], phase[c]>>,
         commands'[c] \in 0..MaxCommands, commands[c] <= commands'[c]
  PROVE  Client(c)'
<1>1. \A t \in Topics : Undisturbed(t)' => \A m \in Pending(t)' : got'[c].last[t] < m
  BY DEF Client, BusStep, Undisturbed
<1>2. filter'[c] = Current(c)'
  BY DEF Client, Current
<1>3. Len(wanted'[c]) <= commands'[c]
  <2>1. Len(wanted[c]) \in Nat /\ commands[c] \in Nat /\ commands'[c] \in Nat
    BY LiveAssumption DEF Client
  <2>2. QED
    BY <2>1 DEF Client
<1>4. reply'[c] # NoFrame =>
        reply'[c] \in Frames /\ reply'[c].kind # "data" /\ reply'[c].version <= Len(wanted'[c])
  BY DEF Client
<1>5. QED
  BY <1>1, <1>2, <1>3, <1>4 DEF Client

LEMMA RefuseInv ==
  ASSUME Inv, NEW c \in Connections, Refuse(c)
  PROVE  Inv'
<1> USE DEF busVars
<1>1. BusStep
  BY QuietBus DEF Refuse
<1>2. Shapes'
  BY DEF Inv, Shapes, Refuse, MayCommand, Answer
<1>3. /\ commands'[c] = commands[c] + 1 /\ commands[c] < MaxCommands
      /\ UNCHANGED <<sending, wanted[c], got[c], filter[c], phase[c]>>
      /\ commands[c] \in 0..MaxCommands /\ Len(wanted[c]) <= commands[c]
      /\ wanted[c] \in Seq(SUBSET Symbols) /\ Client(c) /\ Line(c)
  BY DEF Inv, Shapes, Conn, Client, Refuse, MayCommand
<1>4. Len(wanted[c]) \in 0..MaxCommands /\ commands'[c] \in 0..MaxCommands
      /\ commands[c] <= commands'[c] /\ Len(wanted[c]) <= Len(wanted'[c])
  <2>1. MaxCommands \in Nat /\ Len(wanted[c]) \in Nat
    BY <1>3, LiveAssumption
  <2>2. QED
    BY <1>3, <2>1
<1>5. PICK f : f = Control("error", Len(wanted[c]))
  OBVIOUS
<1>6. f \in Frames /\ f.kind # "data" /\ f.version = Len(wanted[c])
  BY <1>4, <1>5, ControlFrame
<1>7. Answer(c, f)
  BY <1>5 DEF Refuse
<1>8. Line(c)'
  <2>1. \A g \in Frames : Good(c, g) => Good(c, g)'
    BY <1>1, <1>3, GoodKept
  <2>2. queue = [d \in Connections |-> queue[d]] /\ f.version <= Len(wanted'[c])
    BY <1>4, <1>6 DEF Inv, Shapes
  <2>3. QED
    BY <1>1, <1>3, <1>6, <1>7, <2>1, <2>2, AnswerLine
<1>9. Client(c)'
  <2>1. reply'[c] \in {reply[c], f}
    BY <1>7 DEF Answer, Inv, Shapes
  <2>2. f.version <= Len(wanted[c])
    BY <1>4, <1>6
  <2>3. QED
    BY <1>1, <1>3, <1>4, <1>6, <2>1, <2>2, ClientAfter
<1>10. ASSUME NEW d \in Connections \ {c}
       PROVE  UNCHANGED <<queue[d], reply[d], sending[d], wanted[d], commands[d], got[d],
                          filter[d], phase[d]>>
  BY DEF Inv, Shapes, Refuse, MayCommand, Answer
<1>11. QED
  BY <1>2, <1>8, <1>9, <1>10, OneConnection DEF Conn, Refuse

LEMMA PutReplyInv ==
  ASSUME Inv, NEW c \in Connections, PutReply(c)
  PROVE  Inv'
<1> USE DEF busVars, clientVars
<1>1. BusStep
  BY QuietBus DEF PutReply
<1>2. Shapes'
  BY DEF Inv, Shapes, PutReply
<1>3. /\ UNCHANGED <<sending, wanted[c], got[c], filter[c], phase[c], commands[c]>>
      /\ Client(c) /\ Line(c) /\ reply'[c] = NoFrame
  BY DEF Inv, Shapes, Conn, PutReply
<1>4. PICK f \in Frames : f = reply[c] /\ f.kind # "data" /\ f.version <= Len(wanted[c])
  BY <1>3 DEF PutReply, Client
<1>5. Line(c)'
  <2>1. queue'[c] = Append(queue[c], f) /\ Len(queue[c]) < QueueSize
    BY <1>4 DEF PutReply, Inv, Shapes
  <2>2. \A g \in Frames : Good(c, g) => Good(c, g)'
    BY <1>1, <1>3, GoodKept
  <2>3. Good(c, f)' /\ \A g \in Frames : Follows(g, f)'
    BY <1>3, <1>4 DEF Good, Follows
  <2>4. queue[c] \in Seq(Frames) /\ 0 \in {0, 1}
        /\ \A i \in 1..Len(queue[c]) : i + 0 \in 1..Len(queue[c]) /\ queue[c][i] = queue[c][i + 0]
    BY <1>3 DEF Line
  <2>5. sending'[c] = sending[c]
    BY <1>3
  <2>6. QED
    BY <1>1, <1>3, <2>1, <2>2, <2>3, <2>4, <2>5, LinePut
<1>6. Client(c)'
  <2>1. reply'[c] \in {reply[c], NoFrame} /\ commands'[c] \in 0..MaxCommands
        /\ commands[c] <= commands'[c]
    <3>1. commands[c] \in 0..MaxCommands
      BY <1>3 DEF Client
    <3>2. QED
      BY <1>3, <3>1, LiveAssumption
  <2>2. QED
    BY <1>1, <1>3, <2>1, ClientAfter
<1>7. ASSUME NEW d \in Connections \ {c}
      PROVE  UNCHANGED <<queue[d], reply[d], sending[d], wanted[d], commands[d], got[d],
                         filter[d], phase[d]>>
  BY DEF Inv, Shapes, PutReply
<1>8. QED
  BY <1>2, <1>5, <1>6, <1>7, OneConnection DEF Conn, PutReply

\* Steps that neither the queue nor what the client asked for and has takes part in.
LEMMA QuietInv ==
  ASSUME Inv, NEW c \in Connections, Disconnect(c) \/ CommandTaskEnds(c)
  PROVE  Inv'
<1> USE DEF busVars, clientVars, taskVars
<1>1. BusStep
  BY QuietBus DEF Disconnect, CommandTaskEnds
<1>2. CASE CommandTaskEnds(c)
  <2>1. Shapes'
    BY <1>2 DEF Inv, Shapes, CommandTaskEnds
  <2>2. Conn(c)'
    BY <1>1, <1>2, ConnKept DEF Inv, CommandTaskEnds
  <2>3. QED
    BY <1>2, <2>1, <2>2, OneConnection DEF CommandTaskEnds
<1>3. CASE Disconnect(c)
  <2>1. Shapes'
    BY <1>3 DEF Inv, Shapes, Disconnect
  <2>2. /\ got'[c] = Nothing /\ UNCHANGED <<queue, reply, sending, wanted, filter, phase>>
        /\ Line(c) /\ Client(c) /\ commands'[c] = MaxCommands
    BY <1>3 DEF Inv, Shapes, Conn, Disconnect
  <2>3. Nothing \in [acked : Nat, last : [Topics -> Nat]] /\ Nothing.acked = 0
        /\ \A t \in Topics : Nothing.last[t] = 0
    BY DEF Nothing
  <2>4. \A f \in Frames : Good(c, f) => Good(c, f)'
    <3> SUFFICES ASSUME NEW f \in Frames, Good(c, f) PROVE Good(c, f)'
      OBVIOUS
    <3>1. CASE f.kind = "data"
      <4>1. TopicOf[f.message] \in Topics /\ f.message \in Nat /\ f.message > 0 /\ f.version \in Nat
        BY <3>1, DataFrame
      <4>2. Undisturbed(TopicOf[f.message])' => Undisturbed(TopicOf[f.message])
        BY <1>1, <4>1 DEF BusStep, Undisturbed
      <4>3. QED
        BY <1>1, <2>2, <2>3, <3>1, <4>1, <4>2 DEF Good, BusStep
    <3>2. CASE f.kind # "data"
      BY <2>2, <3>2 DEF Good
    <3>3. QED
      BY <3>1, <3>2
  <2>5. Line(c)'
    <3>1. \A f, h : Follows(f, h) => Follows(f, h)'
      BY <1>1, FollowsKept
    <3>2. QED
      BY <2>2, <2>4, <3>1 DEF Line, Good
  <2>6. Client(c)'
    <3>1. \A t \in Topics : \A m \in Pending(t)' : got'[c].last[t] < m
      BY <2>2, <2>3, LiveAssumption DEF Pending
    <3>2. filter'[c] = Current(c)'
      BY <2>2 DEF Client, Current
    <3>3. Len(wanted[c]) \in Nat /\ commands[c] \in 0..MaxCommands /\ MaxCommands \in Nat
      BY <2>2, LiveAssumption DEF Client
    <3>4. commands'[c] \in 0..MaxCommands /\ Len(wanted'[c]) <= commands'[c]
      BY <2>2, <3>3 DEF Client
    <3>5. got'[c].acked <= Len(wanted'[c])
      BY <2>2, <2>3, <3>3
    <3>6. QED
      BY <2>2, <2>3, <3>1, <3>2, <3>4, <3>5 DEF Client
  <2>7. ASSUME NEW d \in Connections \ {c}
        PROVE  UNCHANGED <<queue[d], reply[d], sending[d], wanted[d], commands[d], got[d],
                           filter[d], phase[d]>>
    BY <1>3 DEF Inv, Shapes, Disconnect
  <2>8. QED
    BY <1>3, <2>1, <2>5, <2>6, <2>7, OneConnection DEF Conn, Disconnect
<1>4. QED
  BY <1>2, <1>3

LEMMA TakeInv ==
  ASSUME Inv, NEW c \in Connections, Take(c)
  PROVE  Inv'
<1> USE DEF busVars, clientVars
<1>1. BusStep
  BY QuietBus DEF Take
<1>2. Shapes'
  BY DEF Inv, Shapes, Take
<1>3. /\ UNCHANGED <<reply, wanted, got, filter, phase, commands>>
      /\ Client(c) /\ Line(c) /\ queue[c] # <<>>
      /\ sending'[c] = Head(queue[c]) /\ queue'[c] = Tail(queue[c])
  BY DEF Inv, Shapes, Conn, Take
<1>4. Line(c)'
  BY <1>1, <1>3, LineTake
<1>5. Client(c)'
  BY <1>1, <1>3, ClientKept
<1>6. ASSUME NEW d \in Connections \ {c}
      PROVE  UNCHANGED <<queue[d], reply[d], sending[d], wanted[d], commands[d], got[d],
                         filter[d], phase[d]>>
  BY DEF Inv, Shapes, Take
<1>7. QED
  BY <1>2, <1>4, <1>5, <1>6, OneConnection DEF Conn, Take

LEMMA SendInv ==
  ASSUME Inv, NEW c \in Connections, Send(c)
  PROVE  Inv'
<1> USE DEF busVars
<1>1. BusStep
  BY QuietBus DEF Send
<1>2. Shapes'
  BY DEF Inv, Shapes, Send
<1>3. PICK f \in Frames : f = sending[c] /\ Good(c, f)
  BY DEF Inv, Conn, Line, Good, Send
<1>4. /\ UNCHANGED <<queue, reply, wanted, filter, phase, commands>>
      /\ Client(c) /\ Line(c) /\ sending'[c] = NoFrame /\ got'[c] = Received(c, f)
      /\ got[c] \in [acked : Nat, last : [Topics -> Nat]] /\ got[c].acked <= Len(wanted[c])
      /\ \A i \in 1..Len(queue[c]) : Follows(f, queue[c][i])
  BY <1>3 DEF Inv, Shapes, Conn, Send, Client, Line
<1>5. f.version \in Nat
  BY LiveAssumption DEF Frames
<1>6. /\ got'[c] \in [acked : Nat, last : [Topics -> Nat]]
      /\ got'[c].acked = IF f.kind = "subscribed" THEN f.version ELSE got[c].acked
      /\ \A t \in Topics : got'[c].last[t] =
           IF f.kind = "data" /\ t = TopicOf[f.message] THEN f.message ELSE got[c].last[t]
  <2>1. CASE f.kind = "data"
    <3>1. f.message \in Nat /\ TopicOf[f.message] \in Topics
      BY <2>1, DataFrame
    <3>2. got'[c] = [got[c] EXCEPT !.last[TopicOf[f.message]] = f.message]
      BY <1>4, <2>1 DEF Received
    <3>3. QED
      BY <1>4, <2>1, <3>1, <3>2
  <2>2. CASE f.kind = "subscribed"
    <3>1. got'[c] = [got[c] EXCEPT !.acked = f.version]
      BY <1>4, <2>2 DEF Received
    <3>2. QED
      BY <1>4, <1>5, <2>2, <3>1
  <2>3. CASE f.kind # "data" /\ f.kind # "subscribed"
    BY <1>4, <2>3 DEF Received
  <2>4. QED
    BY <2>1, <2>2, <2>3
<1>7. ASSUME NEW g \in Frames, Good(c, g), Follows(f, g)
      PROVE  Good(c, g)'
  <2>1. CASE g.kind = "data"
    <3>1. TopicOf[g.message] \in Topics /\ g.message \in Nat /\ g.version \in Nat
      BY <2>1, DataFrame
    <3>2. Undisturbed(TopicOf[g.message])' => Undisturbed(TopicOf[g.message])
      BY <1>1, <3>1 DEF BusStep, Undisturbed
    <3>3. g.version >= got'[c].acked
      BY <1>4, <1>5, <1>6, <1>7, <2>1, <3>1 DEF Good, Follows
    <3>4. TopicOf[g.message] \notin disturbed' => g.message > got'[c].last[TopicOf[g.message]]
      <4>1. CASE f.kind = "data" /\ TopicOf[f.message] = TopicOf[g.message]
        <5>1. f.message \in Nat
          BY <4>1, DataFrame
        <5>2. TopicOf[g.message] \notin disturbed => f.message < g.message
          BY <1>7, <2>1, <4>1 DEF Follows
        <5>3. QED
          BY <1>1, <1>6, <3>1, <4>1, <5>1, <5>2 DEF BusStep
      <4>2. CASE ~(f.kind = "data" /\ TopicOf[f.message] = TopicOf[g.message])
        BY <1>1, <1>6, <1>7, <2>1, <3>1, <4>2 DEF Good, BusStep
      <4>3. QED
        BY <4>1, <4>2
    <3>5. QED
      BY <1>1, <1>4, <1>7, <2>1, <3>1, <3>2, <3>3, <3>4 DEF Good, BusStep
  <2>2. CASE g.kind # "data"
    BY <1>4, <1>7, <2>2 DEF Good
  <2>3. QED
    BY <2>1, <2>2
<1>8. Line(c)'
  <2>1. \A g, h : Follows(g, h) => Follows(g, h)'
    BY <1>1, FollowsKept
  <2>2. QED
    BY <1>4, <1>7, <2>1 DEF Line, Good
<1>9. Client(c)'
  <2>1. ASSUME NEW t \in Topics, Undisturbed(t)', NEW m \in Pending(t)'
        PROVE  got'[c].last[t] < m
    <3>1. Undisturbed(t) /\ m \in Pending(t)
      BY <1>1, <2>1 DEF BusStep, Undisturbed
    <3>2. f.kind = "data" /\ t = TopicOf[f.message] => f.message < m
      BY <1>3, <3>1 DEF Good
    <3>3. QED
      BY <1>4, <1>6, <3>1, <3>2 DEF Client
  <2>2. filter'[c] = Current(c)'
    BY <1>4 DEF Client, Current
  <2>3. got'[c].acked <= Len(wanted'[c])
    BY <1>3, <1>4, <1>6 DEF Good
  <2>4. QED
    BY <1>4, <1>6, <2>1, <2>2, <2>3 DEF Client
<1>10. ASSUME NEW d \in Connections \ {c}
       PROVE  UNCHANGED <<queue[d], reply[d], sending[d], wanted[d], commands[d], got[d],
                          filter[d], phase[d]>>
  BY DEF Inv, Shapes, Send
<1>11. QED
  BY <1>2, <1>8, <1>9, <1>10, OneConnection DEF Conn, Send

-----------------------------------------------------------------------------
(* Steps of the pumps and the bus *)

LEMMA NoConnection ==
  ASSUME Inv, BusStep, Bus', running' \in BOOLEAN, registered' \subseteq Connections,
         UNCHANGED <<phase, filter, queue, taskVars, clientVars>>
  PROVE  Inv'
<1> USE DEF taskVars, clientVars
<1>1. Shapes'
  BY DEF Inv, Shapes
<1>2. \A c \in Connections : Conn(c)'
  BY ConnKept DEF Inv
<1>3. QED
  BY <1>1, <1>2 DEF Inv

LEMMA Locking ==
  ASSUME Inv, NEW t \in Topics, NEW S \in Available(t), Lock(S)
  PROVE  /\ state' \in [Messages -> {"ready", "locked", "gone"}]
         /\ S \subseteq Messages
         /\ \A m \in S : TopicOf[m] = t /\ state[m] = "ready" /\ state'[m] = "locked"
         /\ \A m \in Messages \ S : state'[m] = state[m]
         /\ \A m \in S, k \in Messages : TopicOf[k] = t /\ state'[k] = "ready" => m < k
<1>1. /\ S \subseteq Messages /\ \A m \in S : TopicOf[m] = t /\ state[m] = "ready"
      /\ \A m \in S, k \in Messages \ S : TopicOf[k] = t /\ state[k] = "ready" => m < k
  BY DEF Available
<1>2. /\ state' \in [Messages -> {"ready", "locked", "gone"}]
      /\ \A m \in S : state'[m] = "locked" /\ \A k \in Messages \ S : state'[k] = state[k]
  BY <1>1 DEF Lock, Inv, Bus
<1>3. \A m \in Messages \ S : state'[m] = state[m]
  BY DEF Lock
<1>4. \A m \in S, k \in Messages : TopicOf[k] = t /\ state'[k] = "ready" => m < k
  BY <1>1, <1>2
<1>5. QED
  BY <1>1, <1>2, <1>3, <1>4

LEMMA PumpReceiveInv ==
  ASSUME Inv, NEW t \in Topics, PumpReceive(t) \/ PumpReceiveRaises(t)
  PROVE  Inv'
<1>1. PICK S \in Available(t) : Lock(S)
        /\ (PumpReceive(t) => batch' = [batch EXCEPT ![t] = S] /\ disturbed' = disturbed)
        /\ (PumpReceiveRaises(t) => batch' = batch /\ disturbed' = disturbed \cup {t})
  BY DEF PumpReceive, PumpReceiveRaises
<1>2. /\ state' \in [Messages -> {"ready", "locked", "gone"}]
      /\ S \subseteq Messages
      /\ \A m \in S : TopicOf[m] = t /\ state[m] = "ready" /\ state'[m] = "locked"
      /\ \A m \in Messages \ S : state'[m] = state[m]
      /\ \A m \in S, k \in Messages : TopicOf[k] = t /\ state'[k] = "ready" => m < k
  BY <1>1, Locking
<1>3. /\ batch[t] = {} /\ running = TRUE /\ running' = running /\ registered' = registered
      /\ UNCHANGED <<phase, filter, queue, taskVars, clientVars>>
  BY DEF PumpReceive, PumpReceiveRaises, Inv, Shapes
<1>4. BusStep
  BY <1>1, <1>2, <1>3 DEF BusStep, Undisturbed, Pending, PumpReceive, PumpReceiveRaises
<1>5. batch' \in [Topics -> SUBSET Messages]
      /\ \A u \in Topics : batch'[u] = IF u = t /\ PumpReceive(t) THEN S ELSE batch[u]
  BY <1>1, <1>2, <1>3 DEF Inv, Bus
<1>6. ASSUME NEW u \in Topics, NEW m \in batch'[u]
      PROVE  TopicOf[m] = u /\ state'[m] = "locked"
  BY <1>2, <1>5 DEF Inv, Bus
<1>7. ASSUME NEW u \in Topics, Undisturbed(u)'
      PROVE  /\ \A m \in Messages : TopicOf[m] = u /\ state'[m] = "locked" => m \in batch'[u]
             /\ \A m \in batch'[u], k \in Messages : TopicOf[k] = u /\ state'[k] = "ready" => m < k
  <2>1. Undisturbed(u)
    BY <1>4, <1>7 DEF BusStep, Undisturbed
  <2>2. CASE u = t
    <3>1. PumpReceive(t)
      BY <1>1, <1>7, <2>2 DEF Undisturbed
    <3>2. batch'[u] = S
      BY <1>5, <2>2, <3>1
    <3>3. \A m \in Messages : TopicOf[m] = u => state[m] # "locked"
      BY <1>3, <2>1, <2>2 DEF Inv, Bus
    <3>4. QED
      BY <1>2, <2>2, <3>2, <3>3
  <2>3. CASE u # t
    <3>1. batch'[u] = batch[u]
      BY <1>5, <2>3
    <3>2. \A m \in Messages : TopicOf[m] = u => state'[m] = state[m]
      BY <1>2, <2>3
    <3>3. batch[u] \subseteq Messages
      BY DEF Inv, Bus
    <3>4. QED
      BY <2>1, <3>1, <3>2, <3>3 DEF Inv, Bus
  <2>4. QED
    BY <2>2, <2>3
<1>8. Bus'
  BY <1>2, <1>5, <1>6, <1>7 DEF Bus
<1>9. QED
  BY <1>3, <1>4, <1>8, NoConnection DEF Inv, Shapes

LEMMA PeekLockExpiresInv ==
  ASSUME Inv, NEW m \in Messages, PeekLockExpires(m)
  PROVE  Inv'
<1>1. /\ state[m] = "locked" /\ m \notin batch[TopicOf[m]]
      /\ state' \in [Messages -> {"ready", "locked", "gone"}]
      /\ \A k \in Messages : k # m => state'[k] = state[k]
      /\ UNCHANGED <<running, registered, batch, disturbed>>
      /\ UNCHANGED <<phase, filter, queue, taskVars, clientVars>>
  BY DEF PeekLockExpires, Inv, Bus
<1>2. TopicOf[m] \in Topics /\ ~Undisturbed(TopicOf[m])
  BY <1>1, LiveAssumption DEF Inv, Bus
<1>3. BusStep
  BY <1>1, <1>2 DEF BusStep, Undisturbed, Pending
<1>4. ASSUME NEW u \in Topics, NEW k \in batch'[u]
      PROVE  TopicOf[k] = u /\ state'[k] = "locked" /\ k \in Messages
  BY <1>1 DEF Inv, Bus
<1>5. ASSUME NEW u \in Topics, Undisturbed(u)'
      PROVE  /\ \A k \in Messages : TopicOf[k] = u /\ state'[k] = "locked" => k \in batch'[u]
             /\ \A k \in batch'[u], l \in Messages : TopicOf[l] = u /\ state'[l] = "ready" => k < l
  <2>1. Undisturbed(u) /\ u # TopicOf[m]
    BY <1>1, <1>2, <1>5 DEF Undisturbed
  <2>2. \A k \in Messages : TopicOf[k] = u => state'[k] = state[k]
    BY <1>1, <2>1
  <2>3. QED
    BY <1>1, <2>1, <2>2 DEF Inv, Bus
<1>6. Bus'
  BY <1>1, <1>4, <1>5 DEF Inv, Bus
<1>7. QED
  BY <1>1, <1>3, <1>6, NoConnection DEF Inv, Shapes

LEMMA CloseInv ==
  ASSUME Inv, Close
  PROVE  Inv'
<1>1. BusStep
  BY DEF Close, BusStep, Undisturbed
<1>2. Bus'
  BY DEF Close, Inv, Bus, Undisturbed
<1>3. QED
  BY <1>1, <1>2, NoConnection DEF Close

\* What the pump does with the message it fanned out.
LEMMA HandleBus ==
  ASSUME Inv, NEW t \in Topics, NEW m \in batch[t], \A k \in batch[t] : m <= k,
         running, running' = running,
         \/ /\ state' = [state EXCEPT ![m] = "gone"]
            /\ batch' = [batch EXCEPT ![t] = @ \ {m}]
            /\ UNCHANGED disturbed
         \/ /\ \E s \in {"locked", "gone"} : state' = [state EXCEPT ![m] = s]
            /\ batch' = [batch EXCEPT ![t] = {}]
            /\ disturbed' = disturbed \cup {t}
  PROVE  /\ Bus' /\ BusStep /\ TopicOf[m] = t /\ m \in Messages
         /\ Undisturbed(t) => m \in Pending(t)
         /\ Undisturbed(t)' => \A k \in Pending(t)' : m < k
<1>1. /\ m \in Messages /\ TopicOf[m] = t /\ state[m] = "locked" /\ batch[t] \subseteq Messages
      /\ \A u \in Topics : batch[u] \subseteq Messages
  BY DEF Inv, Bus
<1>2. /\ state' \in [Messages -> {"ready", "locked", "gone"}]
      /\ state'[m] \in {"locked", "gone"}
      /\ \A k \in Messages \ {m} : state'[k] = state[k]
  BY <1>1 DEF Inv, Bus
<1>3. /\ batch' \in [Topics -> SUBSET Messages]
      /\ batch'[t] \subseteq batch[t] \ {m}
      /\ \A u \in Topics \ {t} : batch'[u] = batch[u]
      /\ disturbed \subseteq disturbed'
  BY <1>1 DEF Inv, Bus
<1>4. BusStep
  BY <1>1, <1>2, <1>3 DEF BusStep, Undisturbed, Pending
<1>5. ASSUME NEW u \in Topics, NEW k \in batch'[u]
      PROVE  TopicOf[k] = u /\ state'[k] = "locked" /\ k \in Messages
  <2>1. k \in batch[u] /\ k # m
    BY <1>1, <1>3 DEF Inv, Bus
  <2>2. QED
    BY <1>1, <1>2, <2>1 DEF Inv, Bus
<1>6. ASSUME Undisturbed(t)'
      PROVE  Undisturbed(t) /\ state'[m] = "gone" /\ batch'[t] = batch[t] \ {m}
  BY <1>1, <1>3, <1>6 DEF Undisturbed, Inv, Bus
<1>7. ASSUME NEW u \in Topics, Undisturbed(u)'
      PROVE  /\ \A k \in Messages : TopicOf[k] = u /\ state'[k] = "locked" => k \in batch'[u]
             /\ \A k \in batch'[u], l \in Messages : TopicOf[l] = u /\ state'[l] = "ready" => k < l
  <2>1. Undisturbed(u)
    BY <1>4, <1>7 DEF BusStep, Undisturbed
  <2>2. CASE u = t
    <3>1. state'[m] = "gone" /\ batch'[u] = batch[u] \ {m}
      BY <1>6, <1>7, <2>2
    <3>2. QED
      BY <1>1, <1>2, <2>1, <2>2, <3>1 DEF Inv, Bus
  <2>3. CASE u # t
    <3>1. batch'[u] = batch[u] /\ \A k \in Messages : TopicOf[k] = u => state'[k] = state[k]
      BY <1>1, <1>2, <1>3, <2>3
    <3>2. QED
      BY <1>1, <2>1, <3>1 DEF Inv, Bus
  <2>4. QED
    BY <2>2, <2>3
<1>8. Bus'
  BY <1>2, <1>3, <1>5, <1>7 DEF Bus
<1>9. ASSUME Undisturbed(t)', NEW k \in Pending(t)'
      PROVE  m < k
  <2>1. k \in Messages /\ k # m /\ TopicOf[k] = t /\ state[k] \in {"ready", "locked"}
    BY <1>2, <1>6, <1>9 DEF Pending
  <2>2. CASE state[k] = "ready"
    BY <1>6, <1>9, <2>1, <2>2 DEF Inv, Bus
  <2>3. CASE state[k] = "locked"
    <3>1. m <= k
      BY <1>6, <1>9, <2>1, <2>3 DEF Inv, Bus
    <3>2. m \in Nat /\ k \in Nat
      BY <1>1, <2>1, LiveAssumption
    <3>3. QED
      BY <2>1, <3>1, <3>2
  <2>4. QED
    BY <2>1, <2>2, <2>3
<1>10. QED
  BY <1>1, <1>4, <1>8, <1>9 DEF Pending

\* The new frame goes in behind the others, if need be at the cost of the oldest.
LEMMA PutLine ==
  ASSUME NEW c \in Connections, Line(c), BusStep, NEW g \in Frames, Good(c, g)',
         \A f \in Frames : Good(c, f) => Follows(f, g)',
         queue'[c] = Put(queue[c], g), UNCHANGED <<sending[c], wanted[c], got[c]>>
  PROVE  Line(c)'
<1>1. \A f \in Frames : Good(c, f) => Good(c, f)'
  BY GoodKept
<1>2. queue[c] \in Seq(Frames) /\ Len(queue[c]) <= QueueSize /\ sending'[c] = sending[c]
  BY DEF Line
<1>3. QueueSize \in Nat \ {0}
  BY LiveAssumption
<1>4. CASE Len(queue[c]) < QueueSize
  <2>1. queue'[c] = Append(queue[c], g)
    BY <1>4 DEF Put
  <2>2. 0 \in {0, 1} /\ \A i \in 1..Len(queue[c]) :
          i + 0 \in 1..Len(queue[c]) /\ queue[c][i] = queue[c][i + 0]
    BY <1>2
  <2>3. QED
    BY <1>1, <1>2, <1>4, <2>1, <2>2, LinePut
<1>5. CASE ~(Len(queue[c]) < QueueSize)
  <2>1. Len(queue[c]) = QueueSize /\ queue[c] # <<>>
    BY <1>2, <1>3, <1>5
  <2>2. queue'[c] = Append(Tail(queue[c]), g)
    BY <1>5 DEF Put
  <2>3. /\ Tail(queue[c]) \in Seq(Frames) /\ Len(Tail(queue[c])) = Len(queue[c]) - 1
        /\ \A i \in 1..Len(Tail(queue[c])) :
             i + 1 \in 1..Len(queue[c]) /\ Tail(queue[c])[i] = queue[c][i + 1]
    BY <1>2, <2>1
  <2>4. Len(Tail(queue[c])) < QueueSize /\ 1 \in {0, 1}
    BY <1>3, <2>1, <2>3
  <2>5. QED
    BY <1>1, <1>2, <2>2, <2>3, <2>4, LinePut
<1>6. QED
  BY <1>4, <1>5

LEMMA FanoutLine ==
  ASSUME Inv, BusStep, NEW m \in Messages, Fanout(m), running, running' = running,
         UNCHANGED <<filter, taskVars, clientVars>>,
         Undisturbed(TopicOf[m]) => m \in Pending(TopicOf[m]),
         Undisturbed(TopicOf[m])' => \A k \in Pending(TopicOf[m])' : m < k,
         NEW c \in Connections
  PROVE  Line(c)'
<1> USE DEF taskVars, clientVars
<1>1. /\ wanted'[c] = wanted[c] /\ got'[c] = got[c] /\ sending'[c] = sending[c]
      /\ Line(c) /\ Client(c) /\ wanted[c] \in Seq(SUBSET Symbols)
      /\ Len(wanted[c]) \in 0..MaxCommands
  <2>1. MaxCommands \in Nat
    BY LiveAssumption
  <2>2. QED
    BY <2>1 DEF Inv, Conn, Client
<1>2. CASE m \notin Invalid /\ c \in registered /\ SymbolOf[m] \in filter[c]
  <2>1. PICK g : g = Data(m, Len(wanted[c]))
    OBVIOUS
  <2>2. g \in Frames /\ g.kind = "data" /\ g.message = m /\ g.version = Len(wanted[c])
    BY <1>1, <2>1, DataIsFrame
  <2>3. queue'[c] = Put(queue[c], g)
    BY <1>2, <2>1 DEF Fanout
  <2>4. TopicOf[m] \in Topics /\ m \in Nat
    BY LiveAssumption
  <2>5. SymbolOf[m] \in wanted[c][Len(wanted[c])] /\ Len(wanted[c]) \in 1..Len(wanted[c])
    BY <1>1, <1>2 DEF Client, Current
  <2>6. TopicOf[m] \notin disturbed' => Undisturbed(TopicOf[m])
    BY DEF BusStep, Undisturbed
  <2>7. TopicOf[m] \notin disturbed' => m > got[c].last[TopicOf[m]]
    BY <1>1, <2>4, <2>6 DEF Client
  <2>8. Good(c, g)'
    BY <1>1, <2>2, <2>5, <2>7 DEF Good, Client
  <2>9. ASSUME NEW f \in Frames, Good(c, f)
        PROVE  Follows(f, g)'
    <3>1. f.kind = "subscribed" => f.version <= g.version
      BY <2>2, <2>9 DEF Good
    <3>2. ASSUME f.kind = "data", TopicOf[f.message] = TopicOf[m], TopicOf[m] \notin disturbed'
          PROVE  f.message < m
      BY <2>6, <2>9, <3>2 DEF Good
    <3>3. QED
      BY <2>2, <3>1, <3>2 DEF Follows
  <2>10. QED
    BY <1>1, <2>2, <2>3, <2>8, <2>9, PutLine
<1>3. CASE ~(m \notin Invalid /\ c \in registered /\ SymbolOf[m] \in filter[c])
  <2>1. queue'[c] = queue[c]
    BY <1>3 DEF Fanout
  <2>2. QED
    BY <1>1, <2>1, LineKept
<1>4. QED
  BY <1>2, <1>3

LEMMA HandleInv ==
  ASSUME Inv, NEW t \in Topics, Handle(t)
  PROVE  Inv'
<1>1. PICK m \in batch[t] :
        /\ \A k \in batch[t] : m <= k
        /\ Fanout(m)
        /\ \/ /\ state' = [state EXCEPT ![m] = "gone"]
              /\ batch' = [batch EXCEPT ![t] = @ \ {m}]
              /\ UNCHANGED disturbed
           \/ /\ \E s \in {"locked", "gone"} : state' = [state EXCEPT ![m] = s]
              /\ batch' = [batch EXCEPT ![t] = {}]
              /\ disturbed' = disturbed \cup {t}
  BY DEF Handle
<1>2. /\ running /\ running' = running /\ UNCHANGED <<phase, registered, filter>>
      /\ UNCHANGED <<taskVars, clientVars>>
  BY DEF Handle
<1>3. /\ Bus' /\ BusStep /\ TopicOf[m] = t /\ m \in Messages
      /\ Undisturbed(t) => m \in Pending(t)
      /\ Undisturbed(t)' => \A k \in Pending(t)' : m < k
  BY <1>1, <1>2, HandleBus
<1>4. Shapes'
  BY <1>1, <1>2 DEF Fanout, taskVars, clientVars, Inv, Shapes
<1>5. ASSUME NEW c \in Connections
      PROVE  Conn(c)'
  <2>1. Line(c)'
    BY <1>1, <1>2, <1>3, FanoutLine
  <2>2. Client(c)'
    BY <1>2, <1>3, ClientKept DEF Inv, Conn, taskVars, clientVars
  <2>3. QED
    BY <2>1, <2>2 DEF Conn
<1>6. QED
  BY <1>3, <1>4, <1>5 DEF Inv

-----------------------------------------------------------------------------
(* The invariant *)

LEMMA InitInv == Init => Inv
<1> SUFFICES ASSUME Init PROVE Inv
  OBVIOUS
<1>1. Shapes
  BY DEF Init, Shapes
<1>2. Bus
  BY DEF Init, Bus
<1>3. ASSUME NEW c \in Connections
      PROVE  Conn(c)
  <2>1. /\ queue[c] = <<>> /\ sending[c] = NoFrame /\ reply[c] = NoFrame /\ wanted[c] = <<>>
        /\ filter[c] = {} /\ commands[c] = 0 /\ got[c] = Nothing
    BY DEF Init
  <2>2. Line(c)
    BY <2>1, EmptyQueue DEF Line
  <2>3. Nothing \in [acked : Nat, last : [Topics -> Nat]] /\ Nothing.acked = 0
        /\ \A t \in Topics : Nothing.last[t] = 0
    BY DEF Nothing
  <2>4. \A t \in Topics : \A m \in Pending(t) : got[c].last[t] < m
    BY <2>1, <2>3, LiveAssumption DEF Pending
  <2>5. Current(c) = {} /\ wanted[c] \in Seq(SUBSET Symbols) /\ Len(wanted[c]) = 0
    BY <2>1 DEF Current
  <2>6. 0 \in 0..MaxCommands
    BY LiveAssumption
  <2>7. Client(c)
    BY <2>1, <2>3, <2>4, <2>5, <2>6 DEF Client
  <2>8. QED
    BY <2>2, <2>7 DEF Conn
<1>4. QED
  BY <1>1, <1>2, <1>3 DEF Inv

LEMMA InvStep == Inv /\ [Next]_vars => Inv'
<1> SUFFICES ASSUME Inv, [Next]_vars PROVE Inv'
  OBVIOUS
<1>1. CASE Close
  BY <1>1, CloseInv
<1>2. ASSUME NEW t \in Topics, PumpReceive(t) \/ PumpReceiveRaises(t) \/ Handle(t)
      PROVE  Inv'
  BY <1>2, PumpReceiveInv, HandleInv
<1>3. ASSUME NEW m \in Messages, PeekLockExpires(m)
      PROVE  Inv'
  BY <1>3, PeekLockExpiresInv
<1>4. ASSUME NEW c \in Connections,
             Connect(c) \/ Disconnect(c) \/ Refuse(c) \/ \E S \in SUBSET Symbols : Subscribe(c, S)
      PROVE  Inv'
  BY <1>4, ConnectInv, QuietInv, RefuseInv, SubscribeInv
<1>5. ASSUME NEW c \in Connections,
             \/ CommandTaskEnds(c) \/ PutReply(c) \/ Take(c) \/ Send(c)
             \/ SendRaises(c) \/ Ended(c)
      PROVE  Inv'
  <2>1. CASE SendRaises(c) \/ Ended(c)
    BY <2>1, LeaveInv DEF SendRaises, Ended
  <2>2. CASE CommandTaskEnds(c) \/ PutReply(c) \/ Take(c) \/ Send(c)
    BY <2>2, QuietInv, PutReplyInv, TakeInv, SendInv
  <2>3. QED
    BY <1>5, <2>1, <2>2
<1>6. CASE UNCHANGED vars
  <2>1. BusStep /\ Bus'
    BY <1>6, QuietBus DEF vars, busVars, Inv, Bus, Undisturbed
  <2>2. QED
    BY <1>6, <2>1, NoConnection DEF vars, Inv, Shapes
<1>7. QED
  BY <1>1, <1>2, <1>3, <1>4, <1>5, <1>6 DEF Next

\* The invariant of the live stream.
THEOREM InvHolds == Spec => []Inv
<1>1. QED
  BY InitInv, InvStep, PTL DEF Spec

LEMMA InvGivesTypeOK == Inv => TypeOK
<1> SUFFICES ASSUME Inv PROVE TypeOK
  OBVIOUS
<1>1. ASSUME NEW c \in Connections
      PROVE  filter[c] \in SUBSET Symbols /\ commands[c] \in 0..MaxCommands
  <2>1. wanted[c] \in Seq(SUBSET Symbols) /\ filter[c] = Current(c)
    BY DEF Inv, Conn, Client
  <2>2. Current(c) \in SUBSET Symbols
    <3>1. CASE wanted[c] = <<>>
      BY <3>1 DEF Current
    <3>2. CASE wanted[c] # <<>>
      <4>1. Len(wanted[c]) \in 1..Len(wanted[c])
        BY <2>1, <3>2
      <4>2. QED
        BY <2>1, <3>2, <4>1 DEF Current
    <3>3. QED
      BY <3>1, <3>2
  <2>3. QED
    BY <2>1, <2>2 DEF Inv, Conn, Client
<1>2. ASSUME NEW c \in Connections
      PROVE  /\ queue[c] \in Seq(Frames) /\ Len(queue[c]) <= QueueSize
             /\ {reply[c], sending[c]} \subseteq Frames \cup {NoFrame}
             /\ wanted[c] \in Seq(SUBSET Symbols) /\ Len(wanted[c]) <= MaxCommands
  <2>1. Line(c) /\ Client(c)
    BY DEF Inv, Conn
  <2>2. Len(wanted[c]) \in Nat /\ Len(wanted[c]) <= commands[c] /\ commands[c] \in 0..MaxCommands
    BY <2>1 DEF Client
  <2>3. MaxCommands \in Nat
    BY LiveAssumption
  <2>4. Len(wanted[c]) <= MaxCommands
    BY <2>2, <2>3
  <2>5. QED
    BY <2>1, <2>4 DEF Line, Client, Good
<1>3. filter \in [Connections -> SUBSET Symbols] /\ commands \in [Connections -> 0..MaxCommands]
  BY <1>1 DEF Inv, Shapes
<1>4. QED
  BY <1>2, <1>3 DEF Inv, Shapes, Bus, TypeOK

-----------------------------------------------------------------------------
(* The theorems *)

\* Every variable keeps its type, the bounds of the queues included.
THEOREM TypeCorrect == Spec => []TypeOK
<1>1. QED
  BY InvHolds, InvGivesTypeOK, PTL

\* Whatever a slow reader makes the broker drop and however long replies wait for
\* room, no message on its way to a client was let through by a filter older than the
\* one the client knows it has (update_symbols, _fanout, the connection's tasks).
THEOREM AckedFilterHolds == Spec => []AckedFilter
<1>1. QED
  BY InvHolds, InvGivesAckedFilter, PTL

\* Each client gets a topic's messages in order and none twice, as long as no call of
\* the topic's pump has failed (_pump, _fanout).
THEOREM InOrderHolds == Spec => []InOrder
<1>1. QED
  BY InvHolds, InvGivesInOrder, PTL
=============================================================================
