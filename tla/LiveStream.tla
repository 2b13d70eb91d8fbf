------------------------------ MODULE LiveStream ------------------------------
(***************************************************************************)
(* The API's live stream (services/api/service.py, services/api/ws.py): a  *)
(* pump per topic drains the "api-ws" subscription and fans each message   *)
(* out to the WebSocket connections whose filter names its symbol; per     *)
(* connection a task reads the client's commands and a loop sends what the *)
(* connection's bounded queue holds.  All of it runs on one event loop: an *)
(* action is what happens between two awaits that can suspend.             *)
(***************************************************************************)
EXTENDS Naturals, Sequences, FiniteSets

CONSTANTS
  Connections,
  Topics,
  Symbols,
  Messages,      \* sequence numbers of the messages of all topics
  TopicOf, SymbolOf,
  Invalid,       \* messages whose body does not validate
  QueueSize,     \* MAX_STREAM_QUEUE_SIZE
  BatchSize,     \* max_messages of the pump
  MaxCommands,   \* bound: frames a client sends
  NoFrame,       \* "no reply waits for room", "nothing is being sent"
  Faults         \* subset of {"receive", "settle"}: calls of the bus that may fail

ASSUME LiveAssumption ==
  /\ Messages \subseteq Nat \ {0} /\ IsFiniteSet(Messages)
  /\ TopicOf \in [Messages -> Topics] /\ SymbolOf \in [Messages -> Symbols]
  /\ Invalid \subseteq Messages
  /\ QueueSize \in Nat \ {0} /\ BatchSize \in Nat \ {0} /\ MaxCommands \in Nat
  /\ Faults \subseteq {"receive", "settle"}
  /\ NoFrame \notin [kind : {"data", "subscribed", "error"}, message : Nat, version : Nat]

VARIABLES
  running,     \* the broker is started and not closed
  state,       \* per message: "ready", "locked" or "gone" (completed, dead-lettered)
  batch,       \* per topic: what the pump received and has not handled yet
  phase,       \* per connection: "new", "open" or "closed"
  connected,   \* per connection: the client is there
  registered,  \* connections that are subscribers of the broker
  filter,      \* per connection: the symbols it is subscribed to
  queue,       \* per connection: frames to send
  reply,       \* per connection: the frame for which the command task awaits room
  listening,   \* per connection: the command task has not finished
  sending,     \* per connection: the frame the loop took off the queue
  wanted,      \* per connection: the filters the client asked for (history)
  commands,    \* per connection: frames the client sent
  got,         \* per connection: what the client has (history)
  disturbed    \* topics whose pump failed once (history)

busVars == <<state, batch, disturbed>>
clientVars == <<connected, wanted, commands, got>>
taskVars == <<reply, listening, sending>>
vars == <<running, busVars, phase, registered, filter, queue, taskVars, clientVars>>

Data(m, v) == [kind |-> "data", message |-> m, version |-> v]
Control(kind, v) == [kind |-> kind, message |-> 0, version |-> v]

\* What a client has that is not there.
Nothing == [acked |-> 0, last |-> [t \in Topics |-> 0]]

Init ==
  /\ running = TRUE
  /\ state = [m \in Messages |-> "ready"]
  /\ batch = [t \in Topics |-> {}]
  /\ phase = [c \in Connections |-> "new"]
  /\ connected = [c \in Connections |-> FALSE]
  /\ registered = {}
  /\ filter = [c \in Connections |-> {}]
  /\ queue = [c \in Connections |-> <<>>]
  /\ reply = [c \in Connections |-> NoFrame]
  /\ listening = [c \in Connections |-> FALSE]
  /\ sending = [c \in Connections |-> NoFrame]
  /\ wanted = [c \in Connections |-> <<>>]
  /\ commands = [c \in Connections |-> 0]
  /\ got = [c \in Connections |-> Nothing]
  /\ disturbed = {}

-----------------------------------------------------------------------------
(* The pumps *)

Active == \E c \in registered : filter[c] # {}

\* Messages the bus may hand out next: the oldest of the topic, so many as are
\* published by now.
Available(t) ==
  LET ready == {m \in Messages : TopicOf[m] = t /\ state[m] = "ready"}
  IN  {S \in SUBSET ready : /\ Cardinality(S) <= BatchSize
                            /\ \A m \in S, k \in ready \ S : m < k}

Lock(S) == state' = [m \in Messages |-> IF m \in S THEN "locked" ELSE state[m]]

PumpReceive(t) ==
  /\ running /\ batch[t] = {} /\ Active
  /\ \E S \in Available(t) :
       /\ S # {} /\ Lock(S)
       /\ batch' = [batch EXCEPT ![t] = S]
  /\ UNCHANGED <<running, disturbed, phase, registered, filter, queue, taskVars, clientVars>>

\* The call raises, perhaps with messages locked already.
PumpReceiveRaises(t) ==
  /\ "receive" \in Faults
  /\ running /\ batch[t] = {} /\ Active
  /\ \E S \in Available(t) : Lock(S)
  /\ disturbed' = disturbed \cup {t}
  /\ UNCHANGED <<running, batch, phase, registered, filter, queue, taskVars, clientVars>>

\* Mutant: a full queue is rotated before it takes the new entry.
PutRotates(q, frame) ==
  IF Len(q) < QueueSize THEN Append(q, frame) ELSE Append(Tail(Tail(q) \o <<frame>>), Head(q))

\* put_nowait, after dropping the oldest entry of a full queue.
Put(q, frame) == Append(IF Len(q) < QueueSize THEN q ELSE Tail(q), frame)

Fanout(m) ==
  queue' = [c \in Connections |->
              IF m \notin Invalid /\ c \in registered /\ SymbolOf[m] \in filter[c]
              THEN Put(queue[c], Data(m, Len(wanted[c]))) ELSE queue[c]]

\* Fan out, then complete: when that raises the pump forgets the rest of its batch,
\* whose messages stay locked at the bus.
Handle(t) ==
  /\ running
  /\ \E m \in batch[t] :
       /\ \A k \in batch[t] : m <= k
       /\ Fanout(m)
       /\ \/ /\ state' = [state EXCEPT ![m] = "gone"]
             /\ batch' = [batch EXCEPT ![t] = @ \ {m}]
             /\ UNCHANGED disturbed
          \/ /\ "settle" \in Faults
             /\ \E s \in {"locked", "gone"} : state' = [state EXCEPT ![m] = s]
             /\ batch' = [batch EXCEPT ![t] = {}]
             /\ disturbed' = disturbed \cup {t}
  /\ UNCHANGED <<running, phase, registered, filter, taskVars, clientVars>>

\* The lock of a forgotten message runs out; after MaxDeliveryCount the bus
\* dead-letters it.
PeekLockExpires(m) ==
  /\ state[m] = "locked" /\ m \notin batch[TopicOf[m]]
  /\ \E s \in {"ready", "gone"} : state' = [state EXCEPT ![m] = s]
  /\ UNCHANGED <<running, batch, disturbed, phase, registered, filter, queue, taskVars, clientVars>>

\* close(): the pumps are cancelled and no connection is a subscriber any longer.
Close ==
  /\ running /\ running' = FALSE
  /\ batch' = [t \in Topics |-> {}]
  /\ registered' = {}
  /\ UNCHANGED <<state, disturbed, phase, filter, queue, taskVars, clientVars>>

-----------------------------------------------------------------------------
(* A connection *)

\* A subscriber of no symbol, with an empty queue.
Register(c) ==
  /\ registered' = registered \cup {c}
  /\ filter' = [filter EXCEPT ![c] = {}]
  /\ queue' = [queue EXCEPT ![c] = <<>>]

Unregister(c) == registered' = registered \ {c} /\ filter' = [filter EXCEPT ![c] = {}]

Connect(c) ==
  /\ running /\ phase[c] = "new"
  /\ phase' = [phase EXCEPT ![c] = "open"]
  /\ connected' = [connected EXCEPT ![c] = TRUE]
  /\ listening' = [listening EXCEPT ![c] = TRUE]
  /\ Register(c)
  /\ UNCHANGED <<running, busVars, reply, sending, wanted, commands, got>>

\* outbound.put: at once if there is room, else the command task waits.
Answer(c, frame) ==
  IF Len(queue[c]) < QueueSize
  THEN queue' = [queue EXCEPT ![c] = Append(@, frame)] /\ UNCHANGED reply
  ELSE reply' = [reply EXCEPT ![c] = frame] /\ UNCHANGED queue

MayCommand(c) ==
  /\ phase[c] = "open" /\ connected[c] /\ listening[c] /\ reply[c] = NoFrame
  /\ commands[c] < MaxCommands
  /\ commands' = [commands EXCEPT ![c] = @ + 1]

\* Mutant: the new symbols are added to those the connection has.
SubscribeAdds(c, S) ==
  /\ MayCommand(c) /\ c \in registered
  /\ filter' = [filter EXCEPT ![c] = @ \cup S]
  /\ wanted' = [wanted EXCEPT ![c] = Append(@, S)]
  /\ Answer(c, Control(IF S = {} THEN "error" ELSE "subscribed", Len(wanted[c]) + 1))
  /\ UNCHANGED <<running, busVars, phase, registered, listening, sending, connected, got>>

\* update_symbols replaces the filter before the reply is queued; an empty list is
\* refused only after it has replaced the filter.
Subscribe(c, S) ==
  /\ MayCommand(c) /\ c \in registered
  /\ filter' = [filter EXCEPT ![c] = S]
  /\ wanted' = [wanted EXCEPT ![c] = Append(@, S)]
  /\ Answer(c, Control(IF S = {} THEN "error" ELSE "subscribed", Len(wanted[c]) + 1))
  /\ UNCHANGED <<running, busVars, phase, registered, listening, sending, connected, got>>

\* A frame that does not validate, or a subscription after the broker closed.
Refuse(c) ==
  /\ MayCommand(c)
  /\ Answer(c, Control("error", Len(wanted[c])))
  /\ UNCHANGED <<running, busVars, phase, registered, filter, listening, sending, connected, wanted, got>>

PutReply(c) ==
  /\ reply[c] # NoFrame /\ Len(queue[c]) < QueueSize
  /\ queue' = [queue EXCEPT ![c] = Append(@, reply[c])]
  /\ reply' = [reply EXCEPT ![c] = NoFrame]
  /\ UNCHANGED <<running, busVars, phase, registered, filter, listening, sending, clientVars>>

Disconnect(c) ==
  /\ connected[c]
  /\ connected' = [connected EXCEPT ![c] = FALSE]
  /\ commands' = [commands EXCEPT ![c] = MaxCommands]
  /\ got' = [got EXCEPT ![c] = Nothing]
  /\ UNCHANGED <<running, busVars, phase, registered, filter, queue, taskVars, wanted>>

\* receive_json raises WebSocketDisconnect, once the command task gets to it.
CommandTaskEnds(c) ==
  /\ phase[c] = "open" /\ listening[c] /\ ~connected[c] /\ reply[c] = NoFrame
  /\ listening' = [listening EXCEPT ![c] = FALSE]
  /\ UNCHANGED <<running, busVars, phase, registered, filter, queue, reply, sending, clientVars>>

\* The getter's future resolves with the oldest frame.
Take(c) ==
  /\ phase[c] = "open" /\ sending[c] = NoFrame /\ queue[c] # <<>>
  /\ sending' = [sending EXCEPT ![c] = Head(queue[c])]
  /\ queue' = [queue EXCEPT ![c] = Tail(@)]
  /\ UNCHANGED <<running, busVars, phase, registered, filter, reply, listening, clientVars>>

\* The finally block: unregister and cancel both tasks.
Leave(c) ==
  /\ phase' = [phase EXCEPT ![c] = "closed"]
  /\ Unregister(c)
  /\ queue' = [queue EXCEPT ![c] = <<>>]
  /\ reply' = [reply EXCEPT ![c] = NoFrame]
  /\ listening' = [listening EXCEPT ![c] = FALSE]
  /\ sending' = [sending EXCEPT ![c] = NoFrame]
  /\ wanted' = [wanted EXCEPT ![c] = <<>>]
  /\ got' = [got EXCEPT ![c] = Nothing]
  /\ UNCHANGED <<running, busVars, connected, commands>>

\* Mutant: the loop waits for both tasks, not for the first of them.
EndedWhenIdle(c) == phase[c] = "open" /\ ~listening[c] /\ sending[c] # NoFrame /\ Leave(c)

\* The loop sees that the command task is done; a frame it has taken is lost.
Ended(c) == phase[c] = "open" /\ ~listening[c] /\ Leave(c)

Received(c, frame) ==
  CASE frame.kind = "data" -> [got[c] EXCEPT !.last[TopicOf[frame.message]] = frame.message]
    [] frame.kind = "subscribed" -> [got[c] EXCEPT !.acked = frame.version]
    [] OTHER -> got[c]

\* A client that does not read keeps the loop here.
Send(c) ==
  /\ phase[c] = "open" /\ sending[c] # NoFrame /\ connected[c]
  /\ got' = [got EXCEPT ![c] = Received(c, sending[c])]
  /\ sending' = [sending EXCEPT ![c] = NoFrame]
  /\ UNCHANGED <<running, busVars, phase, registered, filter, queue, reply, listening,
                 connected, wanted, commands>>

\* send_json raises when the client is gone.
SendRaises(c) == phase[c] = "open" /\ sending[c] # NoFrame /\ ~connected[c] /\ Leave(c)

Next ==
  \/ Close
  \/ \E t \in Topics : PumpReceive(t) \/ PumpReceiveRaises(t) \/ Handle(t)
  \/ \E m \in Messages : PeekLockExpires(m)
  \/ \E c \in Connections :
       \/ Connect(c) \/ Disconnect(c) \/ Refuse(c) \/ \E S \in SUBSET Symbols : Subscribe(c, S)
       \/ CommandTaskEnds(c) \/ PutReply(c) \/ Take(c) \/ Send(c) \/ SendRaises(c) \/ Ended(c)

Spec == Init /\ [][Next]_vars

\* The event loop runs every task that can run; a client need never read.
FairSpec ==
  /\ Spec
  /\ \A c \in Connections :
       /\ WF_vars(CommandTaskEnds(c)) /\ WF_vars(PutReply(c)) /\ WF_vars(Take(c))
       /\ WF_vars(SendRaises(c)) /\ WF_vars(Ended(c))
-----------------------------------------------------------------------------
(* Properties *)

Frames ==
  [kind : {"data"}, message : Messages, version : 0..MaxCommands]
    \cup [kind : {"subscribed", "error"}, message : {0}, version : 0..MaxCommands]

TypeOK ==
  /\ running \in BOOLEAN
  /\ state \in [Messages -> {"ready", "locked", "gone"}]
  /\ batch \in [Topics -> SUBSET Messages]
  /\ phase \in [Connections -> {"new", "open", "closed"}]
  /\ connected \in [Connections -> BOOLEAN] /\ listening \in [Connections -> BOOLEAN]
  /\ registered \subseteq Connections
  /\ filter \in [Connections -> SUBSET Symbols]
  /\ \A c \in Connections :
       /\ queue[c] \in Seq(Frames) /\ Len(queue[c]) <= QueueSize
       /\ {reply[c], sending[c]} \subseteq Frames \cup {NoFrame}
       /\ wanted[c] \in Seq(SUBSET Symbols) /\ Len(wanted[c]) <= MaxCommands
  /\ commands \in [Connections -> 0..MaxCommands]

\* What is on its way to the client, what it gets first in front.
Pipeline(c) == (IF sending[c] = NoFrame THEN <<>> ELSE <<sending[c]>>) \o queue[c]

\* Once a client has the reply to a subscription it never gets a message that an
\* older filter let through, nor one of a symbol it did not ask for: although the
\* reply may wait for room while the pumps fill the queue, and may be dropped.
AckedFilter ==
  \A c \in Connections : \A i \in DOMAIN Pipeline(c) :
    LET frame == Pipeline(c)[i]
    IN  frame.kind = "data" =>
          /\ frame.version >= got[c].acked
          /\ SymbolOf[frame.message] \in wanted[c][frame.version]
          /\ \A k \in 1..i - 1 :
               Pipeline(c)[k].kind = "subscribed" => frame.version >= Pipeline(c)[k].version

\* A client gets the messages of a topic in the order of their sequence numbers and
\* none twice, whatever a slow reader makes the broker drop, as long as no call of
\* that topic's pump failed; "live stream, so the newest data is what the client
\* actually wants" (service.py:126).
InOrder ==
  \A c \in Connections : \A i \in DOMAIN Pipeline(c) :
    LET frame == Pipeline(c)[i]
    IN  frame.kind = "data" /\ TopicOf[frame.message] \notin disturbed =>
          /\ frame.message > got[c].last[TopicOf[frame.message]]
          /\ \A k \in 1..i - 1 :
               Pipeline(c)[k].kind = "data" /\ TopicOf[Pipeline(c)[k].message] = TopicOf[frame.message]
                 => frame.message > Pipeline(c)[k].message

\* A connection whose client is gone stops being a subscriber, even if the reply to a
\* command still waits for room: the pumps do not go on for nobody.
DisconnectedIsUnregistered ==
  \A c \in Connections : phase[c] = "open" /\ ~connected[c] ~> phase[c] = "closed" /\ c \notin registered
=============================================================================
