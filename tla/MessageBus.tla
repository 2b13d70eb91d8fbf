------------------------------ MODULE MessageBus ------------------------------
(***************************************************************************)
(* A topic of the message bus (libs/common/bus.py) as its publishers and   *)
(* consumers see it: every accepted message gets the next sequence number  *)
(* and a copy in each subscription, whose place changes as the consumers   *)
(* settle it.  A message whose id is in the duplicate window is dropped.   *)
(***************************************************************************)
EXTENDS Naturals, Sequences

CONSTANTS
  Subscriptions,
  Deduplicates,   \* the topic has duplicate detection
  MaxPublishes    \* bound: messages the topic accepts

ASSUME BusAssumption == Deduplicates \in BOOLEAN /\ MaxPublishes \in Nat

VARIABLES
  log,     \* the accepted messages, [id, body], by sequence number
  seen,    \* ids in the duplicate window
  place    \* per subscription and sequence number: where the copy is

busVars == <<log, seen, place>>

\* A drained dead letter is at the command that has its lock.
Places == {"queued", "done", "dead", "replayed"}

\* A topic that holds the messages of some bodies, and nobody has received one.
BusInit(messages) ==
  /\ log = messages
  /\ seen = IF Deduplicates THEN {messages[k].id : k \in DOMAIN messages} ELSE {}
  /\ place = [s \in Subscriptions |-> [k \in DOMAIN messages |-> "queued"]]

\* publish: a duplicate is dropped silently, anything else fans out.
Publish(id, body) ==
  \/ id \in seen /\ UNCHANGED busVars
  \/ /\ id \notin seen /\ Len(log) < MaxPublishes
     /\ log' = Append(log, [id |-> id, body |-> body])
     /\ seen' = IF Deduplicates THEN seen \cup {id} ELSE seen
     /\ place' = [s \in Subscriptions |-> Append(place[s], "queued")]

Move(s, S, to) ==
  /\ place' = [place EXCEPT ![s] = [k \in DOMAIN place[s] |-> IF k \in S THEN to ELSE place[s][k]]]
  /\ UNCHANGED <<log, seen>>

At(s, where) == {k \in DOMAIN place[s] : place[s][k] = where}

\* The service of the subscription receives a message and settles it in the end; what
\* it does in between is its own module's matter.
Consume(s, k) == k \in At(s, "queued") /\ \E to \in {"done", "dead"} : Move(s, {k}, to)

\* The duplicate window passes.
Forget == seen # {} /\ seen' = {} /\ UNCHANGED <<log, place>>
=============================================================================
