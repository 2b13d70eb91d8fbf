---------------------------- MODULE EventDelivery ----------------------------
(***************************************************************************)
(* What a consumer service of the platform promises about an event, with   *)
(* no replicas, cache or retries: its outputs are published while a        *)
(* message that carries it is open, it is done when all of them are, and   *)
(* the last message that carries it is never completed before that.        *)
(***************************************************************************)
EXTENDS Naturals, Sequences

CONSTANTS Messages, Events, Outputs, NoEvent, EventOf, OutputsOf

VARIABLES
  topic,   \* copies of each output on the service's output topic
  done,    \* events whose processing is final
  outcome  \* "open", "completed" or "dead", per message

vars == <<topic, done, outcome>>

OutputSet(e) == {OutputsOf[e][i] : i \in DOMAIN OutputsOf[e]}
Copies(e, outcomes) == {m \in Messages : EventOf[m] = e /\ outcome[m] \in outcomes}

Init ==
  /\ topic = [o \in Outputs |-> 0]
  /\ done = {}
  /\ outcome = [m \in Messages |-> "open"]

Publish(e, o) ==
  /\ e \notin done /\ Copies(e, {"open"}) # {}
  /\ o \in OutputSet(e)
  /\ topic' = [topic EXCEPT ![o] = @ + 1]
  /\ UNCHANGED <<done, outcome>>

MarkDone(e) ==
  /\ Copies(e, {"open"}) # {}
  /\ \A o \in OutputSet(e) : topic[o] > 0
  /\ done' = done \cup {e}
  /\ UNCHANGED <<topic, outcome>>

Complete(m) ==
  /\ outcome[m] = "open" /\ EventOf[m] # NoEvent
  /\ EventOf[m] \in done \/ Copies(EventOf[m], {"open", "dead"}) \ {m} # {}
  /\ outcome' = [outcome EXCEPT ![m] = "completed"]
  /\ UNCHANGED <<topic, done>>

DeadLetter(m) ==
  /\ outcome[m] = "open"
  /\ outcome' = [outcome EXCEPT ![m] = "dead"]
  /\ UNCHANGED <<topic, done>>

Next ==
  \/ \E e \in Events : MarkDone(e) \/ \E o \in Outputs : Publish(e, o)
  \/ \E m \in Messages : Complete(m) \/ DeadLetter(m)

Spec == Init /\ [][Next]_vars
=============================================================================
