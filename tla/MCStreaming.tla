---------------------------- MODULE MCStreaming ----------------------------
(***************************************************************************)
(* Instances of Streaming.                                                 *)
(***************************************************************************)
EXTENDS Streaming

\* Two copies of one event.
CopiesKeyOf == [m \in Messages |-> 1]

\* Each message its own event, in order.
OrderedKeyOf == [m \in Messages |-> m]
=============================================================================
