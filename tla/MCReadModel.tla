---------------------------- MODULE MCReadModel ----------------------------
(***************************************************************************)
(* ReadModel with a history of whether two requests ever overlapped: when  *)
(* they do, a message may be appended twice and out of order.              *)
(***************************************************************************)
EXTENDS ReadModel

CONSTANT MaxExpired   \* bound: no more messages than this expire
VARIABLE overlapped

Overlap == \E q, r \in Requests : q # r /\ InProgress(q) /\ InProgress(r)
MCInit == Init /\ overlapped = FALSE
MCNext ==
  /\ Next /\ head' <= MaxExpired + 1
  /\ overlapped' = (overlapped \/ Overlap')
MCSpec ==
  /\ MCInit /\ [][MCNext]_<<vars, overlapped>>
  /\ \A r \in Requests :
       /\ WF_vars(Begin(r)) /\ SF_vars(Peek(r))
       /\ SF_vars(Store(r)) /\ SF_vars(NothingNew(r))

\* While requests come one at a time the window is kept oldest first, so that its
\* tail is the newest part, and holds each message once (api/service.py,
\* list_signals and the like).
SequentialInOrder == ~overlapped => OldestFirst /\ ReadOnce
=============================================================================
