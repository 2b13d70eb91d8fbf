------------------------------ MODULE ReadModel ------------------------------
(***************************************************************************)
(* The API's read model of one topic (services/api/service.py,             *)
(* _refresh_recent): HTTP requests peek the subscription from a shared     *)
(* cursor, append what they read to a shared bounded window and move the   *)
(* cursor on.  Requests interleave at every peek; the peeks of one         *)
(* receiver are serialised by a lock (libs/common/bus.py, peek), but the   *)
(* sequence number a request asks for is fixed before it gets that lock.   *)
(***************************************************************************)
EXTENDS Integers, Sequences, FiniteSets

CONSTANTS
  Requests,      \* concurrent requests
  PeekChunk,     \* messages per peek
  MaxChunks,     \* MAX_PEEK_CHUNKS_PER_REQUEST
  RecentWindow,  \* RECENT_WINDOW
  Invalid,       \* sequence numbers whose payload fails validation
  Undecodable,   \* sequence numbers whose body makes peek raise
  MaxSequence,   \* bound: no more messages than this are published
  ShortPeeks     \* whether the broker may return less than it has

ASSUME ReadModelAssumption ==
  /\ PeekChunk \in Nat \ {0} /\ MaxChunks \in Nat \ {0} /\ RecentWindow \in Nat \ {0}
  /\ MaxSequence \in Nat /\ ShortPeeks \in BOOLEAN

VARIABLES
  last,      \* broker: sequence number of the newest message
  head,      \* broker: sequence number of the oldest message not yet expired
  recent,    \* the window, oldest first: sequence numbers
  cursor,    \* _peek_cursor: the sequence number to resume at
  pc,        \* per request
  at,        \* per request: its local cursor
  chunks,    \* per request: peeks made
  reply,     \* per request: first and last sequence number peeked
  upTo,      \* per request: the newest message when it began (history)
  appended   \* every sequence number ever appended to the window (history)

requestVars == <<pc, at, chunks, reply, upTo>>
vars == <<last, head, recent, cursor, requestVars, appended>>

TypeOK ==
  /\ last \in Nat /\ head \in Nat \ {0}
  /\ recent \in Seq(Nat) /\ Len(recent) <= RecentWindow
  /\ cursor \in Nat \ {0}
  /\ pc \in [Requests -> {"idle", "waiting", "peeking", "truncated", "current"}]
  /\ at \in [Requests -> Nat \ {0}]
  /\ chunks \in [Requests -> 0..MaxChunks]
  /\ reply \in [Requests -> [from : Nat \ {0}, to : Nat]]
  /\ upTo \in [Requests -> Nat]
  /\ appended \in SUBSET Nat

NoReply == [from |-> 1, to |-> 0]

Init ==
  /\ last = 0 /\ head = 1
  /\ recent = <<>> /\ cursor = 1
  /\ pc = [r \in Requests |-> "idle"]
  /\ at = [r \in Requests |-> 1]
  /\ chunks = [r \in Requests |-> 0]
  /\ reply = [r \in Requests |-> NoReply]
  /\ upTo = [r \in Requests |-> 0]
  /\ appended = {}

-----------------------------------------------------------------------------
(* The broker *)

Publish ==
  /\ last < MaxSequence
  /\ last' = last + 1
  /\ UNCHANGED <<head, recent, cursor, requestVars, appended>>

\* The oldest message reaches its time to live.
Expire ==
  /\ head <= last
  /\ head' = head + 1
  /\ UNCHANGED <<last, recent, cursor, requestVars, appended>>

\* The sequence numbers of at most PeekChunk messages from `from` on.
PeekReplies(from) ==
  LET lo == IF from > head THEN from ELSE head
      hi == IF lo + PeekChunk - 1 < last THEN lo + PeekChunk - 1 ELSE last
  IN  IF ShortPeeks /\ lo <= hi THEN {[from |-> lo, to |-> k] : k \in lo..hi}
                                ELSE {[from |-> lo, to |-> hi]}

-----------------------------------------------------------------------------
(* A request *)

InProgress(r) == pc[r] \in {"waiting", "peeking"}

BeginAt(r, first) ==
  /\ ~InProgress(r)
  /\ pc' = [pc EXCEPT ![r] = "waiting"]
  /\ at' = [at EXCEPT ![r] = first]
  /\ chunks' = [chunks EXCEPT ![r] = 0]
  /\ upTo' = [upTo EXCEPT ![r] = last]
  /\ UNCHANGED <<last, head, recent, cursor, reply, appended>>

\* Mutant: a request walks the topic from its head, not from the saved cursor.
BeginAtHead(r) == BeginAt(r, 1)

Begin(r) == BeginAt(r, cursor)

\* The request gets the receiver's lock and the broker answers its peek.
Peek(r) ==
  /\ pc[r] = "waiting" /\ \A q \in Requests : pc[q] # "peeking"
  /\ \E answer \in PeekReplies(at[r]) : reply' = [reply EXCEPT ![r] = answer]
  /\ pc' = [pc EXCEPT ![r] = "peeking"]
  /\ UNCHANGED <<last, head, recent, cursor, at, chunks, upTo, appended>>

Chunk(r) == reply[r].from .. reply[r].to
Forget(r) == reply' = [reply EXCEPT ![r] = NoReply]

\* The sequences that list the numbers of S in increasing order: there is one.
Ordered(S) ==
  {s \in [1..Cardinality(S) -> S] : \A i, j \in 1..Cardinality(S) : i < j => s[i] < s[j]}

\* A deque of maxlen RecentWindow drops from its left.
Trim(s) == IF Len(s) > RecentWindow THEN SubSeq(s, Len(s) - RecentWindow + 1, Len(s)) ELSE s

\* The peek was empty: nothing is stored.
NothingNew(r) ==
  /\ pc[r] = "peeking" /\ Chunk(r) = {}
  /\ pc' = [pc EXCEPT ![r] = "current"]
  /\ Forget(r)
  /\ UNCHANGED <<last, head, recent, cursor, at, chunks, upTo, appended>>

\* Mutant: a full chunk ends the walk as well.
ContinueNever(r, size) ==
  IF size <= PeekChunk THEN "current"
  ELSE IF chunks[r] + 1 < MaxChunks THEN "waiting" ELSE "truncated"

\* What the request does next after a chunk of `size` messages.
Continue(r, size) ==
  IF size < PeekChunk THEN "current"
  ELSE IF chunks[r] + 1 < MaxChunks THEN "waiting" ELSE "truncated"

\* Append the chunk and go on at `next`, unless the chunk was short or the request
\* has used up its peeks; other requests will start at `saved`.
StoreAt(r, next, saved) ==
  /\ pc[r] = "peeking" /\ Chunk(r) # {} /\ Chunk(r) \cap Undecodable = {}
  /\ \E valid \in Ordered(Chunk(r) \ Invalid) : recent' = Trim(recent \o valid)
  /\ appended' = appended \cup (Chunk(r) \ Invalid)
  /\ at' = [at EXCEPT ![r] = next]
  /\ cursor' = saved
  /\ chunks' = [chunks EXCEPT ![r] = @ + 1]
  /\ pc' = [pc EXCEPT ![r] = Continue(r, reply[r].to - reply[r].from + 1)]
  /\ Forget(r)
  /\ UNCHANGED <<last, head, upTo>>

\* Mutants: every chunk is taken to be full; the cursor is not saved for the next request.
StoreFullChunk(r) == StoreAt(r, reply[r].from + PeekChunk, reply[r].from + PeekChunk)
StoreForgets(r) == StoreAt(r, reply[r].to + 1, cursor)

\* Both go on after the last message of the chunk.
Store(r) == StoreAt(r, reply[r].to + 1, reply[r].to + 1)

\* The peek raises: an undecodable body in the chunk, or a lost connection.
\* The request fails; what earlier chunks stored stays.
PeekRaises(r) ==
  /\ pc[r] = "peeking"
  /\ pc' = [pc EXCEPT ![r] = "idle"]
  /\ Forget(r)
  /\ UNCHANGED <<last, head, recent, cursor, at, chunks, upTo, appended>>

Next ==
  \/ Publish \/ Expire
  \/ \E r \in Requests : Begin(r) \/ Peek(r) \/ NothingNew(r) \/ Store(r) \/ PeekRaises(r)

Spec == Init /\ [][Next]_vars

\* Clients keep polling, a started request runs on, and a peek succeeds now and then.
FairSpec ==
  /\ Spec
  /\ \A r \in Requests :
       /\ WF_vars(Begin(r)) /\ SF_vars(Peek(r))
       /\ SF_vars(Store(r)) /\ SF_vars(NothingNew(r))

-----------------------------------------------------------------------------
(* Properties *)

\* A message is accounted for when it is in the window's history, was rejected by
\* validation, or expired at the broker.
Accounted(s) == s \in appended \/ s \in Invalid \/ s < head

\* No request, however it interleaves with others, moves the shared cursor past a
\* message that was never read: a message skipped there would never be served.
NothingSkipped == \A s \in 1..(cursor - 1) : Accounted(s)

\* A request that was not cut off by the chunk cap answers with every message that
\* was on the topic when it began.
CurrentIsComplete ==
  \A r \in Requests : pc[r] = "current" => \A s \in 1..upTo[r] : Accounted(s)

\* The window is kept oldest first, so that its tail is the newest part.
OldestFirst == \A i, j \in 1..Len(recent) : i < j => recent[i] <= recent[j]

\* Each message is in the window once.
ReadOnce == \A i, j \in 1..Len(recent) : i # j => recent[i] # recent[j]

\* Every message is read in the end, or expires first; only a message that shares a
\* peek with an undecodable one, or comes after it, may never be read.
EventuallyRead ==
  \A s \in {k \in 1..MaxSequence : Undecodable \cap 1..(k + PeekChunk - 1) = {}} :
    (last >= s) ~> Accounted(s)
=============================================================================
