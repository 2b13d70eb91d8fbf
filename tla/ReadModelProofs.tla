--------------------------- MODULE ReadModelProofs ---------------------------
(***************************************************************************)
(* The read model never loses a message, for any number of requests, chunk *)
(* size and backlog, and whichever way the requests interleave.            *)
(***************************************************************************)
EXTENDS MCReadModel, FiniteSetTheorems, TLAPS

\* The part of the state the cursors depend on.
CursorType ==
  /\ last \in Nat /\ head \in Nat \ {0} /\ cursor \in Nat \ {0}
  /\ pc \in [Requests -> {"idle", "waiting", "peeking", "truncated", "current"}]
  /\ at \in [Requests -> Nat \ {0}]
  /\ reply \in [Requests -> [from : Nat \ {0}, to : Nat]]
  /\ upTo \in [Requests -> Nat]

\* Everything below a sequence number has been accounted for.
AccountedBelow(n) == \A s \in Nat : 1 <= s /\ s < n => Accounted(s)

\* The shared cursor is safe because every request's own cursor is, and because
\* an answer starts no later than the cursor it was asked for or the head.
CursorsSafe ==
  /\ AccountedBelow(cursor)
  /\ \A r \in Requests : AccountedBelow(at[r]) /\ AccountedBelow(reply[r].from)

\* A short answer of a broker that returns all it has reaches the newest message
\* the request has to answer with.
ShortMeansCurrent ==
  \A r \in Requests :
    /\ upTo[r] <= last
    /\ pc[r] = "peeking" /\ reply[r].to - reply[r].from + 1 < PeekChunk
         => upTo[r] <= reply[r].to
    /\ pc[r] = "current" => AccountedBelow(upTo[r] + 1)

CursorInv == CursorType /\ CursorsSafe

-----------------------------------------------------------------------------
(* Lemmas *)

\* What an answer can be: it starts at the cursor it was asked for or at the
\* head, and without short peeks one that is not a full chunk ends at `last`.
LEMMA PeekAnswers ==
  ASSUME CursorType, NEW r \in Requests, NEW answer \in PeekReplies(at[r])
  PROVE  /\ answer \in [from : Nat \ {0}, to : Nat]
         /\ answer.from = at[r] \/ answer.from = head
         /\ ~ShortPeeks /\ answer.to - answer.from + 1 < PeekChunk => answer.to = last
<1> DEFINE lo == IF at[r] > head THEN at[r] ELSE head
           hi == IF lo + PeekChunk - 1 < last THEN lo + PeekChunk - 1 ELSE last
<1>1. PeekChunk \in Nat \ {0} /\ ShortPeeks \in BOOLEAN
  BY ReadModelAssumption
<1>2. at[r] \in Nat \ {0} /\ head \in Nat \ {0} /\ last \in Nat
  BY DEF CursorType
<1>3. lo \in Nat \ {0} /\ (lo = at[r] \/ lo = head)
  BY <1>2
<1>4. hi \in Nat /\ (hi - lo + 1 < PeekChunk => hi = last)
  BY <1>1, <1>2, <1>3
<1> HIDE DEF lo, hi
<1>5. PeekReplies(at[r]) = IF ShortPeeks /\ lo <= hi
                           THEN {[from |-> lo, to |-> k] : k \in lo..hi}
                           ELSE {[from |-> lo, to |-> hi]}
  BY DEF PeekReplies, lo, hi
<1>6. CASE ShortPeeks /\ lo <= hi
  <2>1. PICK k \in lo..hi : answer = [from |-> lo, to |-> k]
    BY <1>5, <1>6
  <2>2. QED
    BY <2>1, <1>3, <1>4, <1>6
<1>7. CASE ~(ShortPeeks /\ lo <= hi)
  <2>1. answer = [from |-> lo, to |-> hi]
    BY <1>5, <1>7
  <2>2. QED
    BY <2>1, <1>3, <1>4
<1>8. QED
  BY <1>6, <1>7

\* What is accounted for stays so: the window's history and the head only grow.
LEMMA AccountedStays ==
  ASSUME appended \subseteq appended', head <= head', head \in Nat, head' \in Nat,
         NEW n \in Nat, AccountedBelow(n)
  PROVE  AccountedBelow(n)'
BY DEF AccountedBelow, Accounted

\* Storing an answer accounts for everything up to its end.
LEMMA StoredIsAccounted ==
  ASSUME CursorInv, NEW r \in Requests, Store(r),
         NEW n \in Nat, n = reply[r].to + 1
  PROVE  AccountedBelow(n)'
<1>1. reply[r].from \in Nat /\ reply[r].to \in Nat
  BY DEF CursorInv, CursorType
<1>2. appended' = appended \cup (Chunk(r) \ Invalid) /\ head' = head
  BY DEF Store, StoreAt
<1>3. ASSUME NEW s \in Nat, 1 <= s, s < n
      PROVE  s \in appended' \/ s \in Invalid \/ s < head'
  <2>1. CASE s < reply[r].from
    BY <2>1, <1>2, <1>3 DEF CursorInv, CursorsSafe, AccountedBelow, Accounted
  <2>2. CASE ~(s < reply[r].from)
    <3>1. s \in Chunk(r)
      BY <2>2, <1>1, <1>3 DEF Chunk
    <3>2. QED
      BY <3>1, <1>2
  <2>3. QED
    BY <2>1, <2>2
<1>4. QED
  BY <1>3 DEF AccountedBelow, Accounted

-----------------------------------------------------------------------------
(* Nothing is skipped *)

\* The read model starts with every cursor at the first message.
LEMMA CursorInit == Init => CursorInv
<1>1. ASSUME Init PROVE CursorType
  BY <1>1 DEF Init, CursorType, NoReply
<1>2. ASSUME Init PROVE CursorsSafe
  BY <1>2 DEF Init, CursorsSafe, AccountedBelow, NoReply
<1>3. QED
  BY <1>1, <1>2 DEF CursorInv

\* A step that moves no cursor and forgets no answer keeps the invariant.
LEMMA CursorFrame ==
  ASSUME CursorInv, UNCHANGED <<cursor, at, reply>>,
         appended \subseteq appended', head <= head', head' \in Nat
  PROVE  CursorsSafe'
<1>1. head \in Nat /\ cursor \in Nat
  BY DEF CursorInv, CursorType
<1>2. AccountedBelow(cursor)'
  <2>1. PICK n \in Nat : n = cursor /\ n = cursor'
    BY <1>1
  <2>2. AccountedBelow(n)'
    BY <2>1, <1>1, AccountedStays DEF CursorInv, CursorsSafe
  <2>3. QED
    BY <2>1, <2>2
<1>3. ASSUME NEW r \in Requests
      PROVE  AccountedBelow(at[r])' /\ AccountedBelow(reply[r].from)'
  <2>1. PICK n \in Nat : n = at[r] /\ n = at'[r]
    BY DEF CursorInv, CursorType
  <2>2. PICK k \in Nat : k = reply[r].from /\ k = reply'[r].from
    BY DEF CursorInv, CursorType
  <2>3. AccountedBelow(n)' /\ AccountedBelow(k)'
    BY <2>1, <2>2, <1>1, AccountedStays DEF CursorInv, CursorsSafe
  <2>4. QED
    BY <2>1, <2>2, <2>3
<1>4. QED
  BY <1>2, <1>3 DEF CursorsSafe

\* Every step keeps the cursors' types.
LEMMA TypeStep == CursorInv /\ [Next]_vars => CursorType'
<1> SUFFICES ASSUME CursorInv, [Next]_vars PROVE CursorType'
  OBVIOUS
<1> USE DEF CursorInv
<1>1. CASE Publish
  BY <1>1 DEF Publish, CursorType, requestVars
<1>2. CASE Expire
  BY <1>2 DEF Expire, CursorType, requestVars
<1>3. ASSUME NEW r \in Requests, Begin(r) PROVE CursorType'
  BY <1>3 DEF Begin, BeginAt, CursorType
<1>4. ASSUME NEW r \in Requests, Peek(r) PROVE CursorType'
  <2>1. PICK answer \in PeekReplies(at[r]) : reply' = [reply EXCEPT ![r] = answer]
    BY <1>4 DEF Peek
  <2>2. answer \in [from : Nat \ {0}, to : Nat]
    BY PeekAnswers
  <2>3. reply' \in [Requests -> [from : Nat \ {0}, to : Nat]]
    BY <2>1, <2>2 DEF CursorType
  <2>4. QED
    BY <2>3, <1>4 DEF Peek, CursorType
<1>5. ASSUME NEW r \in Requests, NothingNew(r) PROVE CursorType'
  BY <1>5 DEF NothingNew, Forget, NoReply, CursorType
<1>6. ASSUME NEW r \in Requests, Store(r) PROVE CursorType'
  <2>1. reply[r].to + 1 \in Nat \ {0}
    BY DEF CursorType
  <2>2. Continue(r, reply[r].to - reply[r].from + 1) \in {"current", "waiting", "truncated"}
    BY DEF Continue
  <2>3. QED
    BY <2>1, <2>2, <1>6 DEF Store, StoreAt, Forget, NoReply, CursorType
<1>7. ASSUME NEW r \in Requests, PeekRaises(r) PROVE CursorType'
  BY <1>7 DEF PeekRaises, Forget, NoReply, CursorType
<1>8. CASE UNCHANGED vars
  BY <1>8 DEF vars, requestVars, CursorType
<1>9. QED
  BY <1>1, <1>2, <1>3, <1>4, <1>5, <1>6, <1>7, <1>8 DEF Next

\* Every position a request or the model may be at after a step is one that was
\* safe before it, the first one, or one past an answer just stored.
LEMMA SafeStep == CursorInv /\ [Next]_vars => CursorsSafe'
<1> SUFFICES ASSUME CursorInv, [Next]_vars PROVE CursorsSafe'
  OBVIOUS
<1>0. head \in Nat /\ CursorsSafe /\ CursorType
  BY DEF CursorInv, CursorType
<1>1. AccountedBelow(1)'
  BY DEF AccountedBelow
<1>2. CASE Publish
  BY <1>2, <1>0, CursorFrame DEF Publish, requestVars
<1>3. CASE Expire
  <2>1. head <= head' /\ head' \in Nat
    BY <1>3, <1>0 DEF Expire
  <2>2. QED
    BY <2>1, <1>3, <1>0, CursorFrame DEF Expire, requestVars
<1>4. ASSUME NEW r \in Requests, Begin(r) PROVE CursorsSafe'
  <2>1. UNCHANGED <<head, appended, cursor, reply>> /\ at' = [at EXCEPT ![r] = cursor]
    BY <1>4 DEF Begin, BeginAt
  <2>2. QED
    BY <2>1, <1>0 DEF CursorsSafe, CursorType, AccountedBelow, Accounted
<1>5. ASSUME NEW r \in Requests, Peek(r) PROVE CursorsSafe'
  <2>1. UNCHANGED <<head, appended, cursor, at>>
    BY <1>5 DEF Peek
  <2>2. PICK answer \in PeekReplies(at[r]) : reply' = [reply EXCEPT ![r] = answer]
    BY <1>5 DEF Peek
  <2>3. answer.from = at[r] \/ answer.from = head
    BY <1>0, PeekAnswers
  <2>4. AccountedBelow(answer.from)
    BY <2>3, <1>0 DEF CursorsSafe, AccountedBelow, Accounted
  <2>5. QED
    BY <2>1, <2>2, <2>4, <1>0 DEF CursorsSafe, CursorType, AccountedBelow, Accounted
<1>6. ASSUME NEW r \in Requests, NothingNew(r) PROVE CursorsSafe'
  <2>1. UNCHANGED <<head, appended, cursor, at>> /\ reply' = [reply EXCEPT ![r] = NoReply]
    BY <1>6 DEF NothingNew, Forget
  <2>2. QED
    BY <2>1, <1>0 DEF CursorsSafe, CursorType, AccountedBelow, Accounted, NoReply
<1>7. ASSUME NEW r \in Requests, PeekRaises(r) PROVE CursorsSafe'
  <2>1. UNCHANGED <<head, appended, cursor, at>> /\ reply' = [reply EXCEPT ![r] = NoReply]
    BY <1>7 DEF PeekRaises, Forget
  <2>2. QED
    BY <2>1, <1>0 DEF CursorsSafe, CursorType, AccountedBelow, Accounted, NoReply
<1>8. ASSUME NEW r \in Requests, Store(r) PROVE CursorsSafe'
  <2>1. PICK n \in Nat : n = reply[r].to + 1
    BY <1>0 DEF CursorType
  <2>2. AccountedBelow(n)'
    BY <1>8, <2>1, StoredIsAccounted
  <2>3. /\ cursor' = n /\ at' = [at EXCEPT ![r] = n]
        /\ reply' = [reply EXCEPT ![r] = NoReply]
        /\ head' = head /\ appended \subseteq appended'
    BY <1>8, <2>1 DEF Store, StoreAt, Forget
  <2>4. ASSUME NEW q \in Requests
        PROVE  AccountedBelow(at[q])' /\ AccountedBelow(reply[q].from)'
    <3>1. CASE q = r
      BY <3>1, <2>2, <2>3, <1>0, <1>1 DEF CursorType, NoReply, AccountedBelow, Accounted
    <3>2. CASE q # r
      BY <3>2, <2>3, <1>0 DEF CursorType, CursorsSafe, AccountedBelow, Accounted
    <3>3. QED
      BY <3>1, <3>2
  <2>5. QED
    BY <2>2, <2>3, <2>4 DEF CursorsSafe, AccountedBelow, Accounted
<1>9. CASE UNCHANGED vars
  BY <1>9, <1>0, CursorFrame DEF vars, requestVars
<1>10. QED
  BY <1>2, <1>3, <1>4, <1>5, <1>6, <1>7, <1>8, <1>9 DEF Next

\* The invariant of every state the read model reaches.
THEOREM CursorInvHolds == Spec => []CursorInv
<1>1. CursorInv /\ [Next]_vars => CursorInv'
  BY TypeStep, SafeStep DEF CursorInv
<1>2. QED
  BY CursorInit, <1>1, PTL DEF Spec

\* No request, however the requests interleave, moves the shared cursor past a
\* message that was not read, rejected or expired (services/api/service.py:492-513).
THEOREM NeverSkips == Spec => []NothingSkipped
<1>1. CursorInv => NothingSkipped
  BY DEF CursorInv, CursorsSafe, CursorType, AccountedBelow, NothingSkipped
<1>2. QED
  BY CursorInvHolds, <1>1, PTL
-----------------------------------------------------------------------------
(* A request that was not cut off has read all there was *)

CompleteInv == CursorInv /\ ShortMeansCurrent

\* No request has an answer yet.
LEMMA ShortInit == Init => ShortMeansCurrent
BY DEF Init, ShortMeansCurrent

\* Being accounted for outlasts a step.
LEMMA AccountedStep ==
  ASSUME CursorInv, [Next]_vars, NEW n \in Nat, AccountedBelow(n)
  PROVE  AccountedBelow(n)'
<1>1. head \in Nat
  BY DEF CursorInv, CursorType
<1>2. head' \in Nat
  BY TypeStep DEF CursorType
<1>3. head <= head'
  <2>1. UNCHANGED head \/ Expire
    BY DEF Next, Publish, Begin, BeginAt, Peek, NothingNew, Store, StoreAt, PeekRaises, vars
  <2>2. QED
    BY <1>1, <2>1 DEF Expire
<1>4. appended \subseteq appended'
  BY DEF Next, Publish, Expire, Begin, BeginAt, Peek, NothingNew, Store, StoreAt, PeekRaises,
         vars, requestVars
<1>5. QED
  BY <1>1, <1>2, <1>3, <1>4, AccountedStays

\* Every step keeps what a short answer means, if the broker returns all it has.
LEMMA ShortStep ==
  ASSUME ~ShortPeeks, CompleteInv, [Next]_vars
  PROVE  ShortMeansCurrent'
<1> DEFINE Short(r) ==
             /\ upTo[r] <= last
             /\ pc[r] = "peeking" /\ reply[r].to - reply[r].from + 1 < PeekChunk
                  => upTo[r] <= reply[r].to
             /\ pc[r] = "current" => AccountedBelow(upTo[r] + 1)
<1>0. /\ CursorInv /\ CursorType /\ CursorType' /\ PeekChunk \in Nat \ {0}
      /\ \A q \in Requests : Short(q)
  BY TypeStep, ReadModelAssumption DEF CompleteInv, CursorInv, ShortMeansCurrent
\* A request whose own state does not change keeps its part of the invariant.
<1>1. ASSUME NEW q \in Requests, last' >= last,
             pc'[q] = pc[q], reply'[q] = reply[q], upTo'[q] = upTo[q]
      PROVE  Short(q)'
  <2>1. upTo[q] \in Nat /\ last \in Nat /\ last' \in Nat
    BY <1>0 DEF CursorType
  <2>2. pc[q] = "current" => AccountedBelow(upTo[q] + 1)'
    <3>1. PICK n \in Nat : n = upTo[q] + 1 /\ n = upTo'[q] + 1
      BY <2>1, <1>1
    <3>2. pc[q] = "current" => AccountedBelow(n)'
      BY <3>1, <1>0, AccountedStep
    <3>3. QED
      BY <3>1, <3>2 DEF AccountedBelow, Accounted
  <2>3. QED
    BY <2>1, <2>2, <1>0, <1>1
<1>2. CASE Publish \/ Expire \/ UNCHANGED vars
  <2>1. last' >= last /\ UNCHANGED <<pc, reply, upTo>>
    BY <1>2, <1>0 DEF Publish, Expire, vars, requestVars, CursorType
  <2>2. QED
    BY <2>1, <1>1 DEF ShortMeansCurrent
<1>3. ASSUME NEW r \in Requests,
             Begin(r) \/ Peek(r) \/ NothingNew(r) \/ Store(r) \/ PeekRaises(r)
      PROVE  ShortMeansCurrent'
  <2>1. last' = last /\ last \in Nat
    BY <1>3, <1>0 DEF Begin, BeginAt, Peek, NothingNew, Store, StoreAt, PeekRaises, CursorType
  <2>2. ASSUME NEW q \in Requests, q # r PROVE Short(q)'
    <3>1. pc'[q] = pc[q] /\ reply'[q] = reply[q] /\ upTo'[q] = upTo[q]
      BY <1>3, <2>2, <1>0
      DEF Begin, BeginAt, Peek, NothingNew, Store, StoreAt, PeekRaises, Forget, CursorType
    <3>2. QED
      BY <3>1, <2>1, <1>1
  <2>3. ASSUME Begin(r) PROVE Short(r)'
    BY <2>1, <2>3, <1>0 DEF Begin, BeginAt, CursorType
  <2>4. ASSUME Peek(r) PROVE Short(r)'
    <3>1. PICK answer \in PeekReplies(at[r]) : reply' = [reply EXCEPT ![r] = answer]
      BY <2>4 DEF Peek
    <3>2. answer.to - answer.from + 1 < PeekChunk => answer.to = last
      BY <1>0, PeekAnswers
    <3>3. reply'[r] = answer /\ pc'[r] = "peeking" /\ upTo' = upTo
      BY <3>1, <2>4, <1>0 DEF Peek, CursorType
    <3>4. QED
      BY <3>2, <3>3, <2>1, <1>0
  <2>5. ASSUME NothingNew(r) \/ Store(r) PROVE Short(r)'
    <3>1. PICK n \in Nat : n = reply[r].to + 1
      BY <1>0 DEF CursorType
    <3>2. pc[r] = "peeking" /\ upTo' = upTo /\ pc'[r] # "peeking"
      BY <2>5, <1>0 DEF NothingNew, Store, StoreAt, Continue, CursorType
    <3>3. AccountedBelow(n)'
      <4>1. CASE Store(r)
        BY <4>1, <3>1, <1>0, StoredIsAccounted
      <4>2. CASE NothingNew(r)
        <5>1. n <= reply[r].from
          BY <4>2, <3>1, <1>0 DEF NothingNew, Chunk, CursorType
        <5>2. AccountedBelow(n)
          BY <5>1, <1>0, <3>1 DEF CursorInv, CursorsSafe, CursorType, AccountedBelow
        <5>3. QED
          BY <5>2, <1>0, AccountedStep
      <4>3. QED
        BY <2>5, <4>1, <4>2
    <3>4. pc'[r] = "current" => reply[r].to - reply[r].from + 1 < PeekChunk
      <4>1. CASE Store(r)
        BY <4>1, <1>0 DEF Store, StoreAt, Continue, CursorType
      <4>2. CASE NothingNew(r)
        BY <4>2, <1>0 DEF NothingNew, Chunk, CursorType
      <4>3. QED
        BY <2>5, <4>1, <4>2
    <3>5. pc'[r] = "current" => upTo[r] + 1 <= n
      BY <3>1, <3>2, <3>4, <1>0 DEF CursorType
    <3>6. pc'[r] = "current" => AccountedBelow(upTo[r] + 1)'
      BY <3>3, <3>5, <3>2, <1>0 DEF CursorType, AccountedBelow, Accounted
    <3>7. QED
      BY <3>2, <3>6, <2>1, <1>0
  <2>6. ASSUME PeekRaises(r) PROVE Short(r)'
    BY <2>1, <2>6, <1>0 DEF PeekRaises, CursorType
  <2>7. Short(r)'
    BY <1>3, <2>3, <2>4, <2>5, <2>6
  <2>8. QED
    BY <2>2, <2>7 DEF ShortMeansCurrent
<1>4. QED
  BY <1>2, <1>3 DEF Next

\* When a peek returns all the broker has, up to a full chunk, a request that ends
\* without reaching the chunk cap answers with everything that was on the topic
\* when it began (services/api/service.py:494-515).
THEOREM AnswersAreComplete ==
  ASSUME ~ShortPeeks
  PROVE  Spec => []CurrentIsComplete
<1>1. Init => CompleteInv
  BY CursorInit, ShortInit DEF CompleteInv
<1>2. CompleteInv /\ [Next]_vars => CompleteInv'
  BY TypeStep, SafeStep, ShortStep DEF CompleteInv, CursorInv
<1>3. CompleteInv => CurrentIsComplete
  BY DEF CompleteInv, CursorInv, CursorType, ShortMeansCurrent, AccountedBelow,
         CurrentIsComplete
<1>4. QED
  BY <1>1, <1>2, <1>3, PTL DEF Spec

-----------------------------------------------------------------------------
(* Requests that come one at a time *)

Increasing(s) == \A i, j \in 1..Len(s) : i < j => s[i] < s[j]
Between(s, lo, hi) == \A i \in 1..Len(s) : lo <= s[i] /\ s[i] < hi

\* A listing of a chunk is an increasing sequence of its numbers.
LEMMA OrderedIsIncreasing ==
  ASSUME NEW lo \in Nat, NEW hi \in Nat, NEW S \in SUBSET (lo..hi), NEW s \in Ordered(S)
  PROVE  s \in Seq(Nat) /\ Increasing(s) /\ Between(s, lo, hi + 1)
<1>1. IsFiniteSet(lo..hi)
  BY FS_Interval
<1>2. Cardinality(S) \in Nat
  BY <1>1, FS_Subset, FS_CardinalityType
<1> DEFINE n == Cardinality(S)
<1>3. s \in [1..n -> S] /\ \A i, j \in 1..n : i < j => s[i] < s[j]
  BY DEF Ordered
<1> HIDE DEF n
<1>4. n \in Nat /\ \A k \in S : k \in Nat /\ lo <= k /\ k < hi + 1
  BY <1>2 DEF n
<1>5. s \in [1..n -> Nat] /\ \A i \in 1..n : lo <= s[i] /\ s[i] < hi + 1
  BY <1>3, <1>4
<1>6. s \in Seq(Nat) /\ Len(s) = n
  BY <1>4, <1>5
<1> QED
  BY <1>3, <1>5, <1>6 DEF Increasing, Between

\* Greater numbers are appended to smaller ones.
LEMMA AppendedIncreasing ==
  ASSUME NEW s \in Seq(Nat), NEW t \in Seq(Nat), NEW n \in Nat, NEW m \in Nat, n <= m,
         Increasing(s), Increasing(t), Between(s, 0, n), Between(t, n, m)
  PROVE  s \o t \in Seq(Nat) /\ Increasing(s \o t) /\ Between(s \o t, 0, m)
<1>1. /\ s \o t \in Seq(Nat) /\ Len(s \o t) = Len(s) + Len(t)
      /\ Len(s) \in Nat /\ Len(t) \in Nat
  OBVIOUS
<1>2. \A i \in 1..Len(s) : (s \o t)[i] = s[i] /\ s[i] \in Nat
  OBVIOUS
<1>3. ASSUME NEW i \in 1..(Len(s) + Len(t)), i > Len(s)
      PROVE  i - Len(s) \in 1..Len(t) /\ (s \o t)[i] = t[i - Len(s)] /\ t[i - Len(s)] \in Nat
  BY <1>1, <1>3
<1>4. Between(s \o t, 0, m)
  BY <1>1, <1>2, <1>3 DEF Between
<1>5. ASSUME NEW i \in 1..Len(s \o t), NEW j \in 1..Len(s \o t), i < j
      PROVE  (s \o t)[i] < (s \o t)[j]
  <2>1. CASE j <= Len(s)
    BY <1>1, <1>2, <1>5, <2>1 DEF Increasing
  <2>2. CASE i > Len(s)
    <3>1. /\ i - Len(s) \in 1..Len(t) /\ (s \o t)[i] = t[i - Len(s)]
          /\ j - Len(s) \in 1..Len(t) /\ (s \o t)[j] = t[j - Len(s)]
      BY <1>1, <1>3, <1>5, <2>2
    <3>2. i - Len(s) < j - Len(s)
      BY <1>1, <1>5
    <3> QED
      BY <3>1, <3>2 DEF Increasing
  <2>3. CASE i <= Len(s) /\ j > Len(s)
    <3>1. s[i] < n /\ (s \o t)[i] = s[i] /\ s[i] \in Nat
      BY <1>1, <1>2, <2>3 DEF Between
    <3>2. /\ j - Len(s) \in 1..Len(t) /\ (s \o t)[j] = t[j - Len(s)]
          /\ t[j - Len(s)] \in Nat
      BY <1>1, <1>3, <2>3
    <3>3. n <= t[j - Len(s)]
      BY <3>2 DEF Between
    <3>4. s[i] < t[j - Len(s)]
      <4>1. PICK x \in Nat, y \in Nat : x = s[i] /\ y = t[j - Len(s)]
        BY <3>1, <3>2
      <4>2. x < n /\ n <= y
        BY <3>1, <3>3, <4>1
      <4>3. x < y
        BY <4>2
      <4> QED
        BY <4>1, <4>3
    <3> QED
      BY <3>1, <3>2, <3>4
  <2>4. j <= Len(s) \/ i > Len(s) \/ (i <= Len(s) /\ j > Len(s))
    BY <1>1
  <2> QED
    BY <2>1, <2>2, <2>3, <2>4, Zenon
<1> QED
  BY <1>1, <1>4, <1>5 DEF Increasing

\* What the window drops from its left leaves it increasing and within its bound.
LEMMA TrimmedIncreasing ==
  ASSUME NEW s \in Seq(Nat)
  PROVE  /\ Trim(s) \in Seq(Nat) /\ Len(Trim(s)) <= RecentWindow
         /\ Increasing(s) => Increasing(Trim(s))
         /\ \A n \in Nat : Between(s, 0, n) => Between(Trim(s), 0, n)
<1>1. RecentWindow \in Nat \ {0} /\ Len(s) \in Nat
  BY ReadModelAssumption
<1>2. CASE Len(s) <= RecentWindow
  BY <1>1, <1>2 DEF Trim
<1>3. CASE Len(s) > RecentWindow
  <2> DEFINE d == Len(s) - RecentWindow
             t == SubSeq(s, d + 1, Len(s))
  <2>1. d \in Nat /\ d + RecentWindow = Len(s)
    BY <1>1, <1>3
  <2>2. Trim(s) = t
    BY <1>3 DEF Trim
  <2> HIDE DEF d
  <2>3. t \in Seq(Nat) /\ Len(t) = RecentWindow /\ \A i \in 1..RecentWindow : t[i] = s[i + d]
    BY <1>1, <2>1
  <2> HIDE DEF t
  <2>4. \A i \in 1..RecentWindow : i + d \in 1..Len(s)
    BY <1>1, <2>1
  <2>5. Increasing(s) => Increasing(t)
    BY <1>1, <2>1, <2>3, <2>4 DEF Increasing
  <2>6. \A n \in Nat : Between(s, 0, n) => Between(t, 0, n)
    BY <1>1, <2>3, <2>4 DEF Between
  <2> QED
    BY <1>1, <2>2, <2>3, <2>5, <2>6
<1> QED
  BY <1>1, <1>2, <1>3

\* While no two requests have overlapped, the one in progress is where the shared cursor
\* is, and every message of the window is below it.
InTurn ==
  /\ ~Overlap
  /\ Increasing(recent) /\ Between(recent, 0, cursor)
  /\ \A r \in Requests : InProgress(r) => at[r] = cursor
  /\ \A r \in Requests : pc[r] = "peeking" => cursor <= reply[r].from
TurnInv == recent \in Seq(Nat) /\ (~overlapped => InTurn)

\* The rest of the state that a step of one request leaves alone.
Elsewhere(r) ==
  \A q \in Requests \ {r} : pc'[q] = pc[q] /\ at'[q] = at[q] /\ reply'[q] = reply[q]

LEMMA RequestAlone ==
  ASSUME CursorType, NEW r \in Requests,
         Begin(r) \/ Peek(r) \/ NothingNew(r) \/ Store(r) \/ PeekRaises(r)
  PROVE  Elsewhere(r)
BY DEF Begin, BeginAt, Peek, NothingNew, Store, StoreAt, PeekRaises, Forget, CursorType, Elsewhere

\* A step that leaves window and cursor alone.
LEMMA TurnFrame ==
  ASSUME CursorType, InTurn, UNCHANGED <<recent, cursor>>, NEW r \in Requests, Elsewhere(r), ~Overlap',
         InProgress(r)' => at'[r] = cursor,
         pc'[r] = "peeking" => cursor <= reply'[r].from
  PROVE  InTurn'
<1>1. ASSUME NEW q \in Requests
      PROVE  /\ InProgress(q)' => at'[q] = cursor
             /\ pc'[q] = "peeking" => cursor <= reply'[q].from
  <2>1. CASE q = r
    BY <2>1
  <2>2. CASE q # r
    BY <2>2 DEF InTurn, Elsewhere, InProgress
  <2> QED
    BY <2>1, <2>2
<1> QED
  BY <1>1 DEF InTurn, Increasing, Between

\* A request stores what it read: it is the only one in progress.
LEMMA TurnStore ==
  ASSUME CursorInv, recent \in Seq(Nat), NEW r \in Requests, Store(r)
  PROVE  recent' \in Seq(Nat) /\ (InTurn /\ ~Overlap' => InTurn')
<1>0. CursorType
  BY DEF CursorInv
<1> DEFINE lo == reply[r].from
           hi == reply[r].to
<1>1. lo \in Nat \ {0} /\ hi \in Nat /\ cursor \in Nat \ {0}
  BY <1>0 DEF CursorType
<1>2. PICK valid \in Ordered(Chunk(r) \ Invalid) : recent' = Trim(recent \o valid)
  BY DEF Store, StoreAt
<1>3. Chunk(r) = lo..hi /\ Chunk(r) # {} /\ pc[r] = "peeking"
  BY DEF Store, StoreAt, Chunk
<1>4. /\ cursor' = hi + 1 /\ at' = [at EXCEPT ![r] = hi + 1]
      /\ pc'[r] # "peeking"
  <2>1. \A size : Continue(r, size) # "peeking"
    BY DEF Continue
  <2> QED
    BY <1>0, <2>1 DEF Store, StoreAt, CursorType
<1> HIDE DEF lo, hi
<1>5. valid \in Seq(Nat) /\ Increasing(valid) /\ Between(valid, lo, hi + 1) /\ lo <= hi
  <2>1. (Chunk(r) \ Invalid) \in SUBSET (lo..hi) /\ lo <= hi
    BY <1>1, <1>3
  <2> QED
    BY <1>1, <2>1, OrderedIsIncreasing
<1>6. recent \o valid \in Seq(Nat)
  BY <1>5
<1>7. recent' \in Seq(Nat)
  BY <1>2, <1>6, TrimmedIncreasing
<1>8. ASSUME InTurn, ~Overlap' PROVE InTurn'
  <2>1. /\ cursor <= lo /\ Increasing(recent) /\ Between(recent, 0, cursor)
    BY <1>3, <1>8 DEF InTurn, lo
  <2>2. Between(recent, 0, lo)
    <3>1. \A i \in 1..Len(recent) : recent[i] \in Nat
      OBVIOUS
    <3> QED
      BY <1>1, <2>1, <3>1 DEF Between
  <2>3. Increasing(recent \o valid) /\ Between(recent \o valid, 0, hi + 1)
    BY <1>1, <1>5, <2>1, <2>2, AppendedIncreasing
  <2>4. Increasing(recent') /\ Between(recent', 0, hi + 1)
    <3> DEFINE s == recent \o valid
    <3>1. s \in Seq(Nat) /\ Increasing(s) /\ Between(s, 0, hi + 1) /\ hi + 1 \in Nat
      BY <1>1, <1>6, <2>3
    <3>2. recent' = Trim(s)
      BY <1>2
    <3> HIDE DEF s
    <3>3. Increasing(Trim(s)) /\ Between(Trim(s), 0, hi + 1)
      BY <3>1, TrimmedIncreasing
    <3> QED
      BY <3>2, <3>3
  <2>5. ASSUME NEW q \in Requests
        PROVE  (InProgress(q)' => at'[q] = cursor') /\ pc'[q] # "peeking"
    <3>1. CASE q = r
      BY <1>0, <1>4, <3>1 DEF CursorType
    <3>2. CASE q # r
      <4>1. ~InProgress(q)
        BY <1>3, <1>8, <3>2 DEF InTurn, Overlap, InProgress
      <4>2. pc'[q] = pc[q]
        BY <1>0, <3>2, RequestAlone DEF Elsewhere
      <4> QED
        BY <4>1, <4>2 DEF InProgress
    <3> QED
      BY <3>1, <3>2
  <2> QED
    BY <1>4, <1>8, <2>4, <2>5 DEF InTurn, Increasing, Between
<1> QED
  BY <1>7, <1>8

\* An answer starts no earlier than it was asked for.
LEMMA PeekStartsLater ==
  ASSUME CursorType, NEW r \in Requests, NEW answer \in PeekReplies(at[r])
  PROVE  at[r] <= answer.from
<1> DEFINE lo == IF at[r] > head THEN at[r] ELSE head
<1>1. at[r] \in Nat /\ head \in Nat
  BY DEF CursorType
<1>2. at[r] <= lo
  BY <1>1
<1>3. answer.from = lo
  BY DEF PeekReplies
<1> QED
  BY <1>2, <1>3

\* Every step keeps the requests in turn, until two of them overlap.
LEMMA TurnStep ==
  ASSUME CursorInv, TurnInv, [MCNext]_<<vars, overlapped>>
  PROVE  TurnInv'
<1>0. CursorType
  BY DEF CursorInv
<1>1. CASE UNCHANGED <<vars, overlapped>>
  BY <1>1 DEF TurnInv, InTurn, Overlap, InProgress, Increasing, Between, vars, requestVars
<1>2. CASE MCNext
  <2>1. Next /\ (~overlapped' => ~overlapped /\ ~Overlap')
    BY <1>2 DEF MCNext
  <2>2. CASE Publish \/ Expire
    BY <2>1, <2>2 DEF Publish, Expire, requestVars, TurnInv, InTurn, InProgress, Increasing, Between
  <2>3. ASSUME NEW r \in Requests, Store(r) PROVE TurnInv'
    BY <2>1, <2>3, TurnStore DEF TurnInv
  <2>4. ASSUME NEW r \in Requests, Begin(r) \/ Peek(r) \/ NothingNew(r) \/ PeekRaises(r)
        PROVE  TurnInv'
    <3>1. UNCHANGED <<recent, cursor>> /\ Elsewhere(r)
      BY <1>0, <2>4, RequestAlone DEF Begin, BeginAt, Peek, NothingNew, PeekRaises
    <3>2. ASSUME InTurn PROVE /\ InProgress(r)' => at'[r] = cursor
                              /\ pc'[r] = "peeking" => cursor <= reply'[r].from
      <4>1. CASE Begin(r)
        BY <1>0, <4>1 DEF Begin, BeginAt, CursorType
      <4>2. CASE Peek(r)
        <5>1. at'[r] = at[r] /\ at[r] = cursor
          BY <3>2, <4>2 DEF Peek, InTurn, InProgress
        <5>2. PICK answer \in PeekReplies(at[r]) : reply' = [reply EXCEPT ![r] = answer]
          BY <4>2 DEF Peek
        <5>3. reply'[r] = answer
          BY <1>0, <5>2 DEF CursorType
        <5> QED
          BY <1>0, <5>1, <5>3, PeekStartsLater
      <4>3. CASE NothingNew(r) \/ PeekRaises(r)
        BY <1>0, <4>3 DEF NothingNew, PeekRaises, CursorType, InProgress
      <4> QED
        BY <2>4, <4>1, <4>2, <4>3
    <3> QED
      BY <1>0, <2>1, <3>1, <3>2, TurnFrame DEF TurnInv
  <2> QED
    BY <2>1, <2>2, <2>3, <2>4 DEF Next
<1> QED
  BY <1>1, <1>2

\* The read model with the history of overlaps makes no step of its own.
LEMMA HistoryOnly == [MCNext]_<<vars, overlapped>> => [Next]_vars
BY DEF MCNext

\* While requests come one at a time the window is oldest first and holds each message
\* once, for any sizes of chunk and window, and whatever expires, is rejected or raises
\* (services/api/service.py:492-525): the window ends below the cursor, from which the
\* next answer starts.
THEOREM SequentialWindow == MCSpec => []SequentialInOrder
<1>1. MCInit => CursorInv /\ TurnInv
  <2>1. MCInit => TurnInv
    BY DEF MCInit, Init, TurnInv, InTurn, Overlap, InProgress, Increasing, Between
  <2> QED
    BY <2>1, CursorInit DEF MCInit
<1>2. CursorInv /\ TurnInv /\ [MCNext]_<<vars, overlapped>> => CursorInv' /\ TurnInv'
  BY HistoryOnly, TypeStep, SafeStep, TurnStep DEF CursorInv
<1>3. TurnInv => SequentialInOrder
  <2>1. ASSUME recent \in Seq(Nat), Increasing(recent) PROVE OldestFirst /\ ReadOnce
    <3>1. \A i \in 1..Len(recent) : recent[i] \in Nat
      BY <2>1
    <3>2. \A i, j \in 1..Len(recent) : i # j => i < j \/ j < i
      OBVIOUS
    <3>3. \A i, j \in 1..Len(recent) : i < j => recent[i] < recent[j]
      BY <2>1 DEF Increasing
    <3>4. OldestFirst
      BY <3>1, <3>3 DEF OldestFirst
    <3>5. ASSUME NEW i \in 1..Len(recent), NEW j \in 1..Len(recent), i # j
          PROVE  recent[i] # recent[j]
      <4>1. recent[i] < recent[j] \/ recent[j] < recent[i]
        BY <3>2, <3>3, <3>5, Zenon
      <4> QED
        BY <3>1, <4>1
    <3> QED
      BY <3>4, <3>5 DEF ReadOnce
  <2> QED
    BY <2>1 DEF TurnInv, InTurn, SequentialInOrder
<1> QED
  BY <1>1, <1>2, <1>3, PTL DEF MCSpec
=============================================================================
