--------------------------- MODULE LibrariesProofs ---------------------------
(***************************************************************************)
(* What the small components keep, for every value of their constants: an  *)
(* app that ends has released what it held; a run of the feed that returns *)
(* has published what it was given, and a cycle of the news polls what it  *)
(* found; replay completes no dead letter without a replacement and loses  *)
(* no body; the dicts of InMemoryCache implement the cache contract, for   *)
(* any keys, values and lifetimes and however long they are used; and a    *)
(* document that is cut into chunks is kept, in chunks within the limits.  *)
(***************************************************************************)
EXTENDS MCLibraries, FiniteSetTheorems, WellFoundedInduction, SequenceTheorems, TLAPS

-----------------------------------------------------------------------------
(* The dicts of the cache *)

\* set_snapshot stores dicts only.
SnapshotsAreValues == \A k \in SnapshotKeys : store[k] # None

Inv == CacheTypeOK /\ SnapshotsAreValues

-----------------------------------------------------------------------------
(* What a dict entry stands for *)

LEMMA HeldAbsent ==
  ASSUME NEW k \in CacheKeys, store[k] = Absent \/ IsExpired(k)
  PROVE  Held[k] = Absent
BY DEF Held

LEMMA HeldPresent ==
  ASSUME Inv, NEW k \in CacheKeys, store[k] # Absent, ~IsExpired(k)
  PROVE  /\ Held[k] # Absent
         /\ Held[k].value = store[k]
         /\ Held[k].left = IF expiry[k] = NoTtl THEN NoTtl ELSE expiry[k] - now
<1> DEFINE left == IF expiry[k] = NoTtl THEN NoTtl ELSE expiry[k] - now
<1>1. Held[k] = [value |-> store[k], left |-> left]
  BY DEF Held
<1>2. left \in Int \cup {NoTtl}
  BY CacheAssumption DEF Inv, CacheTypeOK
<1>3. store[k] \in Values \cup {None}
  BY DEF Inv, CacheTypeOK
<1>4. Held[k] \in [value : Values \cup {None}, left : Int \cup {NoTtl}]
  BY <1>1, <1>2, <1>3
<1>5. QED
  BY <1>1, <1>4, CacheAssumption

\* An entry is present in the contract exactly when the dict has it and it lives.
LEMMA PresentIffHeld ==
  ASSUME Inv, NEW k \in CacheKeys
  PROVE  Held[k] = Absent <=> store[k] = Absent \/ IsExpired(k)
BY HeldAbsent, HeldPresent

\* Popping keys that are absent or expired changes nothing a caller sees.
LEMMA PopIsInvisible ==
  ASSUME Inv, NEW K, Pop(K), UNCHANGED now,
         \A k \in K \cap CacheKeys : store[k] = Absent \/ IsExpired(k)
  PROVE  Held' = Held
<1>1. ASSUME NEW k \in CacheKeys, k \in K
      PROVE  Held'[k] = Held[k]
  <2>1. Held[k] = Absent
    BY <1>1, HeldAbsent
  <2>2. store'[k] = Absent
    BY <1>1 DEF Pop
  <2>3. Held'[k] = Absent
    BY <2>2 DEF Held
  <2>4. QED
    BY <2>1, <2>3
<1>2. ASSUME NEW k \in CacheKeys, k \notin K
      PROVE  Held'[k] = Held[k]
  BY <1>2 DEF Pop, Held, IsExpired
<1>3. Held' = [k \in CacheKeys |-> Held'[k]] /\ Held = [k \in CacheKeys |-> Held[k]]
  BY DEF Held
<1>4. QED
  BY <1>1, <1>2, <1>3

\* Storing a value replaces the entry, its lifetime included.
LEMMA PutIsHold ==
  ASSUME Inv, NEW k \in CacheKeys, NEW v \in Values \cup {None}, NEW ttl \in Lifetimes,
         Put(k, v, ttl), UNCHANGED now
  PROVE  Redis!Hold(k, v, ttl)
<1>1. v # Absent
  BY CacheAssumption
<1>2. store'[k] = v /\ expiry'[k] = IF ttl = NoTtl THEN NoTtl ELSE now + ttl
  BY DEF Put, Inv, CacheTypeOK
<1>3. Held'[k] = [value |-> v, left |-> ttl]
  <2>1. CASE ttl = NoTtl
    BY <1>1, <1>2, <2>1 DEF Held, IsExpired
  <2>2. CASE ttl # NoTtl
    <3>1. ttl \in Nat /\ now \in Nat /\ now + ttl # NoTtl
      <4>1. ttl \in Nat /\ now \in Nat
        BY <2>2, CacheAssumption DEF Inv, CacheTypeOK, Lifetimes
      <4>2. now + ttl \in Int /\ NoTtl \notin Int
        BY <4>1, CacheAssumption
      <4> QED
        BY <4>1, <4>2
    <3>2. ~(now > now + ttl) /\ (now + ttl) - now = ttl
      BY <3>1
    <3>3. expiry'[k] = now + ttl
      BY <1>2, <2>2
    <3>4. QED
      BY <1>1, <1>2, <3>1, <3>2, <3>3 DEF Held, IsExpired
  <2>3. QED
    BY <2>1, <2>2
<1>4. ASSUME NEW j \in CacheKeys, j # k
      PROVE  Held'[j] = Held[j]
  BY <1>4 DEF Put, Held, IsExpired, Inv, CacheTypeOK
<1>5. Held' = [j \in CacheKeys |-> Held'[j]] /\ Held = [j \in CacheKeys |-> Held[j]]
  BY DEF Held
<1>6. QED
  BY <1>3, <1>4, <1>5 DEF Redis!Hold

-----------------------------------------------------------------------------
(* The invariant *)

LEMMA PopKeepsInv ==
  ASSUME Inv, NEW K, Pop(K), UNCHANGED now
  PROVE  Inv'
<1>1. CacheTypeOK'
  BY DEF Inv, CacheTypeOK, Pop
<1>2. SnapshotsAreValues'
  BY CacheAssumption DEF Inv, SnapshotsAreValues, Pop, CacheKeys
<1>3. QED
  BY <1>1, <1>2 DEF Inv

LEMMA PutKeepsInv ==
  ASSUME Inv, NEW k \in CacheKeys, NEW v \in Values \cup {None}, NEW ttl \in Lifetimes,
         Put(k, v, ttl), UNCHANGED now, k \in SnapshotKeys => v # None
  PROVE  Inv'
<1> DEFINE expires == IF ttl = NoTtl THEN NoTtl ELSE now + ttl
<1>1. store' = [store EXCEPT ![k] = v] /\ expiry' = [expiry EXCEPT ![k] = expires]
  BY DEF Put
<1>2. expires \in Int \cup {NoTtl}
  <2>1. now \in Nat /\ (ttl = NoTtl \/ ttl \in Nat)
    BY CacheAssumption DEF Lifetimes, Inv, CacheTypeOK
  <2>2. CASE ttl = NoTtl
    BY <2>2
  <2>3. CASE ttl # NoTtl
    <3>1. now + ttl \in Int
      BY <2>1, <2>3
    <3>2. QED
      BY <2>3, <3>1
  <2>4. QED
    BY <2>2, <2>3
<1> HIDE DEF expires
<1>3. CacheTypeOK'
  BY <1>1, <1>2 DEF Inv, CacheTypeOK
<1>4. SnapshotsAreValues'
  BY <1>1 DEF Inv, CacheTypeOK, SnapshotsAreValues, CacheKeys
<1>5. QED
  BY <1>3, <1>4 DEF Inv

-----------------------------------------------------------------------------
(* Each operation is the contract's *)

LEMMA GetRefines ==
  ASSUME Inv, NEW k \in CacheKeys, Get(k)
  PROVE  Inv' /\ Redis!Get(k)
<1>1. CASE IsExpired(k)
  <2>1. Pop({k}) /\ UNCHANGED now /\ answer' = {}
    BY <1>1 DEF Get
  <2>2. Held' = Held
    BY <1>1, <2>1, PopIsInvisible
  <2>3. Held[k] = Absent
    BY <1>1, HeldAbsent
  <2>4. QED
    BY <2>1, <2>2, <2>3, PopKeepsInv DEF Redis!Get
<1>2. CASE ~IsExpired(k)
  <2>1. UNCHANGED <<store, expiry, now>> /\ answer' = {store[k]} \ {None, Absent}
    BY <1>2 DEF Get
  <2>2. Held' = Held
    BY <2>1 DEF Held, IsExpired
  <2>3. Inv'
    BY <2>1 DEF Inv, CacheTypeOK, SnapshotsAreValues
  <2>4. CASE store[k] = Absent
    BY <2>1, <2>2, <2>3, <2>4, HeldAbsent DEF Redis!Get
  <2>5. CASE store[k] # Absent
    <3>1. Held[k] # Absent /\ Held[k].value = store[k]
      BY <1>2, <2>5, HeldPresent
    <3>2. answer' = {Held[k].value} \ {None}
      BY <2>1, <2>5, <3>1
    <3>3. QED
      BY <2>2, <2>3, <3>1, <3>2 DEF Redis!Get
  <2>6. QED
    BY <2>4, <2>5
<1>3. QED
  BY <1>1, <1>2

LEMMA SetRefines ==
  ASSUME Inv, NEW k \in CacheKeys, NEW v \in Values \cup {None}, NEW ttl \in Lifetimes,
         Set(k, v, ttl), k \in SnapshotKeys => v # None
  PROVE  Inv' /\ Redis!Set(k, v, ttl)
BY PutKeepsInv, PutIsHold DEF Set, Redis!Set

LEMMA SetIfAbsentRefines ==
  ASSUME Inv, NEW k \in CacheKeys, NEW v \in Values \cup {None}, NEW ttl \in Lifetimes,
         SetIfAbsent(k, v, ttl), k \in SnapshotKeys => v # None
  PROVE  Inv' /\ Redis!SetIfAbsent(k, v, ttl)
<1>1. CASE store[k] = Absent \/ IsExpired(k)
  <2>1. Put(k, v, ttl) /\ UNCHANGED now /\ answer' = {k}
    BY <1>1 DEF SetIfAbsent
  <2>2. QED
    BY <1>1, <2>1, PutKeepsInv, PutIsHold, HeldAbsent DEF Redis!SetIfAbsent
<1>2. CASE ~(store[k] = Absent \/ IsExpired(k))
  <2>1. UNCHANGED <<store, expiry, now>> /\ answer' = {}
    BY <1>2 DEF SetIfAbsent
  <2>2. Held' = Held
    BY <2>1 DEF Held, IsExpired
  <2>3. Held[k] # Absent
    BY <1>2, PresentIffHeld
  <2>4. Inv'
    BY <2>1 DEF Inv, CacheTypeOK, SnapshotsAreValues
  <2>5. QED
    BY <2>1, <2>2, <2>3, <2>4 DEF Redis!SetIfAbsent
<1>3. QED
  BY <1>1, <1>2

LEMMA DeleteRefines ==
  ASSUME Inv, NEW k \in CacheKeys, Delete(k)
  PROVE  Inv' /\ Redis!Delete(k)
<1>1. Pop({k}) /\ UNCHANGED now /\ answer' = {}
  BY DEF Delete
<1>2. Held'[k] = Absent
  BY <1>1 DEF Pop, Held
<1>3. ASSUME NEW j \in CacheKeys, j # k
      PROVE  Held'[j] = Held[j]
  BY <1>1, <1>3 DEF Pop, Held, IsExpired
<1>4. Held' = [j \in CacheKeys |-> Held'[j]] /\ Held = [j \in CacheKeys |-> Held[j]]
  BY DEF Held
<1>5. Held' = [Held EXCEPT ![k] = Absent]
  BY <1>2, <1>3, <1>4
<1>6. QED
  BY <1>1, <1>5, PopKeepsInv DEF Redis!Delete

LEMMA ListRefines ==
  ASSUME Inv, ListSnapshotSymbols
  PROVE  Inv' /\ Redis!ListSnapshotSymbols
<1> DEFINE K == {k \in SnapshotKeys : IsExpired(k)}
<1>1. Pop(K) /\ UNCHANGED now
  BY DEF ListSnapshotSymbols
<1>2. Held' = Held
  BY <1>1, PopIsInvisible
<1>3. \A k \in SnapshotKeys :
        store[k] \notin {None, Absent} /\ ~IsExpired(k) <=> Held[k] # Absent
  BY PresentIffHeld DEF Inv, SnapshotsAreValues, CacheKeys
<1>4. answer' = {k \in SnapshotKeys : Held[k] # Absent}
  BY <1>3 DEF ListSnapshotSymbols
<1>5. QED
  BY <1>1, <1>2, <1>4, PopKeepsInv DEF Redis!ListSnapshotSymbols

\* A second takes one off every lifetime, and the entries whose last it was.
LEMMA SecondRefines ==
  ASSUME Inv, Second
  PROVE  Inv' /\ Redis!Second
<1>1. UNCHANGED <<store, expiry, answer>> /\ now' = now + 1 /\ now \in Nat
  BY DEF Second, Inv, CacheTypeOK
<1>2. ASSUME NEW k \in CacheKeys
      PROVE  Held'[k] = Redis!Aged(Held[k])
  <2>0. expiry[k] \in Int \cup {NoTtl}
    BY DEF Inv, CacheTypeOK
  <2>1. CASE store[k] = Absent \/ IsExpired(k)
    <3>1. store'[k] = Absent \/ IsExpired(k)'
      BY <1>1, <2>0, <2>1, CacheAssumption DEF IsExpired
    <3>2. Held'[k] = Absent
      BY <3>1 DEF Held
    <3>3. QED
      BY <2>1, <3>2, HeldAbsent DEF Redis!Aged
  <2>2. CASE store[k] # Absent /\ ~IsExpired(k)
    <3>1. /\ Held[k] = [value |-> store[k],
                        left |-> IF expiry[k] = NoTtl THEN NoTtl ELSE expiry[k] - now]
          /\ Held[k] # Absent
      BY <2>2, HeldPresent DEF Held
    <3>2. CASE expiry[k] = NoTtl
      <4>1. Held'[k] = Held[k]
        BY <1>1, <2>2, <3>2 DEF Held, IsExpired
      <4>2. QED
        BY <3>1, <3>2, <4>1 DEF Redis!Aged
    <3>3. CASE expiry[k] # NoTtl
      <4>1. expiry[k] \in Int /\ expiry[k] >= now /\ expiry[k] - now # NoTtl
        BY <1>1, <2>0, <2>2, <3>3, CacheAssumption DEF IsExpired
      <4>2. CASE expiry[k] = now
        <5>1. Held'[k] = Absent
          BY <1>1, <3>3, <4>1, <4>2 DEF Held, IsExpired
        <5>2. Held[k].left = 0 /\ NoTtl # 0
          BY <3>1, <3>3, <4>1, <4>2, CacheAssumption
        <5>3. QED
          BY <3>1, <5>1, <5>2 DEF Redis!Aged
      <4>3. CASE expiry[k] # now
        <5>1. ~IsExpired(k)'
          BY <1>1, <4>1, <4>3 DEF IsExpired
        <5>2. Held'[k] = [value |-> store[k], left |-> expiry[k] - (now + 1)]
          BY <1>1, <2>2, <3>3, <5>1 DEF Held
        <5>3. Held[k] = [value |-> store[k], left |-> expiry[k] - now]
          BY <3>1, <3>3
        <5>4. [Held[k] EXCEPT !.left = @ - 1]
                = [value |-> store[k], left |-> (expiry[k] - now) - 1]
          BY <5>3
        <5>5. (expiry[k] - now) - 1 = expiry[k] - (now + 1) /\ expiry[k] - now # 0
          BY <1>1, <4>1, <4>3
        <5>6. QED
          BY <3>1, <4>1, <5>2, <5>3, <5>4, <5>5 DEF Redis!Aged
      <4>4. QED
        BY <4>2, <4>3
    <3>4. QED
      BY <3>2, <3>3
  <2>3. QED
    BY <2>1, <2>2
<1>3. Held' = [k \in CacheKeys |-> Held'[k]]
  BY DEF Held
<1>4. Held' = [k \in CacheKeys |-> Redis!Aged(Held[k])]
  BY <1>2, <1>3
<1>5. Inv'
  BY <1>1 DEF Inv, CacheTypeOK, SnapshotsAreValues
<1>6. QED
  BY <1>1, <1>4, <1>5 DEF Redis!Second, Redis!CacheKeys, CacheKeys

-----------------------------------------------------------------------------
(* The theorem *)

LEMMA InitRefines == CacheInit => Inv /\ Redis!Init
<1> SUFFICES ASSUME CacheInit PROVE Inv /\ Redis!Init
  OBVIOUS
<1>1. Inv
  BY CacheAssumption DEF CacheInit, Inv, CacheTypeOK, SnapshotsAreValues, CacheKeys
<1>2. Held = [k \in CacheKeys |-> Absent]
  BY DEF CacheInit, Held
<1>3. QED
  BY <1>1, <1>2 DEF CacheInit, Redis!Init, Redis!CacheKeys, CacheKeys

LEMMA StepRefines ==
  ASSUME Inv, [CacheNext]_cacheVars
  PROVE  Inv' /\ [Redis!Next]_Redis!cacheVars
<1>0. \A k \in SnapshotKeys \cup OtherKeys : k \in CacheKeys
  BY DEF CacheKeys
<1>1. CASE UNCHANGED cacheVars
  BY <1>1 DEF cacheVars, Redis!cacheVars, Inv, CacheTypeOK, SnapshotsAreValues, Held, IsExpired
<1>2. ASSUME NEW k \in CacheKeys, Get(k)
      PROVE  Inv' /\ Redis!Next
  BY <1>2, GetRefines DEF Redis!Next, Redis!CacheKeys, CacheKeys
<1>3. ASSUME NEW k \in SnapshotKeys, NEW v \in Values, Set(k, v, NoTtl)
      PROVE  Inv' /\ Redis!Next
  <2>1. NoTtl \in Lifetimes /\ v # None
    BY CacheAssumption DEF Lifetimes
  <2>2. QED
    BY <1>0, <1>3, <2>1, SetRefines DEF Redis!Next
<1>4. ASSUME NEW k \in OtherKeys, NEW v \in Values \cup {None}, NEW ttl \in Lifetimes,
             Set(k, v, ttl) \/ SetIfAbsent(k, v, ttl)
      PROVE  Inv' /\ Redis!Next
  <2>1. k \notin SnapshotKeys
    BY CacheAssumption
  <2>2. Inv' /\ (Redis!Set(k, v, ttl) \/ Redis!SetIfAbsent(k, v, ttl))
    BY <1>0, <1>4, <2>1, SetRefines, SetIfAbsentRefines
  <2>3. QED
    BY <2>2 DEF Redis!Next, Redis!Lifetimes, Lifetimes
<1>5. ASSUME NEW k \in OtherKeys, Delete(k)
      PROVE  Inv' /\ Redis!Next
  BY <1>0, <1>5, DeleteRefines DEF Redis!Next
<1>6. CASE ListSnapshotSymbols
  BY <1>6, ListRefines DEF Redis!Next
<1>7. CASE Second
  BY <1>7, SecondRefines DEF Redis!Next
<1>8. QED
  BY <1>1, <1>2, <1>3, <1>4, <1>5, <1>6, <1>7 DEF CacheNext

\* No caller can tell InMemoryCache from Redis (redis_client.py:203-204): every run of
\* the dicts, with their lazy expiry, is a run of the contract.
THEOREM DictsImplementRedis == CacheSpec => ImplementsRedis
<1>1. CacheInit => Inv /\ Redis!Init
  BY InitRefines
<1>2. Inv /\ [CacheNext]_cacheVars => Inv' /\ [Redis!Next]_Redis!cacheVars
  BY StepRefines
<1>3. QED
  BY <1>1, <1>2, PTL DEF CacheSpec, ImplementsRedis, Redis!Spec

-----------------------------------------------------------------------------
(* The life of an app *)

\* Where the app is in its life says what has become of its worker, its backends and
\* its log sink.
LifespanInv ==
  /\ nextClose \in Nat \ {0} /\ nextClose <= Len(Backends) + 1
  /\ tried = {Backends[i] : i \in 1..nextClose - 1}
  /\ app = "api" => worker = "none"
  /\ phase = "start" => worker = "none"
  /\ phase = "awaiting" => worker = "running"
  /\ worker = "raised" => phase = "ended"
  /\ phase \in {"closing", "sink", "ended"} =>
       worker # "running" /\ (worker = "failed" => reported = TRUE)
  /\ phase \in {"sink", "ended"} /\ worker # "raised" => nextClose = Len(Backends) + 1
  /\ phase = "ended" /\ worker # "raised" => sinkOpen = FALSE

LEMMA BackendsAreListed == Len(Backends) \in Nat /\ DOMAIN Backends = 1..Len(Backends)
BY LifespanAssumption

LEMMA LifespanStep ==
  ASSUME LifespanInv, [LifespanNext]_lifespanVars
  PROVE  LifespanInv'
<1>1. CASE StartUp
  BY <1>1 DEF StartUp, Enter, LeavesBackends, LifespanInv
<1>2. CASE WorkerEnds
  BY <1>2 DEF WorkerEnds, Enter, LeavesBackends, LifespanInv
<1>3. CASE StopServing
  BY <1>3 DEF StopServing, Enter, LeavesBackends, LifespanInv
<1>4. CASE StopWorker
  BY <1>4 DEF StopWorker, Enter, LeavesBackends, LifespanInv
<1>5. CASE WorkerStops
  BY <1>5 DEF WorkerStops, Enter, LeavesBackends, LifespanInv
<1>6. CASE CloseBackend
  <2>1. nextClose' \in Nat \ {0} /\ nextClose' <= Len(Backends) + 1
    <3>1. nextClose' = nextClose + 1 /\ nextClose <= Len(Backends)
      BY <1>6 DEF CloseBackend
    <3>2. nextClose \in Nat \ {0} /\ Len(Backends) \in Nat
      BY BackendsAreListed DEF LifespanInv
    <3> QED
      BY <3>1, <3>2
  <2>2. tried' = {Backends[i] : i \in 1..nextClose' - 1}
    <3>1. nextClose \in Nat \ {0} /\ nextClose' - 1 = nextClose
      BY <1>6 DEF CloseBackend, LifespanInv
    <3>2. 1..nextClose = (1..nextClose - 1) \cup {nextClose}
      BY <3>1
    <3> QED
      BY <1>6, <3>1, <3>2 DEF CloseBackend, LifespanInv
  <2>3. phase = "closing" /\ UNCHANGED <<app, phase, worker, reported, sinkOpen>>
    BY <1>6 DEF CloseBackend
  <2> QED
    BY <2>1, <2>2, <2>3 DEF LifespanInv
<1>7. CASE BackendsClosed
  <2>1. nextClose = Len(Backends) + 1
    BY <1>7, BackendsAreListed DEF BackendsClosed, LifespanInv
  <2> QED
    BY <1>7, <2>1 DEF BackendsClosed, Enter, LeavesBackends, LifespanInv
<1>8. CASE CloseLogSink
  BY <1>8 DEF CloseLogSink, Enter, LifespanInv
<1>9. CASE UNCHANGED lifespanVars
  BY <1>9 DEF lifespanVars, LifespanInv
<1> QED
  BY <1>1, <1>2, <1>3, <1>4, <1>5, <1>6, <1>7, <1>8, <1>9 DEF LifespanNext

\* An app that is gone has reported its worker's failure, closed every backend, however
\* many there are and whichever failed, and its log sink (service_app.py:65-115):
\* unless its worker answered the cancellation with an exception of its own.
THEOREM EverythingReleased == LifespanSpec => []ShutdownReleases
<1>1. LifespanInit => LifespanInv
  <2>1. {Backends[i] : i \in 1..0} = {}
    OBVIOUS
  <2> QED
    BY <2>1, BackendsAreListed DEF LifespanInit, LifespanInv
<1>2. LifespanInv /\ [LifespanNext]_lifespanVars => LifespanInv'
  BY LifespanStep
<1>3. LifespanInv => ShutdownReleases
  <2>1. ASSUME LifespanInv, phase = "ended", worker # "raised"
        PROVE  tried = {Backends[i] : i \in DOMAIN Backends}
    <3>1. nextClose - 1 = Len(Backends)
      BY <2>1, BackendsAreListed DEF LifespanInv
    <3> QED
      BY <2>1, <3>1, BackendsAreListed DEF LifespanInv
  <2> QED
    BY <2>1 DEF LifespanInv, ShutdownReleases
<1> QED
  BY <1>1, <1>2, <1>3, PTL DEF LifespanSpec

-----------------------------------------------------------------------------
(* The topic *)

\* An id says which body it was made of, and the duplicate window holds ids of accepted
\* messages.
Ids == [body : Nat, suffixes : Seq(Nat)]
TopicInv ==
  /\ log \in Seq([id : Ids, body : Nat])
  /\ \A j \in DOMAIN log : log[j].id.body = log[j].body
  /\ \A id \in seen : \E j \in DOMAIN log : log[j].id = id

\* Whether a publish is accepted or dropped as a duplicate, the topic has afterwards
\* accepted a message of that id and body, and what it had accepted before.
LEMMA PublishAccepts ==
  ASSUME TopicInv, NEW id \in Ids, NEW body \in Nat, id.body = body, Publish(id, body)
  PROVE  /\ TopicInv'
         /\ \E j \in DOMAIN log' : log'[j].id = id /\ log'[j].body = body
         /\ \A j \in DOMAIN log : j \in DOMAIN log' /\ log'[j] = log[j]
<1>1. CASE id \in seen /\ UNCHANGED busVars
  BY <1>1 DEF TopicInv, busVars
<1>2. CASE /\ log' = Append(log, [id |-> id, body |-> body])
           /\ seen' = IF Deduplicates THEN seen \cup {id} ELSE seen
  <2> DEFINE m == [id |-> id, body |-> body]
             last == Len(log) + 1
  <2>1. m \in [id : Ids, body : Nat] /\ m.id = id /\ m.body = body
    OBVIOUS
  <2> HIDE DEF m
  <2>2. log \in Seq([id : Ids, body : Nat]) /\ log' = Append(log, m)
    BY <1>2 DEF TopicInv, m
  <2>3. /\ log' \in Seq([id : Ids, body : Nat])
        /\ DOMAIN log = 1..Len(log) /\ DOMAIN log' = 1..last /\ Len(log) \in Nat
        /\ log'[last] = m /\ \A j \in 1..Len(log) : log'[j] = log[j]
    BY <2>1, <2>2
  <2>4. \A j \in DOMAIN log : j \in DOMAIN log' /\ log'[j] = log[j]
    BY <2>3
  <2>5. last \in DOMAIN log' /\ \A j \in DOMAIN log' : j \in DOMAIN log \/ j = last
    BY <2>3
  <2> HIDE DEF last
  <2>6. \A j \in DOMAIN log' : log'[j].id.body = log'[j].body
    BY <2>1, <2>3, <2>4, <2>5 DEF TopicInv
  <2>7. \A d \in seen' : \E j \in DOMAIN log' : log'[j].id = d
    <3>1. seen' \subseteq seen \cup {id}
      BY <1>2
    <3> QED
      BY <2>1, <2>3, <2>4, <2>5, <3>1 DEF TopicInv
  <2> QED
    BY <2>1, <2>3, <2>4, <2>5, <2>6, <2>7 DEF TopicInv
<1> QED
  BY <1>1, <1>2 DEF Publish

-----------------------------------------------------------------------------
(* Ingestion *)

\* Until a publish raises, the ids counted are those of the topic; and no message is on
\* it that was not counted.
FeedInv ==
  /\ feed \in Seq(Nat) /\ position \in Nat \ {0}
  /\ uniques \in Nat /\ duplicates \in Nat
  /\ \A i \in DOMAIN feed : i < position => feed[i] \in Bodies
  /\ status = "returned" /\ processed # limit => position > Len(feed)
  /\ status # "failed" => publishedIds = Bodies
  /\ Len(log) <= uniques + duplicates

IngestInv == TopicInv /\ FeedInv

LEMMA TopicRests ==
  ASSUME UNCHANGED busVars
  PROVE  (TopicInv => TopicInv') /\ Bodies' = Bodies
BY DEF busVars, TopicInv, Bodies

\* What a publish of the feed does: the content joins the bodies of the topic, which has
\* at most one message more.
LEMMA ContentPublished ==
  ASSUME TopicInv, NEW content \in Nat, Publish(ContentId(content), content)
  PROVE  /\ TopicInv' /\ Bodies' = Bodies \cup {content}
         /\ Len(log) \in Nat /\ Len(log') \in Nat /\ Len(log') <= Len(log) + 1
<1>1. ContentId(content) \in Ids /\ ContentId(content).body = content
  BY DEF ContentId, Ids
<1>2. /\ TopicInv'
      /\ \E j \in DOMAIN log' : log'[j].body = content
      /\ \A j \in DOMAIN log : j \in DOMAIN log' /\ log'[j] = log[j]
  BY <1>1, PublishAccepts
<1>3. Len(log) \in Nat /\ Len(log') \in Nat /\ log \in Seq([id : Ids, body : Nat])
  BY <1>2 DEF TopicInv
<1>4. CASE UNCHANGED busVars
  BY <1>2, <1>3, <1>4 DEF busVars, Bodies
<1>5. CASE log' = Append(log, [id |-> ContentId(content), body |-> content])
  <2> DEFINE m == [id |-> ContentId(content), body |-> content]
             last == Len(log) + 1
  <2>1. m.body = content
    OBVIOUS
  <2> HIDE DEF m
  <2>2. DOMAIN log' = DOMAIN log \cup {last} /\ log'[last] = m /\ Len(log') = last
    <3>1. log' = Append(log, m)
      BY <1>5 DEF m
    <3> QED
      BY <1>3, <3>1
  <2>3. last <= Len(log) + 1
    BY <1>3
  <2> HIDE DEF last
  <2> QED
    BY <1>2, <1>3, <2>1, <2>2, <2>3 DEF Bodies
<1> QED
  BY <1>4, <1>5 DEF Publish

\* The metrics of a payload, whether its publish is accepted, dropped or fails.
LEMMA MarketCounted ==
  ASSUME FeedInv, NEW id, CountMarket(id)
  PROVE  /\ publishedIds' = publishedIds \cup {id}
         /\ uniques' \in Nat /\ duplicates' \in Nat
         /\ \A n, m \in Nat : n <= uniques + duplicates /\ m <= n + 1
                                 => m <= uniques' + duplicates'
<1>0. uniques \in Nat /\ duplicates \in Nat
  BY DEF FeedInv
<1>1. CASE id \in publishedIds
  BY <1>0, <1>1 DEF CountMarket
<1>2. CASE id \notin publishedIds
  BY <1>0, <1>2 DEF CountMarket
<1> QED
  BY <1>1, <1>2

LEMMA PayloadKeeps ==
  ASSUME IngestInv, Payload
  PROVE  IngestInv'
<1>1. feed \in Seq(Nat) /\ position \in DOMAIN feed /\ position \in Nat \ {0}
  BY DEF IngestInv, FeedInv, Payload, Yields
<1>2. feed[position] \in Nat
  BY <1>1
<1>3. /\ TopicInv' /\ Bodies' = Bodies \cup {feed[position]}
      /\ Len(log) \in Nat /\ Len(log') \in Nat /\ Len(log') <= Len(log) + 1
  BY <1>2, ContentPublished DEF IngestInv, Payload
<1>4. /\ publishedIds' = publishedIds \cup {feed[position]}
      /\ uniques' \in Nat /\ duplicates' \in Nat
      /\ \A n, m \in Nat : n <= uniques + duplicates /\ m <= n + 1
                              => m <= uniques' + duplicates'
  BY MarketCounted DEF IngestInv, Payload
<1>5. UNCHANGED <<feed, limit>> /\ position' = position + 1 /\ status = "running"
  BY DEF Payload, asked, Yields
<1>6. ~(status' = "returned" /\ processed' # limit')
  BY <1>5 DEF Payload
<1>7. ASSUME NEW i \in DOMAIN feed, i < position + 1 PROVE feed[i] \in Bodies'
  <2>1. i < position \/ i = position
    BY <1>1, <1>7
  <2> QED
    BY <1>3, <2>1 DEF IngestInv, FeedInv
<1>8. publishedIds' = Bodies'
  BY <1>3, <1>4, <1>5 DEF IngestInv, FeedInv
<1>9. Len(log') <= uniques' + duplicates'
  <2>1. Len(log) <= uniques + duplicates
    BY DEF IngestInv, FeedInv
  <2> QED
    BY <1>3, <1>4, <2>1
<1>10. FeedInv'
  BY <1>1, <1>4, <1>5, <1>6, <1>7, <1>8, <1>9 DEF FeedInv
<1> QED
  BY <1>3, <1>10 DEF IngestInv

LEMMA PayloadRaisesKeeps ==
  ASSUME IngestInv, PayloadRaises
  PROVE  IngestInv'
<1>1. feed \in Seq(Nat) /\ position \in DOMAIN feed /\ feed[position] \in Nat
  BY DEF IngestInv, FeedInv, PayloadRaises, Yields
<1>2. UNCHANGED <<feed, limit, position, processed>> /\ status' = "failed"
  BY DEF PayloadRaises, asked
<1>3. Len(log) \in Nat
  BY DEF IngestInv, TopicInv
<1>4. /\ TopicInv' /\ Bodies \subseteq Bodies'
      /\ uniques' \in Nat /\ duplicates' \in Nat /\ Len(log') <= uniques' + duplicates'
  <2>1. CASE UNCHANGED <<busVars, publishedIds, uniques, duplicates>>
    BY <2>1, TopicRests DEF IngestInv, FeedInv, busVars
  <2>2. CASE CountMarket(feed[position])
    <3>0. Len(log) <= uniques + duplicates
      BY DEF IngestInv, FeedInv
    <3>1. /\ uniques' \in Nat /\ duplicates' \in Nat
          /\ \A n, m \in Nat : n <= uniques + duplicates /\ m <= n + 1
                                  => m <= uniques' + duplicates'
      BY <2>2, MarketCounted DEF IngestInv
    <3>2. CASE UNCHANGED busVars
      <4>1. TopicInv' /\ Bodies' = Bodies /\ log' = log
        BY <3>2, TopicRests DEF IngestInv, busVars
      <4>2. Len(log) <= Len(log) + 1
        BY <1>3
      <4> QED
        BY <1>3, <3>0, <3>1, <4>1, <4>2
    <3>3. CASE Publish(ContentId(feed[position]), feed[position])
      <4>1. /\ TopicInv' /\ Bodies' = Bodies \cup {feed[position]}
            /\ Len(log) \in Nat /\ Len(log') \in Nat /\ Len(log') <= Len(log) + 1
        BY <1>1, <3>3, ContentPublished DEF IngestInv
      <4> QED
        BY <3>0, <3>1, <4>1
    <3> QED
      BY <2>2, <3>2, <3>3 DEF PayloadRaises, CountMarket
  <2> QED
    BY <2>1, <2>2 DEF PayloadRaises
<1>5. FeedInv'
  BY <1>2, <1>4 DEF IngestInv, FeedInv
<1> QED
  BY <1>4, <1>5 DEF IngestInv

LEMMA FeedEndsKeeps ==
  ASSUME IngestInv, FeedEnds \/ Disconnect
  PROVE  IngestInv'
<1>1. UNCHANGED <<busVars, feed, limit, processed, publishedIds, uniques, duplicates>>
  BY DEF FeedEnds, Disconnect, asked
<1>2. Bodies' = Bodies /\ TopicInv' /\ log' = log /\ status = "running"
  BY <1>1, TopicRests DEF IngestInv, busVars, FeedEnds, Disconnect, Yields
<1>3. FeedInv'
  <2>1. CASE FeedEnds
    BY <1>1, <1>2, <2>1 DEF FeedEnds, IngestInv, FeedInv
  <2>2. CASE Disconnect
    <3>1. status' # "returned"
      BY <2>2 DEF Disconnect, Yields
    <3>2. CASE position' = 1
      <4>1. \A i \in DOMAIN feed : ~(i < 1)
        BY DEF IngestInv, FeedInv
      <4> QED
        BY <1>1, <1>2, <3>1, <3>2, <4>1 DEF IngestInv, FeedInv
    <3>3. CASE UNCHANGED position
      BY <1>1, <1>2, <3>1, <3>3 DEF IngestInv, FeedInv
    <3> QED
      BY <2>2, <3>2, <3>3 DEF Disconnect
  <2> QED
    BY <2>1, <2>2
<1> QED
  BY <1>2, <1>3 DEF IngestInv

LEMMA FeedRests ==
  ASSUME IngestInv, UNCHANGED feedVars, log' = log, seen' \subseteq seen
  PROVE  IngestInv'
<1>1. Bodies' = Bodies /\ TopicInv'
  BY DEF Bodies, IngestInv, TopicInv
<1> QED
  BY <1>1 DEF IngestInv, FeedInv, feedVars, asked

LEMMA IngestStep ==
  ASSUME IngestInv, [IngestNext]_ingestVars
  PROVE  IngestInv'
<1>1. CASE Payload \/ PayloadRaises \/ FeedEnds \/ Disconnect
  BY <1>1, PayloadKeeps, PayloadRaisesKeeps, FeedEndsKeeps
<1>2. CASE FeedWindowPasses
  BY <1>2, FeedRests DEF FeedWindowPasses, Forget
<1>3. CASE UNCHANGED ingestVars
  BY <1>3, FeedRests DEF ingestVars, busVars
<1> QED
  BY <1>1, <1>2, <1>3 DEF IngestNext

LEMMA IngestInitially ==
  ASSUME IngestInit
  PROVE  IngestInv
<1>1. log = <<>> /\ seen = {}
  BY DEF IngestInit, BusInit
<1>2. TopicInv /\ Bodies = {} /\ Len(log) = 0
  BY <1>1 DEF TopicInv, Bodies
<1>3. /\ feed \in Seq(Nat) /\ position = 1 /\ processed = 0
      /\ status = "returned" => limit = 0
      /\ publishedIds = {} /\ uniques = 0 /\ duplicates = 0
  BY IngestAssumption DEF IngestInit
<1>4. \A i \in DOMAIN feed : ~(i < position)
  BY <1>3
<1> QED
  BY <1>2, <1>3, <1>4 DEF IngestInv, FeedInv

LEMMA IngestIsPublished == IngestInv => ReturnedRunPublished
<1> SUFFICES ASSUME IngestInv, status = "returned" PROVE ReturnedRunPublished
  BY DEF ReturnedRunPublished
<1>1. ASSUME processed # limit, NEW i \in DOMAIN feed
      PROVE  feed[i] \in Bodies
  <2>1. i < position
    BY <1>1 DEF IngestInv, FeedInv
  <2> QED
    BY <2>1 DEF IngestInv, FeedInv
<1> QED
  BY <1>1 DEF ReturnedRunPublished, IngestInv, FeedInv

\* A run of the feed that returns has published what it was given, and its metrics are
\* those of the topic (services/ingestion/service.py:75-135): for any feed with any
\* repetitions and any limit, however often the feed starts over, also on a topic that
\* does not detect duplicates or whose window passes.
THEOREM ReturnedIsPublished == IngestSpec => []ReturnedRunPublished
<1>1. IngestInit => IngestInv
  BY IngestInitially
<1>2. IngestInv /\ [IngestNext]_ingestVars => IngestInv'
  BY IngestStep
<1>3. IngestInv => ReturnedRunPublished
  BY IngestIsPublished
<1> QED
  BY <1>1, <1>2, <1>3, PTL DEF IngestSpec

-----------------------------------------------------------------------------
(* The news polls *)

\* Every story found so far but those still to be published is on news.raw.
NewsInv ==
  /\ news \in Seq(Nat) /\ found \in Seq(Seq(Nat)) /\ story \in Nat \ {0}
  /\ \A c \in DOMAIN found : \A i \in DOMAIN found[c] :
       c < Len(found) \/ i < story => found[c][i] \in NewsBodies
  /\ polling = "returned" => ~Pending /\ Len(found) = Len(Collectors)

LEMMA NewsGrow ==
  ASSUME NewsInv, NEW id \in Nat, news' = Append(news, id)
  PROVE  news' \in Seq(Nat) /\ id \in NewsBodies' /\ NewsBodies \subseteq NewsBodies'
<1> DEFINE last == Len(news) + 1
<1>1. /\ news' \in Seq(Nat) /\ last \in DOMAIN news' /\ news'[last] = id
      /\ \A k \in DOMAIN news : k \in DOMAIN news' /\ news'[k] = news[k]
  BY DEF NewsInv
<1> HIDE DEF last
<1> QED
  BY <1>1 DEF NewsBodies

\* The next collector is asked when nothing of the latest answer is left.
LEMMA AnswerKeeps ==
  ASSUME NewsInv, ~Pending, NEW stories \in Seq(Nat), found' = Append(found, stories),
         story' = 1, UNCHANGED news, polling' = "running"
  PROVE  NewsInv'
<1> DEFINE last == Len(found) + 1
<1>1. NewsBodies' = NewsBodies /\ news' \in Seq(Nat)
  BY DEF NewsBodies, NewsInv
<1>2. /\ found' \in Seq(Seq(Nat)) /\ Len(found') = last /\ found'[last] = stories
      /\ DOMAIN found' = DOMAIN found \cup {last} /\ DOMAIN found = 1..Len(found)
      /\ \A c \in DOMAIN found : found'[c] = found[c]
      /\ Len(found) \in Nat
  BY DEF NewsInv
<1>3. ASSUME NEW c \in DOMAIN found, NEW i \in DOMAIN found[c]
      PROVE  found[c][i] \in NewsBodies
  <2>1. CASE c < Len(found)
    BY <1>3, <2>1 DEF NewsInv
  <2>2. CASE c = Len(found)
    <3>1. found # <<>> /\ found[c] \in Seq(Nat)
      BY <1>2, <2>2 DEF NewsInv
    <3>2. i < story
      BY <1>3, <2>2, <3>1 DEF NewsInv, Pending
    <3> QED
      BY <1>3, <3>2 DEF NewsInv
  <2> QED
    BY <1>2, <2>1, <2>2
<1>4. \A i \in DOMAIN stories : ~(i < 1)
  OBVIOUS
<1>5. last \in Nat /\ ~(last < last)
  BY <1>2
<1> HIDE DEF last
<1>6. ASSUME NEW c \in DOMAIN found', NEW i \in DOMAIN found'[c], c < last \/ i < 1
      PROVE  found'[c][i] \in NewsBodies
  <2>1. CASE c \in DOMAIN found
    BY <1>2, <1>3, <1>6, <2>1
  <2>2. CASE c = last
    BY <1>2, <1>4, <1>5, <1>6, <2>2
  <2> QED
    BY <1>2, <2>1, <2>2
<1> QED
  BY <1>1, <1>2, <1>6 DEF NewsInv

LEMMA StoryKeeps ==
  ASSUME NewsInv, Story
  PROVE  NewsInv'
<1> DEFINE id == found[Len(found)][story]
<1>1. /\ Len(found) \in DOMAIN found /\ found[Len(found)] \in Seq(Nat)
      /\ story \in Nat \ {0} /\ story <= Len(found[Len(found)])
      /\ UNCHANGED found /\ polling = "running"
  BY DEF NewsInv, Story, Pending
<1>2. id \in Nat
  BY <1>1
<1>3. Published(id) \/ Raises(id)
  BY DEF Story
<1> HIDE DEF id
<1>4. news' \in Seq(Nat) /\ NewsBodies \subseteq NewsBodies'
  <2>1. UNCHANGED news \/ news' = Append(news, id)
    BY <1>3 DEF Published, Raises
  <2> QED
    BY <1>2, <2>1, NewsGrow DEF NewsInv, NewsBodies
<1>5. CASE Published(id)
  <2>1. id \in NewsBodies' /\ story' = story + 1 /\ polling' = "running"
    BY <1>1, <1>2, <1>5, NewsGrow DEF Published
  <2>2. ASSUME NEW c \in DOMAIN found, NEW i \in DOMAIN found[c],
               c < Len(found) \/ i < story + 1
        PROVE  found[c][i] \in NewsBodies'
    <3>1. CASE c < Len(found) \/ i < story
      BY <1>4, <3>1 DEF NewsInv
    <3>2. CASE ~(c < Len(found)) /\ i = story
      <4>1. c = Len(found)
        BY <3>2 DEF NewsInv
      <4> QED
        BY <2>1, <3>2, <4>1 DEF id
    <3>3. i \in Nat
      BY DEF NewsInv
    <3> QED
      BY <1>1, <2>2, <3>1, <3>2, <3>3
  <2>3. story' \in Nat \ {0}
    BY <1>1, <2>1
  <2> QED
    BY <1>1, <1>4, <2>1, <2>2, <2>3 DEF NewsInv
<1>6. CASE Raises(id)
  BY <1>1, <1>4, <1>6 DEF Raises, NewsInv
<1> QED
  BY <1>3, <1>5, <1>6

LEMMA NewsStep ==
  ASSUME NewsInv, [NewsNext]_newsVars
  PROVE  NewsInv'
<1>1. CASE PollCollector
  <2>1. PICK stories : found' = Append(found, stories) /\ stories \in Seq(Nat)
    <3>1. CASE found' = Append(found, <<>>)
      <4>1. <<>> \in Seq(Nat)
        OBVIOUS
      <4> QED
        BY <3>1, <4>1
    <3>2. CASE \E stories \in Collectors[Len(found) + 1] : found' = Append(found, stories)
      <4>1. Len(found) + 1 \in DOMAIN Collectors
        BY <1>1, PollAssumption DEF PollCollector, Polls, NewsInv
      <4>2. Collectors[Len(found) + 1] \subseteq Seq(Nat)
        BY <4>1, PollAssumption
      <4> QED
        BY <3>2, <4>2
    <3> QED
      BY <1>1, <3>1, <3>2 DEF PollCollector
  <2> QED
    BY <1>1, <2>1, AnswerKeeps DEF PollCollector, Polls
<1>2. CASE Story
  BY <1>2, StoryKeeps
<1>3. CASE CycleEnds \/ UNCHANGED newsVars
  <2>1. UNCHANGED <<news, found, story>>
    BY <1>3 DEF CycleEnds, newsVars, cycleVars
  <2>2. NewsBodies' = NewsBodies /\ Pending' = Pending
    BY <2>1 DEF NewsBodies, Pending
  <2>3. polling' = "returned" => ~Pending /\ Len(found) = Len(Collectors)
    BY <1>3 DEF CycleEnds, newsVars, cycleVars, NewsInv
  <2> QED
    BY <2>1, <2>2, <2>3 DEF NewsInv
<1>4. CASE NextCycle
  BY <1>4 DEF NextCycle, NewsInv
<1> QED
  BY <1>1, <1>2, <1>3, <1>4 DEF NewsNext

LEMMA NewsInitially ==
  ASSUME NewsInit
  PROVE  NewsInv
BY DEF NewsInit, NewsInv

LEMMA NewsIsPublished == NewsInv => CyclePublished
<1> SUFFICES ASSUME NewsInv, polling = "returned" PROVE CyclePublished
  BY DEF CyclePublished
<1>1. ~Pending /\ Len(found) = Len(Collectors)
  BY DEF NewsInv
<1>2. ASSUME NEW c \in DOMAIN found, NEW i \in DOMAIN found[c]
      PROVE  found[c][i] \in NewsBodies
  <2>1. /\ found[c] \in Seq(Nat) /\ DOMAIN found = 1..Len(found) /\ Len(found) \in Nat
        /\ found # <<>> /\ story \in Nat
    BY DEF NewsInv
  <2>2. c < Len(found) \/ i < story
    <3>1. c < Len(found) \/ c = Len(found)
      BY <2>1
    <3>2. c = Len(found) => i < story
      BY <1>1, <2>1 DEF Pending
    <3> QED
      BY <3>1, <3>2
  <2> QED
    BY <2>2 DEF NewsInv
<1> QED
  BY <1>1, <1>2 DEF CyclePublished

\* A news cycle that returns has polled every collector and published all it found
\* (services/ingestion/sources/service.py:57-106): for any collectors and answers, after
\* any cycles, and although the ids of stories whose publish failed stay counted.
THEOREM CycleIsPublished == NewsSpec => []CyclePublished
<1>1. NewsInit => NewsInv
  BY NewsInitially
<1>2. NewsInv /\ [NewsNext]_newsVars => NewsInv'
  BY NewsStep
<1>3. NewsInv => CyclePublished
  BY NewsIsPublished
<1> QED
  BY <1>1, <1>2, <1>3, PTL DEF NewsSpec

\* The same of the instances among which the model chooses.
THEOREM ModeIngestionPublishes == ModeSpec => []IngestionPublishes
<1> DEFINE J == /\ mode = "ingest" => IngestInv
                /\ mode = "news" => NewsInv
<1>1. ModeInit => J
  BY IngestInitially, NewsInitially DEF ModeInit
<1>2. J /\ [ModeNext]_libraryVars => J'
  <2>1. ASSUME J, ModeNext PROVE J'
    BY <2>1, IngestStep, NewsStep DEF ModeNext
  <2>2. ASSUME J, UNCHANGED libraryVars PROVE J'
    <3>1. UNCHANGED <<mode, ingestVars, newsVars>>
      BY <2>2 DEF libraryVars
    <3> QED
      BY <2>2, <3>1, IngestStep, NewsStep
  <2> QED
    BY <2>1, <2>2
<1>3. J => IngestionPublishes
  BY IngestIsPublished, NewsIsPublished DEF IngestionPublishes
<1> QED
  BY <1>1, <1>2, <1>3, PTL DEF ModeSpec

-----------------------------------------------------------------------------
(* Replay *)

PlaceInv ==
  /\ place \in [Subscriptions -> Seq(Places \cup Runs)]
  /\ \A s \in Subscriptions : DOMAIN place[s] = DOMAIN log

Replaces(j, k, i) ==
  log[j].id = ReplacementId(log[k].id, i) /\ log[j].body = log[k].body

\* A command in progress holds accepted messages, as many as its numbers allow, and the
\* one it is about to complete has its replacement.
CommandOf(r) ==
  /\ stage[r] \in {"idle", "publish", "complete"} /\ index[r] \in Nat \ {0}
  /\ todo[r] \in Seq(Nat) /\ source[r] \in Subscriptions
  /\ \A n \in DOMAIN todo[r] : todo[r][n] \in DOMAIN log
  /\ stage[r] = "idle" => index[r] = 1
  /\ stage[r] # "idle" => Len(todo[r]) > 0 /\ index[r] + Len(todo[r]) <= DrainSize + 1
  /\ stage[r] = "complete" => \E j \in DOMAIN log : Replaces(j, Head(todo[r]), index[r])
CommandInv ==
  /\ source \in [Runs -> Subscriptions] /\ DOMAIN todo = Runs
  /\ DOMAIN index = Runs /\ DOMAIN stage = Runs
  /\ \A r \in Runs : CommandOf(r)

\* How often a message has been replayed.  The copy that survives of a body is one that
\* was replayed at least as often as any other: completing it needs a replacement, which
\* was replayed once more.
Depth(k) == Len(log[k].id.suffixes)
Survives(s, k) ==
  \E j \in DOMAIN log :
    log[j].body = log[k].body /\ place[s][j] # "replayed" /\ Depth(j) >= Depth(k)
Survivors == \A s \in Subscriptions : \A k \in DOMAIN log : Survives(s, k)

BusInv == TopicInv /\ PlaceInv /\ ReplacementPublished /\ Survivors
Grown == \A j \in DOMAIN log : j \in DOMAIN log' /\ log'[j] = log[j]

LEMMA ElementOf ==
  ASSUME NEW S, NEW s \in Seq(S), NEW k \in DOMAIN s
  PROVE  s[k] \in S
OBVIOUS

LEMMA ReplacementIsDeeper ==
  ASSUME NEW id \in Ids, NEW i \in Nat
  PROVE  /\ ReplacementId(id, i) \in Ids /\ ReplacementId(id, i).body = id.body
         /\ ReplacementId(id, i).suffixes = Append(id.suffixes, i)
         /\ Len(ReplacementId(id, i).suffixes) = Len(id.suffixes) + 1
<1>1. id.suffixes \in Seq(Nat) /\ id = [body |-> id.body, suffixes |-> id.suffixes]
  BY DEF Ids
<1>2. ReplacementId(id, i) = [body |-> id.body, suffixes |-> Append(id.suffixes, i)]
  <2>1. \A e : [id EXCEPT !.suffixes = e] = [body |-> id.body, suffixes |-> e]
    BY <1>1
  <2> QED
    BY <2>1 DEF ReplacementId
<1>3. id.body \in Nat
  BY DEF Ids
<1>4. /\ Append(id.suffixes, i) \in Seq(Nat)
      /\ Len(Append(id.suffixes, i)) = Len(id.suffixes) + 1
  BY <1>1
<1> QED
  BY <1>2, <1>3, <1>4 DEF Ids

LEMMA LogType ==
  ASSUME TopicInv, NEW k \in DOMAIN log
  PROVE  /\ log[k].id \in Ids /\ log[k].body \in Nat /\ log[k].id.body = log[k].body
         /\ Depth(k) \in Nat
<1>1. log[k] \in [id : Ids, body : Nat]
  <2>1. log \in Seq([id : Ids, body : Nat])
    BY DEF TopicInv
  <2> QED
    BY <2>1, ElementOf
<1>2. log[k].id \in Ids /\ log[k].body \in Nat
  BY <1>1
<1>3. log[k].id.suffixes \in Seq(Nat)
  BY <1>2 DEF Ids
<1> QED
  BY <1>2, <1>3 DEF TopicInv, Depth

\* What is accepted stays, and a new message is queued everywhere.
LEMMA PublishKeepsBus ==
  ASSUME BusInv, NEW id \in Ids, NEW body \in Nat, id.body = body, Publish(id, body)
  PROVE  BusInv' /\ Grown /\ \E j \in DOMAIN log' : log'[j].id = id /\ log'[j].body = body
<1>1. /\ TopicInv' /\ Grown
      /\ \E j \in DOMAIN log' : log'[j].id = id /\ log'[j].body = body
  BY PublishAccepts DEF BusInv, Grown
<1>2. CASE UNCHANGED busVars
  <2>1. BusInv'
    BY <1>2, TopicRests DEF busVars, BusInv, PlaceInv, ReplacementPublished, At,
                            Survivors, Survives, Depth
  <2> QED
    BY <1>1, <2>1
<1>3. CASE /\ log' = Append(log, [id |-> id, body |-> body])
           /\ place' = [s \in Subscriptions |-> Append(place[s], "queued")]
  <2>0. PICK last \in Nat : last = Len(log) + 1
    BY DEF BusInv, TopicInv
  <2>1. /\ Len(log) \in Nat /\ DOMAIN log = 1..Len(log) /\ DOMAIN log' = 1..last
    BY <1>3, <2>0 DEF BusInv, TopicInv
  <2>2. ASSUME NEW s \in Subscriptions
        PROVE  /\ place'[s] \in Seq(Places \cup Runs) /\ DOMAIN place'[s] = DOMAIN log'
               /\ \A k \in DOMAIN log : place'[s][k] = place[s][k]
               /\ place'[s][last] = "queued"
    <3>1. place[s] \in Seq(Places \cup Runs) /\ DOMAIN place[s] = DOMAIN log
      BY DEF BusInv, PlaceInv
    <3>2. Len(place[s]) = Len(log)
      BY <2>1, <3>1
    <3>3. place'[s] = Append(place[s], "queued") /\ "queued" \in Places \cup Runs
      BY <1>3 DEF Places
    <3> QED
      BY <2>0, <2>1, <3>1, <3>2, <3>3
  <2>3. /\ last \in DOMAIN log' /\ last \notin DOMAIN log
        /\ \A k \in DOMAIN log' : k \in DOMAIN log \/ k = last
    BY <2>0, <2>1
  <2>4. PlaceInv'
    BY <1>3, <2>2 DEF PlaceInv
  <2>5. ReplacementPublished'
    <3>1. ASSUME NEW s \in Subscriptions, NEW k \in At(s, "replayed")'
          PROVE  k \in DOMAIN log /\ k \in At(s, "replayed")
      BY <2>2, <2>3 DEF At, BusInv, PlaceInv
    <3> QED
      BY <1>1, <3>1 DEF ReplacementPublished, BusInv, Grown
  <2>6. Survivors'
    <3>1. ASSUME NEW s \in Subscriptions, NEW k \in DOMAIN log
          PROVE  Survives(s, k)'
      <4>1. PICK j \in DOMAIN log : /\ log[j].body = log[k].body /\ Depth(j) >= Depth(k)
                                    /\ place[s][j] # "replayed"
        BY DEF BusInv, Survivors, Survives
      <4>2. Depth(j)' = Depth(j) /\ Depth(k)' = Depth(k) /\ j \in DOMAIN log'
        BY <1>1 DEF Grown, Depth
      <4> QED
        BY <1>1, <2>2, <4>1, <4>2 DEF Grown, Survives
    <3>2. ASSUME NEW s \in Subscriptions
          PROVE  Survives(s, last)'
      <4>1. Depth(last)' \in Nat
        <5>1. log' \in Seq([id : Ids, body : Nat])
          BY <1>1 DEF TopicInv, Ids
        <5>2. log'[last].id \in Ids
          <6>1. log'[last] \in [id : Ids, body : Nat]
            BY <2>3, <5>1, ElementOf
          <6> QED
            BY <6>1
        <5>3. log'[last].id.suffixes \in Seq(Nat)
          BY <5>2 DEF Ids
        <5> QED
          BY <5>3 DEF Depth
      <4>2. Depth(last)' >= Depth(last)'
        BY <4>1
      <4> QED
        BY <2>2, <2>3, <4>2 DEF Survives
    <3> QED
      BY <2>3, <3>1, <3>2 DEF Survivors
  <2> QED
    BY <1>1, <2>4, <2>5, <2>6 DEF BusInv
<1> QED
  BY <1>2, <1>3 DEF Publish

LEMMA MoveChanges ==
  ASSUME PlaceInv, NEW s \in Subscriptions, NEW S, NEW to \in Places \cup Runs,
         Move(s, S, to)
  PROVE  /\ PlaceInv' /\ UNCHANGED <<log, seen>> /\ Grown
         /\ \A t \in Subscriptions : \A j \in DOMAIN log :
              place'[t][j] = IF t = s /\ j \in S THEN to ELSE place[t][j]
<1>1. /\ place' = [place EXCEPT ![s] = [k \in DOMAIN place[s] |->
                                          IF k \in S THEN to ELSE place[s][k]]]
      /\ UNCHANGED <<log, seen>>
  BY DEF Move
<1>2. place[s] \in Seq(Places \cup Runs) /\ DOMAIN place[s] = DOMAIN log
  BY DEF PlaceInv
<1> DEFINE moved == [k \in DOMAIN place[s] |-> IF k \in S THEN to ELSE place[s][k]]
<1>3. moved \in Seq(Places \cup Runs) /\ DOMAIN moved = DOMAIN log
  <2>1. PICK n \in Nat : DOMAIN place[s] = 1..n
    BY <1>2
  <2>2. \A k \in 1..n : moved[k] \in Places \cup Runs
    BY <1>2, <2>1, ElementOf
  <2>3. moved \in [1..n -> Places \cup Runs]
    BY <2>1, <2>2
  <2> QED
    BY <1>2, <2>1, <2>3
<1>4. \A j \in DOMAIN log : moved[j] = IF j \in S THEN to ELSE place[s][j]
  BY <1>2
<1> HIDE DEF moved
<1>5. /\ place' \in [Subscriptions -> Seq(Places \cup Runs)] /\ place'[s] = moved
      /\ \A t \in Subscriptions \ {s} : place'[t] = place[t]
  BY <1>1, <1>3 DEF PlaceInv, moved
<1> QED
  BY <1>1, <1>3, <1>4, <1>5 DEF PlaceInv, Grown

\* A copy that is moved, but not to its end, is as good as before.
LEMMA MoveKeepsBus ==
  ASSUME BusInv, NEW s \in Subscriptions, NEW S, NEW to \in (Places \cup Runs) \ {"replayed"},
         Move(s, S, to)
  PROVE  BusInv' /\ Grown
<1>1. /\ PlaceInv' /\ UNCHANGED <<log, seen>> /\ Grown
      /\ \A t \in Subscriptions : \A j \in DOMAIN log :
           place'[t][j] = IF t = s /\ j \in S THEN to ELSE place[t][j]
  BY MoveChanges DEF BusInv
<1>2. TopicInv'
  BY <1>1 DEF BusInv, TopicInv
<1>3. \A t \in Subscriptions : \A j \in DOMAIN log :
        place'[t][j] = "replayed" => place[t][j] = "replayed"
  BY <1>1
<1>4. \A t \in Subscriptions : \A j \in DOMAIN log :
        place[t][j] # "replayed" => place'[t][j] # "replayed"
  BY <1>1
<1>5. ReplacementPublished'
  <2>1. \A t \in Subscriptions : At(t, "replayed")' \subseteq At(t, "replayed")
    BY <1>1, <1>3 DEF At, BusInv, PlaceInv
  <2> QED
    BY <1>1, <2>1 DEF BusInv, ReplacementPublished
<1>6. Survivors'
  BY <1>1, <1>4 DEF BusInv, Survivors, Survives, Depth
<1> QED
  BY <1>1, <1>2, <1>5, <1>6 DEF BusInv

\* A copy may be completed once it has a replacement: the replacement is deeper, and so
\* is what survives of it.
LEMMA CompletingKeepsBus ==
  ASSUME BusInv, NEW s \in Subscriptions, NEW k \in DOMAIN log, NEW i \in 1..DrainSize,
         \E j \in DOMAIN log : Replaces(j, k, i), Move(s, {k}, "replayed")
  PROVE  BusInv' /\ Grown
<1>0. "replayed" \in Places \cup Runs
  BY DEF Places
<1>1. /\ PlaceInv' /\ UNCHANGED <<log, seen>> /\ Grown
      /\ \A t \in Subscriptions : \A j \in DOMAIN log :
           place'[t][j] = IF t = s /\ j \in {k} THEN "replayed" ELSE place[t][j]
  BY <1>0, MoveChanges DEF BusInv
<1>2. TopicInv'
  BY <1>1 DEF BusInv, TopicInv
<1>3. ReplacementPublished'
  <2>1. \A t \in Subscriptions : At(t, "replayed")' \subseteq At(t, "replayed") \cup {k}
    BY <1>1 DEF At, BusInv, PlaceInv
  <2>2. \A t \in Subscriptions : \A m \in At(t, "replayed") \cup {k} :
          \E j \in DOMAIN log : \E n \in 1..DrainSize : Replaces(j, m, n)
    BY DEF BusInv, ReplacementPublished, Replaces
  <2> QED
    BY <1>1, <2>1, <2>2 DEF ReplacementPublished, Replaces
<1>4. Survivors'
  <2>1. ASSUME NEW t \in Subscriptions, NEW m \in DOMAIN log
        PROVE  \E j \in DOMAIN log :
                 /\ log[j].body = log[m].body /\ place'[t][j] # "replayed"
                 /\ Depth(j) >= Depth(m)
    <3>1. PICK j \in DOMAIN log : /\ log[j].body = log[m].body /\ Depth(j) >= Depth(m)
                                  /\ place[t][j] # "replayed"
      BY DEF BusInv, Survivors, Survives
    <3>2. CASE t # s \/ j # k
      BY <1>1, <3>1, <3>2
    <3>3. CASE t = s /\ j = k
      <4>1. PICK c \in DOMAIN log : Replaces(c, k, i)
        OBVIOUS
      <4>2. Depth(c) = Depth(k) + 1 /\ log[c].body = log[k].body
        BY <4>1, LogType, ReplacementIsDeeper DEF BusInv, Replaces, Depth
      <4>3. PICK d \in DOMAIN log : /\ log[d].body = log[c].body /\ Depth(d) >= Depth(c)
                                    /\ place[t][d] # "replayed"
        BY DEF BusInv, Survivors, Survives
      <4>4. /\ Depth(d) \in Nat /\ Depth(c) \in Nat /\ Depth(k) \in Nat
            /\ Depth(m) \in Nat
        BY LogType DEF BusInv
      <4>5. d # k /\ Depth(d) >= Depth(m)
        BY <3>1, <3>3, <4>2, <4>3, <4>4
      <4> QED
        BY <1>1, <3>1, <3>3, <4>2, <4>3, <4>5
    <3> QED
      BY <3>2, <3>3
  <2> QED
    BY <1>1, <2>1 DEF Survivors, Survives, Depth
<1> QED
  BY <1>1, <1>2, <1>3, <1>4 DEF BusInv

LEMMA BusRests ==
  ASSUME BusInv, UNCHANGED busVars
  PROVE  BusInv' /\ Grown
BY TopicRests DEF BusInv, busVars, PlaceInv, ReplacementPublished, At, Survivors,
                  Survives, Depth, Grown

-----------------------------------------------------------------------------
(* The commands *)

\* A command that stays as it is still holds what it held.
LEMMA CommandRests ==
  ASSUME BusInv, Grown, NEW r \in Runs, CommandOf(r), stage'[r] = stage[r],
         todo'[r] = todo[r], index'[r] = index[r], source'[r] = source[r]
  PROVE  CommandOf(r)'
<1>1. \A n \in DOMAIN todo'[r] : todo'[r][n] \in DOMAIN log'
  BY DEF CommandOf, Grown
<1>2. ASSUME stage[r] = "complete"
      PROVE  \E j \in DOMAIN log' : Replaces(j, Head(todo[r]), index[r])'
  <2>1. PICK j \in DOMAIN log : Replaces(j, Head(todo[r]), index[r])
    BY <1>2 DEF CommandOf
  <2>2. Head(todo[r]) \in DOMAIN log
    BY <1>2 DEF CommandOf
  <2> QED
    BY <2>1, <2>2 DEF Replaces, Grown
<1> QED
  BY <1>1, <1>2 DEF CommandOf, Replaces

LEMMA CommandsRest ==
  ASSUME BusInv, CommandInv, Grown, UNCHANGED runVars
  PROVE  CommandInv'
<1>1. UNCHANGED <<source, todo, index, stage>>
  BY DEF runVars
<1>2. ASSUME NEW r \in Runs PROVE CommandOf(r)'
  BY <1>1, CommandRests DEF CommandInv
<1> QED
  BY <1>1, <1>2 DEF CommandInv

\* A command that ends holds nothing.
LEMMA StopKeeps ==
  ASSUME BusInv, CommandInv, Grown, NEW r \in Runs, Stop(r)
  PROVE  CommandInv'
<1>1. /\ stage' = [stage EXCEPT ![r] = "idle"] /\ todo' = [todo EXCEPT ![r] = <<>>]
      /\ index' = [index EXCEPT ![r] = 1] /\ source' = source
  BY DEF Stop
<1>2. CommandOf(r)'
  <2>1. stage'[r] = "idle" /\ todo'[r] = <<>> /\ index'[r] = 1 /\ source'[r] \in Subscriptions
    BY <1>1 DEF CommandInv
  <2> QED
    BY <2>1 DEF CommandOf
<1>3. ASSUME NEW q \in Runs, q # r PROVE CommandOf(q)'
  <2>1. /\ stage'[q] = stage[q] /\ todo'[q] = todo[q] /\ index'[q] = index[q]
        /\ source'[q] = source[q] /\ CommandOf(q)
    BY <1>1, <1>3 DEF CommandInv
  <2> QED
    BY <2>1, CommandRests
<1> QED
  BY <1>1, <1>2, <1>3 DEF CommandInv

\* A command that changes leaves the others alone.
LEMMA CommandChanges ==
  ASSUME BusInv, CommandInv, Grown, NEW r \in Runs, CommandOf(r)', UNCHANGED source,
         DOMAIN todo' = Runs, DOMAIN index' = Runs, DOMAIN stage' = Runs,
         \A q \in Runs \ {r} :
           todo'[q] = todo[q] /\ index'[q] = index[q] /\ stage'[q] = stage[q]
  PROVE  CommandInv'
<1>1. ASSUME NEW q \in Runs, q # r PROVE CommandOf(q)'
  BY <1>1, CommandRests DEF CommandInv
<1> QED
  BY <1>1 DEF CommandInv

LEMMA DrainKeeps ==
  ASSUME BusInv, CommandInv, NEW r \in Runs, Drain(r)
  PROVE  BusInv' /\ CommandInv'
<1>0. PICK n \in 1..DrainSize :
        \E batch \in [1..n -> At(source[r], "dead")] :
          /\ Move(source[r], {batch[i] : i \in 1..n}, r)
          /\ todo' = [todo EXCEPT ![r] = batch]
  BY DEF Drain
<1>1. PICK batch \in [1..n -> At(source[r], "dead")] :
        /\ Move(source[r], {batch[i] : i \in 1..n}, r)
        /\ todo' = [todo EXCEPT ![r] = batch]
  BY <1>0
<1>2. /\ stage[r] = "idle" /\ stage' = [stage EXCEPT ![r] = "publish"]
      /\ UNCHANGED <<source, index>> /\ source[r] \in Subscriptions /\ index[r] = 1
  BY DEF Drain, CommandInv, CommandOf
<1>3. BusInv' /\ Grown
  <2>1. r \in (Places \cup Runs) \ {"replayed"}
    BY ReplayAssumption DEF Places
  <2> QED
    BY <1>1, <1>2, <2>1, MoveKeepsBus
<1>4. UNCHANGED log
  BY <1>1 DEF Move
<1>5. At(source[r], "dead") \subseteq DOMAIN log /\ DOMAIN log \subseteq Nat
  BY <1>2 DEF At, BusInv, PlaceInv, TopicInv
<1>6. batch \in Seq(Nat) /\ Len(batch) = n /\ \A i \in DOMAIN batch : batch[i] \in DOMAIN log
  BY <1>5
<1>7. CommandOf(r)'
  <2>1. todo'[r] = batch /\ stage'[r] = "publish" /\ index'[r] = 1 /\ source'[r] = source[r]
    BY <1>1, <1>2 DEF CommandInv
  <2>2. n > 0 /\ 1 + n <= DrainSize + 1
    BY ReplayAssumption
  <2> QED
    BY <1>2, <1>4, <1>6, <2>1, <2>2 DEF CommandOf
<1>8. CommandInv'
  <2>1. /\ DOMAIN todo' = Runs /\ DOMAIN index' = Runs /\ DOMAIN stage' = Runs
        /\ \A q \in Runs \ {r} :
             todo'[q] = todo[q] /\ index'[q] = index[q] /\ stage'[q] = stage[q]
    BY <1>1, <1>2 DEF CommandInv
  <2> QED
    BY <1>2, <1>3, <1>7, <2>1, CommandChanges
<1> QED
  BY <1>3, <1>8

\* The publish that was accepted, or dropped because its id had been accepted, leaves
\* the replacement on the topic.
LEMMA RepublishKeeps ==
  ASSUME BusInv, CommandInv, NEW r \in Runs, Republish(r)
  PROVE  BusInv' /\ CommandInv'
<1>1. PICK k \in DOMAIN log : k = Head(todo[r])
  BY DEF Republish, CommandInv, CommandOf
<1>2. PICK i \in Nat \ {0} : i = index[r]
  BY DEF CommandInv, CommandOf
<1>3. PICK id \in Ids, body \in Nat :
        id = ReplacementId(log[k].id, i) /\ body = log[k].body /\ id.body = body
  <2>1. /\ log[k].id \in Ids /\ log[k].body \in Nat /\ log[k].id.body = log[k].body
        /\ i \in Nat
    BY LogType DEF BusInv
  <2>2. /\ ReplacementId(log[k].id, i) \in Ids
        /\ ReplacementId(log[k].id, i).body = log[k].id.body
    BY <2>1, ReplacementIsDeeper
  <2> QED
    BY <2>1, <2>2
<1>4. /\ Message(r) = log[k]
      /\ stage[r] = "publish"
  BY <1>1 DEF Message, Republish
<1>5. \/ /\ Publish(id, body) /\ stage' = [stage EXCEPT ![r] = "complete"]
         /\ UNCHANGED <<source, todo, index>>
      \/ UNCHANGED busVars /\ Stop(r)
      \/ Publish(id, body) /\ Stop(r)
  BY <1>2, <1>3, <1>4 DEF Republish
<1>6. ASSUME Publish(id, body), stage' = [stage EXCEPT ![r] = "complete"],
             UNCHANGED <<source, todo, index>>
      PROVE  BusInv' /\ CommandInv'
  <2>1. /\ BusInv' /\ Grown
        /\ \E j \in DOMAIN log' : log'[j].id = id /\ log'[j].body = body
    BY <1>3, <1>6, PublishKeepsBus
  <2>2. \E j \in DOMAIN log' : Replaces(j, Head(todo[r]), index[r])'
    BY <1>1, <1>2, <1>3, <1>6, <2>1 DEF Replaces, Grown
  <2>3. CommandOf(r)'
    <3>1. stage'[r] = "complete" /\ CommandOf(r)
      BY <1>6 DEF CommandInv
    <3>2. \A n \in DOMAIN todo'[r] : todo'[r][n] \in DOMAIN log'
      BY <1>6, <2>1, <3>1 DEF CommandOf, Grown
    <3> QED
      BY <1>4, <1>6, <2>2, <3>1, <3>2 DEF CommandOf, Replaces
  <2>4. /\ DOMAIN todo' = Runs /\ DOMAIN index' = Runs /\ DOMAIN stage' = Runs
        /\ \A q \in Runs \ {r} :
             todo'[q] = todo[q] /\ index'[q] = index[q] /\ stage'[q] = stage[q]
    BY <1>6 DEF CommandInv
  <2> QED
    BY <1>6, <2>1, <2>3, <2>4, CommandChanges
<1>7. ASSUME UNCHANGED busVars \/ Publish(id, body), Stop(r)
      PROVE  BusInv' /\ CommandInv'
  <2>1. BusInv' /\ Grown
    BY <1>3, <1>7, BusRests, PublishKeepsBus
  <2> QED
    BY <1>7, <2>1, StopKeeps
<1> QED
  BY <1>5, <1>6, <1>7

LEMMA AdvanceKeeps ==
  ASSUME BusInv, CommandInv, Grown, NEW r \in Runs, stage[r] = "complete", Advance(r)
  PROVE  CommandInv'
<1>1. CASE Stop(r)
  BY <1>1, StopKeeps
<1>2. CASE /\ Len(todo[r]) # 1
           /\ todo' = [todo EXCEPT ![r] = Tail(@)] /\ index' = [index EXCEPT ![r] = @ + 1]
           /\ stage' = [stage EXCEPT ![r] = "publish"] /\ UNCHANGED source
  <2>1. /\ todo'[r] = Tail(todo[r]) /\ index'[r] = index[r] + 1 /\ stage'[r] = "publish"
        /\ source'[r] = source[r]
    BY <1>2 DEF CommandInv
  <2>2. /\ todo[r] \in Seq(Nat) /\ Len(todo[r]) > 1 /\ index[r] \in Nat \ {0}
        /\ index[r] + Len(todo[r]) <= DrainSize + 1 /\ source[r] \in Subscriptions
        /\ \A n \in DOMAIN todo[r] : todo[r][n] \in DOMAIN log
    <3>1. /\ todo[r] \in Seq(Nat) /\ index[r] \in Nat \ {0} /\ source[r] \in Subscriptions
          /\ Len(todo[r]) > 0 /\ index[r] + Len(todo[r]) <= DrainSize + 1
          /\ \A n \in DOMAIN todo[r] : todo[r][n] \in DOMAIN log
      BY DEF CommandInv, CommandOf
    <3>2. Len(todo[r]) > 1
      <4>1. PICK n \in Nat : n = Len(todo[r])
        BY <3>1
      <4>2. n > 0 /\ n # 1
        BY <1>2, <3>1, <4>1
      <4>3. n > 1
        BY <4>2
      <4> QED
        BY <4>1, <4>3
    <3> QED
      BY <3>1, <3>2
  <2>3. /\ Tail(todo[r]) \in Seq(Nat) /\ Len(Tail(todo[r])) = Len(todo[r]) - 1
        /\ \A n \in DOMAIN Tail(todo[r]) : Tail(todo[r])[n] = todo[r][n + 1]
                                           /\ n + 1 \in DOMAIN todo[r]
    BY <2>2
  <2>4. \A n \in DOMAIN todo'[r] : todo'[r][n] \in DOMAIN log'
    BY <2>1, <2>2, <2>3 DEF Grown
  <2>5. CommandOf(r)'
    <3>1. /\ Len(todo'[r]) > 0 /\ index'[r] + Len(todo'[r]) <= DrainSize + 1
          /\ index'[r] \in Nat \ {0} /\ todo'[r] \in Seq(Nat)
      <4>1. PICK n \in Nat, t \in Nat \ {0} : n = Len(todo[r]) /\ t = index[r]
        BY <2>2
      <4>2. n - 1 > 0 /\ (t + 1) + (n - 1) <= DrainSize + 1 /\ t + 1 \in Nat \ {0}
        <5>1. n > 1 /\ t + n <= DrainSize + 1 /\ DrainSize \in Nat
          BY <2>2, <4>1, ReplayAssumption
        <5> QED
          BY <5>1
      <4>3. todo'[r] \in Seq(Nat) /\ Len(todo'[r]) = n - 1 /\ index'[r] = t + 1
        BY <2>1, <2>3, <4>1
      <4> QED
        BY <4>2, <4>3
    <3> QED
      BY <2>1, <2>2, <2>4, <3>1 DEF CommandOf
  <2>6. /\ DOMAIN todo' = Runs /\ DOMAIN index' = Runs /\ DOMAIN stage' = Runs
        /\ \A q \in Runs \ {r} :
             todo'[q] = todo[q] /\ index'[q] = index[q] /\ stage'[q] = stage[q]
    BY <1>2 DEF CommandInv
  <2> QED
    BY <1>2, <2>5, <2>6, CommandChanges
<1> QED
  BY <1>1, <1>2 DEF Advance

LEMMA CompleteOriginalKeeps ==
  ASSUME BusInv, CommandInv, NEW r \in Runs, CompleteOriginal(r)
  PROVE  BusInv' /\ CommandInv'
<1>1. PICK k \in DOMAIN log, i \in 1..DrainSize :
        /\ k = Head(todo[r]) /\ i = index[r]
        /\ \E j \in DOMAIN log : Replaces(j, k, i)
  <2>1. /\ stage[r] = "complete" /\ CommandOf(r)
    BY DEF CompleteOriginal, CommandInv
  <2>2. Head(todo[r]) \in DOMAIN log
    BY <2>1 DEF CommandOf
  <2>3. index[r] \in 1..DrainSize
    BY <2>1, ReplayAssumption DEF CommandOf
  <2> QED
    BY <2>1, <2>2, <2>3 DEF CommandOf
<1>2. source[r] \in Subscriptions /\ stage[r] = "complete"
  BY DEF CompleteOriginal, CommandInv
<1>3. Move(source[r], {k}, "replayed") => BusInv' /\ Grown
  BY <1>1, <1>2, CompletingKeepsBus
<1>4. \/ Move(source[r], {k}, "replayed") /\ Advance(r)
      \/ (Move(source[r], {k}, "replayed") \/ UNCHANGED busVars) /\ Stop(r)
  BY <1>1 DEF CompleteOriginal
<1> QED
  BY <1>2, <1>3, <1>4, AdvanceKeeps, StopKeeps, BusRests

LEMMA ReplayStep ==
  ASSUME BusInv, CommandInv, [ReplayNext]_replayVars
  PROVE  BusInv' /\ CommandInv'
<1>1. ASSUME NEW s \in Subscriptions, NEW k \in DOMAIN log, Consume(s, k), UNCHANGED runVars
      PROVE  BusInv' /\ CommandInv'
  <2>1. PICK to \in {"done", "dead"} : Move(s, {k}, to)
    BY <1>1 DEF Consume
  <2>2. to \in (Places \cup Runs) \ {"replayed"}
    BY DEF Places
  <2>3. BusInv' /\ Grown
    BY <2>1, <2>2, MoveKeepsBus
  <2> QED
    BY <1>1, <2>3, CommandsRest
<1>2. ASSUME NEW r \in Runs, Drain(r) \/ Republish(r) \/ CompleteOriginal(r)
      PROVE  BusInv' /\ CommandInv'
  BY <1>2, DrainKeeps, RepublishKeeps, CompleteOriginalKeeps
<1>3. ASSUME NEW r \in Runs, Crash(r)
      PROVE  BusInv' /\ CommandInv'
  BY <1>3, BusRests, StopKeeps DEF Crash
<1>4. ASSUME NEW r \in Runs, NEW k \in DOMAIN log, DrainLockExpires(r, k)
      PROVE  BusInv' /\ CommandInv'
  <2>1. source[r] \in Subscriptions /\ Move(source[r], {k}, "dead") /\ UNCHANGED runVars
    BY <1>4 DEF DrainLockExpires, CommandInv
  <2>2. "dead" \in (Places \cup Runs) \ {"replayed"}
    BY DEF Places
  <2>3. BusInv' /\ Grown
    BY <2>1, <2>2, MoveKeepsBus
  <2> QED
    BY <2>1, <2>3, CommandsRest
<1>5. CASE WindowPasses
  <2>1. UNCHANGED <<log, place>> /\ seen' = {} /\ UNCHANGED runVars
    BY <1>5 DEF WindowPasses, Forget
  <2>2. BusInv' /\ Grown
    BY <2>1 DEF BusInv, TopicInv, PlaceInv, ReplacementPublished, At, Survivors, Survives,
                Depth, Grown
  <2> QED
    BY <2>1, <2>2, CommandsRest
<1>6. CASE UNCHANGED replayVars
  BY <1>6, BusRests, CommandsRest DEF replayVars
<1> QED
  BY <1>1, <1>2, <1>3, <1>4, <1>5, <1>6 DEF ReplayNext

LEMMA ReplayInitially ==
  ASSUME ReplayInit
  PROVE  BusInv /\ CommandInv
<1>0. PICK bodies \in Originals :
        BusInit([k \in DOMAIN bodies |-> [id |-> Original(bodies[k]), body |-> bodies[k]]])
  BY DEF ReplayInit
<1>1. /\ log = [k \in DOMAIN bodies |-> [id |-> Original(bodies[k]), body |-> bodies[k]]]
      /\ seen = IF Deduplicates THEN {log[k].id : k \in DOMAIN log} ELSE {}
      /\ place = [s \in Subscriptions |-> [k \in DOMAIN log |-> "queued"]]
  BY <1>0 DEF BusInit
<1>2. PICK n \in Nat : DOMAIN bodies = 1..n /\ \A k \in 1..n : bodies[k] \in Nat
  BY ReplayAssumption
<1>3. ASSUME NEW body \in Nat
      PROVE  /\ Original(body) \in Ids /\ Original(body).body = body
             /\ [id |-> Original(body), body |-> body] \in [id : Ids, body : Nat]
  BY DEF Original, Ids
<1>4. DOMAIN log = 1..n /\ \A k \in 1..n : /\ log[k] \in [id : Ids, body : Nat]
                                           /\ log[k].id.body = log[k].body
  BY <1>1, <1>2, <1>3
<1>5. TopicInv
  <2>1. log \in Seq([id : Ids, body : Nat])
    BY <1>1, <1>2, <1>4
  <2> QED
    BY <1>1, <1>4, <2>1 DEF TopicInv
<1>6. PlaceInv
  <2>1. [k \in DOMAIN log |-> "queued"] \in Seq(Places \cup Runs)
    BY <1>4 DEF Places
  <2> QED
    BY <1>1, <2>1 DEF PlaceInv
<1>7. \A s \in Subscriptions : \A k \in DOMAIN log : place[s][k] = "queued"
  BY <1>1
<1>8. ReplacementPublished
  BY <1>6, <1>7 DEF ReplacementPublished, At, PlaceInv
<1>9. Survivors
  <2>1. ASSUME NEW k \in DOMAIN log PROVE Depth(k) >= Depth(k)
    BY <1>5, LogType
  <2> QED
    BY <1>7, <2>1 DEF Survivors, Survives
<1>10. CommandInv
  BY DEF ReplayInit, CommandInv, CommandOf
<1> QED
  BY <1>5, <1>6, <1>8, <1>9, <1>10 DEF BusInv

LEMMA ReplayInvariant == ReplaySpec => [](BusInv /\ CommandInv)
<1>1. ReplayInit => BusInv /\ CommandInv
  BY ReplayInitially
<1>2. BusInv /\ CommandInv /\ [ReplayNext]_replayVars => BusInv' /\ CommandInv'
  BY ReplayStep
<1> QED
  BY <1>1, <1>2, PTL DEF ReplaySpec

\* A dead letter that replay completed has its replacement on the topic
\* (services/alerting/replay.py:25-42): with any number of commands at a time, any of
\* which fails or stops at any point, and locks that are lost.
THEOREM CompletedIsReplaced == ReplaySpec => []ReplacementPublished
<1>1. BusInv => ReplacementPublished
  BY DEF BusInv
<1> QED
  BY <1>1, ReplayInvariant, PTL

\* No body ever loses its last copy in a subscription to replay, although the duplicate
\* window drops replacements whose ids two commands make alike
\* (services/alerting/replay.py:34-40).
THEOREM ReplayLosesNothing == ReplaySpec => []NothingLost
<1>1. BusInv => NothingLost
  BY DEF BusInv, Survivors, Survives, NothingLost
<1> QED
  BY <1>1, ReplayInvariant, PTL
-----------------------------------------------------------------------------
(* Chunking: induction.  The library states induction with an operator as a *)
(* parameter, which no backend can instantiate; a set takes its place, and  *)
(* its least element comes from the well-foundedness of finite sets.        *)

\* Every set of naturals that has an element has a least one, because the intervals
\* 0..n-1 are finite sets and strict inclusion of finite sets is well-founded.
LEMMA LeastNumber ==
  ASSUME NEW T \in SUBSET Nat, T # {}
  PROVE  \E n \in T : \A m \in T : n <= m
<1> DEFINE Below(n) == 0..(n - 1)
           F == {Below(n) : n \in T}
<1>1. \A n \in Nat : Below(n) \in FiniteSubsetsOf(Nat)
  BY FS_Interval DEF FiniteSubsetsOf
<1>2. F \subseteq FiniteSubsetsOf(Nat) /\ F # {}
  BY <1>1
<1>3. PICK B \in F : \A A \in F : ~(<<A, B>> \in StrictSubsetOrdering(Nat))
  BY <1>2, FS_StrictSubsetOrderingWellFounded, WFMin
<1>4. PICK n \in T : B = Below(n)
  OBVIOUS
<1>5. ASSUME NEW m \in T, m < n PROVE FALSE
  <2>1. Below(m) \subseteq Below(n) /\ m \in Below(n) /\ m \notin Below(m)
    BY <1>5
  <2>2. <<Below(m), Below(n)>> \in StrictSubsetOrdering(Nat)
    BY <1>1, <2>1 DEF StrictSubsetOrdering, FiniteSubsetsOf
  <2> QED
    BY <1>3, <1>4, <2>2
<1> QED
  BY <1>5

\* A set of naturals that holds 0 and the successor of each of its elements is Nat.
LEMMA Counting ==
  ASSUME NEW T \in SUBSET Nat, 0 \in T, \A n \in T : n + 1 \in T
  PROVE  T = Nat
<1> SUFFICES ASSUME Nat \ T # {} PROVE FALSE
  OBVIOUS
<1>1. PICK n \in Nat \ T : \A m \in Nat \ T : n <= m
  <2>1. Nat \ T \in SUBSET Nat
    OBVIOUS
  <2> QED
    BY <2>1, LeastNumber
<1>2. n # 0 /\ n - 1 \in Nat
  BY <1>1
<1>3. n - 1 \in T
  BY <1>1, <1>2
<1>4. (n - 1) + 1 \in T
  BY <1>3
<1> QED
  BY <1>1, <1>4

\* A set of sequences that holds <<>> and is closed under Append is Seq(S).
LEMMA Extending ==
  ASSUME NEW S, NEW T \in SUBSET Seq(S), <<>> \in T,
         \A s \in T, e \in S : Append(s, e) \in T
  PROVE  T = Seq(S)
<1> DEFINE N == {n \in Nat : \A s \in Seq(S) : Len(s) = n => s \in T}
<1>1. 0 \in N
  BY EmptySeq
<1>2. ASSUME NEW n \in N PROVE n + 1 \in N
  <2>1. ASSUME NEW s \in Seq(S), Len(s) = n + 1 PROVE s \in T
    <3>1. s # <<>>
      BY <2>1
    <3>2. PICK t \in Seq(S), e \in S : s = Append(t, e)
      BY <3>1, SequenceEmptyOrAppend
    <3>3. Len(t) = n
      BY <3>2, <2>1, AppendProperties
    <3> QED
      BY <3>2, <3>3
  <2> QED
    BY <2>1
<1>3. N = Nat
  <2>1. N \in SUBSET Nat
    OBVIOUS
  <2> HIDE DEF N
  <2> QED
    BY <1>1, <1>2, <2>1, Counting
<1>4. ASSUME NEW s \in Seq(S) PROVE s \in T
  BY <1>3, LenProperties
<1> QED
  BY <1>4

\* What holds of 0 and goes from i - 1 to i holds as far as n.
LEMMA UpTo ==
  ASSUME NEW n \in Nat, NEW T \in SUBSET (0..n), 0 \in T,
         \A i \in 1..n : i - 1 \in T => i \in T
  PROVE  \A i \in 0..n : i \in T
<1> DEFINE N == {i \in Nat : i \in 0..n => i \in T}
<1>1. 0 \in N
  OBVIOUS
<1>2. ASSUME NEW i \in N PROVE i + 1 \in N
  <2>1. CASE i + 1 \in 0..n
    <3>1. i \in T /\ i + 1 \in 1..n /\ (i + 1) - 1 = i
      BY <2>1
    <3>2. i + 1 \in T
      BY <3>1
    <3> QED
      BY <3>2
  <2>2. CASE i + 1 \notin 0..n
    BY <2>2
  <2> QED
    BY <2>1, <2>2
<1>3. N = Nat
  <2>1. N \in SUBSET Nat
    OBVIOUS
  <2> HIDE DEF N
  <2> QED
    BY <1>1, <1>2, <2>1, Counting
<1> QED
  BY <1>3

\* Two functions that start alike and go on alike agree.
LEMMA Agree ==
  ASSUME NEW n \in Nat, NEW g, NEW h, g[0] = h[0],
         \A i \in 1..n : g[i - 1] = h[i - 1] => g[i] = h[i]
  PROVE  \A i \in 0..n : g[i] = h[i]
<1> DEFINE T == {i \in 0..n : g[i] = h[i]}
<1>1. 0 \in T /\ T \in SUBSET (0..n)
  OBVIOUS
<1>2. ASSUME NEW i \in 1..n, i - 1 \in T PROVE i \in T
  BY <1>2
<1>3. \A i \in 0..n : i \in T
  <2> HIDE DEF T
  <2> QED
    BY <1>1, <1>2, UpTo
<1> QED
  BY <1>3

\* The same, of their last values only.
LEMMA AgreeAt ==
  \A n \in Nat : \A g, h :
    g[0] = h[0] /\ (\A i \in 1..n : g[i - 1] = h[i - 1] => g[i] = h[i]) => g[n] = h[n]
BY Agree

\* The function g starts at v and goes on by the given steps.
Computes(g, V, v, n, step) ==
  /\ g \in [0..n -> V] /\ g[0] = v
  /\ \A i \in 1..n : g[i] = step[i][g[i - 1]]

\* Steps that stay in V can be taken one after the other.
LEMMA Recursion ==
  ASSUME NEW V, NEW v \in V, NEW n \in Nat, NEW step \in [1..n -> [V -> V]]
  PROVE  \E g : Computes(g, V, v, n, step)
<1> DEFINE Partial(k) ==
             {g \in [0..k -> V] : g[0] = v /\ \A i \in 1..k : g[i] = step[i][g[i - 1]]}
           T == {k \in 0..n : Partial(k) # {}}
<1>1. 0 \in T /\ T \in SUBSET (0..n)
  <2>1. [i \in 0..0 |-> v] \in Partial(0)
    OBVIOUS
  <2> QED
    BY <2>1
<1>2. ASSUME NEW k \in 1..n, k - 1 \in T PROVE k \in T
  <2>1. PICK g \in Partial(k - 1) : TRUE
    BY <1>2
  <2> DEFINE h == [i \in 0..k |-> IF i = k THEN step[k][g[k - 1]] ELSE g[i]]
  <2>2. g[k - 1] \in V /\ step[k][g[k - 1]] \in V
    <3>1. g \in [0..(k - 1) -> V] /\ k - 1 \in 0..(k - 1)
      BY <2>1
    <3>2. step[k] \in [V -> V]
      OBVIOUS
    <3> QED
      BY <3>1, <3>2
  <2>3. h \in [0..k -> V]
    BY <2>1, <2>2
  <2>4. h[0] = v
    BY <2>1
  <2>5. ASSUME NEW i \in 1..k PROVE h[i] = step[i][h[i - 1]]
    <3>1. i - 1 \in 0..k /\ i - 1 # k /\ h[i - 1] = g[i - 1]
      OBVIOUS
    <3>2. CASE i = k
      BY <3>1, <3>2
    <3>3. CASE i # k
      BY <3>1, <3>3, <2>1
    <3> QED
      BY <3>2, <3>3
  <2>6. h \in Partial(k)
    <3> HIDE DEF h
    <3> QED
      BY <2>3, <2>4, <2>5
  <2> HIDE DEF h, Partial
  <2> QED
    BY <2>6
<1>3. \A i \in 0..n : i \in T
  <2> HIDE DEF T
  <2>1. \A i \in 1..n : i - 1 \in T => i \in T
    BY <1>2, Zenon
  <2> QED
    BY <1>1, <2>1, UpTo, Zenon
<1> QED
  BY <1>3 DEF Computes

-----------------------------------------------------------------------------
(* Concatenating *)

\* FlattenSeq appends one sequence after the other.
LEMMA Flattening ==
  ASSUME NEW S, NEW ss \in Seq(Seq(S))
  PROVE  \E g \in [0..Len(ss) -> Seq(S)] :
           /\ g[0] = <<>> /\ \A i \in 1..Len(ss) : g[i] = g[i - 1] \o ss[i]
           /\ FlattenSeq(ss) = g[Len(ss)]
<1> DEFINE n == Len(ss)
           step == [i \in 1..n |-> [v \in Seq(S) |-> v \o ss[i]]]
<1>1. n \in Nat /\ \A i \in 1..n : ss[i] \in Seq(S)
  BY LenProperties, ElementOfSeq
<1>2. step \in [1..n -> [Seq(S) -> Seq(S)]]
  BY <1>1, ConcatProperties
<1>3. <<>> \in Seq(S)
  BY EmptySeq
<1>4. PICK g \in [0..n -> Seq(S)] : g[0] = <<>> /\ \A i \in 1..n : g[i] = step[i][g[i - 1]]
  <2>1. \E g : Computes(g, Seq(S), <<>>, n, step)
    <3> HIDE DEF step, n
    <3> QED
      BY <1>1, <1>2, <1>3, Recursion
  <2> QED
    BY <2>1 DEF Computes
<1>5. ASSUME NEW i \in 1..n PROVE g[i] = g[i - 1] \o ss[i]
  <2>1. i - 1 \in 0..n
    BY <1>1
  <2> QED
    BY <1>4, <2>1
<1>6. CASE n = 0
  <2>1. ss = <<>>
    BY <1>6, EmptySeq
  <2> QED
    BY <1>4, <1>6, <2>1 DEF FlattenSeq
<1>7. CASE n # 0
  <2> DEFINE f == CHOOSE f : f = [i \in 1..n |-> IF i = 1 THEN ss[i] ELSE f[i - 1] \o ss[i]]
             h == [i \in 1..n |-> g[i]]
  <2>1. h = [i \in 1..n |-> IF i = 1 THEN ss[i] ELSE h[i - 1] \o ss[i]]
    <3>1. ASSUME NEW i \in 1..n PROVE h[i] = IF i = 1 THEN ss[i] ELSE h[i - 1] \o ss[i]
      <4>1. CASE i = 1
        <5>1. g[i] = g[i - 1] \o ss[i] /\ ss[i] \in Seq(S)
          BY <1>5, <1>1
        <5>2. g[i - 1] = <<>>
          BY <1>4, <4>1
        <5> QED
          BY <5>1, <5>2, <4>1, ConcatEmptySeq
      <4>2. CASE i # 1
        <5>1. i - 1 \in 1..n
          BY <1>1, <4>2
        <5> QED
          BY <5>1, <1>5, <4>2
      <4> QED
        BY <4>1, <4>2
    <3> QED
      BY <3>1
  <2>2. f = [i \in 1..n |-> IF i = 1 THEN ss[i] ELSE f[i - 1] \o ss[i]]
    <3> HIDE DEF h
    <3> QED
      BY <2>1
  <2>3. FlattenSeq(ss) = f[n]
    BY <1>7 DEF FlattenSeq
  <2>4. \A i \in 0..n - 1 : [j \in 0..n - 1 |-> f[j + 1]][i] = [j \in 0..n - 1 |-> g[j + 1]][i]
    <3> DEFINE a == [j \in 0..n - 1 |-> f[j + 1]]
               b == [j \in 0..n - 1 |-> g[j + 1]]
    <3> HIDE DEF f
    <3>1. a[0] = b[0]
      <4>1. f[1] = ss[1]
        BY <1>1, <1>7, <2>2
      <4>2. g[1] = <<>> \o ss[1] /\ ss[1] \in Seq(S)
        <5>1. 1 \in 1..n /\ 1 - 1 = 0
          BY <1>1, <1>7
        <5>2. g[1] = g[1 - 1] \o ss[1]
          BY <1>5, <5>1
        <5> QED
          BY <1>1, <1>4, <5>1, <5>2
      <4> QED
        BY <1>1, <1>7, <4>1, <4>2, ConcatEmptySeq
    <3>2. ASSUME NEW i \in 1..n - 1, a[i - 1] = b[i - 1] PROVE a[i] = b[i]
      <4>1. f[i] = g[i]
        <5>1. i - 1 \in 0..n - 1 /\ (i - 1) + 1 = i
          BY <1>1
        <5> QED
          BY <5>1, <3>2
      <4>2. i + 1 \in 1..n /\ i + 1 # 1 /\ (i + 1) - 1 = i
        BY <1>1
      <4>3. f[i + 1] = f[i] \o ss[i + 1]
        BY <2>2, <4>2
      <4>4. g[i + 1] = g[i] \o ss[i + 1]
        BY <1>5, <4>2
      <4>5. a[i] = f[i + 1] /\ b[i] = g[i + 1]
        OBVIOUS
      <4> QED
        BY <4>1, <4>3, <4>4, <4>5
    <3>3. n - 1 \in Nat
      BY <1>1, <1>7
    <3> HIDE DEF a, b
    <3>4. \A i \in 0..n - 1 : a[i] = b[i]
      <4>1. \A i \in 1..n - 1 : a[i - 1] = b[i - 1] => a[i] = b[i]
        BY <3>2, Zenon
      <4>2. \A m \in Nat :
              (\A i \in 1..m : a[i - 1] = b[i - 1] => a[i] = b[i]) => \A i \in 0..m : a[i] = b[i]
        <5> SUFFICES ASSUME NEW m \in Nat,
                            \A i \in 1..m : a[i - 1] = b[i - 1] => a[i] = b[i]
                     PROVE  \A i \in 0..m : a[i] = b[i]
          OBVIOUS
        <5> DEFINE T == {i \in 0..m : a[i] = b[i]}
        <5>1. T \in SUBSET (0..m) /\ 0 \in T
          BY <3>1
        <5>2. ASSUME NEW i \in 1..m, i - 1 \in T PROVE i \in T
          BY <5>2
        <5>3. \A i \in 0..m : i \in T
          <6> HIDE DEF T
          <6>1. \A i \in 1..m : i - 1 \in T => i \in T
            BY <5>2, Zenon
          <6> QED
            BY <5>1, <6>1, UpTo, Zenon
        <5> QED
          BY <5>3
      <4> QED
        BY <3>3, <4>1, <4>2, Zenon
    <3> QED
      BY <3>4 DEF a, b
  <2>5. f[n] = g[n]
    <3>1. n - 1 \in 0..n - 1 /\ (n - 1) + 1 = n
      BY <1>1, <1>7
    <3> HIDE DEF f
    <3> QED
      BY <2>4, <3>1
  <2> QED
    BY <1>4, <1>5, <2>3, <2>5
<1> QED
  BY <1>1, <1>6, <1>7

LEMMA FlattenType ==
  ASSUME NEW S, NEW ss \in Seq(Seq(S))
  PROVE  FlattenSeq(ss) \in Seq(S)
<1>1. Len(ss) \in 0..Len(ss)
  BY LenProperties
<1>2. PICK g \in [0..Len(ss) -> Seq(S)] : FlattenSeq(ss) = g[Len(ss)]
  BY Flattening
<1> QED
  BY <1>1, <1>2

LEMMA FlattenEmpty == FlattenSeq(<<>>) = <<>>
BY EmptySeq DEF FlattenSeq

\* A further sequence comes at the end.
LEMMA FlattenAppend ==
  ASSUME NEW S, NEW ss \in Seq(Seq(S)), NEW s \in Seq(S)
  PROVE  FlattenSeq(Append(ss, s)) = FlattenSeq(ss) \o s
<1>1. PICK n \in Nat : n = Len(ss)
  BY LenProperties
<1>2. PICK tt \in Seq(Seq(S)) : tt = Append(ss, s)
  BY AppendProperties
<1>3. n + 1 = Len(tt) /\ tt[n + 1] = s /\ \A i \in 1..n : tt[i] = ss[i]
  BY <1>1, <1>2, AppendProperties
<1>4. PICK g \in [0..n -> Seq(S)] :
        /\ g[0] = <<>> /\ \A i \in 1..n : g[i] = g[i - 1] \o ss[i]
        /\ FlattenSeq(ss) = g[n]
  BY <1>1, Flattening
<1>5. PICK h \in [0..(n + 1) -> Seq(S)] :
        /\ h[0] = <<>> /\ \A i \in 1..(n + 1) : h[i] = h[i - 1] \o tt[i]
        /\ FlattenSeq(tt) = h[n + 1]
  <2>1. PICK k : k = Len(tt)
    OBVIOUS
  <2>2. PICK h \in [0..k -> Seq(S)] :
        /\ h[0] = <<>> /\ \A i \in 1..k : h[i] = h[i - 1] \o tt[i]
        /\ FlattenSeq(tt) = h[k]
    BY <2>1, Flattening
  <2> QED
    BY <1>3, <2>1, <2>2
<1>6. ASSUME NEW i \in 1..n, g[i - 1] = h[i - 1] PROVE g[i] = h[i]
  <2>1. i \in 1..(n + 1)
    OBVIOUS
  <2>2. h[i] = h[i - 1] \o ss[i]
    BY <1>3, <1>5, <2>1
  <2> QED
    BY <1>4, <1>6, <2>2
<1>7. g[n] = h[n]
  <2>1. PICK a, b : a = g /\ b = h
    OBVIOUS
  <2>2. a[0] = b[0] /\ \A i \in 1..n : a[i - 1] = b[i - 1] => a[i] = b[i]
    BY <1>4, <1>5, <1>6, <2>1
  <2>3. a[n] = b[n]
    BY <2>2, AgreeAt
  <2> QED
    BY <2>1, <2>3
<1>8. h[n + 1] = h[n] \o s
  <2>1. n + 1 \in 1..(n + 1) /\ (n + 1) - 1 = n
    OBVIOUS
  <2> QED
    BY <1>3, <1>5, <2>1
<1> QED
  BY <1>2, <1>4, <1>5, <1>7, <1>8

-----------------------------------------------------------------------------
(* The length of a text *)

LEMMA WordSize == \A w \in Words : w.size \in Nat
BY DEF Words

\* Chars adds up the sizes of the words and the spaces between them.
LEMMA Summing ==
  ASSUME NEW words \in Seq(Words)
  PROVE  \E g \in [0..Len(words) -> Nat] :
           /\ g[0] = 0 /\ \A i \in 1..Len(words) : g[i] = g[i - 1] + words[i].size
           /\ Chars(words) = g[Len(words)] + Len(words) - 1
<1>1. PICK n \in Nat : n = Len(words)
  BY LenProperties
<1>2. ASSUME NEW i \in 1..n PROVE words[i].size \in Nat
  BY <1>1, ElementOfSeq, WordSize
<1> DEFINE step == [i \in 1..n |-> [v \in Nat |-> v + words[i].size]]
           f == CHOOSE f : f = [i \in 0..n |-> IF i = 0 THEN 0 ELSE f[i - 1] + words[i].size]
<1>3. step \in [1..n -> [Nat -> Nat]]
  BY <1>2
<1>4. PICK g \in [0..n -> Nat] : g[0] = 0 /\ \A i \in 1..n : g[i] = step[i][g[i - 1]]
  <2>1. \E g : Computes(g, Nat, 0, n, step)
    <3> HIDE DEF step
    <3> QED
      BY <1>3, Recursion
  <2> QED
    BY <2>1 DEF Computes
<1>5. ASSUME NEW i \in 1..n PROVE g[i] = g[i - 1] + words[i].size
  <2>1. i - 1 \in 0..n
    OBVIOUS
  <2> QED
    BY <1>4, <2>1
<1>6. g = [i \in 0..n |-> IF i = 0 THEN 0 ELSE g[i - 1] + words[i].size]
  BY <1>4, <1>5
<1>7. f = [i \in 0..n |-> IF i = 0 THEN 0 ELSE f[i - 1] + words[i].size]
  BY <1>6
<1>8. f[n] = g[n]
  <2> HIDE DEF f
  <2>1. f[0] = g[0]
    BY <1>4, <1>7
  <2>2. \A i \in 1..n : f[i - 1] = g[i - 1] => f[i] = g[i]
    BY <1>5, <1>7
  <2> QED
    BY <2>1, <2>2, AgreeAt
<1>9. Chars(words) = f[n] + n - 1
  BY <1>1 DEF Chars
<1> QED
  BY <1>1, <1>4, <1>5, <1>8, <1>9

\* n words have at least the n - 1 spaces between them.
LEMMA CharsType ==
  ASSUME NEW words \in Seq(Words)
  PROVE  Chars(words) \in Int /\ Chars(words) >= Len(words) - 1 /\ Len(words) \in Nat
<1>1. PICK n \in Nat : n = Len(words)
  BY LenProperties
<1>2. PICK g \in [0..n -> Nat] : Chars(words) = g[n] + n - 1
  BY <1>1, Summing
<1>3. g[n] \in Nat
  OBVIOUS
<1> QED
  BY <1>1, <1>2, <1>3

LEMMA CharsEmpty == Chars(<<>>) = -1
<1>1. <<>> \in Seq(Words) /\ Len(<<>>) = 0
  BY EmptySeq
<1>2. PICK ws \in Seq(Words) : ws = <<>>
  BY <1>1
<1>3. PICK k : k = Len(ws) /\ k = 0
  BY <1>1, <1>2
<1>4. PICK g \in [0..k -> Nat] : g[0] = 0 /\ Chars(ws) = g[k] + k - 1
  BY <1>3, Summing
<1> QED
  BY <1>2, <1>3, <1>4

\* A further word brings its size and a space.
LEMMA CharsAppend ==
  ASSUME NEW words \in Seq(Words), NEW w \in Words
  PROVE  Chars(Append(words, w)) = Chars(words) + w.size + 1
<1>1. PICK n \in Nat : n = Len(words)
  BY LenProperties
<1>2. PICK more \in Seq(Words) : more = Append(words, w)
  BY AppendProperties
<1>3. n + 1 = Len(more) /\ more[n + 1] = w /\ \A i \in 1..n : more[i] = words[i]
  BY <1>1, <1>2, AppendProperties
<1>4. PICK g \in [0..n -> Nat] :
        /\ g[0] = 0 /\ \A i \in 1..n : g[i] = g[i - 1] + words[i].size
        /\ Chars(words) = g[n] + n - 1
  BY <1>1, Summing
<1>5. PICK h \in [0..(n + 1) -> Nat] :
        /\ h[0] = 0 /\ \A i \in 1..(n + 1) : h[i] = h[i - 1] + more[i].size
        /\ Chars(more) = h[n + 1] + (n + 1) - 1
  <2>1. PICK k : k = Len(more)
    OBVIOUS
  <2>2. PICK h \in [0..k -> Nat] :
        /\ h[0] = 0 /\ \A i \in 1..k : h[i] = h[i - 1] + more[i].size
        /\ Chars(more) = h[k] + k - 1
    BY <2>1, Summing
  <2> QED
    BY <1>3, <2>1, <2>2
<1>6. ASSUME NEW i \in 1..n, g[i - 1] = h[i - 1] PROVE g[i] = h[i]
  <2>1. i \in 1..(n + 1)
    OBVIOUS
  <2>2. h[i] = h[i - 1] + words[i].size
    BY <1>3, <1>5, <2>1
  <2> QED
    BY <1>4, <1>6, <2>2
<1>7. g[n] = h[n]
  <2>1. PICK a, b : a = g /\ b = h
    OBVIOUS
  <2>2. a[0] = b[0] /\ \A i \in 1..n : a[i - 1] = b[i - 1] => a[i] = b[i]
    BY <1>4, <1>5, <1>6, <2>1
  <2>3. a[n] = b[n]
    BY <2>2, AgreeAt
  <2> QED
    BY <2>1, <2>3
<1>8. h[n + 1] = h[n] + w.size
  <2>1. n + 1 \in 1..(n + 1) /\ (n + 1) - 1 = n
    OBVIOUS
  <2> QED
    BY <1>3, <1>5, <2>1
<1>9. g[n] \in Nat /\ w.size \in Nat
  BY <1>4, WordSize
<1> QED
  BY <1>2, <1>4, <1>5, <1>7, <1>8, <1>9

LEMMA AppendConcat ==
  ASSUME NEW S, NEW s \in Seq(S), NEW t \in Seq(S), NEW e \in S
  PROVE  s \o Append(t, e) = Append(s \o t, e)
BY AppendIsConcat, ConcatAssociative, ConcatProperties

\* So do the words of another text.
LEMMA CharsConcat ==
  ASSUME NEW a \in Seq(Words), NEW b \in Seq(Words)
  PROVE  Chars(a \o b) = Chars(a) + Chars(b) + 1
<1> DEFINE T == {t \in Seq(Words) : Chars(a \o t) = Chars(a) + Chars(t) + 1}
<1>1. <<>> \in T
  BY EmptySeq, CharsEmpty, CharsType, ConcatEmptySeq
<1>2. ASSUME NEW t \in T, NEW w \in Words PROVE Append(t, w) \in T
  <2>1. a \o t \in Seq(Words) /\ Append(t, w) \in Seq(Words)
    BY ConcatProperties, AppendProperties
  <2>2. Chars(a \o Append(t, w)) = Chars(a \o t) + w.size + 1
    <3>1. a \o Append(t, w) = Append(a \o t, w)
      BY AppendConcat
    <3> QED
      BY <3>1, <2>1, CharsAppend
  <2>3. Chars(Append(t, w)) = Chars(t) + w.size + 1
    BY CharsAppend
  <2>4. w.size \in Nat /\ Chars(a) \in Int /\ Chars(t) \in Int
    BY CharsType, WordSize
  <2> QED
    BY <2>1, <2>2, <2>3, <2>4
<1>3. T = Seq(Words)
  <2>1. T \in SUBSET Seq(Words)
    OBVIOUS
  <2> HIDE DEF T
  <2> QED
    BY <1>1, <1>2, <2>1, Extending
<1> QED
  BY <1>3

-----------------------------------------------------------------------------
(* Splitting *)

LEMMA WordIsText == ASSUME NEW w \in Words PROVE <<w>> \in Seq(Words)
OBVIOUS

\* A group list that is not empty ends in a group, the one that a word joins.
LEMMA GroupGrows ==
  ASSUME NEW groups \in Seq(Seq(Words)), groups # <<>>, NEW w \in Words
  PROVE  \E front \in Seq(Seq(Words)), last \in Seq(Words) :
           /\ groups = Append(front, last) /\ Last(groups) = last
           /\ [groups EXCEPT ![Len(groups)] = Append(@, w)] = Append(front, Append(last, w))
<1>1. PICK front \in Seq(Seq(Words)), last \in Seq(Words) : groups = Append(front, last)
  BY SequenceEmptyOrAppend
<1>2. PICK n \in Nat : n = Len(front)
  BY LenProperties
<1>3. /\ Len(groups) = n + 1 /\ groups[n + 1] = last
      /\ \A i \in 1..n : groups[i] = front[i]
  BY <1>1, <1>2, AppendProperties
<1>4. PICK more \in Seq(Words) : more = Append(last, w)
  BY AppendProperties
<1> DEFINE new == [groups EXCEPT ![n + 1] = more]
<1>5. /\ new \in Seq(Seq(Words)) /\ Len(new) = n + 1
      /\ \A j \in 1..(n + 1) : new[j] = IF j = n + 1 THEN more ELSE groups[j]
  <2>1. PICK k : k = n + 1 /\ k \in 1..Len(groups)
    BY <1>3
  <2>2. /\ [groups EXCEPT ![k] = more] \in Seq(Seq(Words))
        /\ Len([groups EXCEPT ![k] = more]) = Len(groups)
        /\ \A j \in 1..Len(groups) :
             [groups EXCEPT ![k] = more][j] = IF j = k THEN more ELSE groups[j]
    BY <2>1, ExceptSeq
  <2> QED
    BY <1>3, <2>1, <2>2
<1>6. /\ Append(front, more) \in Seq(Seq(Words)) /\ Len(Append(front, more)) = n + 1
      /\ Append(front, more)[n + 1] = more
      /\ \A j \in 1..n : Append(front, more)[j] = front[j]
  BY <1>2, AppendProperties
<1>7. new = Append(front, more)
  <2> HIDE DEF new
  <2>1. ASSUME NEW j \in 1..(n + 1) PROVE new[j] = Append(front, more)[j]
    <3>1. CASE j = n + 1
      BY <1>5, <1>6, <3>1
    <3>2. CASE j # n + 1
      <4>1. j \in 1..n
        BY <3>2
      <4> QED
        BY <1>3, <1>5, <1>6, <3>2, <4>1
    <3> QED
      BY <3>1, <3>2
  <2>2. PICK k : k = Len(new)
    OBVIOUS
  <2>3. Len(Append(front, more)) = Len(new) /\ \A j \in 1..Len(new) : new[j] = Append(front, more)[j]
    BY <1>5, <1>6, <2>1
  <2> QED
    BY <1>5, <1>6, <2>3, SeqEqual
<1>8. [groups EXCEPT ![Len(groups)] = Append(@, w)] = new
  BY <1>3, <1>4
<1>9. Last(groups) = last
  BY <1>3 DEF Last
<1> QED
  BY <1>1, <1>4, <1>7, <1>8, <1>9

\* Whether it joins a group or starts one, the word comes last.
LEMMA AccumulateKeeps ==
  ASSUME NEW c, NEW unit, NEW groups \in Seq(Seq(Words)), NEW w \in Words
  PROVE  /\ Accumulate(c, unit, groups, w) \in Seq(Seq(Words))
         /\ FlattenSeq(Accumulate(c, unit, groups, w)) = Append(FlattenSeq(groups), w)
<1>1. CASE groups # <<>> /\ Joins(c, unit, Last(groups), w)
  <2>1. PICK front \in Seq(Seq(Words)), last \in Seq(Words) :
           /\ groups = Append(front, last) /\ Last(groups) = last
           /\ [groups EXCEPT ![Len(groups)] = Append(@, w)] = Append(front, Append(last, w))
    BY <1>1, GroupGrows
  <2>2. Accumulate(c, unit, groups, w) = Append(front, Append(last, w))
    BY <1>1, <2>1 DEF Accumulate
  <2>3. Append(last, w) \in Seq(Words)
    BY AppendProperties
  <2>4. FlattenSeq(Append(front, Append(last, w))) = FlattenSeq(front) \o Append(last, w)
    BY <2>3, FlattenAppend
  <2>5. FlattenSeq(groups) = FlattenSeq(front) \o last
    BY <2>1, FlattenAppend
  <2>6. FlattenSeq(front) \o Append(last, w) = Append(FlattenSeq(front) \o last, w)
    BY FlattenType, AppendConcat
  <2>7. Append(front, Append(last, w)) \in Seq(Seq(Words))
    BY <2>3, AppendProperties
  <2> QED
    BY <2>2, <2>4, <2>5, <2>6, <2>7
<1>2. CASE ~(groups # <<>> /\ Joins(c, unit, Last(groups), w))
  <2>1. Accumulate(c, unit, groups, w) = Append(groups, <<w>>)
    BY <1>2 DEF Accumulate
  <2>2. <<w>> \in Seq(Words)
    BY WordIsText
  <2>3. Append(groups, <<w>>) \in Seq(Seq(Words))
    BY <2>2, AppendProperties
  <2>4. FlattenSeq(Append(groups, <<w>>)) = FlattenSeq(groups) \o <<w>>
    BY <2>2, FlattenAppend
  <2>5. Append(FlattenSeq(groups), w) = FlattenSeq(groups) \o <<w>>
    BY FlattenType, AppendIsConcat
  <2> QED
    BY <2>1, <2>3, <2>4, <2>5
<1> QED
  BY <1>1, <1>2

\* Split takes the words of the text one after the other.
LEMMA Splitting ==
  ASSUME NEW c, NEW unit, NEW text \in Seq(Words)
  PROVE  \E g \in [0..Len(text) -> Seq(Seq(Words))] :
           /\ g[0] = <<>>
           /\ \A i \in 1..Len(text) : g[i] = Accumulate(c, unit, g[i - 1], text[i])
           /\ Split(c, unit, text) = g[Len(text)]
<1>1. PICK n \in Nat : n = Len(text)
  BY LenProperties
<1>2. ASSUME NEW i \in 1..n PROVE text[i] \in Words
  BY <1>1, ElementOfSeq
<1>texts. PICK V : V = Seq(Seq(Words))
  OBVIOUS
<1> DEFINE step == [i \in 1..n |-> [v \in V |-> Accumulate(c, unit, v, text[i])]]
           f == CHOOSE f : f = [i \in 0..n |->
                  IF i = 0 THEN <<>> ELSE Accumulate(c, unit, f[i - 1], text[i])]
<1>3. step \in [1..n -> [V -> V]]
  <2>1. \A i \in 1..n : \A v \in V : Accumulate(c, unit, v, text[i]) \in V
    BY <1>texts, <1>2, AccumulateKeeps
  <2> QED
    BY <2>1
<1>4. PICK g \in [0..n -> V] : g[0] = <<>> /\ \A i \in 1..n : g[i] = step[i][g[i - 1]]
  <2>1. \E g : Computes(g, V, <<>>, n, step)
    <3>1. <<>> \in V
      BY <1>texts, EmptySeq
    <3> HIDE DEF step
    <3> QED
      BY <1>3, <3>1, Recursion
  <2> QED
    BY <2>1 DEF Computes
<1>5. ASSUME NEW i \in 1..n PROVE g[i] = Accumulate(c, unit, g[i - 1], text[i])
  <2>1. i - 1 \in 0..n
    OBVIOUS
  <2> QED
    BY <1>4, <2>1
<1>6. g = [i \in 0..n |-> IF i = 0 THEN <<>> ELSE Accumulate(c, unit, g[i - 1], text[i])]
  BY <1>4, <1>5
<1>7. f = [i \in 0..n |-> IF i = 0 THEN <<>> ELSE Accumulate(c, unit, f[i - 1], text[i])]
  BY <1>6
<1>8. f[n] = g[n]
  <2> HIDE DEF f
  <2>1. f[0] = g[0]
    BY <1>4, <1>7
  <2>2. \A i \in 1..n : f[i - 1] = g[i - 1] => f[i] = g[i]
    BY <1>5, <1>7
  <2> QED
    BY <2>1, <2>2, AgreeAt
<1>9. Split(c, unit, text) = f[n]
  BY <1>1 DEF Split
<1> QED
  BY <1>texts, <1>1, <1>4, <1>5, <1>8, <1>9

LEMMA SplitEmpty == ASSUME NEW c, NEW unit PROVE Split(c, unit, <<>>) = <<>>
<1>1. PICK text \in Seq(Words) : text = <<>>
  BY EmptySeq
<1>2. PICK k : k = Len(text)
  OBVIOUS
<1>3. PICK g \in [0..k -> Seq(Seq(Words))] :
           /\ g[0] = <<>>
           /\ \A i \in 1..k : g[i] = Accumulate(c, unit, g[i - 1], text[i])
           /\ Split(c, unit, text) = g[k]
  BY <1>2, Splitting
<1>4. k = 0
  BY <1>1, <1>2, EmptySeq
<1> QED
  BY <1>1, <1>3, <1>4

\* To split a longer text is to split the text and to add the word.
LEMMA SplitAppend ==
  ASSUME NEW c, NEW unit, NEW text \in Seq(Words), NEW w \in Words
  PROVE  Split(c, unit, Append(text, w)) = Accumulate(c, unit, Split(c, unit, text), w)
<1>1. PICK n \in Nat : n = Len(text)
  BY LenProperties
<1>2. PICK more \in Seq(Words) : more = Append(text, w)
  BY AppendProperties
<1>3. n + 1 = Len(more) /\ more[n + 1] = w /\ \A i \in 1..n : more[i] = text[i]
  BY <1>1, <1>2, AppendProperties
<1>4. PICK g : /\ g[0] = <<>> /\ \A i \in 1..n : g[i] = Accumulate(c, unit, g[i - 1], text[i])
               /\ Split(c, unit, text) = g[n]
  <2>1. PICK k : k = Len(text)
    OBVIOUS
  <2>2. PICK g \in [0..k -> Seq(Seq(Words))] :
           /\ g[0] = <<>> /\ \A i \in 1..k : g[i] = Accumulate(c, unit, g[i - 1], text[i])
           /\ Split(c, unit, text) = g[k]
    BY <2>1, Splitting
  <2> QED
    BY <1>1, <2>1, <2>2
<1>5. PICK h : /\ h[0] = <<>>
               /\ \A i \in 1..(n + 1) : h[i] = Accumulate(c, unit, h[i - 1], more[i])
               /\ Split(c, unit, more) = h[n + 1]
  <2>1. PICK k : k = Len(more)
    OBVIOUS
  <2>2. PICK h \in [0..k -> Seq(Seq(Words))] :
           /\ h[0] = <<>>
           /\ \A i \in 1..k : h[i] = Accumulate(c, unit, h[i - 1], more[i])
           /\ Split(c, unit, more) = h[k]
    BY <2>1, Splitting
  <2> QED
    BY <1>3, <2>1, <2>2
<1>6. ASSUME NEW i \in 1..n, g[i - 1] = h[i - 1] PROVE g[i] = h[i]
  <2>1. i \in 1..(n + 1)
    OBVIOUS
  <2>2. h[i] = Accumulate(c, unit, h[i - 1], text[i])
    BY <1>3, <1>5, <2>1
  <2> QED
    BY <1>4, <1>6, <2>2
<1>7. g[n] = h[n]
  <2>1. g[0] = h[0] /\ \A i \in 1..n : g[i - 1] = h[i - 1] => g[i] = h[i]
    BY <1>4, <1>5, <1>6
  <2> QED
    BY <2>1, AgreeAt
<1>8. h[n + 1] = Accumulate(c, unit, h[n], w)
  <2>1. n + 1 \in 1..(n + 1) /\ (n + 1) - 1 = n
    OBVIOUS
  <2> QED
    BY <1>3, <1>5, <2>1
<1> QED
  BY <1>2, <1>4, <1>5, <1>7, <1>8

\* Whatever the unit, the groups are the text.
LEMMA SplitKeeps ==
  ASSUME NEW c, NEW unit, NEW text \in Seq(Words)
  PROVE  /\ Split(c, unit, text) \in Seq(Seq(Words))
         /\ FlattenSeq(Split(c, unit, text)) = text
<1> DEFINE T == {t \in Seq(Words) : /\ Split(c, unit, t) \in Seq(Seq(Words))
                                    /\ FlattenSeq(Split(c, unit, t)) = t}
<1>1. <<>> \in T
  BY EmptySeq, SplitEmpty, FlattenEmpty
<1>2. ASSUME NEW t \in T, NEW w \in Words PROVE Append(t, w) \in T
  <2>1. Append(t, w) \in Seq(Words)
    BY AppendProperties
  <2>2. Split(c, unit, Append(t, w)) = Accumulate(c, unit, Split(c, unit, t), w)
    BY SplitAppend
  <2>3. PICK groups \in Seq(Seq(Words)) : groups = Split(c, unit, t) /\ FlattenSeq(groups) = t
    OBVIOUS
  <2>4. /\ Accumulate(c, unit, groups, w) \in Seq(Seq(Words))
        /\ FlattenSeq(Accumulate(c, unit, groups, w)) = Append(FlattenSeq(groups), w)
    BY AccumulateKeeps
  <2> QED
    BY <2>1, <2>2, <2>3, <2>4
<1>3. T = Seq(Words)
  <2>1. T \in SUBSET Seq(Words)
    OBVIOUS
  <2> HIDE DEF T
  <2> QED
    BY <1>1, <1>2, <2>1, Extending
<1> QED
  BY <1>3

\* A text that keeps to the limits or is a single word.
Sized(c, words) == Fits(c, words) \/ Len(words) = 1

\* Cut by words, a text falls into groups that keep to the limits or are one word.
LEMMA SplitSized ==
  ASSUME NEW c, NEW text \in Seq(Words)
  PROVE  LET groups == Split(c, "words", text)
         IN  \A i \in 1..Len(groups) : Sized(c, groups[i])
<1> DEFINE AllSized(groups) == \A i \in 1..Len(groups) : Sized(c, groups[i])
           T == {t \in Seq(Words) : AllSized(Split(c, "words", t))}
<1>longer. ASSUME NEW groups \in Seq(Seq(Words)), AllSized(groups),
             NEW group \in Seq(Words), Sized(c, group)
      PROVE  AllSized(Append(groups, group))
  <2>1. PICK n \in Nat : n = Len(groups)
    BY LenProperties
  <2>2. PICK more : more = Append(groups, group)
    OBVIOUS
  <2>3. /\ Len(more) = n + 1 /\ more[n + 1] = group
        /\ \A i \in 1..n : more[i] = groups[i]
    BY <2>1, <2>2, AppendProperties
  <2>4. ASSUME NEW i \in 1..Len(more) PROVE Sized(c, more[i])
    <3>1. CASE i = n + 1
      BY <1>longer, <2>3, <3>1
    <3>2. CASE i # n + 1
      <4>1. i \in 1..n
        BY <2>3, <3>2
      <4> QED
        BY <1>longer, <2>1, <2>3, <4>1
    <3> QED
      BY <3>1, <3>2
  <2> QED
    BY <2>2, <2>4
<1>1. <<>> \in T
  BY EmptySeq, SplitEmpty
<1>2. ASSUME NEW t \in T, NEW w \in Words PROVE Append(t, w) \in T
  <2>1. Append(t, w) \in Seq(Words)
    BY AppendProperties
  <2>2. PICK groups \in Seq(Seq(Words)) : groups = Split(c, "words", t)
    BY SplitKeeps
  <2>3. AllSized(groups)
    BY <2>2
  <2>4. AllSized(Accumulate(c, "words", groups, w))
    <3>1. CASE groups # <<>> /\ Joins(c, "words", Last(groups), w)
      <4>1. PICK front \in Seq(Seq(Words)), last \in Seq(Words) :
               /\ groups = Append(front, last) /\ Last(groups) = last
               /\ [groups EXCEPT ![Len(groups)] = Append(@, w)] = Append(front, Append(last, w))
        BY <3>1, GroupGrows
      <4>2. Accumulate(c, "words", groups, w) = Append(front, Append(last, w))
        BY <3>1, <4>1 DEF Accumulate
      <4>3. Append(last, w) \in Seq(Words) /\ Fits(c, Append(last, w))
        BY <3>1, <4>1, AppendProperties DEF Joins
      <4>4. AllSized(front)
        <5>1. PICK n \in Nat : n = Len(front) /\ n + 1 = Len(groups)
          BY <4>1, LenProperties, AppendProperties
        <5>2. \A i \in 1..n : front[i] = groups[i] /\ i \in 1..(n + 1)
          BY <4>1, <5>1, AppendProperties
        <5> QED
          BY <2>3, <5>1, <5>2
      <4> HIDE DEF AllSized
      <4> QED
        BY <1>longer, <4>2, <4>3, <4>4 DEF Sized
    <3>2. CASE ~(groups # <<>> /\ Joins(c, "words", Last(groups), w))
      <4>1. Accumulate(c, "words", groups, w) = Append(groups, <<w>>)
        BY <3>2 DEF Accumulate
      <4>2. <<w>> \in Seq(Words) /\ Sized(c, <<w>>)
        BY WordIsText DEF Sized
      <4> HIDE DEF AllSized
      <4> QED
        BY <1>longer, <2>3, <4>1, <4>2
    <3> QED
      BY <3>1, <3>2
  <2>5. Split(c, "words", Append(t, w)) = Accumulate(c, "words", groups, w)
    BY <2>2, SplitAppend
  <2> HIDE DEF AllSized
  <2> QED
    BY <2>1, <2>4, <2>5
<1>3. T = Seq(Words)
  <2>1. T \in SUBSET Seq(Words)
    OBVIOUS
  <2> HIDE DEF T
  <2> QED
    BY <1>1, <1>2, <2>1, Extending
<1>4. text \in T
  BY <1>3
<1> QED
  BY <1>4

-----------------------------------------------------------------------------
(* Cutting each of several texts *)

LEMMA FlattenOne ==
  ASSUME NEW S, NEW s \in Seq(S)
  PROVE  FlattenSeq(<<s>>) = s
<1>1. <<>> \in Seq(Seq(S))
  BY EmptySeq
<1>2. FlattenSeq(Append(<<>>, s)) = FlattenSeq(<<>>) \o s
  BY <1>1, FlattenAppend
<1>3. Append(<<>>, s) = <<s>>
  OBVIOUS
<1> QED
  BY <1>2, <1>3, FlattenEmpty, ConcatEmptySeq

\* Of three texts in a row the last two may be joined first.
LEMMA FlattenRegroups ==
  ASSUME NEW S, NEW a \in Seq(Seq(S)), NEW t \in Seq(Seq(S)), NEW s \in Seq(S)
  PROVE  (FlattenSeq(a) \o FlattenSeq(t)) \o s = FlattenSeq(a) \o (FlattenSeq(t) \o s)
<1>1. PICK x \in Seq(S) : x = FlattenSeq(a)
  BY FlattenType
<1>2. PICK y \in Seq(S) : y = FlattenSeq(t)
  BY FlattenType
<1>3. (x \o y) \o s = x \o (y \o s)
  BY ConcatAssociative, SMTT(30)
<1> QED
  BY <1>1, <1>2, <1>3

LEMMA FlattenConcat ==
  ASSUME NEW S, NEW a \in Seq(Seq(S)), NEW b \in Seq(Seq(S))
  PROVE  FlattenSeq(a \o b) = FlattenSeq(a) \o FlattenSeq(b)
<1> DEFINE T == {t \in Seq(Seq(S)) : FlattenSeq(a \o t) = FlattenSeq(a) \o FlattenSeq(t)}
<1>1. <<>> \in T
  BY EmptySeq, ConcatEmptySeq, FlattenEmpty, FlattenType
<1>2. ASSUME NEW t \in T, NEW s \in Seq(S) PROVE Append(t, s) \in T
  <2>1. Append(t, s) \in Seq(Seq(S)) /\ a \o t \in Seq(Seq(S))
    BY AppendProperties, ConcatProperties
  <2>2. a \o Append(t, s) = Append(a \o t, s)
    BY AppendConcat, SMTT(30)
  <2>3. FlattenSeq(Append(a \o t, s)) = FlattenSeq(a \o t) \o s
    BY <2>1, FlattenAppend
  <2>4. FlattenSeq(Append(t, s)) = FlattenSeq(t) \o s
    BY FlattenAppend
  <2>5. (FlattenSeq(a) \o FlattenSeq(t)) \o s = FlattenSeq(a) \o (FlattenSeq(t) \o s)
    <3> HIDE DEF T
    <3>1. t \in Seq(Seq(S))
      BY DEF T
    <3> QED
      BY <3>1, FlattenRegroups, SMTT(30)
  <2> QED
    BY <2>1, <2>2, <2>3, <2>4, <2>5
<1>3. T = Seq(Seq(S))
  <2>1. T \in SUBSET Seq(Seq(S))
    OBVIOUS
  <2> HIDE DEF T
  <2> QED
    BY <1>1, <1>2, <2>1, Extending
<1> QED
  BY <1>3

\* Texts that are cut one by one and put together again are the texts.
LEMMA CutEach ==
  ASSUME NEW S, NEW texts \in Seq(Seq(S)), NEW cut \in Seq(Seq(Seq(S))),
         Len(cut) = Len(texts), \A i \in 1..Len(texts) : FlattenSeq(cut[i]) = texts[i]
  PROVE  FlattenSeq(FlattenSeq(cut)) = FlattenSeq(texts)
<1> DEFINE Cuts(ct, ts) == /\ Len(ct) = Len(ts)
                           /\ \A i \in 1..Len(ts) : FlattenSeq(ct[i]) = ts[i]
           T == {ct \in Seq(Seq(Seq(S))) : \A ts \in Seq(Seq(S)) :
                   Cuts(ct, ts) => FlattenSeq(FlattenSeq(ct)) = FlattenSeq(ts)}
<1>1. <<>> \in T
  <2>1. ASSUME NEW ts \in Seq(Seq(S)), Cuts(<<>>, ts) PROVE ts = <<>>
    <3>1. Len(ts) = 0
      BY <2>1
    <3> QED
      BY <3>1, EmptySeq
  <2> QED
    BY <2>1, EmptySeq, FlattenEmpty
<1>2. ASSUME NEW ct \in T, NEW e \in Seq(Seq(S)) PROVE Append(ct, e) \in T
  <2>1. PICK all \in Seq(Seq(Seq(S))) : all = Append(ct, e)
    BY AppendProperties
  <2>2. ASSUME NEW ts \in Seq(Seq(S)), Cuts(all, ts)
        PROVE  FlattenSeq(FlattenSeq(all)) = FlattenSeq(ts)
    <3>1. PICK n \in Nat : n = Len(ct)
      BY LenProperties
    <3>2. /\ Len(all) = n + 1 /\ all[n + 1] = e
          /\ \A i \in 1..n : all[i] = ct[i]
      BY <2>1, <3>1, AppendProperties
    <3>3. ts # <<>>
      <4>1. Len(ts) = n + 1 /\ n + 1 # 0
        BY <2>2, <3>2
      <4> QED
        BY <4>1, EmptySeq
    <3>4. PICK us \in Seq(Seq(S)), u \in Seq(S) : ts = Append(us, u)
      BY <3>3, SequenceEmptyOrAppend
    <3>5. Len(us) = n /\ ts[n + 1] = u /\ \A i \in 1..n : ts[i] = us[i]
      <4>1. Len(ts) = n + 1 /\ Len(us) \in Nat
        BY <2>2, <3>2, LenProperties
      <4>2. Len(ts) = Len(us) + 1 /\ ts[Len(us) + 1] = u /\ \A i \in 1..Len(us) : ts[i] = us[i]
        BY <3>4, AppendProperties
      <4>3. Len(us) = n
        BY <4>1, <4>2
      <4> QED
        BY <4>2, <4>3
    <3>6. Cuts(ct, us)
      <4>1. \A i \in 1..n : i \in 1..(n + 1)
        OBVIOUS
      <4> QED
        BY <2>2, <3>1, <3>2, <3>5, <4>1
    <3>7. FlattenSeq(FlattenSeq(ct)) = FlattenSeq(us)
      BY <1>2, <3>6
    <3>8. FlattenSeq(e) = u
      <4>1. n + 1 \in 1..(n + 1) /\ Len(ts) = n + 1
        BY <2>2, <3>2
      <4> QED
        BY <2>2, <3>2, <3>5, <4>1
    <3>9. FlattenSeq(all) = FlattenSeq(ct) \o e
      BY <2>1, FlattenAppend
    <3>10. FlattenSeq(FlattenSeq(ct) \o e) = FlattenSeq(FlattenSeq(ct)) \o FlattenSeq(e)
      <4>1. FlattenSeq(ct) \in Seq(Seq(S))
        BY FlattenType, Zenon
      <4> QED
        BY <4>1, FlattenConcat, Zenon
    <3>11. FlattenSeq(ts) = FlattenSeq(us) \o u
      BY <3>4, FlattenAppend
    <3> QED
      BY <3>7, <3>8, <3>9, <3>10, <3>11
  <2> HIDE DEF Cuts
  <2> QED
    BY <2>1, <2>2
<1>3. T = Seq(Seq(Seq(S)))
  <2>1. T \in SUBSET Seq(Seq(Seq(S)))
    OBVIOUS
  <2> HIDE DEF T
  <2> QED
    BY <1>1, <1>2, <2>1, Extending
<1>4. cut \in T /\ Cuts(cut, texts)
  BY <1>3
<1> QED
  BY <1>4

-----------------------------------------------------------------------------
(* The pieces of a document *)

SizedTexts(c) == {t \in Seq(Words) : Sized(c, t)}

LEMMA SplitIntoSized ==
  ASSUME NEW c, NEW text \in Seq(Words)
  PROVE  Split(c, "words", text) \in Seq(SizedTexts(c))
<1>1. PICK groups \in Seq(Seq(Words)) : groups = Split(c, "words", text)
  BY SplitKeeps
<1>2. PICK n \in Nat : n = Len(groups)
  BY LenProperties
<1>3. ASSUME NEW i \in 1..n PROVE groups[i] \in SizedTexts(c)
  BY <1>1, <1>2, SplitSized, ElementOfSeq DEF SizedTexts
<1>4. groups = [i \in 1..n |-> groups[i]]
  BY <1>2, LenProperties
<1>5. PICK g : g = [i \in 1..n |-> groups[i]]
  OBVIOUS
<1>6. g \in Seq(SizedTexts(c))
  BY <1>3, <1>5
<1> QED
  BY <1>1, <1>4, <1>5, <1>6

LEMMA SizedAreTexts == ASSUME NEW c PROVE \A s \in Seq(SizedTexts(c)) : s \in Seq(Seq(Words))
BY SeqMonotonic DEF SizedTexts

\* A sentence stays whole if it fits, else it is cut by words: either way it is kept.
LEMMA SplitSentenceKeeps ==
  ASSUME NEW c, NEW text \in Seq(Words)
  PROVE  /\ SplitSentence(c, text) \in Seq(SizedTexts(c))
         /\ FlattenSeq(SplitSentence(c, text)) = text
<1>1. CASE Fits(c, text)
  <2>1. text \in SizedTexts(c)
    BY <1>1 DEF SizedTexts, Sized
  <2>2. <<text>> \in Seq(SizedTexts(c))
    BY <2>1
  <2>3. SplitSentence(c, text) = <<text>>
    BY <1>1 DEF SplitSentence
  <2> QED
    BY <2>2, <2>3, FlattenOne
<1>2. CASE ~Fits(c, text)
  BY <1>2, SplitIntoSized, SplitKeeps DEF SplitSentence
<1> QED
  BY <1>1, <1>2

\* So is a paragraph, which is cut by sentences first.
LEMMA SplitParagraphKeeps ==
  ASSUME NEW c, NEW text \in Seq(Words)
  PROVE  /\ SplitParagraph(c, text) \in Seq(SizedTexts(c))
         /\ FlattenSeq(SplitParagraph(c, text)) = text
<1>1. CASE Fits(c, text)
  <2>1. text \in SizedTexts(c)
    BY <1>1 DEF SizedTexts, Sized
  <2>2. <<text>> \in Seq(SizedTexts(c))
    BY <2>1
  <2>3. SplitParagraph(c, text) = <<text>>
    BY <1>1 DEF SplitParagraph
  <2> QED
    BY <2>2, <2>3, FlattenOne
<1>2. CASE ~Fits(c, text)
  <2>1. PICK sentences \in Seq(Seq(Words)) :
          sentences = Split(c, "sentence", text) /\ FlattenSeq(sentences) = text
    BY SplitKeeps
  <2>2. PICK n \in Nat : n = Len(sentences) /\ DOMAIN sentences = 1..n
    BY LenProperties
  <2>3. PICK cut : cut = [i \in 1..n |-> SplitSentence(c, sentences[i])]
    OBVIOUS
  <2>4. SplitParagraph(c, text) = FlattenSeq(cut)
    BY <1>2, <2>1, <2>2, <2>3 DEF SplitParagraph
  <2>5. ASSUME NEW i \in 1..n
        PROVE  cut[i] \in Seq(SizedTexts(c)) /\ FlattenSeq(cut[i]) = sentences[i]
    <3>1. sentences[i] \in Seq(Words)
      BY <2>2, ElementOfSeq
    <3> QED
      BY <2>3, <3>1, SplitSentenceKeeps
  <2>6. cut \in Seq(Seq(SizedTexts(c))) /\ Len(cut) = n
    BY <2>3, <2>5
  <2>7. FlattenSeq(cut) \in Seq(SizedTexts(c))
    BY <2>6, FlattenType
  <2>8. cut \in Seq(Seq(Seq(Words)))
    <3>1. Seq(SizedTexts(c)) \subseteq Seq(Seq(Words))
      BY SizedAreTexts
    <3> QED
      BY <2>6, <3>1, SeqMonotonic
  <2>9. FlattenSeq(FlattenSeq(cut)) = FlattenSeq(sentences)
    BY <2>2, <2>5, <2>6, <2>8, CutEach
  <2> QED
    BY <2>1, <2>4, <2>7, <2>9
<1> QED
  BY <1>1, <1>2

Segments(c) == [words : SizedTexts(c), overlap : {FALSE}]
Pieces == [words : Seq(Words), overlap : BOOLEAN]

\* JoinSegments puts the words of the pieces one after the other.
LEMMA JoinTexts ==
  ASSUME NEW ps \in Seq(Pieces)
  PROVE  [i \in DOMAIN ps |-> ps[i].words] \in Seq(Seq(Words))
<1>1. PICK n \in Nat : n = Len(ps) /\ DOMAIN ps = 1..n
  BY LenProperties
<1>2. ASSUME NEW i \in 1..n PROVE ps[i].words \in Seq(Words)
  <2>1. ps[i] \in Pieces
    BY <1>1, ElementOfSeq
  <2> QED
    BY <2>1 DEF Pieces
<1>3. PICK g : g = [i \in 1..n |-> ps[i].words]
  OBVIOUS
<1>4. g \in Seq(Seq(Words))
  BY <1>2, <1>3
<1> QED
  BY <1>1, <1>3, <1>4

LEMMA JoinType ==
  ASSUME NEW ps \in Seq(Pieces)
  PROVE  JoinSegments(ps) \in Seq(Words)
BY JoinTexts, FlattenType DEF JoinSegments

LEMMA JoinEmpty == JoinSegments(<<>>) = <<>>
<1>1. [i \in DOMAIN <<>> |-> <<>>[i].words] = <<>>
  OBVIOUS
<1> QED
  BY <1>1, FlattenEmpty DEF JoinSegments

\* A further piece comes at the end.
LEMMA JoinAppend ==
  ASSUME NEW ps \in Seq(Pieces), NEW p \in Pieces
  PROVE  JoinSegments(Append(ps, p)) = JoinSegments(ps) \o p.words
<1>1. PICK n \in Nat : n = Len(ps) /\ DOMAIN ps = 1..n
  BY LenProperties
<1>2. PICK qs \in Seq(Pieces) : qs = Append(ps, p)
  BY AppendProperties
<1>3. /\ Len(qs) = n + 1 /\ DOMAIN qs = 1..(n + 1) /\ qs[n + 1] = p
      /\ \A i \in 1..n : qs[i] = ps[i]
  <2>1. Len(qs) = n + 1 /\ qs[n + 1] = p /\ \A i \in 1..n : qs[i] = ps[i]
    BY <1>1, <1>2, AppendProperties
  <2> QED
    BY <2>1, LenProperties
<1>4. PICK a \in Seq(Seq(Words)) : a = [i \in DOMAIN ps |-> ps[i].words]
  BY JoinTexts
<1>5. PICK b \in Seq(Seq(Words)) : b = [i \in DOMAIN qs |-> qs[i].words]
  BY JoinTexts
<1>6. p.words \in Seq(Words)
  BY DEF Pieces
<1>7. b = Append(a, p.words)
  <2>1. Len(a) = n /\ Len(b) = n + 1
    BY <1>1, <1>3, <1>4, <1>5
  <2>2. PICK d \in Seq(Seq(Words)) : d = Append(a, p.words)
    BY <1>6, AppendProperties
  <2>3. Len(d) = n + 1 /\ d[n + 1] = p.words /\ \A i \in 1..n : d[i] = a[i]
    BY <1>6, <2>1, <2>2, AppendProperties
  <2>4. ASSUME NEW i \in 1..(n + 1) PROVE b[i] = d[i]
    <3>1. CASE i = n + 1
      BY <1>3, <1>5, <2>3, <3>1
    <3>2. CASE i # n + 1
      <4>1. i \in 1..n
        BY <3>2
      <4> QED
        BY <1>1, <1>3, <1>4, <1>5, <2>3, <4>1
    <3> QED
      BY <3>1, <3>2
  <2>5. Len(b) = Len(d) /\ \A i \in 1..Len(b) : b[i] = d[i]
    BY <2>1, <2>3, <2>4
  <2> QED
    BY <2>2, <2>5, SeqEqual
<1>8. FlattenSeq(Append(a, p.words)) = FlattenSeq(a) \o p.words
  BY <1>6, FlattenAppend
<1> QED
  BY <1>2, <1>4, <1>5, <1>7, <1>8 DEF JoinSegments

LEMMA JoinOne ==
  ASSUME NEW p \in Pieces
  PROVE  JoinSegments(<<p>>) = p.words
<1>1. <<>> \in Seq(Pieces) /\ Append(<<>>, p) = <<p>>
  BY EmptySeq
<1>2. JoinSegments(Append(<<>>, p)) = JoinSegments(<<>>) \o p.words
  BY <1>1, JoinAppend
<1>3. p.words \in Seq(Words)
  BY DEF Pieces
<1> QED
  BY <1>1, <1>2, <1>3, JoinEmpty, ConcatEmptySeq

LEMMA JoinConcat ==
  ASSUME NEW a \in Seq(Pieces), NEW b \in Seq(Pieces)
  PROVE  JoinSegments(a \o b) = JoinSegments(a) \o JoinSegments(b)
<1> DEFINE T == {t \in Seq(Pieces) : JoinSegments(a \o t) = JoinSegments(a) \o JoinSegments(t)}
<1>1. <<>> \in T
  BY EmptySeq, ConcatEmptySeq, JoinEmpty, JoinType
<1>2. ASSUME NEW t \in T, NEW p \in Pieces PROVE Append(t, p) \in T
  <2>1. Append(t, p) \in Seq(Pieces) /\ a \o t \in Seq(Pieces)
    BY AppendProperties, ConcatProperties
  <2>2. a \o Append(t, p) = Append(a \o t, p)
    BY AppendConcat
  <2>3. JoinSegments(Append(a \o t, p)) = JoinSegments(a \o t) \o p.words
    BY <2>1, JoinAppend
  <2>4. JoinSegments(Append(t, p)) = JoinSegments(t) \o p.words
    BY JoinAppend
  <2>5. (JoinSegments(a) \o JoinSegments(t)) \o p.words = JoinSegments(a) \o (JoinSegments(t) \o p.words)
    <3>1. PICK x, y, z \in Seq(Words) : x = JoinSegments(a) /\ y = JoinSegments(t) /\ z = p.words
      BY JoinType DEF Pieces
    <3>2. (x \o y) \o z = x \o (y \o z)
      BY ConcatAssociative, SMTT(30)
    <3> QED
      BY <3>1, <3>2
  <2> QED
    BY <2>1, <2>2, <2>3, <2>4, <2>5
<1>3. T = Seq(Pieces)
  <2>1. T \in SUBSET Seq(Pieces)
    OBVIOUS
  <2> HIDE DEF T
  <2> QED
    BY <1>1, <1>2, <2>1, Extending
<1> QED
  BY <1>3

\* The pieces of a document are the document, and each keeps to the limits or is a word.
LEMMA SplitSegmentsKeeps ==
  ASSUME NEW c, NEW text \in Seq(Words)
  PROVE  /\ SplitSegments(c, text) \in Seq(Segments(c))
         /\ JoinSegments(SplitSegments(c, text)) = text
<1>1. PICK paragraphs \in Seq(Seq(Words)) :
        paragraphs = Split(c, "paragraph", text) /\ FlattenSeq(paragraphs) = text
  BY SplitKeeps
<1>2. PICK n \in Nat : n = Len(paragraphs) /\ DOMAIN paragraphs = 1..n
  BY LenProperties
<1>3. PICK cut : cut = [i \in 1..n |-> SplitParagraph(c, paragraphs[i])]
  OBVIOUS
<1>4. ASSUME NEW i \in 1..n
      PROVE  cut[i] \in Seq(SizedTexts(c)) /\ FlattenSeq(cut[i]) = paragraphs[i]
  <2>1. paragraphs[i] \in Seq(Words)
    BY <1>2, ElementOfSeq
  <2> QED
    BY <1>3, <2>1, SplitParagraphKeeps
<1>5. cut \in Seq(Seq(SizedTexts(c))) /\ Len(cut) = n
  BY <1>3, <1>4
<1>6. PICK pieces \in Seq(SizedTexts(c)) : pieces = FlattenSeq(cut)
  BY <1>5, FlattenType
<1>7. FlattenSeq(pieces) = text
  <2>1. Seq(SizedTexts(c)) \subseteq Seq(Seq(Words))
    BY SizedAreTexts
  <2>2. cut \in Seq(Seq(Seq(Words)))
    BY <1>5, <2>1, SeqMonotonic
  <2> QED
    BY <1>1, <1>2, <1>4, <1>5, <1>6, <2>2, CutEach
<1>8. SplitSegments(c, text) = AsSegments(pieces)
  BY <1>1, <1>2, <1>3, <1>6 DEF SplitSegments
<1>9. PICK m \in Nat : m = Len(pieces) /\ DOMAIN pieces = 1..m
  BY LenProperties
<1>10. PICK whole : whole = [i \in 1..m |-> [words |-> pieces[i], overlap |-> FALSE]]
  OBVIOUS
<1>11. ASSUME NEW i \in 1..m PROVE whole[i] \in Segments(c)
  <2>1. pieces[i] \in SizedTexts(c)
    BY <1>9, ElementOfSeq
  <2> QED
    BY <1>10, <2>1 DEF Segments
<1>12. whole \in Seq(Segments(c))
  BY <1>10, <1>11
<1>13. AsSegments(pieces) = whole
  BY <1>9, <1>10 DEF AsSegments
<1>14. [i \in DOMAIN whole |-> whole[i].words] = pieces
  <2>1. DOMAIN whole = 1..m /\ \A i \in 1..m : whole[i].words = pieces[i]
    BY <1>10
  <2>2. pieces = [i \in 1..m |-> pieces[i]]
    BY <1>9, LenProperties
  <2> QED
    BY <2>1, <2>2
<1> QED
  BY <1>7, <1>8, <1>12, <1>13, <1>14 DEF JoinSegments

-----------------------------------------------------------------------------
(* Limits and overlaps *)

\* What keeps to the limits does so in part.
LEMMA FitsInPart ==
  ASSUME NEW c \in Configs, NEW a \in Seq(Words), NEW b \in Seq(Words), Fits(c, a \o b)
  PROVE  Fits(c, a) /\ Fits(c, b)
<1>1. c.chars \in Nat /\ c.tokens \in Nat
  BY ChunkingAssumption
<1>2. Chars(a \o b) = Chars(a) + Chars(b) + 1 /\ Len(a \o b) = Len(a) + Len(b)
  BY CharsConcat, ConcatProperties
<1>3. /\ Chars(a) \in Int /\ Chars(a) >= Len(a) - 1 /\ Len(a) \in Nat
      /\ Chars(b) \in Int /\ Chars(b) >= Len(b) - 1 /\ Len(b) \in Nat
  BY CharsType
<1>4. Chars(a \o b) <= c.chars /\ Len(a \o b) <= c.tokens
  BY DEF Fits
<1> QED
  BY <1>1, <1>2, <1>3, <1>4 DEF Fits

\* The repetition is the end of the text, or nothing.
LEMMA OverlapIsSuffix ==
  ASSUME NEW text \in Seq(Words)
  PROVE  \E n \in 0..Len(text) :
           OverlapText(text) = SubSeq(text, Len(text) - n + 1, Len(text))
<1>1. PICK l \in Nat : l = Len(text)
  BY LenProperties
<1> DEFINE suffix(n) == SubSeq(text, Len(text) - n + 1, Len(text))
           allowed(n) ==
             /\ config.overlapTokens = 0 \/ n <= config.overlapTokens
             /\ config.overlapChars = 0 \/ Chars(suffix(n)) <= config.overlapChars
           longest(n) == /\ \A k \in 1..n : allowed(k)
                         /\ n = Len(text) \/ ~allowed(n + 1)
<1>2. \E n \in 0..Len(text) : longest(n)
  <2> DEFINE Refused == {k \in 1..l : ~allowed(k)}
  <2>1. CASE Refused = {}
    <3>1. \A k \in 1..l : allowed(k)
      BY <2>1
    <3> QED
      BY <1>1, <3>1
  <2>2. CASE Refused # {}
    <3>1. PICK k \in Refused : \A j \in Refused : k <= j
      <4>1. Refused \in SUBSET Nat
        OBVIOUS
      <4> HIDE DEF Refused
      <4> QED
        BY <2>2, <4>1, LeastNumber
    <3>2. k \in 1..l /\ ~allowed(k)
      OBVIOUS
    <3>3. \A j \in 1..(k - 1) : j \in 1..l /\ ~(k <= j)
      BY <3>2
    <3>4. \A j \in 1..(k - 1) : allowed(j)
      BY <3>1, <3>3
    <3>5. k - 1 \in 0..l /\ (k - 1) + 1 = k
      BY <3>2
    <3>6. longest(k - 1)
      <4> HIDE DEF allowed
      <4> QED
        BY <3>2, <3>4, <3>5
    <3> HIDE DEF longest
    <3> QED
      BY <1>1, <3>5, <3>6
  <2> QED
    BY <2>1, <2>2
<1>3. OverlapText(text) = suffix(CHOOSE n \in 0..Len(text) : longest(n))
  BY DEF OverlapText
<1>4. PICK n \in 0..Len(text) : n = CHOOSE m \in 0..Len(text) : longest(m)
  <2> HIDE DEF longest
  <2> QED
    BY <1>2
<1> HIDE DEF longest
<1> QED
  BY <1>3, <1>4

\* A text is what is before any end of it, and that end.
LEMMA SuffixSplits ==
  ASSUME NEW text \in Seq(Words), NEW n \in 0..Len(text)
  PROVE  LET rest == SubSeq(text, 1, Len(text) - n)
             end == SubSeq(text, Len(text) - n + 1, Len(text))
         IN  /\ rest \in Seq(Words) /\ end \in Seq(Words) /\ text = rest \o end
             /\ n = 0 => end = <<>>
             /\ n = Len(text) => end = text
<1>1. PICK l \in Nat : l = Len(text)
  BY LenProperties
<1>2. n \in 0..l /\ \A i \in 1..l : text[i] \in Words
  BY <1>1, ElementOfSeq
<1>3. SubSeq(text, 1, l - n) \in Seq(Words)
  <2>1. \A i \in 1..(l - n) : text[i] \in Words
    BY <1>2
  <2> QED
    BY <1>2, <2>1, SubSeqProperties
<1>4. SubSeq(text, l - n + 1, l) \in Seq(Words)
  <2>1. \A i \in (l - n + 1)..l : text[i] \in Words
    BY <1>2
  <2> QED
    BY <1>2, <2>1, SubSeqProperties
<1>5. SubSeq(text, 1, l - n) \o SubSeq(text, (l - n) + 1, l) = SubSeq(text, 1, l)
  <2>1. 1 \in 1..(Len(text) + 1) /\ l - n \in (1 - 1)..Len(text) /\ l \in (l - n)..Len(text)
    BY <1>1, <1>2
  <2> QED
    BY <2>1, ConcatAdjacentSubSeq
<1>6. SubSeq(text, 1, l) = text
  BY <1>1, SubSeqFull
<1>7. n = 0 => SubSeq(text, l - n + 1, l) = <<>>
  BY <1>2, SubSeqEmpty
<1>8. n = l => SubSeq(text, l - n + 1, l) = text
  BY <1>6
<1> QED
  BY <1>1, <1>3, <1>4, <1>5, <1>6, <1>7, <1>8

\* A repetition is a piece that keeps to the limits.
LEMMA OverlapFits ==
  ASSUME config \in Configs, NEW ps \in Seq(Pieces), Sized(config, JoinSegments(ps))
  PROVE  \/ OverlapSegment(ps) = <<>>
         \/ \E p \in Pieces : p.overlap /\ Fits(config, p.words) /\ OverlapSegment(ps) = <<p>>
<1>1. PICK text \in Seq(Words) : text = JoinSegments(ps)
  BY JoinType
<1>2. PICK n \in 0..Len(text) : OverlapText(text) = SubSeq(text, Len(text) - n + 1, Len(text))
  BY OverlapIsSuffix
<1>3. PICK rest, end \in Seq(Words) :
        /\ end = OverlapText(text) /\ text = rest \o end
        /\ n = 0 => end = <<>>
        /\ n = Len(text) => end = text
  <2> DEFINE start == SubSeq(text, 1, Len(text) - n)
             last == SubSeq(text, Len(text) - n + 1, Len(text))
  <2>1. /\ start \in Seq(Words) /\ last \in Seq(Words) /\ text = start \o last
        /\ n = 0 => last = <<>>
        /\ n = Len(text) => last = text
    BY SuffixSplits, Zenon
  <2>2. last = OverlapText(text)
    BY <1>2, Zenon
  <2> HIDE DEF start, last
  <2> QED
    BY <2>1, <2>2, Zenon
<1>4. CASE end = <<>> \/ end = text
  BY <1>1, <1>3, <1>4 DEF OverlapSegment
<1>5. CASE ~(end = <<>> \/ end = text)
  <2>1. PICK p : p = [words |-> end, overlap |-> TRUE]
    OBVIOUS
  <2>2. OverlapSegment(ps) = <<p>>
    BY <1>1, <1>3, <1>5, <2>1 DEF OverlapSegment
  <2>3. Len(text) # 1
    BY <1>3, <1>5
  <2>4. Fits(config, end)
    <3>1. Fits(config, rest \o end)
      BY <1>1, <1>3, <2>3 DEF Sized
    <3> QED
      BY <3>1, FitsInPart
  <2>5. p \in Pieces /\ p.overlap /\ p.words = end
    BY <2>1 DEF Pieces
  <2> QED
    BY <2>2, <2>4, <2>5
<1> QED
  BY <1>4, <1>5

-----------------------------------------------------------------------------
(* Chunks *)

\* A chunk has pieces, of which only the first may be an overlap, and keeps to the limits
\* or is a single word.
ChunkOf(c) ==
  {ps \in Seq(Pieces) :
     /\ ps # <<>> /\ \A i \in 2..Len(ps) : ~ps[i].overlap
     /\ ps[1].overlap => Fits(c, ps[1].words)
     /\ Sized(c, JoinSegments(ps))}

Packings(c) == [chunks : Seq(ChunkOf(c)), parts : ChunkOf(c) \cup {<<>>}]

Added(s) == FlattenSeq([i \in DOMAIN s.chunks |-> Own(s.chunks[i])]) \o Own(s.parts)

LEMMA OwnType == ASSUME NEW ps \in Seq(Pieces) PROVE Own(ps) \in Seq(Pieces)
BY HeadTailProperties DEF Own

LEMMA OwnEmpty == Own(<<>>) = <<>>
BY DEF Own

\* A further piece is the chunk's own, unless it is the overlap at its beginning.
LEMMA OwnAppend ==
  ASSUME NEW ps \in Seq(Pieces), NEW p \in Pieces, ps = <<>> => ~p.overlap
  PROVE  Own(Append(ps, p)) = Append(Own(ps), p)
<1>1. PICK qs \in Seq(Pieces) : qs = Append(ps, p) /\ qs # <<>>
  BY AppendProperties
<1>2. /\ Head(qs) = IF ps = <<>> THEN p ELSE Head(ps)
      /\ Tail(qs) = IF ps = <<>> THEN <<>> ELSE Append(Tail(ps), p)
  BY <1>1, HeadTailAppend
<1>3. CASE ps = <<>>
  BY <1>1, <1>2, <1>3 DEF Own
<1>4. CASE ps # <<>>
  BY <1>1, <1>2, <1>4 DEF Own
<1> QED
  BY <1>3, <1>4

\* Among the pieces of a chunk there is one of its own, or it is one overlap.
LEMMA OwnOfChunk ==
  ASSUME NEW c, NEW ps \in ChunkOf(c)
  PROVE  /\ Own(ps) = <<>> <=> \A i \in DOMAIN ps : ps[i].overlap
         /\ Own(ps) = <<>> => \E p \in Pieces : p.overlap /\ Fits(c, p.words) /\ ps = <<p>>
<1>1. PICK n \in Nat : n = Len(ps) /\ DOMAIN ps = 1..n /\ n # 0
  BY LenProperties, EmptySeq DEF ChunkOf
<1>2. /\ ps \in Seq(Pieces) /\ ps # <<>> /\ \A i \in 2..n : ~ps[i].overlap
      /\ ps[1].overlap => Fits(c, ps[1].words)
  BY <1>1 DEF ChunkOf
<1>3. Head(ps) = ps[1] /\ ps[1] \in Pieces
  BY <1>1, <1>2, ElementOfSeq
<1>4. CASE ~ps[1].overlap
  <2>1. Own(ps) # <<>>
    BY <1>2, <1>3, <1>4 DEF Own
  <2> QED
    BY <1>1, <1>4, <2>1
<1>5. CASE ps[1].overlap /\ n = 1
  <2>1. Own(ps) = Tail(ps)
    BY <1>2, <1>3, <1>5 DEF Own
  <2>2. Tail(ps) = <<>>
    <3>1. Tail(ps) \in Seq(Pieces) /\ Len(Tail(ps)) = 0
      BY <1>1, <1>2, <1>5, HeadTailProperties
    <3> QED
      BY <3>1, EmptySeq
  <2>3. ps = <<ps[1]>>
    <3>first. PICK p \in Pieces : p = ps[1]
      BY <1>3
    <3>1. PICK qs \in Seq(Pieces) : qs = <<p>> /\ Len(qs) = 1 /\ qs[1] = p
      <4>1. <<p>> \in Seq(Pieces) /\ Len(<<p>>) = 1 /\ <<p>>[1] = p
        OBVIOUS
      <4> QED
        BY <4>1
    <3>2. Len(ps) = Len(qs) /\ \A i \in 1..Len(ps) : ps[i] = qs[i]
      BY <1>1, <1>5, <3>first, <3>1
    <3> QED
      BY <1>2, <3>first, <3>1, <3>2, SeqEqual
  <2>4. \A i \in DOMAIN ps : ps[i].overlap
    BY <1>1, <1>5
  <2> QED
    BY <1>2, <1>3, <1>5, <2>1, <2>2, <2>3, <2>4
<1>6. CASE ps[1].overlap /\ n # 1
  <2>1. Own(ps) = Tail(ps)
    BY <1>2, <1>3, <1>6 DEF Own
  <2>2. Len(Tail(ps)) # 0
    BY <1>1, <1>2, <1>6, HeadTailProperties
  <2>3. Tail(ps) # <<>>
    BY <2>2, EmptySeq
  <2>4. 2 \in DOMAIN ps /\ ~ps[2].overlap
    BY <1>1, <1>2, <1>6
  <2> QED
    BY <2>1, <2>3, <2>4
<1> QED
  BY <1>4, <1>5, <1>6

LEMMA OwnTexts ==
  ASSUME NEW c, NEW cs \in Seq(ChunkOf(c))
  PROVE  [i \in DOMAIN cs |-> Own(cs[i])] \in Seq(Seq(Pieces))
<1>1. PICK n \in Nat : n = Len(cs) /\ DOMAIN cs = 1..n
  BY LenProperties
<1>2. ASSUME NEW i \in 1..n PROVE Own(cs[i]) \in Seq(Pieces)
  <2>1. cs[i] \in ChunkOf(c)
    BY <1>1, ElementOfSeq
  <2> QED
    BY <2>1, OwnType DEF ChunkOf
<1>3. PICK g : g = [i \in 1..n |-> Own(cs[i])]
  OBVIOUS
<1>4. g \in Seq(Seq(Pieces))
  BY <1>2, <1>3
<1> QED
  BY <1>1, <1>3, <1>4

\* What a further chunk adds comes after what the chunks before it add.
LEMMA ChunkAdds ==
  ASSUME NEW c, NEW cs \in Seq(ChunkOf(c)), NEW ps \in ChunkOf(c)
  PROVE  LET more == Append(cs, ps)
         IN  FlattenSeq([i \in DOMAIN more |-> Own(more[i])])
               = FlattenSeq([i \in DOMAIN cs |-> Own(cs[i])]) \o Own(ps)
<1>1. PICK n \in Nat : n = Len(cs) /\ DOMAIN cs = 1..n
  BY LenProperties
<1>2. PICK more \in Seq(ChunkOf(c)) : more = Append(cs, ps)
  BY AppendProperties
<1>3. /\ DOMAIN more = 1..(n + 1) /\ more[n + 1] = ps /\ \A i \in 1..n : more[i] = cs[i]
  <2>1. Len(more) = n + 1 /\ more[n + 1] = ps /\ \A i \in 1..n : more[i] = cs[i]
    BY <1>1, <1>2, AppendProperties
  <2> QED
    BY <2>1, LenProperties
<1>4. PICK a \in Seq(Seq(Pieces)) : a = [i \in DOMAIN cs |-> Own(cs[i])]
  BY OwnTexts
<1>5. PICK b \in Seq(Seq(Pieces)) : b = [i \in DOMAIN more |-> Own(more[i])]
  BY OwnTexts
<1>6. PICK own \in Seq(Pieces) : own = Own(ps)
  BY OwnType DEF ChunkOf
<1>7. b = Append(a, own)
  <2>1. Len(a) = n /\ Len(b) = n + 1
    BY <1>1, <1>3, <1>4, <1>5
  <2>2. PICK d \in Seq(Seq(Pieces)) : d = Append(a, own)
    BY AppendProperties
  <2>3. Len(d) = n + 1 /\ d[n + 1] = own /\ \A i \in 1..n : d[i] = a[i]
    BY <2>1, <2>2, AppendProperties
  <2>4. ASSUME NEW i \in 1..(n + 1) PROVE b[i] = d[i]
    <3>1. CASE i = n + 1
      BY <1>3, <1>5, <1>6, <2>3, <3>1
    <3>2. CASE i # n + 1
      <4>1. i \in 1..n
        BY <3>2
      <4> QED
        BY <1>1, <1>3, <1>4, <1>5, <2>3, <4>1
    <3> QED
      BY <3>1, <3>2
  <2>5. Len(b) = Len(d) /\ \A i \in 1..Len(b) : b[i] = d[i]
    BY <2>1, <2>3, <2>4
  <2> QED
    BY <2>2, <2>5, SeqEqual
<1>8. FlattenSeq(Append(a, own)) = FlattenSeq(a) \o own
  BY FlattenAppend
<1> QED
  BY <1>2, <1>4, <1>5, <1>6, <1>7, <1>8

\* A piece alone is a chunk if it may be one at all.
LEMMA PieceAlone ==
  ASSUME NEW c, NEW p \in Pieces, Sized(c, p.words), p.overlap => Fits(c, p.words)
  PROVE  <<p>> \in ChunkOf(c)
<1>1. <<p>> \in Seq(Pieces) /\ <<p>> # <<>> /\ Len(<<p>>) = 1 /\ <<p>>[1] = p
  OBVIOUS
<1>2. JoinSegments(<<p>>) = p.words
  BY JoinOne
<1> QED
  BY <1>1, <1>2 DEF ChunkOf

LEMMA SegmentIsPiece ==
  ASSUME NEW c, NEW p \in Segments(c)
  PROVE  p \in Pieces /\ ~p.overlap /\ Sized(c, p.words) /\ <<p>> \in ChunkOf(c)
<1>1. p \in Pieces /\ ~p.overlap /\ Sized(c, p.words)
  BY DEF Segments, Pieces, SizedTexts
<1> QED
  BY <1>1, PieceAlone

\* Emitting a chunk loses nothing and leaves nothing that is not a repetition.
LEMMA FlushKeeps ==
  ASSUME config \in Configs, NEW s \in Packings(config), s.parts # <<>>
  PROVE  /\ Flush(s) \in Packings(config)
         /\ Flush(s).chunks = Append(s.chunks, s.parts)
         /\ Added(Flush(s)) = Added(s)
         /\ Own(Flush(s).parts) = <<>>
<1>1. s.chunks \in Seq(ChunkOf(config)) /\ s.parts \in ChunkOf(config)
  BY DEF Packings
<1>2. s.parts \in Seq(Pieces) /\ Sized(config, JoinSegments(s.parts))
  BY <1>1 DEF ChunkOf
<1>3. PICK rest : rest = OverlapSegment(s.parts)
  OBVIOUS
<1>4. rest \in ChunkOf(config) \cup {<<>>} /\ Own(rest) = <<>>
  <2>1. CASE rest = <<>>
    BY <2>1, OwnEmpty
  <2>2. CASE rest # <<>>
    <3>1. PICK p \in Pieces : p.overlap /\ Fits(config, p.words) /\ rest = <<p>>
      BY <1>2, <1>3, <2>2, OverlapFits
    <3>2. rest \in ChunkOf(config)
      BY <3>1, PieceAlone DEF Sized
    <3>3. Head(rest) = p /\ Tail(rest) = <<>> /\ rest # <<>>
      BY <3>1
    <3>4. Own(rest) = <<>>
      BY <3>1, <3>3 DEF Own
    <3> QED
      BY <3>2, <3>4
  <2> QED
    BY <2>1, <2>2
<1>5. PICK more \in Seq(ChunkOf(config)) : more = Append(s.chunks, s.parts)
  BY <1>1, AppendProperties
<1>6. Flush(s) = [chunks |-> more, parts |-> rest]
  BY <1>3, <1>5 DEF Flush
<1>7. Added(Flush(s)) = Added(s)
  <2>1. FlattenSeq([i \in DOMAIN more |-> Own(more[i])])
          = FlattenSeq([i \in DOMAIN s.chunks |-> Own(s.chunks[i])]) \o Own(s.parts)
    BY <1>1, <1>5, ChunkAdds
  <2>2. FlattenSeq([i \in DOMAIN more |-> Own(more[i])]) \in Seq(Pieces)
    BY OwnTexts, FlattenType
  <2>3. Added(Flush(s)) = FlattenSeq([i \in DOMAIN more |-> Own(more[i])]) \o <<>>
    <3>1. PICK t : t = Flush(s) /\ t.chunks = more /\ t.parts = rest
      BY <1>6
    <3> QED
      BY <1>4, <3>1 DEF Added
  <2> QED
    BY <2>1, <2>2, <2>3, ConcatEmptySeq DEF Added
<1> QED
  BY <1>4, <1>5, <1>6, <1>7 DEF Packings

\* Placing a segment adds it, provided that only a repetition gives way to it.
LEMMA PlaceKeeps ==
  ASSUME config \in Configs, NEW s \in Packings(config), NEW p \in Segments(config),
         WithinLimits(Append(s.parts, p)) \/ Own(s.parts) = <<>>
  PROVE  /\ Place(s, p) \in ChunkOf(config)
         /\ Own(Place(s, p)) = Append(Own(s.parts), p)
<1>1. p \in Pieces /\ ~p.overlap /\ Sized(config, p.words) /\ <<p>> \in ChunkOf(config)
  BY SegmentIsPiece
<1>2. Own(<<p>>) = <<p>>
  BY <1>1 DEF Own
<1>3. CASE s.parts = <<>>
  <2>1. Place(s, p) = <<p>>
    BY <1>3 DEF Place
  <2>2. Append(<<>>, p) = <<p>>
    OBVIOUS
  <2> QED
    BY <1>1, <1>2, <1>3, <2>1, <2>2, OwnEmpty
<1>4. CASE s.parts # <<>> /\ WithinLimits(Append(s.parts, p))
  <2>1. Place(s, p) = Append(s.parts, p)
    BY <1>4 DEF Place
  <2>2. s.parts \in ChunkOf(config)
    BY <1>4 DEF Packings
  <2>3. PICK ps \in Seq(Pieces) : ps = s.parts
    BY <2>2 DEF ChunkOf
  <2>4. PICK n \in Nat : n = Len(ps) /\ n # 0
    BY <1>4, <2>3, LenProperties, EmptySeq
  <2>5. PICK qs \in Seq(Pieces) : qs = Append(ps, p)
    BY <1>1, AppendProperties
  <2>6. /\ qs # <<>> /\ Len(qs) = n + 1 /\ qs[n + 1] = p
        /\ \A i \in 1..n : qs[i] = ps[i]
    BY <1>1, <2>4, <2>5, AppendProperties
  <2>7. /\ \A i \in 2..n : ~ps[i].overlap
        /\ ps[1].overlap => Fits(config, ps[1].words)
    BY <2>2, <2>3, <2>4 DEF ChunkOf
  <2>8. \A i \in 2..Len(qs) : ~qs[i].overlap
    BY <1>1, <2>4, <2>6, <2>7
  <2>9. qs[1] = ps[1]
    BY <2>4, <2>6
  <2>10. Sized(config, JoinSegments(qs))
    BY <1>4, <2>3, <2>5 DEF WithinLimits, Sized
  <2>11. qs \in ChunkOf(config)
    BY <2>6, <2>7, <2>8, <2>9, <2>10 DEF ChunkOf
  <2>12. Own(Append(ps, p)) = Append(Own(ps), p)
    BY <1>1, <1>4, <2>3, OwnAppend
  <2> QED
    BY <2>1, <2>3, <2>5, <2>11, <2>12
<1>5. CASE s.parts # <<>> /\ ~WithinLimits(Append(s.parts, p))
  <2>1. Place(s, p) = <<p>> /\ Own(s.parts) = <<>>
    BY <1>5 DEF Place
  <2> QED
    BY <1>1, <1>2, <2>1
<1> QED
  BY <1>3, <1>4, <1>5

\* What has no room alone has none behind other parts.
LEMMA NoRoom ==
  ASSUME config \in Configs, NEW ps \in Seq(Pieces), NEW p \in Pieces,
         WithinLimits(Append(ps, p))
  PROVE  WithinLimits(ps) /\ WithinLimits(<<p>>)
<1>1. JoinSegments(Append(ps, p)) = JoinSegments(ps) \o p.words
  BY JoinAppend
<1>2. JoinSegments(<<p>>) = p.words
  BY JoinOne
<1>3. JoinSegments(ps) \in Seq(Words) /\ p.words \in Seq(Words)
  BY JoinType DEF Pieces
<1>4. Fits(config, JoinSegments(ps) \o p.words)
  BY <1>1 DEF WithinLimits
<1> QED
  BY <1>2, <1>3, <1>4, FitsInPart DEF WithinLimits

\* EchoesBeforeLongWords of a packing.
Echoes(s) ==
  \A i \in DOMAIN s.chunks : Own(s.chunks[i]) = <<>> =>
    LET after == IF i < Len(s.chunks) THEN s.chunks[i + 1] ELSE s.parts
    IN  Len(after) = 1 /\ ~WithinLimits(after)

\* The last chunk is not a mere repetition.
Settled(s) == s.chunks = <<>> \/ Own(s.chunks[Len(s.chunks)]) # <<>>

\* If the chunk under construction may be emitted with what follows it, the echoes are
\* still where they may be.
LEMMA EchoFlush ==
  ASSUME NEW c, NEW s \in Packings(c), s.parts # <<>>, Echoes(s), NEW r \in Packings(c),
         r.chunks = Append(s.chunks, s.parts),
         Own(s.parts) = <<>> => Len(r.parts) = 1 /\ ~WithinLimits(r.parts)
  PROVE  Echoes(r)
<1>1. PICK cs \in Seq(ChunkOf(c)), ps \in ChunkOf(c) : cs = s.chunks /\ ps = s.parts
  BY DEF Packings
<1>2. PICK n \in Nat : n = Len(cs) /\ DOMAIN cs = 1..n
  BY LenProperties
<1>3. PICK more \in Seq(ChunkOf(c)) : more = Append(cs, ps)
  BY AppendProperties
<1>4. /\ Len(more) = n + 1 /\ DOMAIN more = 1..(n + 1) /\ more[n + 1] = ps
      /\ \A i \in 1..n : more[i] = cs[i]
  <2>1. Len(more) = n + 1 /\ more[n + 1] = ps /\ \A i \in 1..n : more[i] = cs[i]
    BY <1>2, <1>3, AppendProperties
  <2> QED
    BY <2>1, LenProperties
<1>5. r.chunks = more
  BY <1>1, <1>3
<1>6. ASSUME NEW i \in 1..(n + 1), Own(more[i]) = <<>>
      PROVE  LET after == IF i < n + 1 THEN more[i + 1] ELSE r.parts
             IN  Len(after) = 1 /\ ~WithinLimits(after)
  <2>1. CASE i < n
    <3>1. i \in 1..n /\ i + 1 \in 1..n /\ i < n + 1
      BY <2>1
    <3>2. Own(cs[i]) = <<>> /\ more[i + 1] = cs[i + 1]
      BY <1>4, <1>6, <3>1
    <3>3. Len(cs[i + 1]) = 1 /\ ~WithinLimits(cs[i + 1])
      BY <1>1, <1>2, <2>1, <3>1, <3>2 DEF Echoes
    <3> QED
      BY <3>1, <3>2, <3>3
  <2>2. CASE i = n
    <3>1. i \in 1..n /\ ~(i < n) /\ i < n + 1 /\ more[i + 1] = ps
      BY <1>4, <2>2
    <3>2. Own(cs[i]) = <<>>
      BY <1>4, <1>6, <3>1
    <3>3. Len(ps) = 1 /\ ~WithinLimits(ps)
      BY <1>1, <1>2, <3>1, <3>2 DEF Echoes
    <3> QED
      BY <3>1, <3>3
  <2>3. CASE i = n + 1
    BY <1>1, <1>4, <1>6, <2>3
  <2> QED
    BY <2>1, <2>2, <2>3
<1> QED
  BY <1>4, <1>5, <1>6 DEF Echoes

\* Making room for a segment loses nothing, and leaves parts that it fits behind or that
\* only repeat what was emitted.
LEMMA MakeRoomKeeps ==
  ASSUME config \in Configs, NEW s \in Packings(config), Echoes(s), NEW p \in Segments(config)
  PROVE  \E r \in Packings(config) :
           /\ r = MakeRoom(s, p) /\ Added(r) = Added(s) /\ Echoes(r) /\ Settled(r)
           /\ WithinLimits(Append(r.parts, p)) \/ Own(r.parts) = <<>>
<1>1. p \in Pieces
  BY SegmentIsPiece
<1>2. s.parts \in ChunkOf(config) \cup {<<>>} /\ s.chunks \in Seq(ChunkOf(config))
  BY DEF Packings
<1>3. CASE /\ s.parts # <<>> /\ ~WithinLimits(Append(s.parts, p))
           /\ \E i \in DOMAIN s.parts : ~s.parts[i].overlap
  <2>1. MakeRoom(s, p) = Flush(s)
    BY <1>3 DEF MakeRoom
  <2>2. s.parts \in ChunkOf(config) /\ Own(s.parts) # <<>>
    BY <1>2, <1>3, OwnOfChunk
  <2>3. PICK r \in Packings(config) :
          /\ r = Flush(s) /\ r.chunks = Append(s.chunks, s.parts)
          /\ Added(r) = Added(s) /\ Own(r.parts) = <<>>
    BY <1>3, FlushKeeps
  <2>4. Echoes(r)
    BY <1>3, <2>2, <2>3, EchoFlush
  <2>5. Settled(r)
    <3>1. r.chunks[Len(r.chunks)] = s.parts
      <4>1. PICK n \in Nat : n = Len(s.chunks)
        BY <1>2, LenProperties
      <4>2. Len(r.chunks) = n + 1 /\ r.chunks[n + 1] = s.parts
        BY <1>2, <2>2, <2>3, <4>1, AppendProperties
      <4> QED
        BY <4>2
    <3> QED
      BY <2>2, <3>1 DEF Settled
  <2> QED
    BY <2>1, <2>3, <2>4, <2>5
<1>4. CASE ~(/\ s.parts # <<>> /\ ~WithinLimits(Append(s.parts, p))
             /\ \E i \in DOMAIN s.parts : ~s.parts[i].overlap)
  <2>1. MakeRoom(s, p) = s
    BY <1>4 DEF MakeRoom
  <2>2. WithinLimits(Append(s.parts, p)) \/ Own(s.parts) = <<>>
    <3>1. CASE s.parts = <<>>
      BY <3>1, OwnEmpty
    <3>2. CASE s.parts # <<>> /\ ~WithinLimits(Append(s.parts, p))
      BY <1>2, <1>4, <3>2, OwnOfChunk
    <3> QED
      BY <3>1, <3>2
  <2>3. ~(Len(s.parts) = 1 /\ ~WithinLimits(s.parts))
    <3>1. SUFFICES ASSUME Len(s.parts) = 1, ~WithinLimits(s.parts) PROVE FALSE
      OBVIOUS
    <3>2. s.parts \in ChunkOf(config)
      <4>1. s.parts # <<>>
        <5>1. Len(<<>>) = 0
          BY EmptySeq
        <5>2. Len(s.parts) # 0
          BY <3>1
        <5> QED
          BY <5>1, <5>2, Zenon
      <4> QED
        BY <1>2, <4>1
    <3>3. s.parts \in Seq(Pieces)
      BY <3>2 DEF ChunkOf
    <3>4. ~WithinLimits(Append(s.parts, p))
      BY <1>1, <3>1, <3>3, NoRoom
    <3>5. PICK q \in Pieces : Fits(config, q.words) /\ s.parts = <<q>>
      BY <2>2, <3>2, <3>4, OwnOfChunk
    <3>6. JoinSegments(s.parts) = q.words
      BY <3>5, JoinOne
    <3> QED
      BY <3>1, <3>5, <3>6 DEF WithinLimits
  <2>4. Settled(s)
    <3>1. SUFFICES ASSUME s.chunks # <<>> PROVE Own(s.chunks[Len(s.chunks)]) # <<>>
      BY DEF Settled
    <3>2. PICK n \in Nat : n = Len(s.chunks) /\ DOMAIN s.chunks = 1..n /\ n # 0
      BY <1>2, <3>1, LenProperties, EmptySeq
    <3>3. n \in DOMAIN s.chunks /\ ~(n < Len(s.chunks))
      BY <3>2
    <3> QED
      BY <2>3, <3>2, <3>3 DEF Echoes
  <2> QED
    BY <2>1, <2>2, <2>4
<1> QED
  BY <1>3, <1>4

\* Making way for a segment that has no room anywhere, and placing it.
LEMMA MakeWayKeeps ==
  ASSUME config \in Configs, NEW r \in Packings(config), Echoes(r), Settled(r),
         NEW p \in Segments(config), WithinLimits(Append(r.parts, p)) \/ Own(r.parts) = <<>>
  PROVE  \E q \in Packings(config) :
           /\ q = [chunks |-> MakeWay(r, p).chunks, parts |-> Place(MakeWay(r, p), p)]
           /\ Added(q) = Append(Added(r), p) /\ Echoes(q)
           /\ q.parts # <<>> /\ Own(q.parts) # <<>>
<1>1. p \in Pieces
  BY SegmentIsPiece
<1>2. r.parts \in ChunkOf(config) \cup {<<>>} /\ r.chunks \in Seq(ChunkOf(config))
  BY DEF Packings
<1>3. ASSUME NEW t \in Packings(config), NEW q,
             WithinLimits(Append(t.parts, p)) \/ Own(t.parts) = <<>>,
             q = [chunks |-> t.chunks, parts |-> Place(t, p)]
      PROVE  /\ q \in Packings(config) /\ Added(q) = Append(Added(t), p)
             /\ q.parts # <<>> /\ Own(q.parts) # <<>>
  <2>1. Place(t, p) \in ChunkOf(config) /\ Own(Place(t, p)) = Append(Own(t.parts), p)
    BY <1>3, PlaceKeeps
  <2>2. t.chunks \in Seq(ChunkOf(config)) /\ t.parts \in ChunkOf(config) \cup {<<>>}
    BY DEF Packings
  <2>3. PICK own \in Seq(Pieces) : own = Own(t.parts)
    <3>1. t.parts \in Seq(Pieces)
      BY <2>2, EmptySeq DEF ChunkOf
    <3> QED
      BY <3>1, OwnType
  <2>4. PICK done \in Seq(Pieces) : done = FlattenSeq([i \in DOMAIN t.chunks |-> Own(t.chunks[i])])
    BY <2>2, OwnTexts, FlattenType
  <2>5. done \o Append(own, p) = Append(done \o own, p)
    BY <1>1, AppendConcat
  <2>6. q.chunks = t.chunks /\ q.parts = Place(t, p) /\ q \in Packings(config)
    BY <1>3, <2>1, <2>2 DEF Packings
  <2>7. Added(q) = Append(Added(t), p)
    BY <2>1, <2>3, <2>4, <2>5, <2>6 DEF Added
  <2>8. Append(own, p) # <<>>
    BY <1>1, AppendProperties
  <2> QED
    BY <2>1, <2>3, <2>6, <2>7, <2>8 DEF ChunkOf
<1>4. CASE ~(r.parts # <<>> /\ ~WithinLimits(Place(r, p)))
  <2>1. MakeWay(r, p) = r
    BY <1>4 DEF MakeWay
  <2>2. PICK q : q = [chunks |-> r.chunks, parts |-> Place(r, p)]
    OBVIOUS
  <2>3. /\ q \in Packings(config) /\ Added(q) = Append(Added(r), p)
        /\ q.parts # <<>> /\ Own(q.parts) # <<>>
    BY <1>3, <2>2
  <2>4. Echoes(q)
    <3>1. q.chunks = r.chunks
      BY <2>2
    <3>2. PICK n \in Nat : n = Len(r.chunks) /\ DOMAIN r.chunks = 1..n
      BY <1>2, LenProperties
    <3>3. ASSUME NEW i \in 1..n, Own(r.chunks[i]) = <<>> PROVE i < n
      <4>1. CASE i = n
        <5>1. r.chunks # <<>>
          BY <3>2, EmptySeq
        <5> QED
          BY <3>2, <3>3, <4>1, <5>1 DEF Settled
      <4> QED
        BY <4>1
    <3> QED
      BY <3>1, <3>2, <3>3 DEF Echoes
  <2> QED
    BY <2>1, <2>2, <2>3, <2>4
<1>5. CASE r.parts # <<>> /\ ~WithinLimits(Place(r, p))
  <2>1. MakeWay(r, p) = Flush(r)
    BY <1>5 DEF MakeWay
  <2>2. ~WithinLimits(Append(r.parts, p)) /\ Place(r, p) = <<p>> /\ Own(r.parts) = <<>>
    BY <1>5 DEF Place
  <2>3. PICK t \in Packings(config) :
          /\ t = Flush(r) /\ t.chunks = Append(r.chunks, r.parts)
          /\ Added(t) = Added(r) /\ Own(t.parts) = <<>>
    BY <1>5, FlushKeeps
  <2>4. PICK q : q = [chunks |-> t.chunks, parts |-> Place(t, p)]
    OBVIOUS
  <2>5. /\ q \in Packings(config) /\ Added(q) = Append(Added(t), p)
        /\ q.parts # <<>> /\ Own(q.parts) # <<>>
    BY <1>3, <2>3, <2>4
  <2>6. Place(t, p) = <<p>>
    <3>1. CASE t.parts = <<>>
      <4>1. Append(<<>>, p) = <<p>>
        OBVIOUS
      <4> QED
        BY <3>1, <4>1 DEF Place
    <3>2. CASE t.parts # <<>>
      <4>1. t.parts \in Seq(Pieces)
        BY <3>2 DEF Packings, ChunkOf
      <4>2. ~WithinLimits(Append(t.parts, p))
        BY <1>1, <1>5, <2>2, <4>1, NoRoom
      <4> QED
        BY <3>2, <4>2 DEF Place
    <3> QED
      BY <3>1, <3>2
  <2>7. Len(q.parts) = 1 /\ ~WithinLimits(q.parts) /\ q.chunks = Append(r.chunks, r.parts)
    BY <1>5, <2>2, <2>3, <2>4, <2>6
  <2>8. Echoes(q)
    BY <1>5, <2>5, <2>7, EchoFlush
  <2> QED
    BY <2>1, <2>3, <2>4, <2>5, <2>8
<1> QED
  BY <1>4, <1>5

-----------------------------------------------------------------------------
(* The inductive invariant *)

\* The packing that the variables hold.
Packing == [chunks |-> chunks, parts |-> parts]

\* The pieces are the document; what was packed adds the first of them, in order; the
\* chunks keep to the limits, and the one under construction has something to add.
ChunkingInv ==
  /\ config \in Configs /\ document \in Seq(Words)
  /\ segments \in Seq(Segments(config)) /\ JoinSegments(segments) = document
  /\ next \in 1..(Len(segments) + 1)
  /\ Packing \in Packings(config)
  /\ parts # <<>> => Own(parts) # <<>>
  /\ Added(Packing) = SubSeq(segments, 1, next - 1)
  /\ Echoes(Packing)

LEMMA ChunkingInit == Init => ChunkingInv
<1> SUFFICES ASSUME Init PROVE ChunkingInv
  OBVIOUS
<1>1. config \in Configs /\ document \in Seq(Words)
  BY DocumentAssumption DEF Init
<1>2. segments \in Seq(Segments(config)) /\ JoinSegments(segments) = document
  BY <1>1, SplitSegmentsKeeps DEF Init
<1>3. next = 1 /\ parts = <<>> /\ chunks = <<>>
  BY DEF Init
<1>4. next \in 1..(Len(segments) + 1)
  <2>1. Len(segments) \in Nat
    BY <1>2, LenProperties
  <2> QED
    BY <1>3, <2>1
<1>5. Packing.chunks = <<>> /\ Packing.parts = <<>> /\ Packing \in Packings(config)
  BY <1>3, EmptySeq DEF Packing, Packings
<1>6. Added(Packing) = <<>>
  <2>1. [i \in DOMAIN <<>> |-> Own(<<>>[i])] = <<>>
    OBVIOUS
  <2>2. Added(Packing) = <<>> \o <<>>
    BY <1>5, <2>1, FlattenEmpty, OwnEmpty DEF Added
  <2>3. <<>> \in Seq(Pieces)
    BY EmptySeq
  <2> QED
    BY <2>2, <2>3, ConcatEmptySeq
<1>7. SubSeq(segments, 1, next - 1) = <<>>
  <2>1. next - 1 = 0
    BY <1>3
  <2> QED
    BY <2>1, SubSeqEmpty
<1>8. Echoes(Packing)
  <2>1. DOMAIN <<>> = {}
    OBVIOUS
  <2> QED
    BY <1>5, <2>1 DEF Echoes
<1> QED
  BY <1>1, <1>2, <1>3, <1>4, <1>5, <1>6, <1>7, <1>8 DEF ChunkingInv

\* Packing one segment: make room, make way, place.
LEMMA ChunkingPack == ChunkingInv /\ Pack => ChunkingInv'
<1> SUFFICES ASSUME ChunkingInv, Pack PROVE ChunkingInv'
  OBVIOUS
<1>1. /\ config \in Configs /\ document \in Seq(Words)
      /\ segments \in Seq(Segments(config)) /\ JoinSegments(segments) = document
      /\ next \in 1..(Len(segments) + 1) /\ Packing \in Packings(config)
      /\ Added(Packing) = SubSeq(segments, 1, next - 1) /\ Echoes(Packing)
  BY DEF ChunkingInv
<1>2. UNCHANGED <<config, document, segments>> /\ next' = next + 1 /\ next <= Len(segments)
  BY DEF Pack
<1>3. PICK n \in Nat : n = Len(segments)
  BY <1>1, LenProperties
<1>4. next \in 1..n
  BY <1>1, <1>2, <1>3
<1>5. PICK p \in Segments(config) : p = segments[next]
  BY <1>1, <1>3, <1>4, ElementOfSeq
<1>6. PICK r \in Packings(config) :
        /\ r = MakeRoom(Packing, p) /\ Added(r) = Added(Packing) /\ Echoes(r) /\ Settled(r)
        /\ WithinLimits(Append(r.parts, p)) \/ Own(r.parts) = <<>>
  BY <1>1, MakeRoomKeeps
<1>7. PICK q \in Packings(config) :
        /\ q = [chunks |-> MakeWay(r, p).chunks, parts |-> Place(MakeWay(r, p), p)]
        /\ Added(q) = Append(Added(r), p) /\ Echoes(q)
        /\ q.parts # <<>> /\ Own(q.parts) # <<>>
  BY <1>1, <1>6, MakeWayKeeps
<1>8. chunks' = q.chunks /\ parts' = q.parts
  BY <1>5, <1>6, <1>7 DEF Pack, Packing
<1>9. Packing' = q
  <2>1. q = [chunks |-> q.chunks, parts |-> q.parts]
    BY <1>7
  <2> QED
    BY <1>8, <2>1 DEF Packing
<1>10. Added(q) = SubSeq(segments, 1, next' - 1)
  <2>1. next' - 1 = next /\ 1 \in 1..n /\ next \in 1..n
    BY <1>2, <1>4
  <2>2. SubSeq(segments, 1, next) = SubSeq(segments, 1, next - 1) \o <<p>>
    BY <1>1, <1>3, <1>5, <2>1, SubSeqRecursiveSecond
  <2>3. SubSeq(segments, 1, next - 1) \in Seq(Segments(config))
    <3>1. \A i \in 1..(next - 1) : segments[i] \in Segments(config)
      <4>1. \A i \in 1..(next - 1) : i \in 1..n
        BY <1>4
      <4> QED
        BY <1>1, <1>3, <4>1, ElementOfSeq
    <3> QED
      BY <1>4, <3>1, SubSeqProperties
  <2>4. Append(SubSeq(segments, 1, next - 1), p) = SubSeq(segments, 1, next - 1) \o <<p>>
    BY <2>3, AppendIsConcat
  <2> QED
    BY <1>1, <1>6, <1>7, <2>1, <2>2, <2>4
<1>11. Echoes(Packing)'
  BY <1>2, <1>7, <1>9 DEF Echoes, WithinLimits
<1>12. next' \in 1..(n + 1)
  BY <1>2, <1>4
<1>13. Added(Packing)' = Added(q)
  BY <1>9 DEF Added
<1> QED
  BY <1>1, <1>2, <1>3, <1>7, <1>8, <1>9, <1>10, <1>11, <1>12, <1>13 DEF ChunkingInv

\* The last flush emits parts that are not a mere repetition.
LEMMA ChunkingFinish == ChunkingInv /\ Finish => ChunkingInv'
<1> SUFFICES ASSUME ChunkingInv, Finish PROVE ChunkingInv'
  OBVIOUS
<1>1. /\ config \in Configs /\ document \in Seq(Words)
      /\ segments \in Seq(Segments(config)) /\ JoinSegments(segments) = document
      /\ next \in 1..(Len(segments) + 1) /\ Packing \in Packings(config)
      /\ Own(parts) # <<>>
      /\ Added(Packing) = SubSeq(segments, 1, next - 1) /\ Echoes(Packing)
  BY DEF ChunkingInv, Finish
<1>2. UNCHANGED <<config, document, segments, next>> /\ parts # <<>> /\ parts' = <<>>
  BY DEF Finish
<1>3. PICK s \in Packings(config) : s = Packing /\ s.chunks = chunks /\ s.parts = parts
  BY <1>1 DEF Packing
<1>4. PICK t \in Packings(config) :
        t = Flush(s) /\ t.chunks = Append(s.chunks, s.parts) /\ Added(t) = Added(s)
        /\ Own(t.parts) = <<>>
  BY <1>1, <1>2, <1>3, FlushKeeps
<1>5. chunks' = t.chunks
  BY <1>3, <1>4 DEF Finish, Packing
<1>6. PICK q : q = [chunks |-> t.chunks, parts |-> <<>>]
  OBVIOUS
<1>7. q \in Packings(config) /\ q.chunks = t.chunks /\ q.parts = <<>>
  BY <1>6 DEF Packings
<1>8. Packing' = q
  BY <1>2, <1>5, <1>6 DEF Packing
<1>9. Added(q) = Added(t)
  <2>1. Own(q.parts) = Own(t.parts)
    BY <1>4, <1>7, OwnEmpty
  <2> QED
    BY <1>7, <2>1 DEF Added
<1>10. Echoes(q)
  <2>1. Own(s.parts) # <<>> /\ s.parts # <<>> /\ Echoes(s)
    BY <1>1, <1>2, <1>3
  <2>2. q.chunks = Append(s.chunks, s.parts)
    BY <1>4, <1>7
  <2> QED
    BY <1>7, <2>1, <2>2, EchoFlush
<1>11. Echoes(Packing)'
  BY <1>2, <1>8, <1>10 DEF Echoes, WithinLimits
<1>12. Added(Packing)' = Added(q)
  BY <1>8 DEF Added
<1> QED
  BY <1>1, <1>2, <1>3, <1>4, <1>7, <1>8, <1>9, <1>11, <1>12 DEF ChunkingInv

\* So it holds for ever.
LEMMA ChunkingKept == Spec => []ChunkingInv
<1>1. ASSUME ChunkingInv, [Next]_vars PROVE ChunkingInv'
  <2>1. CASE UNCHANGED vars
    BY <1>1, <2>1
    DEF ChunkingInv, vars, Packing, Added, Echoes, WithinLimits
  <2> QED
    BY <1>1, <2>1, ChunkingPack, ChunkingFinish DEF Next
<1> QED
  BY <1>1, ChunkingInit, PTL DEF Spec

\* Whatever the document and the limits, the segments, cut as finely as they must be,
\* and the flushes that carry an overlap over or drop it neither lose a word of the
\* document nor take one twice or out of order (services/ai/rag/chunking.py:119-136, 211-271).
THEOREM DocumentIsKept == Spec => []NothingDropped
<1>1. ASSUME ChunkingInv PROVE NothingDropped
  <2>1. /\ segments \in Seq(Segments(config)) /\ JoinSegments(segments) = document
        /\ next \in 1..(Len(segments) + 1)
        /\ Added(Packing) = SubSeq(segments, 1, next - 1)
    BY <1>1 DEF ChunkingInv
  <2>2. PICK n \in Nat : n = Len(segments)
    BY <2>1, LenProperties
  <2>3. Packed = Added(Packing)
    BY DEF Packed, Added, Packing
  <2>4. SubSeq(segments, 1, next - 1) \o SubSeq(segments, (next - 1) + 1, n)
          = SubSeq(segments, 1, n)
    <3>1. /\ 1 \in 1..(Len(segments) + 1) /\ next - 1 \in (1 - 1)..Len(segments)
          /\ n \in (next - 1)..Len(segments)
      BY <2>1, <2>2
    <3> QED
      BY <2>1, <3>1, ConcatAdjacentSubSeq
  <2>5. SubSeq(segments, 1, n) = segments
    BY <2>1, <2>2, SubSeqFull
  <2>6. (next - 1) + 1 = next
    BY <2>1, <2>2
  <2> QED
    BY <2>1, <2>2, <2>3, <2>4, <2>5, <2>6 DEF NothingDropped
<1> QED
  BY <1>1, ChunkingKept, PTL

\* Every chunk keeps to the limits in characters and in tokens, the words it repeats
\* included, or is a single word that is longer (services/ai/rag/chunking.py:244-268).
THEOREM ChunksKeepLimits == Spec => []ChunksFit
<1>1. ASSUME ChunkingInv PROVE ChunksFit
  <2>1. chunks \in Seq(ChunkOf(config))
    BY <1>1 DEF ChunkingInv, Packings, Packing
  <2>2. ASSUME NEW i \in DOMAIN chunks PROVE Sized(config, JoinSegments(chunks[i]))
    <3>1. chunks[i] \in ChunkOf(config)
      BY <2>1, LenProperties, ElementOfSeq
    <3> QED
      BY <3>1 DEF ChunkOf
  <2> QED
    BY <2>2 DEF ChunksFit, Sized, WithinLimits
<1> QED
  BY <1>1, ChunkingKept, PTL

\* A chunk that only repeats its predecessor is emitted nowhere but before a word that
\* is longer than a chunk (services/ai/rag/chunking.py:258-265).
THEOREM EchoesAreRare == Spec => []EchoesBeforeLongWords
<1>1. ASSUME ChunkingInv PROVE EchoesBeforeLongWords
  BY <1>1 DEF ChunkingInv, Echoes, Packing, EchoesBeforeLongWords
<1> QED
  BY <1>1, ChunkingKept, PTL
=============================================================================
