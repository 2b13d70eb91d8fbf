---------------------------- MODULE InMemoryCache ----------------------------
(***************************************************************************)
(* InMemoryCache (libs/common/redis_client.py), the cache of a service     *)
(* without Redis and of the tests: a dict of values and a dict of expiry   *)
(* times, in which an expired key stays until somebody looks at it.        *)
(***************************************************************************)
EXTENDS Integers

CONSTANTS
  SnapshotKeys, OtherKeys, Values, None, Absent, Ttls, NoTtl,
  MaxNow   \* bound: seconds that pass

CacheKeys == SnapshotKeys \cup OtherKeys
Lifetimes == Ttls \cup {NoTtl}

ASSUME CacheAssumption ==
  /\ Ttls \subseteq Nat /\ NoTtl \notin Int /\ MaxNow \in Nat
  /\ SnapshotKeys \cap OtherKeys = {}
  /\ None \notin Values /\ Absent \notin Values /\ Absent # None
  /\ Absent \notin [value : Values \cup {None}, left : Int \cup {NoTtl}]

VARIABLES
  store,    \* _store, Absent for a key it does not have
  expiry,   \* _expiry, NoTtl for a key it does not have
  now,      \* time_fn()
  answer    \* what the last call returned, as a set: nothing is {}

cacheVars == <<store, expiry, now, answer>>

CacheInit ==
  /\ store = [k \in CacheKeys |-> Absent]
  /\ expiry = [k \in CacheKeys |-> NoTtl]
  /\ now = 0 /\ answer = {}

IsExpired(k) == expiry[k] # NoTtl /\ now > expiry[k]

\* The keys of K are popped from both dicts.
Pop(K) ==
  /\ store' = [k \in CacheKeys |-> IF k \in K THEN Absent ELSE store[k]]
  /\ expiry' = [k \in CacheKeys |-> IF k \in K THEN NoTtl ELSE expiry[k]]

Get(k) ==
  /\ IF IsExpired(k) THEN Pop({k}) ELSE UNCHANGED <<store, expiry>>
  /\ answer' = IF IsExpired(k) THEN {} ELSE {store[k]} \ {None, Absent}
  /\ UNCHANGED now

\* Mutant: a set without a time to live leaves the expiry of the old value behind.
PutKeepsExpiry(k, v, ttl) ==
  /\ store' = [store EXCEPT ![k] = v]
  /\ expiry' = [expiry EXCEPT ![k] = IF ttl = NoTtl THEN @ ELSE now + ttl]

Put(k, v, ttl) ==
  /\ store' = [store EXCEPT ![k] = v]
  /\ expiry' = [expiry EXCEPT ![k] = IF ttl = NoTtl THEN NoTtl ELSE now + ttl]

Set(k, v, ttl) == Put(k, v, ttl) /\ answer' = {} /\ UNCHANGED now

\* An expired key counts as absent, one that holds None does not.
SetIfAbsent(k, v, ttl) ==
  /\ \/ /\ store[k] = Absent \/ IsExpired(k)
        /\ Put(k, v, ttl) /\ answer' = {k}
     \/ /\ store[k] # Absent /\ ~IsExpired(k)
        /\ UNCHANGED <<store, expiry>> /\ answer' = {}
  /\ UNCHANGED now

Delete(k) == Pop({k}) /\ answer' = {} /\ UNCHANGED now

\* Every snapshot key is looked up with get.
ListSnapshotSymbols ==
  /\ Pop({k \in SnapshotKeys : IsExpired(k)})
  /\ answer' = {k \in SnapshotKeys : store[k] \notin {None, Absent} /\ ~IsExpired(k)}
  /\ UNCHANGED now

Second == now < MaxNow /\ now' = now + 1 /\ UNCHANGED <<store, expiry, answer>>

CacheNext ==
  \/ \E k \in CacheKeys : Get(k)
  \/ \E k \in SnapshotKeys, v \in Values : Set(k, v, NoTtl)
  \/ \E k \in OtherKeys :
       \/ \E v \in Values \cup {None}, ttl \in Lifetimes : Set(k, v, ttl) \/ SetIfAbsent(k, v, ttl)
       \/ Delete(k)
  \/ ListSnapshotSymbols
  \/ Second

CacheSpec == CacheInit /\ [][CacheNext]_cacheVars
-----------------------------------------------------------------------------
(* Properties *)

CacheTypeOK ==
  /\ store \in [CacheKeys -> Values \cup {None, Absent}]
  /\ expiry \in [CacheKeys -> Int \cup {NoTtl}]
  /\ now \in Nat

Held ==
  [k \in CacheKeys |->
     IF store[k] = Absent \/ IsExpired(k) THEN Absent
     ELSE [value |-> store[k],
           left |-> IF expiry[k] = NoTtl THEN NoTtl ELSE expiry[k] - now]]

Redis == INSTANCE Cache WITH held <- Held

\* "the fake and the real client must not disagree" (redis_client.py:203-204): no caller
\* can tell the dicts, with their lazy expiry, from Redis; neither a lock that is set if
\* absent while it holds None or has just expired, nor a value that replaces one with a
\* time to live.
ImplementsRedis == Redis!Spec
=============================================================================
