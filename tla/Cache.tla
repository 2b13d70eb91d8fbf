-------------------------------- MODULE Cache --------------------------------
(***************************************************************************)
(* What RedisCache (libs/common/redis_client.py) promises its callers: the *)
(* key-value commands of Redis it calls, each of them atomic, with a time  *)
(* to live.  The services hold their locks, their markers and their        *)
(* snapshots in it.  append_history, two commands, is left to the module   *)
(* of the service that calls it.                                           *)
(***************************************************************************)
EXTENDS Integers

CONSTANTS
  SnapshotKeys, OtherKeys,  \* snapshot:<symbol>, and locks, markers and the like
  Values, None,             \* what is stored; None may be as well
  Absent,                   \* no key, not even one that holds None
  Ttls, NoTtl

CacheKeys == SnapshotKeys \cup OtherKeys
Lifetimes == Ttls \cup {NoTtl}

VARIABLES
  held,     \* per key: its value and the time it has left, or Absent
  answer    \* what the last call returned, as a set: nothing is {}

cacheVars == <<held, answer>>

Init == held = [k \in CacheKeys |-> Absent] /\ answer = {}

Hold(k, v, ttl) == held' = [held EXCEPT ![k] = [value |-> v, left |-> ttl]]

Get(k) ==
  /\ answer' = IF held[k] = Absent THEN {} ELSE {held[k].value} \ {None}
  /\ UNCHANGED held

\* SET and SETEX: without a time to live the key loses the one it had.
Set(k, v, ttl) == Hold(k, v, ttl) /\ answer' = {}

\* SET NX: any key that is there counts, whatever it holds.
SetIfAbsent(k, v, ttl) ==
  \/ held[k] = Absent /\ Hold(k, v, ttl) /\ answer' = {k}
  \/ held[k] # Absent /\ UNCHANGED held /\ answer' = {}

Delete(k) == held' = [held EXCEPT ![k] = Absent] /\ answer' = {}

ListSnapshotSymbols ==
  /\ answer' = {k \in SnapshotKeys : held[k] # Absent}
  /\ UNCHANGED held

\* A second passes; a key is gone when its time is over, not when it has come.
Aged(entry) ==
  IF entry = Absent \/ entry.left = NoTtl THEN entry
  ELSE IF entry.left = 0 THEN Absent ELSE [entry EXCEPT !.left = @ - 1]

Second == held' = [k \in CacheKeys |-> Aged(held[k])] /\ UNCHANGED answer

\* set_snapshot takes a dict and no time to live.
Next ==
  \/ \E k \in CacheKeys : Get(k)
  \/ \E k \in SnapshotKeys, v \in Values : Set(k, v, NoTtl)
  \/ \E k \in OtherKeys :
       \/ \E v \in Values \cup {None}, ttl \in Lifetimes : Set(k, v, ttl) \/ SetIfAbsent(k, v, ttl)
       \/ Delete(k)
  \/ ListSnapshotSymbols
  \/ Second

Spec == Init /\ [][Next]_cacheVars
=============================================================================
