---------------------------- MODULE MarketQueries ----------------------------
(***************************************************************************)
(* The market queries of the API (services/api/service.py) beside the      *)
(* stream service that writes what they read: a request reads the store    *)
(* and the cache in different awaits, the history and the symbols from     *)
(* both, the latest tick and indicators from the store when the cache has  *)
(* no snapshot.  A row has its event, where it comes from (0: store, 1:    *)
(* cache), its number there, and the message that has its event_id.        *)
(***************************************************************************)
EXTENDS Streaming

CONSTANTS
  Limits,    \* limits a request may ask for
  NoLimit    \* "limit is None"

Tables == {"ticks", "indicators"}

HistoryRequests == [kind : {"history"}, from : Keys, to : Keys, limit : Limits]
LatestRequests == [kind : {"latest"}, table : Tables]
SymbolRequests == [kind : {"symbols"}, tables : SUBSET Tables]
Requests == HistoryRequests \cup LatestRequests \cup SymbolRequests

ASSUME QueryAssumption ==
  /\ Limits \subseteq Nat \cup {NoLimit}
  /\ NoLimit \notin Nat /\ NoLimit \notin Requests

VARIABLES
  stage,     \* of the request: "new", "tables" or "stored" (it has the names of the
             \* tables, the store's rows), "missed" (there is no snapshot) or "served"
  asked,     \* the request, or NoLimit before it is made
  rows,      \* the rows it has got, in the end those it returns
  due        \* events it should know of: those processed (history) or stored (the
             \* others) when it began

queryVars == <<stage, asked, rows, due>>
allVars == <<vars, queryVars>>

QueryInit ==
  /\ Init
  /\ stage = "new" /\ rows = {} /\ due = {}
  /\ asked = NoLimit

Asks(kind) == asked # NoLimit /\ asked.kind = kind

Table == [ticks |-> ticks, indicators |-> indicators]
Stored(table) == {KeyOf[m] : m \in {n \in Valid : Table[table][n] > 0}}

WithinRange(k, q) == q.from <= k /\ k <= q.to

\* A message ingested twice is in the table twice.
TableRows(table) == UNION {{<<KeyOf[m], 0, i, m>> : i \in 1..Table[table][m]} : m \in Valid}

StoreRows(q) == {r \in TableRows("ticks") : WithinRange(r[1], q)}

CachedRows(q) ==
  {<<KeyOf[history[i]], 1, i, history[i]>> :
     i \in {j \in 1..Len(history) : WithinRange(KeyOf[history[j]], q)}}

\* The newest rows, as many as the limit asks for: ORDER BY ... DESC LIMIT, or [-limit:].
\* Which rows of one time stamp are left out is open.
Limited(S, limit) ==
  IF limit = NoLimit THEN {S}
  ELSE {T \in SUBSET S :
          /\ Cardinality(T) <= limit
          /\ T # S => Cardinality(T) = limit
          /\ \A r \in T, s \in S \ T : s[1] <= r[1]}

\* Mutant: the rows of one message are kept as they are.
KeepsAll(S) == S

\* The store's rows come first.
Later(r, s) == r[2] > s[2] \/ (r[2] = s[2] /\ r[3] > s[3])

\* One row for each (event_id, symbol, ts), the last one: rows that a message left when
\* it was delivered again, or left in both places, are one; copies of an event are not.
DedupeRows(S) == {r \in S : \A s \in S : s[4] = r[4] => ~Later(s, r)}

QueryStore ==
  /\ stage = "new" /\ stage' = "stored"
  /\ \E q \in HistoryRequests :
       asked' = q /\ rows' \in Limited(StoreRows(q), q.limit)
  /\ due' = processed
  /\ UNCHANGED vars

\* The cached rows are merged in after the store's own limit; then newest wins.
QueryCache ==
  /\ stage = "stored" /\ stage' = "served" /\ Asks("history")
  /\ rows' \in Limited(DedupeRows(rows \cup CachedRows(asked)), asked.limit)
  /\ UNCHANGED <<vars, asked, due>>

\* The snapshot's row, if there is a snapshot; it has no event_id.
SnapshotRows == IF snapshot = NoKey THEN {} ELSE {<<snapshot, 1, 1, NoMessage>>}

\* latest_market and indicators answer with the snapshot ...
QuerySnapshot ==
  /\ stage = "new"
  /\ \E table \in Tables :
       /\ asked' = [kind |-> "latest", table |-> table]
       /\ due' = Stored(table)
  /\ rows' = SnapshotRows
  /\ stage' = IF snapshot = NoKey THEN "missed" ELSE "served"
  /\ UNCHANGED vars

\* Mutant: the cache is the only place that is looked into.
AnswersNothing ==
  /\ stage = "missed" /\ stage' = "served"
  /\ UNCHANGED <<vars, rows, asked, due>>

\* ... or, without one, with the newest row of their table.
QueryLatest ==
  /\ stage = "missed" /\ stage' = "served"
  /\ rows' \in Limited(TableRows(asked.table), 1)
  /\ UNCHANGED <<vars, asked, due>>

\* list_symbols: the tables that exist, because of this symbol or of another one, ...
ListTables ==
  /\ stage = "new" /\ stage' = "tables"
  /\ \E known \in SUBSET Tables :
       /\ \A table \in Tables : Stored(table) # {} => table \in known
       /\ asked' = [kind |-> "symbols", tables |-> known]
  /\ due' = Stored("ticks") \cup Stored("indicators")
  /\ UNCHANGED <<vars, rows>>

\* ... the symbols with a row in them, ...
ListStored ==
  /\ stage = "tables" /\ stage' = "stored"
  /\ rows' = UNION {TableRows(table) : table \in asked.tables}
  /\ UNCHANGED <<vars, asked, due>>

\* ... and the symbols with a snapshot.
ListCached ==
  /\ stage = "stored" /\ stage' = "served" /\ Asks("symbols")
  /\ rows' = rows \cup SnapshotRows
  /\ UNCHANGED <<vars, asked, due>>

QueryNext ==
  \/ Next /\ UNCHANGED queryVars
  \/ QueryStore \/ QueryCache
  \/ QuerySnapshot \/ QueryLatest
  \/ ListTables \/ ListStored \/ ListCached

QuerySpec == QueryInit /\ [][QueryNext]_allVars
-----------------------------------------------------------------------------
(* Properties *)

Served == {r[1] : r \in rows}

\* A history lists a publication once, however often it was delivered, ingested and
\* cached, and no more rows than asked for.  While the cache has not dropped a row yet it
\* leaves out no event of its range that was processed when the request began, unless
\* rows of newer events use up the limit: although the store's own limit may have gone to
\* repeated rows, and events are processed between the two reads
\* (api/service.py: market_history).
HistoryServed ==
  stage = "served" /\ Asks("history") =>
    /\ \A r, s \in rows : r[4] = s[4] => r = s
    /\ asked.limit # NoLimit => Cardinality(rows) <= asked.limit
    /\ Len(history) < MaxRows \/ asked.limit = NoLimit =>
         \A k \in due : WithinRange(k, asked) =>
           \/ k \in Served
           \/ asked.limit # NoLimit /\ Cardinality({r \in rows : r[1] > k}) = asked.limit

\* The other queries answer with something if the store had anything when they were
\* asked, although a snapshot is written in a later step than the rows and may have
\* failed to be, and with nothing the store does not have; a latest row that does not
\* come from the cache is no older than any that was stored when it was asked for
\* (api/service.py: latest_market, indicators, list_symbols).
LatestServed ==
  stage = "served" /\ ~Asks("history") =>
    /\ due # {} => rows # {}
    /\ \A r \in rows : r[1] \in Stored("ticks") \cup Stored("indicators")
    /\ Asks("latest") =>
         /\ Cardinality(rows) <= 1 /\ Served \subseteq Stored(asked.table)
         /\ \A r \in rows : r[2] = 0 => \A k \in due : k <= r[1]
=============================================================================
