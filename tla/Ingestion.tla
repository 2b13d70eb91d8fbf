------------------------------ MODULE Ingestion ------------------------------
(***************************************************************************)
(* The market feed's run loop (services/ingestion/service.py), which       *)
(* starts its feed over after every disconnect, publishes under ids made   *)
(* of symbol, time and source and leaves the repetitions to the duplicate  *)
(* window of market.raw, which passes.                                     *)
(***************************************************************************)
EXTENDS MessageBus

CONSTANTS
  Feeds,          \* the feeds a run may have: payloads, named by their message id
  Unparsable,     \* payloads normalize_market_payload raises for
  Unlimited,      \* "max_events is None"
  Limits,         \* the max_events a run may have
  MaxReconnects,
  IngestFaults    \* subset of {"disconnect", "publish", "publish_unknown", "window"}

ASSUME IngestAssumption ==
  /\ Feeds \subseteq Seq(Nat)
  /\ Limits \subseteq Nat \cup {Unlimited} /\ MaxReconnects \in Nat

VARIABLES
  feed, limit, \* of the run: what it is given
  status,      \* of the run: "running", "returned" or "failed"
  position,    \* in the feed
  processed, reconnects,
  publishedIds,  \* metrics.published_message_ids
  uniques, duplicates   \* metrics

asked == <<feed, limit>>
feedVars == <<asked, status, position, processed, reconnects, publishedIds, uniques, duplicates>>
ingestVars == <<busVars, feedVars>>

IngestInit ==
  /\ BusInit(<<>>)
  /\ feed \in Feeds /\ limit \in Limits
  /\ status = IF limit = 0 THEN "returned" ELSE "running"
  /\ position = 1 /\ processed = 0 /\ reconnects = 0
  /\ publishedIds = {} /\ uniques = 0 /\ duplicates = 0

\* The feed is running and has a payload left.
Yields == status = "running" /\ position <= Len(feed)

\* normalize_market_payload makes an event of the payload.
Normalises(payload) == payload \notin Unparsable

\* market_event_key: the symbol, time and source of the payload make the id.
ContentId(content) == [body |-> content, suffixes |-> <<>>]

\* The counters and the id set change before the publish is awaited.
CountMarket(id) ==
  /\ publishedIds' = publishedIds \cup {id}
  /\ uniques' = uniques + (IF id \in publishedIds THEN 0 ELSE 1)
  /\ duplicates' = duplicates + (IF id \in publishedIds THEN 1 ELSE 0)

\* A payload is published; the limit counts repetitions as well.
Payload ==
  /\ Yields /\ Normalises(feed[position])
  /\ CountMarket(feed[position])
  /\ Publish(ContentId(feed[position]), feed[position])
  /\ processed' = processed + 1
  /\ position' = position + 1
  /\ status' = IF processed' = limit THEN "returned" ELSE "running"
  /\ UNCHANGED <<asked, reconnects>>

\* run() is left with the exception: of the normalisation, or of the publish, which
\* may have been accepted.
PayloadRaises ==
  /\ Yields
  /\ \/ /\ ~Normalises(feed[position])
        /\ UNCHANGED <<busVars, publishedIds, uniques, duplicates>>
     \/ /\ Normalises(feed[position])
        /\ CountMarket(feed[position])
        /\ \/ "publish" \in IngestFaults /\ UNCHANGED busVars
           \/ /\ "publish_unknown" \in IngestFaults
              /\ Publish(ContentId(feed[position]), feed[position])
  /\ status' = "failed"
  /\ UNCHANGED <<asked, position, processed, reconnects>>

FeedEnds ==
  /\ status = "running" /\ position > Len(feed)
  /\ status' = "returned"
  /\ UNCHANGED <<busVars, asked, position, processed, reconnects, publishedIds, uniques, duplicates>>

\* Mutant: the new feed goes on behind the payload at which the old one broke.
DisconnectSkips ==
  /\ "disconnect" \in IngestFaults
  /\ Yields /\ reconnects < MaxReconnects
  /\ reconnects' = reconnects + 1 /\ position' = position + 1
  /\ UNCHANGED <<busVars, asked, status, processed, publishedIds, uniques, duplicates>>

\* The feed breaks: a new one starts from the beginning, until the reconnects are used.
Disconnect ==
  /\ "disconnect" \in IngestFaults
  /\ Yields
  /\ \/ /\ reconnects < MaxReconnects
        /\ reconnects' = reconnects + 1 /\ position' = 1
        /\ UNCHANGED status
     \/ /\ reconnects >= MaxReconnects /\ status' = "failed"
        /\ UNCHANGED <<reconnects, position>>
  /\ UNCHANGED <<busVars, asked, processed, publishedIds, uniques, duplicates>>

\* The duplicate window of market.raw passes during the run.
FeedWindowPasses ==
  /\ "window" \in IngestFaults /\ status = "running"
  /\ Forget /\ UNCHANGED feedVars

IngestNext == Payload \/ PayloadRaises \/ FeedEnds \/ Disconnect \/ FeedWindowPasses

IngestSpec == IngestInit /\ [][IngestNext]_ingestVars
-----------------------------------------------------------------------------
(* Properties *)

Bodies == {log[k].body : k \in DOMAIN log}

\* A run that returns without having reached its limit has a message on the topic for
\* the id of every payload of its feed, however often the feed started over.  The ids it counted before each
\* publish was awaited are those of the topic, and the topic has no message beyond the
\* repetitions it counted, also where the duplicate window passed.
ReturnedRunPublished ==
  status = "returned" =>
    /\ processed # limit => {feed[i] : i \in DOMAIN feed} \subseteq Bodies
    /\ publishedIds = Bodies
    /\ Len(log) <= uniques + duplicates
=============================================================================
