----------------------------- MODULE MCLibraries -----------------------------
(***************************************************************************)
(* Six small instances, one of which is chosen at the start: what a feed   *)
(* publishes, what the news polls publish, what replay does with dead      *)
(* letters, how a text is chunked, the cache, and how an app starts and    *)
(* stops.                                                                  *)
(***************************************************************************)
EXTENDS Ingestion, NewsPolling, Replay, Chunking, InMemoryCache, WorkerLifespan, TLC

CONSTANTS MaxWords, Sizes

VARIABLE mode   \* "ingest", "news", "replay", "chunk", "cache" or "lifespan"

libraryVars == <<mode, ingestVars, newsVars, runVars, vars, cacheVars, lifespanVars>>

TwoBackends == <<"cache", "bus">>

\* Payload 1 is in the first feed twice, as in the default feed, and payload 3 has no
\* event.  The first collector's list has one story or two when it is polled again, the
\* second's one or none.
BusFeeds == {<<1, 2, 1>>, <<1, 3>>}
BusCollectors == <<{<<1>>, <<2, 1>>}, {<<>>, <<3>>}>>
SomeOriginals == {<<1>>, <<1, 2>>}
BusSymmetry == Permutations(Runs) \cup Permutations(Subscriptions)

\* Every text of at most MaxWords words.
Marks == {"", "sentence", "paragraph"}
Numbered(words) ==
  [n \in DOMAIN words |-> [at |-> n, size |-> words[n].size, ends |-> words[n].ends]]
Texts ==
  {Numbered(words) :
     words \in UNION {[1..n -> [size : Sizes, ends : Marks]] : n \in 0..MaxWords}}

\* Both limits bind; no overlap by tokens but by characters; and overlap unlimited.
SomeConfigs ==
  {[chars |-> 6, tokens |-> 2, overlapChars |-> 3, overlapTokens |-> 1],
   [chars |-> 6, tokens |-> 3, overlapChars |-> 4, overlapTokens |-> 0],
   [chars |-> 9, tokens |-> 3, overlapChars |-> 0, overlapTokens |-> 2],
   [chars |-> 6, tokens |-> 3, overlapChars |-> 0, overlapTokens |-> 0]}

IdleRuns ==
  /\ \E s \in Subscriptions : source = [r \in Runs |-> s]
  /\ todo = [r \in Runs |-> <<>>]
  /\ index = [r \in Runs |-> 1]
  /\ stage = [r \in Runs |-> "idle"]
IdleIngestion ==
  /\ feed = <<>> /\ limit = 0
  /\ status = "failed" /\ position = 1 /\ processed = 0 /\ reconnects = 0
  /\ publishedIds = {} /\ uniques = 0 /\ duplicates = 0
IdleNews ==
  /\ news = <<>> /\ cycle = 0
  /\ polling = "failed" /\ found = <<>> /\ story = 1
  /\ storyIds = {} /\ uniqueStories = 0 /\ duplicateStories = 0
IdleChunking ==
  /\ config = CHOOSE c \in SomeConfigs : TRUE
  /\ document = <<>> /\ segments = <<>> /\ next = 1 /\ parts = <<>> /\ chunks = <<>>

ModeInit ==
  /\ mode \in {"ingest", "news", "replay", "chunk", "cache", "lifespan"}
  /\ CacheInit /\ LifespanInit
  /\ IF mode = "ingest" THEN IngestInit
     ELSE IF mode = "replay" THEN ReplayInit /\ IdleIngestion
     ELSE BusInit(<<>>) /\ IdleIngestion
  /\ mode # "replay" => IdleRuns
  /\ IF mode = "news" THEN NewsInit ELSE IdleNews
  /\ IF mode = "chunk" THEN Init ELSE IdleChunking
  /\ mode # "lifespan" => app = "idle"

ModeNext ==
  /\ UNCHANGED mode
  /\ \/ mode = "ingest" /\ IngestNext /\ UNCHANGED <<newsVars, runVars, vars, cacheVars, lifespanVars>>
     \/ mode = "news" /\ NewsNext /\ UNCHANGED <<ingestVars, runVars, vars, cacheVars, lifespanVars>>
     \/ mode = "replay" /\ ReplayNext /\ UNCHANGED <<feedVars, newsVars, vars, cacheVars, lifespanVars>>
     \/ mode = "chunk" /\ Next /\ UNCHANGED <<ingestVars, newsVars, runVars, cacheVars, lifespanVars>>
     \/ mode = "cache" /\ CacheNext /\ UNCHANGED <<ingestVars, newsVars, runVars, vars, lifespanVars>>
     \/ mode = "lifespan" /\ LifespanNext /\ UNCHANGED <<ingestVars, newsVars, runVars, vars, cacheVars>>

ModeSpec == ModeInit /\ [][ModeNext]_libraryVars

\* What is asked of the two services that ingest: a run of the feed that returns has
\* published its feed, and a cycle of the news polls all it found
\* (ReturnedRunPublished, CyclePublished).
IngestionPublishes ==
  /\ mode = "ingest" => ReturnedRunPublished
  /\ mode = "news" => CyclePublished
=============================================================================
