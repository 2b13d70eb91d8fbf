\* Feed: a repetition or a payload that has no event, without a limit or with two events.
\* News: two collectors in three cycles, which find other stories each time.
\* Replay: one message, with room for two replacements, or two messages with room for
\* one, in two subscriptions, and two commands at a time.
\* Chunking: every text of at most 4 words, one size of which is longer than a chunk of 6.
\* Lifespan: each kind of app, two backends.
\* Cache: a snapshot and a lock, two lifetimes.
\* ImplementsRedis says nothing of Runs and Subscriptions, whose permutations are the
\* symmetry.
\* Everything but the cache ends once all is published, settled and packed.
SPECIFICATION ModeSpec
CONSTANTS
  Subscriptions = {alerting, ai}
  Deduplicates = TRUE
  MaxPublishes = 3
  Feeds <- BusFeeds
  Unparsable = {3}
  Unlimited = Unlimited
  Limits = {2, Unlimited}
  MaxReconnects = 2
  IngestFaults = {"disconnect", "publish", "publish_unknown", "window"}
  Collectors <- BusCollectors
  MaxCycles = 3
  PollFaults = {"collector", "publish", "publish_unknown"}
  Runs = {r1, r2}
  Originals <- SomeOriginals
  DrainSize = 2
  ReplayFaults = {"publish", "publish_unknown", "settle", "crash", "lock_lost", "window"}
  MaxWords = 4
  Sizes = {1, 3, 7}
  Documents <- Texts
  Configs <- SomeConfigs
  SnapshotKeys = {snapshot}
  OtherKeys = {lock}
  Values = {v1, v2}
  None = None  Absent = Absent  NoTtl = NoTtl
  Ttls = {1, 2}
  MaxNow = 4
  Apps = {"worker", "idle", "api"}
  Backends <- TwoBackends
  ShutdownFaults = {"startup", "worker", "cancel_raises"}
SYMMETRY BusSymmetry
INVARIANTS
  ReplacementPublished
  NothingLost
  IngestionPublishes
  NothingDropped
  ChunksFit
  EchoesBeforeLongWords
  ShutdownReleases
PROPERTIES
  ImplementsRedis
CHECK_DEADLOCK FALSE
