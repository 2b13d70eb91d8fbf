# Formal models of the market intelligence platform

TLA+ models of the platform's services and of the libraries they share, TLC
configurations that check them on small instances, and TLAPS proofs of the most
important invariants for every instance. Paths such as
`services/alerting/service.py` are relative to the repository's root.

## The system

Five Python services exchange events over Azure Service Bus topics and share a
Redis cache, a Druid store and an Elasticsearch index.

    exchanges --> ingestion --market.raw--> stream --signals--> alerting --alerts-->
    feeds     -->    "      --news.raw----> ai ----insights--->    "
                          api: peeks and streams signals, insights, alerts, market.raw

Every consumer is the same loop (`libs/common/resilience.py`, `run_poll_loop`):
receive a batch under peek locks, handle its messages one by one, settle each
with `complete` or `dead_letter`; an exception that leaves `poll_once` drops the
rest of the batch until the broker redelivers it. Several replicas of a service
may run. Replicas share nothing but the broker and the cache.

| Component | State it keeps | Operations | Hard behaviour | What makes it correct |
|---|---|---|---|---|
| Alerting (`services/alerting/service.py`) | cache: processed marker, 300 s lock per event, published marker per alert; per replica: circuit breaker | poll, validate, suppress, lock, publish with retry, mark, unlock, settle | copies of one event on two replicas, redelivery after 60 s, half-done cache calls, crash under the lock, open circuit | no event dropped, no alert doubled, marker only after all alerts, one replica per event, every message settled |
| Stream (`services/stream/service.py`) | cache: marker, snapshot, history; store: rows; per replica: price history | poll, compute, ingest, snapshot, append history, publish, mark, commit, settle | seven steps, nothing undone; late redelivery; non-atomic append; crash before the marker; a price that makes later events raise | completed means processed, processed means stored, each price once, latest snapshot, only bad events rejected |
| AI (`services/ai/service.py`, `llm/`, `rag/`) | cache: processed marker per event and symbol, generations, latest insight; index: documents | poll, index, retrieve, generate, guard, publish, show, mark, complete | complete inside the retry, no lock between replicas, guardrails applied again to what passed them | an insight per event and symbol, only citations of indexed documents, no rejected answer passes as grounded |
| API read model (`services/api/service.py`, `_refresh_recent`) | cursor and bounded window per topic | refresh on request | concurrent requests around awaits, capped catch-up, expiry, messages that do not decode | nothing skipped, read once, in order, complete answers |
| API live stream (`LiveStreamBroker`, `services/api/ws.py`) | subscribers with bounded queues; per connection a command task and a send loop; a pump per topic | connect, subscribe, refuse, fan out, send, leave, close | drop-oldest, replies that wait for room, filters that change under queued frames, clients that stall or vanish | after its reply a client gets only what it asked for, in order, and a departed one is let go |
| API market queries | none | history, latest, symbols | cached and stored rows read in different awaits | each publication once, the newest rows, nothing processed is missing |
| Circuit breaker (`libs/common/resilience.py`) | state, failure count, opening time, half-open lock | call, read state | calls still in flight when it opens, cancellation | one probe, recovers, closes only by a probe |
| Exchange clients (`services/ingestion/exchanges/`) | reconnects used, breaker, counters | connect, receive, recycle, back off, shut down | breaker against back-off, reconnect budget | counts what it published, ends |
| Ingestion and news (`services/ingestion/`) | position in the feed, ids and counters | run, poll collectors | disconnects, a publish that fails after its id was counted, stories seen again at each poll | all that was pulled is published, repetitions are accounted for |
| Dead-letter replay (`services/alerting/replay.py`) | counters | drain, republish, complete | overlapping commands, crash in between | nothing lost, nothing replaced before its replacement is out |
| Bus, cache, store and index clients (`libs/common/`) | queues, keys, rows | see their `Protocol`s | duplicate detection, expiry, partial ingest | two caches that cannot be told apart |
| Worker lifespan (`libs/common/service_app.py`, `services/api/app.py`) | worker task, backends | start, stop, close | a worker that fails, a backend that raises when closed | every backend released |
| Pure algorithms | none | rules, guardrails, re-ranking, chunking, dedupe keys | boundaries | agree with what their callers assume |

`PROJECT.json` lists every component with its status, and under `hazards` every
place in the code where this behaviour bites, with the properties that watch it.

## Modules

| Module | Models | Run by | Proved in |
|---|---|---|---|
| `EventDelivery` | what a consumer promises about an event (abstract) | the refinement properties of the three consumers | |
| `Alerting` | the alerting service's replicas, their cache and broker | `MCAlerting`, `MCAlertingModes` | `AlertingProofs`, `AlertingModesProofs` |
| `RuleEngine` | `rules.py`: which alerts an event raises, under which keys | `MCAlerting` (its alerts are the instance's) | `AlertingModesProofs` |
| `Streaming` | the stream service's replicas, their cache, store and broker | `MCStreaming` | `StreamingProofs` |
| `MarketQueries` | the API's queries beside `Streaming` | `MCMarketQueries` | `StreamingProofs` |
| `ReadModel` | the API's read model of one topic | `MCReadModel` | `ReadModelProofs` |
| `LiveStream` | pumps, connections and their tasks | `MCLiveStream` | `LiveStreamProofs` |
| `AIAnalysis` on `Guardrails`, `Retrieval` | the AI service's replicas; the checks on an answer; the context of a prompt | `MCAIAnalysis` | `AIAnalysisProofs` |
| `CircuitBreaker` | one breaker and its callers | with `ExchangeClient` | `ExchangeClientProofs` |
| `ExchangeClient` | clients' run loops around a breaker | `MCExchangeClient` | `ExchangeClientProofs` |
| `MessageBus` | a topic as publishers and consumers see it | with the next two | `LibrariesProofs` |
| `Ingestion`, `Replay` | the market feed's run; the replay command | `MCLibraries` | `LibrariesProofs` |
| `NewsPolling` | the cycles of the news collectors | `MCLibraries` | `LibrariesProofs` |
| `Chunking` | `rag/chunking.py` on whole texts | `MCLibraries` | `LibrariesProofs` |
| `Cache`, `InMemoryCache` | the contract of `RedisCache`; the dicts that stand in for it | `MCLibraries` | `LibrariesProofs` |
| `WorkerLifespan` | an app from start-up to the last backend | `MCLibraries` | `LibrariesProofs` |

Composition: `Alerting` takes its alerts from `RuleEngine`, `AIAnalysis` its
contexts from `Retrieval` and its results from `Guardrails`; `MarketQueries`
extends `Streaming`, and a query's steps interleave with the service's;
`ExchangeClient` extends `CircuitBreaker`, whose actions its own are conjoined
with; `Ingestion` and `Replay` publish on `MessageBus`, and `NewsPolling` on a plain
log, since `news.raw` has no duplicate detection.

Two conventions hold in all of them. *One step per await*: what a coroutine does
between two awaits is one action; `pc`, `stage` or `phase` names the await it has
come to. *A set of faults*: the constant `Faults` lists what may go wrong in an
instance, a backend call may raise before or after its effect, and a theorem that
does not mention `Faults` holds for every set of them. Definitions whose comment
starts with "Mutant" are deliberately wrong variants of the definition below them,
in no specification; each shows that some property notices the mistake.

### EventDelivery

Three variables: copies of each output on the topic (`topic`), events whose
processing is final (`done`) and the `outcome` of each message. An output is
published only while a message of its event is open and the event is not done;
an event becomes done when all its outputs are published; a message is completed
only if its event is done, or another copy is still open or dead-lettered.

### Alerting and RuleEngine

`pc` follows `_handle_message` / `_process_event`: `lookup` (processed marker),
`acquire` (`set_if_absent`), `call` (breaker), then the retried operation `check`,
`publish`, `mark` per alert and `Finish`, `release` and `giveUp` (`delete`),
`complete` and `reject` (settling). `pos` and `attempt` are the loop variables of
`_process_with_retry`; `circuit` and `failures` are the replica's breaker, which
has a single caller there, so `Call` may elapse `reset_timeout` at any time.
`turn` is the topic `poll_once` comes to next. `state`, `owner` and `deliveries`
are the broker's side; `locks`, `processed` and `marked` the cache's.
`AbortPoll` is an exception caught by `run_poll_loop`. `Crash` is a replica that
stops at an await, which shutdown's cancellation is as well. In `RuleEngine` indicators are
integers in hundredths and `Absent` is a missing one. A dedupe key is the sequence of
characters `rules.py:170` hashes, its fields joined by colons and not escaped (the hash
itself is taken to be free of collisions). `AlertsAreDistinct`, which `Alerting` assumes,
says that different alerts have different keys. That is proved of `RuleEngine` for the
alerts of one event, whatever its strings, and for the alerts of different events where
ids and symbols have no colon: ids are uuid4 unless the publisher chooses them, symbols
are tickers, and nothing in the code enforces either.

### Streaming and MarketQueries

`pc` follows `_handle_message`: `lookup`, `ingest` (ticks and indicators are two
requests), `snapshot`, `read` and `write` (the two halves of `append_history`),
`publish`, `mark` (with `commit` in the same step), `finish`, `duplicate`,
`reject`. Events are numbers, later ones being newer, and stand for
`market_event_key`; the symbols share no state, so the module has one. `window`
is the signals topic's duplicate detection, whose 20 s may pass any time. An event
in `NonPositive` has a price that is zero or less: once committed, it makes the
volatility of every later event raise while it is in the window
(`VolatilityWindow`).

A query (`MarketQueries`) first asks for the tables, then reads the store, then the
cache; a row is an event, where it came from, its number there and the message that has
its `event_id`. `_dedupe_rows` identifies rows by `(event_id, symbol, ts)`, and the
normalizer gives each publication an `event_id` of its own: rows that one message left
in several places are one in the answer, and copies of a market event are not. The order
of rows of one time stamp under a limit is left open. `due` holds the events the query
must know of, fixed when it begins. A publication is a message of `market.raw`; replay
does not add to them, since its command takes only signals and insights. The store
answers with what was ingested: `DruidClient.ingest` submits an indexing task
(`libs/common/druid.py:311-317`) that makes the rows visible some time later, which the
models leave out.

### ReadModel

A request reads the shared cursor (`Begin`), waits for the receiver's lock and
peeks (`Peek`), and goes on with the answer: `NothingNew`, `Store`, `PeekRaises`.
Messages are sequence numbers; `Invalid` ones fail validation and are skipped,
`Undecodable` ones make `peek` raise. `upTo` and `appended` are history variables.

### LiveStream

`PumpReceive`, `Handle` (fan-out, then `complete`, one step) and
`PumpReceiveRaises` are a topic's pump; `PeekLockExpires` the bus's side of a batch
the pump forgot. A connection has `filter` and `queue` (the subscriber), `reply` (the
command task waits in `outbound.put`) and `sending` (what the loop took off the
queue). `wanted`, `got` and `disturbed` are history: the filters asked for, what the
client has, and the topics whose pump failed. Data frames carry the number of the
filter that let them through, which the code's do not, for `AckedFilter` to speak of.

### AIAnalysis, Guardrails, Retrieval

`pc` follows `_handle_message` / `_process_event`: `index`, then per symbol `check`
(marker), `retrieve`, `lookup` (cached generation), `generate`, `store`, `publish`,
`show` (the insight the API serves of the symbol), `mark`, and `complete`, which is part of
the retried operation. The local variables of an attempt are the record `work`.
Texts are sets of tokens, scores hundredths; `Replies` lists what the model may
answer: with citations of the context, with one of the context and one invented, with
invented ones only, or with plain text. `late` is history: insights published again
after their event was finished.

### The rest

`CircuitBreaker`: `Call` is the synchronous part of `call` up to awaiting the
operation; `Fail`, `Succeed` and `Cancel` are its ends, in whatever state the
breaker is by then. Time is the three values of `opened`. `ExchangeClient`: `phase`
is where `run()` is (`out`, `ready` to connect, `streaming`, in `backoff`); `Frame`
publishes one event, `Recycle` is a productive close, `Break` a failure. `MessageBus`: an id is
a content with the suffixes replay gave it, and `Forget` is the duplicate window that
passes. `Ingestion`: a payload stands for its symbol, time and source, of which
`market_event_key` makes the message id; `position` restarts at each `Disconnect`, and the
counters tell unique from duplicate. `NewsPolling`: a story stands for what
`hash_news_event` covers, its source included, so that one story of two sources is two;
`storyIds` and the counters are shared by the cycles, and each collector answers with any
of its `Collectors` answers or raises. Each publish is one more message on `news.raw`,
which `infra/servicebus-config.json:54-60` deploys without duplicate detection: the
"duplicate suppression" of `services/ingestion/README.md:32` and
`services/ingestion/sources/README.md:23` comes to the ids, and suppresses something only
on `InMemoryBus`. `Replay`: a command
drains a batch, republishes and completes message by message; it may stop anywhere.
`Chunking`: a text is a sequence of words with a size and what they end, joined by
single spaces; `SplitSegments` is paragraphs, sentences where one is too long, words
where a sentence is, and `Split`, a recursive function, cuts by any of the three;
`Pack` places one segment.
`InMemoryCache`: `store` and `expiry` are the two dicts, `Held` what they stand for
under `Cache`. `WorkerLifespan`: start-up, serving, the worker's end, `CloseBackend`
in order, the log sink.

## Runs

| Run | Instance | Shows |
|---|---|---|
| `alerting_modes` | calm: 2 replicas, 2 copies of a signal with 2 alerts; raced: the same with a failing cache and stopping replicas; faulty: a signal and an invalid insight, six kinds of faults | in every mode the marker is never early, the lock excludes, a processed event is final; calm: no event lost, no alert twice, implements `EventDelivery` (it leaves out cache failures, stopping replicas, lost locks, and publishes that raise after they were accepted); faulty: every message is settled |
| `alerting_lost_event` | a cache call may raise, before or after its effect | **violation** of `EventAccounted` |
| `stream_safety` | 2 replicas, 2 copies of an event with a positive price, all faults | completed is processed, processed is stored, prices once, every message settled |
| `stream_sequential` | 1 replica, an old event again after a newer one; then a query beside it | history lists what is processed; implements `EventDelivery`; queries miss no event and repeat no publication |
| `stream_poisoned` | 1 replica, no fault, a price of zero | **violation** of `OnlyPoisonRejected` |
| `stream_stale_snapshot` | cache may fail | **violation** of `SnapshotLatest` |
| `readmodel` | 2 requests for ever, 4 messages, one rejected, failing peeks | nothing skipped, complete answers, order and no duplicates until requests overlap, every message is read |
| `exchange` | 2 clients that share a breaker, threshold 2 | one probe, fields agree, recovers, counts, ends |
| `ai` | 2 replicas, a story for 2 symbols and the same story polled again, a model that invents citations | marker last, nothing half done, insights genuine, citations indexed, implements `EventDelivery`, every message settled |
| `ai_regrounded` | 1 replica, nothing fails | **violation** of `RejectionStays` |
| `livestream` | 3 messages of 2 symbols, 2 commands, a queue of 2, failing bus | filters and replies agree, order, departed clients let go |
| `libraries` | one of feed, news, replay, chunking, cache, lifespan | each with its own properties |

*Modes.* Three runs check several instances: the MC module declares a variable
`mode`, chosen at the start and never changed, and lets the mode's instance move,
taken with `INSTANCE ... WITH` where it has other constants. A property that is
meant for one mode names it.

*Bounds.* Two replicas and two copies of an event are the smallest instance in
which every race between replicas occurs; a third replica would only repeat one
of the two parts. Two alerts, or two symbols, let an attempt fail between them.
`MaxDeliveries` is 2, so both redelivery and the broker's own dead-lettering happen;
batches of 2 let an exception drop a message that was received and not yet begun. A
threshold of 1 or 2 opens the circuit within an instance. `VolatilityWindow`,
`MaxPrices` and `MaxRows` are scaled down so that windows fill and overflow; in
`stream_safety` the one price is positive, so that a history never raises and a second
commit is possible, and the cached history, which no property there is about, keeps one
row. The
read model's chunk sizes 100, 20 and 500 become 2, 2 and 2, so that a full chunk, the
cap and an overflowing window all happen with `MaxSequence` 4; one message may expire
(`MaxExpired`), more only repeat it. In the live stream a queue of 2 with three
messages and two replies (`MaxCommands`) drops data and replies alike and makes
replies wait. `MaxPublishes` 3 leaves replay room for two replacements of one message, so
that replaying it twice is seen, or for one of two messages; of a feed that a disconnect
repeats after the window passed, what would be a fourth message is cut off.
`MaxCycles` 3 lets a news cycle fail, the next find its stories counted, and a third
find them published.
`MaxWords` 4 with words of sizes 1, 3 and 7 against chunks of 6 or 9 characters gives
a segment too long for a chunk, overlaps that fit and that do not, and every
arrangement of paragraph and sentence ends. `MaxNow` 4 lets a key expire, be set
again and expire again. The replay commands are interchangeable, hence the symmetry;
`ImplementsRedis`, checked in the same run, says nothing about them. The proofs
below remove the bounds for the properties they cover.

*Deadlock* is checked, except in `livestream` and `libraries`: connections, commands,
texts and apps come to their end there.

*Fairness.* A replica's task runs on (`WF` on `Step`): an asyncio task that can
go on does. The broker's lock timers elapse (`WF` on `PeekLockExpires`). Nothing
is assumed of crashes, failing calls or which of a call's results comes: a
message is settled because `MaxDeliveries` bounds how often all of that can happen
to it. `Step` holds `Receive` and not `ReceiveRaises`: where `receive` faults are
allowed beside liveness (`stream_safety`, `ai`), receiving does not fail for ever,
since a broker that never delivers settles nothing. For the read model clients keep
asking (`WF` on `Begin`), and a peek is answered and stored now and then (`SF`),
since a peek may fail in between. For the exchange clients time passes, a client
whose run ended is run again and is not always cancelled before it connects, and no
connection lasts for ever (`SF` on the steps that a cancellation may disable): the
exchanges recycle sockets and silence is timed out. For the live stream
the tasks of a connection run on, but a client need never read: nothing is assumed of
`Send`.

## What the checks found

* *Lost event.* The alerting lock lives for 300 s and a peek lock for 60 s. In the run the
  call that takes the lock raises after the cache took it
  (`services/alerting/service.py:215`), outside the `try` that deletes it; the poll is
  aborted, the message is redelivered within the 300 s, finds the lock held and is
  *completed* as a duplicate in progress (`service.py:216-217`), as is every other copy.
  The event is neither processed nor dead-lettered, although
  `libs/common/resilience.py:242` says the loop survives transient failures. A replica that
  stops in its section, or whose `delete` raises, leaves the lock behind as well.
  `ImplementsDelivery` holds only without these faults, in the calm mode.
* *Poisoned symbol.* No schema asks for a positive price, and the volatility raises
  when an *earlier* price of its window is not positive
  (`services/stream/indicators.py:76`). The event with that price is processed; all
  later ones of the symbol on that replica are dead-lettered, and since they are not
  committed the price never leaves the window. `PoisonLasts` is the theorem.
* *Regrounded answer.* A provider applies the guardrails and drops invented
  citations; the service applies them again to what is left, finds nothing invented
  and marks the answer grounded (`services/ai/service.py:542,546`), although
  `llm/guardrails.py:104-105` says that the rejection stays visible.
* *Old snapshot.* An event whose first lookup raised is redelivered after a newer
  one and overwrites its snapshot (`services/stream/service.py:332`).

More limits of the code show in the models; no run is kept for them, and the runs
above state what holds in spite of them:

* a retry after a failed marker write publishes the alert or the insight again
  (`services/alerting/service.py:278-284`, `services/ai/service.py:510`);
* the signals topic forgets a message id after 20 s and redelivers after 60 s, so
  a replica that stops before the marker leaves a second signal;
* a processed event is dead-lettered when `complete` raises
  (`services/stream/service.py:351`);
* each stream replica keeps its own price history, so indicators depend on which
  replica got which event; `append_history` of two replicas can lose a row;
* a tick ingested twice counts twice against a history request's limit before the
  rows are deduplicated (`services/api/service.py:419-423`), so an answer may be
  shorter than asked for;
* overlapping requests of the read model append a message twice and out of order
  (nothing is ever skipped), hence "until two requests overlap";
* a call that was admitted before the breaker opened closes it without a probe.
  In this repository a breaker given to one caller is the rule, and for one caller
  `ClosedByProbe` is a theorem (`SoleCallerClosesByProbe`);
* before a word longer than a chunk the chunker emits a chunk that repeats only the
  overlap, and never elsewhere (`EchoesBeforeLongWords`); the branch for a chunk that
  is all overlap is not reached otherwise;
* `ServiceBusBus.close` is a plain loop: a receiver that raises leaves the others
  open, unlike `close_backends`, which `ShutdownReleases` is about.

## Proofs

All theorems hold for every value of the constants that satisfies the named
assumptions of the modules, `Faults` being any set of the listed kinds unless a
theorem says otherwise.
Every leaf is small enough to be found with timeouts well below the provers' defaults
(`tlapm --stretch 0.15` proves all eight modules), so that a slow machine finds it too.

* **AlertingProofs.** `Inv` is the type invariant, that a busy replica handles an
  event (`HandlesEvent`), and `MarkersTrue`: a marked alert is published, a
  processed event's alerts are marked, and a replica in the loop has marked every
  alert before `pos`. The last part is needed because `Finish` looks at `pos`
  only. It gives `TypeCorrect` and `ProcessedSafe`. With `LockHeld` (a replica in
  its section holds the lock, alone) and `"lock_outlived"` not in `Faults` it gives
  `LockExcludes`. `ProcessedStaysFinal` adds `StillUnprocessed`: between reading an
  alert's marker and writing it the event is not processed, because only another
  replica in the section could have done that.
  `NoDuplicates` is about what the alert markers are for. `PublishedOnce` ties each
  alert's place on the topic to its marker: an alert that is out and not marked belongs
  to a replica that is about to mark it under the event's lock. Peek locks may be lost,
  publishes may be refused and settlements may fail, but cache calls, a publish that
  raises after it was accepted, crashes and an outlived lock are excluded: after each of
  them the next attempt, or another replica, may find the alert out and its marker missing.
  `NoneDropped` and `RefinesDelivery` (the service implements `EventDelivery`) need
  `CalmInv`: who holds which message (`MessagesHeld`), that a lock in the cache belongs to
  a replica in its section (`LocksUsed`), and that a completed message is vouched for, by
  its event being processed or by a replica that still works on another message of it
  (`CompletionJustified`). That is the argument the code makes when it completes a copy
  whose lock is held, and it is right only while the holder lives and its calls return: the
  hypothesis excludes failing cache calls, crashes and lost locks, with which
  `alerting_lost_event` refutes it.
* **AlertingModesProofs.** `CalmNoDuplicates` and `CalmRefinesDelivery` carry these two over
  to the specification the run checks: a calm step is a step of `Alerting` with the
  faults of that mode, and the other modes' steps leave the calm properties alone.
  `KeysOfOneEventAreDistinct`: no two alerts of one event have the same dedupe key, whatever
  its strings, since behind the same prefix the rule's name, which has no colon, ends at the
  first one. `KeysTellEvents`: where ids and symbols have no colon a key tells all of its
  fields, since each of them ends at the first colon behind it (`FieldEndsAtColon`) and only the
  time, which comes last, has any. A symbol with a colon could make the keys of two events
  alike.
* **StreamingProofs.** `Inv` adds to the properties what the try block has done at
  each step (`DoneSoFar`), that a remembered message id belongs to an accepted
  signal (`WindowIsAccepted`), and that a replica that found its event unprocessed
  has not committed its price (`NotYetCommitted`): then `commit` adds a new entry,
  although another replica may have processed the event in the meantime. The
  bounded list is handled by `NewestEntries` (it is a suffix) and `AppendNewestOnce`.
  It gives `TypeCorrect`, `NoEventDropped`, `ProcessedLeavesAll`, `PricesCountOnce`.
  `PoisonLasts` is an action property: a window that raises is not appended to.
  Two theorems are about one replica, which the code needs and does not say: with two,
  `append_history` loses rows. `SoleHistoryComplete`: what the replica read is what it
  will replace (`ReadIsCurrent`), and an event is listed before it is marked.
  `SoleRefinesDelivery`, if that replica also keeps its peek locks: an open event is not
  processed (`OpenIsUnprocessed`), so nothing is published for a final one.
  The queries beside the service: `LatestIsServed` holds for any replicas and faults. A
  shown event has both its rows (`ShownIsStored`); the rows of the tables stay; and the
  store's events are bounded (`Bounded`), so that there is a newest. `HistoryIsServed`,
  for one replica, is about an answer merged from two reads with events processed in
  between. Rows are totally ordered by `Later`, and the ranks of a finite set of rows
  count from 0 without gaps (`RanksHaveNoGaps`), hence a row a limit leaves out is older
  than exactly as many as the limit asks for (`NewestRows`). After deduplication they
  are different events, all newer (`LimitedRows`).
* **ReadModelProofs.** `CursorInv`: everything below the shared cursor, below each
  request's own cursor and below the start of its answer is accounted for. It is
  inductive although cursors are overwritten by slower requests, and gives
  `NeverSkips`. With `ShortMeansCurrent` (a short answer of a broker that returns
  full chunks reaches what was there when the request began) it gives
  `AnswersAreComplete`. `SequentialWindow` needs `InTurn`: while no two requests have
  overlapped the window ends below the shared cursor, the one request in progress goes on
  from where it is, and the answer it has peeked is increasing between that cursor and
  its own, so that appending keeps the window increasing.
* **ExchangeClientProofs.** Of the breaker alone: `SingleProbe` and `FieldsAgree` are
  inductive with the types; `SoleCallerClosesByProbe` adds that a sole caller has no plain
  call in flight while the breaker is open. Of the clients around it:
  `SharedBreakerIsSafe` carries the first two over to clients that share a breaker, whose
  every step is a breaker's step or none; `RunsCountMessages` relates what a run has
  counted to what it has published (`Counted`): they differ by what the socket at hand
  has published, or by what failed connections had.
* **AIAnalysisProofs.** `Local` says what a replica has done when it has come to a
  step: the symbols before the one it is at are marked, and the insight it is about to
  show is published. It survives the other replicas because markers, the topic and the
  index only grow, and gives `MarkerIsLast`, `NoEventHalfDone`, `ServesPublished`. The
  `ai` run leaves out the faults `search`, `llm`, `publish` and a peek lock that is lost
  while its message is handled; the theorems do not. `CitesIndexed` follows a citation
  from the index through the context and the guardrails to the topic: the context a
  replica has in hand is of indexed documents (`CitedAt`), and neither a fresh answer nor a
  cached one, which may have been generated for another event, is published before the
  guardrails have kept of its citations those in that context.
  `VerdictsHold` is about the verdict that goes with them: an answer judged grounded as
  the model gave it is published as grounded, and nothing is published as grounded that
  cites nothing. Guarding a grounded result drops none of its citations (`VerdictKept`),
  so the provider and the service may guard it one after the other; and the verdict
  depends on the set of the context's documents only (`VerdictOfDocs`), which the key of
  the generation cache holds, so guarding a cached answer for another event comes to the
  same verdict (`GenerationsHold`). The converse is what `ai_regrounded` violates: an
  answer judged ungrounded may come out as grounded.
  `EveryQueryIsAnswered` is about retrieval itself: `Retrieve` can always go on, with as
  many documents as the index has up to `TopK`, no two of one id, best first, and none
  left out that is nearer than one taken and ranks before it. `Sorting` gives every finite set
  with a strict total order its one listing, each element at the place of the number in
  front of it; the two orders are the nearness of `KnnSearch` and the lexicographic one of
  `Before`; `RetrievalAnswers` holds of any finite set of rows with distinct ids, and the
  index stays finite.
  `RefinesDelivery` assumes that each event has one message and at least one symbol and that
  no peek lock is lost while its message is handled: two replicas with copies of an event
  may publish an insight of it after it is final, since nothing locks it. A replica whose
  `complete` raised after it took effect goes through the operation again; `Ahead` says
  that it finds every symbol marked then, and that nobody else marks the symbol an attempt
  is about.
* **LibrariesProofs.** `DictsImplementRedis` is a refinement: under `Held`, which
  maps an expired entry to an absent one and the rest to its value and remaining
  time, every step of the dicts is a step of `Cache` or a stutter. `Inv` adds to the
  types that a snapshot is never `None`, so that a hit cannot look like a miss.
  `EverythingReleased`: the backends before the one being closed are closed or have raised,
  for any number of them. `ReturnedIsPublished`, of the feed on a topic that detects
  duplicates or does not, and whose window passes or does not: everything before the feed's
  position is on the topic, the counted ids are the bodies of the topic, and it has no more
  messages than were counted (`FeedInv`). That nothing is on the topic twice is no theorem:
  a disconnect later than the window's 20 s publishes again what was published.
  `CycleIsPublished`: what the answers of a news cycle held up to the story at hand is on the
  topic (`NewsInv`), whatever earlier cycles counted. `ModeIngestionPublishes` carries both
  over to the specification the run checks. `CompletedIsReplaced` and `ReplayLosesNothing`: replay adds a suffix to a
  message's id, so a replacement has more of them than what it replaces; of a body there is
  always a copy that is not replayed and at least as deep as any other (`Survivors`),
  although overlapping commands make equal ids and the duplicate window drops one.
  The chunker needs induction over the text. The library's induction theorems take an
  operator as a parameter, so the module has its own, about sets: `LeastNumber` follows
  from the well-foundedness of strict inclusion of finite sets, a fact the library
  proves; from it `Counting` (a set with 0 and all successors is `Nat`), `Extending` (a set
  with `<<>>` that is closed under `Append` is `Seq(S)`) and `Recursion` (steps can be
  taken one after the other). A recursive function is then what its steps compute
  (`Flattening`, `Summing`, `Splitting`), and what each step keeps holds of texts of any
  length: `SplitSegmentsKeeps`, whatever is cut, the pieces are the document, and each keeps
  to the limits or is one word. `ChunkingInv`, of the packing: what the chunks and the one
  under construction add is the pieces packed so far, in order; a chunk keeps to
  the limits or is one word, and only its first piece may be an overlap, which then keeps
  to the limits; the chunk under construction adds something; and a chunk that adds nothing
  is where `EchoesBeforeLongWords` allows it. That `Pack` keeps it is shown in two halves,
  with what may be placed between them: after `MakeRoom` the segment has room or the
  parts are an overlap (`MakeRoomKeeps`); after `MakeWay` the segment is placed, and an
  overlap was emitted only if the segment alone is too long (`MakeWayKeeps`).
  `DocumentIsKept`, `ChunksKeepLimits` and `EchoesAreRare` follow from it.
* **LiveStreamProofs.** The queue of a connection is handled through two predicates.
  `Good`: a frame's filter is one the client asked for and not older than the one it
  has the reply of; its message is ahead of those the client has and behind those the
  pump still has to deliver. `Follows`, of two frames on their way: the second is no
  older than the reply, or message of its topic, in front of it. `Line` (all frames
  good, each following those in front), `Client` and `Bus` (the locked messages of a
  topic whose pump has not failed are the pump's batch, and its oldest) are inductive:
  dropping the oldest frame, putting one at the end and sending the first each keep
  `Line`. They give `TypeCorrect`, `AckedFilterHolds` and `InOrderHolds` for any number of topics and
  connections, where the run has one of each.

Only model-checked: the liveness properties (`AllSettled` and the others with
fairness), since the prover has no rules for fairness and ENABLED. Where a theorem has a hypothesis on `Faults`, on the number of
replicas or on the messages of an event, what happens without it is in "What the checks
found", and no theorem is about it.

## Not modelled

Text and numbers: prompts, the mock provider's phrases, feed and frame parsing,
normalisation, embeddings, the indicator formulas (floating point; `rsi` and the
z-scores are left to unit tests). Pure I/O: HTTP, SQL and AMQP encodings, logging,
metrics, configuration, the scripts. The broker's message expiry is modelled for the
read model only: the consumers' messages live for an hour, and an expired one is
dead-lettered like any other.

Of modelled components: `InMemoryBus` as a second implementation of the bus, and that
a subscription of it starts to exist when it is first used; `seen` of the caches, which
no service calls; a chunk's character offsets; more than one chunk per indexed
document; a peek lock that runs out while the live stream's pump works on its batch;
the length of back-offs, for which any time may pass; cancelling a backend's `close`
itself. A worker that answers its cancellation with another exception is modelled
(`cancel_raises`) and excepted in `ShutdownReleases`: none in the repository does. In `Handle` of `LiveStream`, `complete` belongs to the fan-out's step: no other
task depends on which of the two a connection's step falls between.
