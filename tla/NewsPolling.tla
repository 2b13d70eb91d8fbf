----------------------------- MODULE NewsPolling -----------------------------
(***************************************************************************)
(* The news polling service (services/ingestion/sources/service.py): each  *)
(* cycle polls every collector and publishes what it finds to news.raw.    *)
(* A story stands for what hash_news_event covers, its source included.    *)
(* news.raw has no duplicate detection (infra/servicebus-config.json), so  *)
(* that every publish is one more message.                                 *)
(***************************************************************************)
EXTENDS Naturals, Sequences

CONSTANTS
  Collectors,  \* per collector: the answers a poll may get, each a sequence of stories
  MaxCycles,   \* bound: the calls of run_once
  PollFaults   \* subset of {"collector", "publish", "publish_unknown"}

ASSUME PollAssumption == Collectors \in Seq(SUBSET Seq(Nat)) /\ MaxCycles \in Nat

VARIABLES
  news,       \* the stories on news.raw, by sequence number
  cycle,      \* the calls of run_once, which share the metrics
  polling,    \* the latest call: "running", "returned" or "failed"
  found,      \* by it: the answers of the collectors polled, <<>> of one that failed
  story,      \* by it: the next story of the latest answer
  storyIds,   \* metrics.published_message_ids
  uniqueStories, duplicateStories   \* metrics

cycleVars == <<polling, found, story>>
storyMetrics == <<storyIds, uniqueStories, duplicateStories>>
newsVars == <<news, cycle, cycleVars, storyMetrics>>

NewsInit ==
  /\ news = <<>> /\ cycle = 1
  /\ polling = "running" /\ found = <<>> /\ story = 1
  /\ storyIds = {} /\ uniqueStories = 0 /\ duplicateStories = 0

\* The latest answer has a story left.
Pending == found # <<>> /\ story <= Len(found[Len(found)])

Polls == polling = "running" /\ ~Pending /\ Len(found) < Len(Collectors)

\* poll_once of the next collector: its answer, or a failure that is its own.
PollCollector ==
  /\ Polls
  /\ \/ \E answer \in Collectors[Len(found) + 1] : found' = Append(found, answer)
     \/ "collector" \in PollFaults /\ found' = Append(found, <<>>)
  /\ story' = 1
  /\ UNCHANGED <<news, cycle, polling, storyMetrics>>

\* The counters and the id set change before the publish is awaited.
CountStory(id) ==
  /\ storyIds' = storyIds \cup {id}
  /\ uniqueStories' = uniqueStories + (IF id \in storyIds THEN 0 ELSE 1)
  /\ duplicateStories' = duplicateStories + (IF id \in storyIds THEN 1 ELSE 0)

Published(id) == news' = Append(news, id) /\ story' = story + 1 /\ UNCHANGED polling

\* run_once is left with the exception of a publish, which may have been accepted.
Raises(id) ==
  /\ \/ "publish" \in PollFaults /\ UNCHANGED news
     \/ "publish_unknown" \in PollFaults /\ news' = Append(news, id)
  /\ polling' = "failed"
  /\ UNCHANGED story

\* Mutant: a story whose id was counted is taken for published.
StoryTrustsIds ==
  /\ polling = "running" /\ Pending
  /\ LET id == found[Len(found)][story]
     IN  /\ CountStory(id)
         /\ IF id \in storyIds
              THEN story' = story + 1 /\ UNCHANGED <<news, polling>>
              ELSE Published(id) \/ Raises(id)
  /\ UNCHANGED <<cycle, found>>

\* A story is published whether or not its id was counted before.
Story ==
  /\ polling = "running" /\ Pending
  /\ LET id == found[Len(found)][story] IN CountStory(id) /\ (Published(id) \/ Raises(id))
  /\ UNCHANGED <<cycle, found>>

CycleEnds ==
  /\ polling = "running" /\ ~Pending /\ Len(found) = Len(Collectors)
  /\ polling' = "returned"
  /\ UNCHANGED <<news, cycle, found, story, storyMetrics>>

\* run_once is called again, also after a call that failed.
NextCycle ==
  /\ polling # "running" /\ cycle < MaxCycles
  /\ cycle' = cycle + 1
  /\ polling' = "running" /\ found' = <<>> /\ story' = 1
  /\ UNCHANGED <<news, storyMetrics>>

NewsNext == PollCollector \/ Story \/ CycleEnds \/ NextCycle

NewsSpec == NewsInit /\ [][NewsNext]_newsVars
-----------------------------------------------------------------------------
(* Properties *)

NewsBodies == {news[k] : k \in DOMAIN news}

\* A cycle that returns has polled every collector, whichever of them failed, and each
\* story it found is on news.raw: also one whose id an earlier cycle counted in
\* published_message_ids before its publish failed.
CyclePublished ==
  polling = "returned" =>
    /\ Len(found) = Len(Collectors)
    /\ \A c \in DOMAIN found : {found[c][i] : i \in DOMAIN found[c]} \subseteq NewsBodies
=============================================================================
