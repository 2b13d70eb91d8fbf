\* Two replicas; every fault but a peek lock lost by a busy replica.
SPECIFICATION FairSpec
CONSTANTS
  NaN = NaN
  Workers = {w1, w2}
  Messages = {1, 2}
  Events = {1, 2}
  Symbols = {"BTC", "ETH"}
  NoEvent = NoEvent  NoMessage = NoMessage  Nobody = Nobody  NoDraft = NoDraft
  TopicOf <- StoryTopicOf
  EventOf <- StoryEventOf
  SymbolsOf <- StorySymbolsOf
  ContentOf <- StoryContentOf
  CitationOf <- StoryCitationOf
  Knn <- StoryKnn
  Lexical <- StoryLexical
  Replies = {"mixed"}
  TopK = 2
  CandidateK = 2
  BatchSize = 1
  MaxAttempts = 2
  MaxDeliveries = 2
  Faults = {"receive", "cache", "settle", "crash"}
INVARIANTS
  MarkedIsPublished
  CompletedIsMarked
  ServedWasPublished
  CitationsIndexed
PROPERTIES
  ImplementsDelivery
  AllSettled
