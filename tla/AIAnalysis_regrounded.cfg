\* A model that cites a retrieved document and one it made up; nothing fails.
SPECIFICATION Spec
CONSTANTS
  NaN = NaN
  Workers = {w1}
  Messages = {1, 2}
  Events = {1, 2}
  Symbols = {"BTC", "ETH"}
  NoEvent = NoEvent  NoMessage = NoMessage  Nobody = Nobody  NoDraft = NoDraft
  TopicOf <- StoryTopicOf
  EventOf <- StoryEventOf
  SymbolsOf <- StorySymbolsOf
  ContentOf <- StoryContentOf
  CitationOf <- StoryCitationOf
  Knn <- StoryKnn
  Lexical <- StoryLexical
  Replies = {"mixed"}
  TopK = 2
  CandidateK = 2
  BatchSize = 1
  MaxAttempts = 2
  MaxDeliveries = 2
  Faults = {}
INVARIANTS
  RejectionStays
