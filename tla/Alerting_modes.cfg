\* Calm: two copies of one signal, and a cache and replicas that do not fail.
\* Raced: the two copies, a cache that fails and replicas that stop.
\* Faulty: a signal and an insight that does not validate, and every fault below.
SPECIFICATION ModeSpec
CONSTANTS
  m1 = m1  m2 = m2  e1 = e1
  Workers = {w1, w2}
  Messages = {m1, m2}
  Events = {e1}
  Alerts <- RaisedAlerts
  NoEvent = NoEvent  NoMessage = NoMessage  Nobody = Nobody
  TopicOf <- CopiesTopicOf
  EventOf <- CopiesEventOf
  AlertsOf <- RaisedAlertsOf
  Absent = Absent
  OverboughtThreshold = 7000
  OversoldThreshold = 3000
  VolatilityThreshold = 5
  SentimentThreshold = 75
  HighSeverityThreshold = 90
  Characters <- KeyCharacters
  Colon = ":"
  Spelling <- ShortSpelling
  BatchSize = 2
  MaxAttempts = 2
  Threshold = 1
  MaxDeliveries = 2
  Faults = {"cache", "publish", "publish_unknown", "settle", "crash", "peek_lock_lost"}
INVARIANTS
  ProcessedImpliesPublished
  MutualExclusion
  CalmNoDuplicateAlerts
PROPERTIES
  ProcessedIsFinal
  CalmImplementsDelivery
  FaultyAllSettled
