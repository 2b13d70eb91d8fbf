\* Two replicas, two copies of one event and every fault; no property is about the cached
\* history, which keeps one row.
SPECIFICATION FairSpec
CONSTANTS
  Workers = {w1, w2}
  Messages = {1, 2}
  Keys = {1}
  NoKey = NoKey  NoMessage = NoMessage  Nobody = Nobody
  KeyOf <- CopiesKeyOf
  BatchSize = 2
  MaxRows = 1
  MaxPrices = 2
  MaxDeliveries = 2
  VolatilityWindow = 2
  NonPositive = {}
  Faults = {"receive", "cache", "store", "publish", "publish_unknown", "settle", "crash", "peek_lock_lost"}
INVARIANTS
  CompletedIsProcessed
  ProcessedIsStored
  PriceCountedOnce
PROPERTIES
  AllSettled
