\* One replica, a copy of an old event after a newer one; peek locks are not lost.
SPECIFICATION ModeSpec
CONSTANTS
  Workers = {w1}
  Messages = {1, 2, 3}
  Keys = {1, 2}
  NoKey = NoKey  NoMessage = NoMessage  Nobody = Nobody
  KeyOf <- ReplayKeyOf
  BatchSize = 2
  MaxRows = 3
  MaxPrices = 2
  MaxDeliveries = 2
  VolatilityWindow = 2
  NonPositive = {}
  Faults = {"cache", "publish_unknown", "settle", "crash"}
  Limits = {2, NoLimit}
  NoLimit = NoLimit
INVARIANTS
  HistoryListsProcessed
  HistoryServed
  LatestServed
PROPERTIES
  ImplementsDelivery
