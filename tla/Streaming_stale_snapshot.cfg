\* One replica whose cache may fail; the events are published in order.
SPECIFICATION Spec
CONSTANTS
  Workers = {w1}
  Messages = {1, 2}
  Keys = {1, 2}
  NoKey = NoKey  NoMessage = NoMessage  Nobody = Nobody
  KeyOf <- OrderedKeyOf
  BatchSize = 1
  MaxRows = 2
  MaxPrices = 2
  MaxDeliveries = 2
  VolatilityWindow = 2
  NonPositive = {}
  Faults = {"cache"}
INVARIANTS
  SnapshotLatest
