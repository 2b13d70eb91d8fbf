\* One replica and no fault at all; the first of three events has no positive price.
SPECIFICATION Spec
CONSTANTS
  Workers = {w1}
  Messages = {1, 2, 3}
  Keys = {1, 2, 3}
  NoKey = NoKey  NoMessage = NoMessage  Nobody = Nobody
  KeyOf <- OrderedKeyOf
  BatchSize = 1
  MaxRows = 2
  MaxPrices = 2
  MaxDeliveries = 2
  VolatilityWindow = 2
  NonPositive = {1}
  Faults = {}
INVARIANTS
  OnlyPoisonRejected
