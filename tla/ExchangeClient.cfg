\* Two clients that share a breaker, so that results of one arrive late for the other.
SPECIFICATION FairClientSpec
CONSTANTS
  Callers = {c1, c2}
  Threshold = 2
  MaxReconnects = 1
  MaxMessages = 2
INVARIANTS
  SingleProbe
  FieldsAgree
  CountsMessages
PROPERTIES
  Recovers
  RunEnds
