\* Two requests that are repeated for ever; a peek may fail.
SPECIFICATION MCSpec
CONSTANTS
  Requests = {r1, r2}
  PeekChunk = 2
  MaxChunks = 2
  RecentWindow = 2
  Invalid = {2}
  Undecodable = {}
  MaxSequence = 4
  MaxExpired = 1
  ShortPeeks = FALSE
INVARIANTS
  NothingSkipped
  CurrentIsComplete
  SequentialInOrder
PROPERTIES
  EventuallyRead
