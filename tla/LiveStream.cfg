\* Three messages, a client that sends two commands, a queue of two.
SPECIFICATION FairSpec
CONSTANTS
  Connections = {c1}
  Topics = {"market"}
  Symbols = {"BTC", "ETH"}
  Messages = {1, 2, 3}
  TopicOf <- LiveTopicOf
  SymbolOf <- LiveSymbolOf
  Invalid = {}
  QueueSize = 2
  BatchSize = 2
  MaxCommands = 2
  NoFrame = NoFrame
  Faults = {"receive", "settle"}
INVARIANTS
  AckedFilter
  InOrder
PROPERTIES
  DisconnectedIsUnregistered
CHECK_DEADLOCK FALSE
