SPECIFICATION MCSpec
CONSTANTS
  c1 = c1
  x = x
  px = px
  py = py
  Clients = {c1, c2}
  Channels = {x, y}
  Patterns = {px, py}
  Match <- MatchBoth
  NoName = NoName
  MaxId = 3
  MaxPending = 3
INVARIANTS
  SubscribersMirrored
  PatternsRegistered
  MessageExpected
  CountTellsSubscriptions
PROPERTIES
  WriterEnds
CHECK_DEADLOCK FALSE
