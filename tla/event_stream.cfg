\* Two handlers and the worker append, two streams watch with a buffer of one.
SPECIFICATION FairSpec
CONSTANTS
  Handlers = {h1, h2}
  Engine = Engine
  Streams = {s1, s2}
  BufferSize = 1
  MaxEvents = 2
CHECK_DEADLOCK FALSE
INVARIANTS
  TypeOK
  NothingLost
  RepeatsOnlyInFlight
  AuthorOrder
PROPERTIES
  HandlersReturn
