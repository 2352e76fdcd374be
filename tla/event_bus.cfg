SPECIFICATION FairSpec

CONSTANTS
  Emitter = {orchestrator, handler}
  Closer = {c1, c2}
  Patient = {c1}
  Subscriber = {webhook, discord}
  BufferSize = 2
  MaxEvents = 2

CHECK_DEADLOCK FALSE

INVARIANTS
  BusInv
  NoPanic

PROPERTIES
  CloseIsFinal
  KeepsPromise
  CallsReturn
  EventsDelivered
