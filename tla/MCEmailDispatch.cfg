SPECIFICATION FairDispatchSpec
CONSTANTS
  ticketEvent = ticketEvent
  Events = {ticketEvent}
  w1 = w1
  w2 = w2
  Relays = {w1, w2}
  NoRelay = NoRelay
  t1 = t1
  t2 = t2
  Ticks = {t1, t2}
  HandlersOf <- MCHandlersOf
  BatchSize = 1
  MaxAttempts = 2
  MaxRetries = 1
  MaxLate = 1
  MaxSends = 2
  MaxBlips = 1
INVARIANTS
  PublishedReached
  SentOnce
PROPERTIES
  EndsStay
  EventEnds
CHECK_DEADLOCK FALSE
