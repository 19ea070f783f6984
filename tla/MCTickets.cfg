SPECIFICATION TicketSpec
CONSTANTS
  dev = dev
  lead = lead
  Principals = {dev, lead}
  Users = {lead}
  NoOne = NoOne
  KeysOf <- MCKeysOf
  PolicyModes = {"none"}
  c1 = c1
  c2 = c2
  Calls = {c1, c2}
  Observers = {"poll", "hook"}
  MaxMoves = 4
  MaxLinks = 1
INVARIANTS
  TicketTypeOK
  TrailIsPath
  SelfFixApproved
  OneMergeMove
PROPERTIES
  DeletedStaysPut
SYMMETRY AnyCall
CHECK_DEADLOCK FALSE
