SPECIFICATION Spec
CONSTANTS
  e1 = e1
  e2 = e2
  e3 = e3
  p1 = p1
  g1 = g1
  a1 = a1
  m1 = m1
  m2 = m2
  NoEntry = NoEntry
  NoOne = NoOne
  Events = {e1, e2, e3}
  Puts = {p1}
  Readers = {g1}
  Accounts = {a1}
  Nodes = {m1}
  AccountOf <- OneAccount
  NodeOf <- AtFirstNode
  ItemEvents = {e1, e2}
  Poison = {e2}
  MaxAttempts = 2
  MaxCopies <- AllOnce
  MaxFaults = 1
INVARIANT
  StaleOnlyByRace
PROPERTY
  EventSettles
CHECK_DEADLOCK FALSE
