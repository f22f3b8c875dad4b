SPECIFICATION Spec
CONSTANTS
  r1 = r1
  r2 = r2
  r3 = r3
  n1 = n1
  m1 = m1
  m2 = m2
  cny = cny
  usd = usd
  Blank = Blank
  NoEntry = NoEntry
  NoOne = NoOne
  Requests = {r1, r2, r3}
  Names = {n1}
  Nodes = {m1, m2}
  Currencies = {cny, usd}
  Inputs <- UpdateInputs
  NodeOf <- TwoNodes
  Existing = {n1}
  MaxRetries = 2
  MaxFaults = 1
SYMMETRY Twins
INVARIANTS
  TypeOK
  NoLostUpdate
  LockExcludes
  RetryNeedsExpiry
  LockReleased
  ClientErrorChangesNothing
PROPERTY
  DeletedIsFinal
CHECK_DEADLOCK FALSE
