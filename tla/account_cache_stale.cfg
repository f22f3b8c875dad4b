SPECIFICATION Spec
CONSTANTS
  r1 = r1
  r2 = r2
  r3 = r3
  n1 = n1
  m1 = m1
  m2 = m2
  cny = cny
  usd = usd
  Blank = Blank
  NoEntry = NoEntry
  NoOne = NoOne
  Requests = {r1, r2}
  Names = {n1}
  Nodes = {m1}
  Currencies = {cny, usd}
  Inputs <- WriteAndRead
  NodeOf <- OneNode
  Existing = {n1}
  MaxRetries = 3
  MaxFaults = 0
INVARIANT
  CachesAreCurrent
CHECK_DEADLOCK FALSE
