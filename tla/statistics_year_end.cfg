SPECIFICATION Spec
CONSTANTS
  Rates <- TwoRates
  Accounts <- ThreeAccounts
  FreeMoney = 100
  Percent = 12
  Stops = {0, 35, 100}
  MaxClicks = 4
INVARIANT YearEndIsPrecise
CHECK_DEADLOCK FALSE
