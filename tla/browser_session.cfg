SPECIFICATION Spec
CONSTANTS
  Tabs = {t1, t2}
  Users = {u1, u2}
  Demo = Demo
  None = None
  Slots = {1, 2}
  MaxVisits = 5
INVARIANTS
  TypeOK
  AccountsStayApart
  DemoNeverSaved
SYMMETRY SomeNames
CHECK_DEADLOCK FALSE
