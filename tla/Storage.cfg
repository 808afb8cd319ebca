SPECIFICATION Spec
CONSTANTS
  named = named
  plain = plain
  large = large
  c1 = c1
  c2 = c2
  c3 = c3
  c4 = c4
  p = p
  Nobody = Nobody
  Calls = {c1, c2, c3, c4}
  Keys = {named, plain, large}
  Resident = {named}
  Bytes <- KeyBytes
  Budget = 2
  PlanCapacity = 2
  Params = {p}
SYMMETRY Symmetry
CHECK_DEADLOCK FALSE
INVARIANTS
  HeldStorageAlive
  NothingInvalidKept
  RestHoldsNothing
  BudgetKept
