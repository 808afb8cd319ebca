SPECIFICATION Spec
CONSTANTS
  Targets = 4
  Sizes = {1, 2, 4}
  Budget = 3
  Concurrency = 2
CHECK_DEADLOCK FALSE
INVARIANTS
  BytesWithinBudget
  OutcomeIsTheCause
PROPERTIES
  NothingStartsAfterAbort
  CallSettles
