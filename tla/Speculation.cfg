SPECIFICATION Spec
CONSTANTS
  Contexts = {main, drafter}
  Main = main
  main = main
  drafter = drafter
  branch = branch
  r1 = r1
  r2 = r2
  a = a
  b = b
  NoContext = NoContext
  NoTag = NoTag
  Runs = {r1, r2}
  Tags = {a}
  ChunkLength = 3
  QueryLengths = {1, 2, 3}
  MaxLogicalLength = 5
  Scopes = {"run"}
  Faults = {}
  Observed = "ring"
  Slots <- MixedSlots
  Capacity <- MixedCapacity
  Window <- MixedWindow
SYMMETRY Symmetry
CHECK_DEADLOCK FALSE
INVARIANTS
  EveryReadSeesItsPast
  RestingRowsIntact
  CapturedLengthHolds
