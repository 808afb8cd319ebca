SPECIFICATION Spec
CONSTANTS
  Contexts = {main, drafter}
  Main = main
  main = main
  drafter = drafter
  branch = branch
  r1 = r1
  r2 = r2
  a = a
  b = b
  NoContext = NoContext
  NoTag = NoTag
  Runs = {r1, r2}
  Tags = {a}
  ChunkLength = 2
  QueryLengths = {1}
  MaxLogicalLength = 3
  Scopes = {"run", "batch"}
  Faults = {"discard", "break", "late", "loss"}
  Observed = "ring"
  Slots <- ChainSlots
  Capacity <- ChainCapacity
  Window <- ChainWindow
SYMMETRY Symmetry
CHECK_DEADLOCK FALSE
INVARIANTS
  TypeOK
  DisposalWaitsForRuns
  BorrowedSlotsAlive
  ChainTilesRange
  LeaseMatchesRuns
