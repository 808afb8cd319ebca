SPECIFICATION Spec
CONSTANTS
  Contexts = {main, branch}
  Main = main
  main = main
  drafter = drafter
  branch = branch
  r1 = r1
  r2 = r2
  a = a
  b = b
  NoContext = NoContext
  NoTag = NoTag
  Runs = {r1, r2}
  Tags = {a}
  ChunkLength = 2
  QueryLengths = {1, 2}
  MaxLogicalLength = 3
  Scopes = {"run", "batch"}
  Faults = {"discard", "break", "late"}
  Observed = "ring"
  Slots <- TightSlots
  Capacity <- TightCapacity
  Window <- TightWindow
SYMMETRY Symmetry
CHECK_DEADLOCK FALSE
PROPERTIES
  RetainsHistory
