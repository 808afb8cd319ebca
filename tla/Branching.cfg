SPECIFICATION Spec
CONSTANTS
  Contexts = {main, branch}
  Main = main
  main = main
  drafter = drafter
  branch = branch
  r1 = r1
  r2 = r2
  a = a
  b = b
  NoContext = NoContext
  NoTag = NoTag
  Runs = {r1, r2}
  Tags = {a, b}
  ChunkLength = 1
  QueryLengths = {1}
  MaxLogicalLength = 2
  Scopes = {"run"}
  Faults = {}
  Observed = "full"
  Slots <- FullSlots
  Capacity <- FullCapacity
  Window <- FullWindow
SYMMETRY Symmetry
CHECK_DEADLOCK FALSE
PROPERTIES
  RetainsHistory
