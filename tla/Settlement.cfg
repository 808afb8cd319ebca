SPECIFICATION FairSpec
CONSTANTS
  Contexts = {main, drafter}
  Main = main
  main = main
  drafter = drafter
  branch = branch
  r1 = r1
  r2 = r2
  a = a
  b = b
  NoContext = NoContext
  NoTag = NoTag
  Runs = {r1, r2}
  Tags = {a}
  ChunkLength = 1
  QueryLengths = {1}
  MaxLogicalLength = 1
  Scopes = {"batch"}
  Faults = {"discard", "loss"}
  Observed = "ring"
  Slots <- ChainSlots
  Capacity <- ChainCapacity
  Window <- ChainWindow
CHECK_DEADLOCK FALSE
PROPERTIES
  RunsSettle
  DisposalsEnd
