SPECIFICATION Spec
CONSTANTS
  Sequences = {main}
  Main = main
  Streams = {s1, s2}
  a = a
  b = b
  stop = stop
  Tokens = {a, b, stop}
  Stops = {stop}
  Likely <- TwoLikely
  Wirings = {"speculative", "ahead"}
  Prompts <- FewPrompts
  Limits = {0, 1, 3}
  ChunkLength = 3
  Capacity = 5
  MaxPosition = 6
  Drafts = 2
  Depth = 2
  Faults = {"loss", "break", "host"}
  NoToken = NoToken
  NoTurn = NoTurn
CHECK_DEADLOCK FALSE
INVARIANTS
  RowsFitCapacity
  UsedFollowsToken
  DraftsFromLastRow
  NothingLeftUncommitted
PROPERTIES
  ConversesPlainly
