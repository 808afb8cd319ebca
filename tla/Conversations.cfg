SPECIFICATION FairSpec
CONSTANTS
  Sequences = {main, branch}
  Main = main
  Streams = {s1}
  a = a
  b = b
  stop = stop
  Tokens = {a, b, stop}
  Stops = {stop}
  Likely <- TwoLikely
  Wirings = {"speculative", "ahead"}
  Prompts <- OnePrompt
  Limits = {0}
  ChunkLength = 2
  Capacity = 2
  MaxPosition = 2
  Drafts = 1
  Depth = 2
  Faults = {"loss", "break", "host"}
  NoToken = NoToken
  NoTurn = NoTurn
CHECK_DEADLOCK FALSE
PROPERTIES
  ConversesPlainly
  ChainsDrain
