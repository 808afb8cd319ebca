SPECIFICATION FairSpec
CONSTANTS
  Sessions = {main, branch}
  Main = main
  Kvs = {k1, k2}
  NoKv = NoKv
  Room = 3
  Fronts <- SomeFronts
CHECK_DEADLOCK FALSE
INVARIANTS
  KvHoldsHistory
  HistoryIsSettled
  SequencesAreHeld
  NeverInconsistent
PROPERTIES
  TurnsEnd
