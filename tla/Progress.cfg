SPECIFICATION FairSpec
CONSTANTS
  Sessions = {s1, s2}
  Calls = {c1, c2}
  Batches = {b1}
  Nobody = Nobody
CHECK_DEADLOCK FALSE
PROPERTIES
  CallsSettle
  BatchesConclude
  DisposalsEnd
