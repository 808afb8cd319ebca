SPECIFICATION Spec
CONSTANTS
  Sessions = {s1, s2}
  Calls = {c1, c2, c3}
  Batches = {b1, b2}
  Nobody = Nobody
SYMMETRY Symmetry
CHECK_DEADLOCK FALSE
INVARIANTS
  ErrorsReachTheirOwner
  FenceCoversBatch
  SuccessIsComplete
  ReadsReturnOwnOutput
  BodiesPrecedeDisposal
