SPECIFICATION Spec
CONSTANTS
  Keys = {k1, k2}
  Burst = 2
  PerToken = 2
  IdleLimit = 4
  SweepEvery = 3
  Horizon = 8
SYMMETRY Symmetry
INVARIANTS TypeOK WindowBound StaleBound
PROPERTY ImplementsTokenBucket
