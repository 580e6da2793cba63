SPECIFICATION Spec
CONSTANTS
  Functions <- AllKnots
  MaxDistance = 4
PROPERTY AlwaysEnds
