SPECIFICATION Spec
CONSTANTS
  Functions <- AllShapes
  MaxDistance = 5
INVARIANTS TypeOK PassedIsWellFormed RejectedIsIllFormed ParentsExact DistancesAgree
PROPERTIES RefinesContract EndsWithoutKnots
