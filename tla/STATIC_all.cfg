SPECIFICATION Spec
CONSTANTS
  Values <- AllValues
  Parts <- AllParts
  Depth <- AllDepths
  Types <- AllTypes
  Nesting <- AllNestings
  MaxItems = 3
INVARIANTS WalkFindsItsValue WalkIsAligned FillsItsBuffer
PROPERTIES RefinesPlacement DanglingOnly
