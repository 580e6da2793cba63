SPECIFICATION Spec
CONSTANTS
  Modules <- AllModules
  Edits <- Moves
  MaxCalls = 2
INVARIANT BreakIsInALoop
