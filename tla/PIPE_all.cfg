SPECIFICATION Spec
CONSTANTS
  Modules <- AllModules
  Edits <- Moves
  MaxCalls = 2
INVARIANTS EmitsVerified NotesAreFresh CodeNests NoBlockInItself
PROPERTIES AcceptsAgain CorrectionKeepsRegular BreakLeavesInnermostLoop RepeatsItsLoop CompiledUnlessUnsupported
