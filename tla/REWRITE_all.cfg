SPECIFICATION Spec
CONSTANTS
  Bodies <- MCBodies
  Requests <- MCRequests
INVARIANTS PeepholeIsApplied PeepholeKeepsCalls ReplacesAtOnce NoneReplacedTwice
