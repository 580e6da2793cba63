SPECIFICATION Spec
CONSTANTS
  h1 = h1
  h2 = h2
  Handles = {h1, h2}
  Menus <- AllMenus
INVARIANTS BuiltAsAsked ReadsBack TakenForNoOther
PROPERTY EveryTextIsDecided
CHECK_DEADLOCK FALSE
