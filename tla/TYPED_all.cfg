SPECIFICATION TypedSpec
CONSTANTS
  Interned <- MCTypes
  Functions <- All
  FuncTypes <- MCFuncTypes
  GlobalTypes <- MCGlobalTypes
INVARIANTS StacksAgree MetadataComplete
PROPERTIES FailsAtTheGapsOnly RefinesVerifierContract
