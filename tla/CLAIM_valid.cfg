SPECIFICATION TypedSpec
CONSTANTS
  Interned <- MCTypes
  Functions <- Claims
  FuncTypes <- MCFuncTypes
  GlobalTypes <- MCGlobalTypes
INVARIANT ValidOutput
