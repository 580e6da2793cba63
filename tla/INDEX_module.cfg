SPECIFICATION Spec
CONSTANTS
  Names <- MCNames
  FuncTypes <- MCFuncTypes
  GlobalTypes <- MCGlobalTypes
  MaxFunctions = 3
  MaxGlobals = 3
INVARIANTS TypeOK CallsReachTheirFunction PointersReachTheirFunction ExportsNameTheirFunction AccessesReachTheirGlobal
