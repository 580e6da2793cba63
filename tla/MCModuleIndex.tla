---------------------------- MODULE MCModuleIndex ---------------------------
(* Small modules: three names, two types of functions and of globals. *)
EXTENDS ModuleIndex

MCNames == {"f", "g", "h"}
MCFuncTypes == {"unary", "binary"}
MCGlobalTypes == {"int32", "float32"}
=============================================================================
