--------------------------- MODULE MCPythonObject ----------------------------
(***************************************************************************)
(* Instances of PythonObject for TLC.                                      *)
(***************************************************************************)
EXTENDS PythonObject

CONSTANTS x, y
=============================================================================
