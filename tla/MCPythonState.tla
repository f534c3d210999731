---------------------------- MODULE MCPythonState ----------------------------
(***************************************************************************)
(* Instances of PythonState for TLC.                                       *)
(***************************************************************************)
EXTENDS PythonState

CONSTANTS o1, o2, p1
=============================================================================
