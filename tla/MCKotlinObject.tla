--------------------------- MODULE MCKotlinObject ----------------------------
(***************************************************************************)
(* Instances of KotlinObject for TLC.                                      *)
(***************************************************************************)
EXTENDS KotlinObject

CONSTANTS x, y
=============================================================================
