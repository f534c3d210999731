-------------------------- MODULE MCPythonTransport --------------------------
(***************************************************************************)
(* Instances of PythonTransport for TLC.                                   *)
(***************************************************************************)
EXTENDS PythonTransport, TLC

CONSTANTS a, b, k1, k2

StaleReply == [kind |-> "R", of |-> NoCall]
StaleUpdate == [kind |-> "S", of |-> NoCall]

(* An empty port, and two with what an interrupted session left behind.    *)
SomeLeftovers == {<<>>, <<StaleReply>>, <<StaleUpdate, StaleReply>>}
=============================================================================
