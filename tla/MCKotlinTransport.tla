-------------------------- MODULE MCKotlinTransport --------------------------
(***************************************************************************)
(* Instances of KotlinTransport for TLC.                                   *)
(***************************************************************************)
EXTENDS KotlinTransport, TLC

CONSTANTS a, b, c

StaleReply == [kind |-> "R", of |-> NoCall]
StaleUpdate == [kind |-> "S", of |-> NoCall]

(* An empty port, and one with what an interrupted session left behind.    *)
NoLeftovers == {<<>>}
SomeLeftovers == {<<>>, <<StaleReply>>, <<StaleUpdate, StaleReply>>}
=============================================================================
