--------------------------- MODULE MCPythonFraming ---------------------------
(***************************************************************************)
(* Instances of PythonFraming for TLC.                                     *)
(***************************************************************************)
EXTENDS PythonFraming

CONSTANTS c1, c2

(* Pieces a stream is made of, and every stream of a few of them.          *)
Pieces == {Marker, <<"x">>, <<"cr", "lf">>, <<"lf">>, <<"@">>}
SomeStreams ==
    {p \o q \o r : p, q, r \in Pieces}

(* What a caller may end a command with.                                   *)
SomeText == c1 :> <<"y">> @@ c2 :> <<"y", "cr", "lf", "lf">>
=============================================================================
