------------------------------ MODULE MCServer ------------------------------
(***************************************************************************)
(* Instances of module SearchServer.                                       *)
(***************************************************************************)
EXTENDS SearchServer

CONSTANTS c1, c2, c3

TwoConns == {c1, c2}
ThreeConns == {c1, c2, c3}
=============================================================================
