------------------------------ MODULE MCUVTcp ------------------------------
(* The instance of UVTcp for a pair of sockets.                            *)
EXTENDS UVTcp, TLC

CONSTANTS a, b

TwoObjects == {a, b}
AllSet     == {{"read", "write", "error"}}
Given      == {TRUE}

\* The objects are interchangeable.
Symmetry == Permutations(Obj)
=============================================================================
