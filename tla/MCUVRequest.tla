---------------------------- MODULE MCUVRequest ----------------------------
(* The instance of UVRequest for TLC.                                      *)
EXTENDS UVRequest, TLC

CONSTANTS a, b

TwoObjects == {a, b}
Receiving  == {{"recv"}}
Symmetry   == Permutations(Obj)
=============================================================================
