------------------------------ MODULE MCUVUdp ------------------------------
(* Instances of UVUdp for TLC.                                             *)
EXTENDS UVUdp

CONSTANTS a, b

TwoObjects == {a, b}
AllCallbacks == {Callbacks}
=============================================================================
