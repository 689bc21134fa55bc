--------------------------- MODULE MCUVSSLObject ---------------------------
(* Instances of UVSSLObject for TLC: an object and what it accepts.        *)
EXTENDS UVSSLObject

CONSTANTS a, b

TwoObjects == {a, b}
OneMade    == {a}
AllSet     == {{"read", "write", "error"}}
=============================================================================
