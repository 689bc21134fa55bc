---------------------------- MODULE MCUVResolver ----------------------------
(* Instances of UVResolver for TLC.                                        *)
EXTENDS UVResolver, TLC

CONSTANTS a, b, r1, r2, r3

TwoResolvers == {a, b}
ThreeCalls   == {r1, r2, r3}
=============================================================================
