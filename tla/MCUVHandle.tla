----------------------------- MODULE MCUVHandle -----------------------------
(* Instances of UVHandle for TLC: one object of each class.                *)
EXTENDS UVHandle

CONSTANTS timer, idle, signal

OneTimer  == {timer}
OneIdle   == {idle}
OneSignal == {signal}
=============================================================================
