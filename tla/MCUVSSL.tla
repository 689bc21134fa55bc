------------------------------ MODULE MCUVSSL ------------------------------
(* Instances of UVSSL for TLC: which callbacks the scripts have set, and   *)
(* three certificates for the host w.e.x: by common name, by a wildcard    *)
(* alternative name, and one that does not match.                          *)
EXTENDS UVSSL

Everything == {Callbacks}
Partly     == {Callbacks, {"handshake", "read"}, {"read", "write", "error"}}
Talking    == {{"handshake", "read"}}

WEX     == <<"w", ".", "e", ".", "x">>
Dns(t)  == [type |-> "dns", text |-> t, whole |-> TRUE]
ByName  == [cn |-> {[text |-> WEX, whole |-> TRUE]}, san |-> <<>>]
ByStar  == [cn |-> {}, san |-> <<Dns(<<"*", ".", "e", ".", "x", ".">>)>>]
Other   == [cn |-> {}, san |-> <<Dns(<<"*", ".", "f", ".", "x">>),
                                 [type |-> "ip4", text |-> <<"1">>, whole |-> TRUE]>>]
Certs   == {ByName, ByStar, Other}
=============================================================================
