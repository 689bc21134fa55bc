---------------------------- MODULE UVSSLReadme ----------------------------
(***************************************************************************)
(* The SSL echo server of README.md: UVSSL with the server's script fixed  *)
(* to the one printed there.  Its handshake callback prints "ssl handshake *)
(* ok" and returns nothing, which toBoolean makes false; the read callback *)
(* writes what came; the write and error callbacks close.                  *)
(***************************************************************************)
EXTENDS UVSSL

\* A server whose certificate has the name the client asks for.
Server    == <<"s">>
Presented == {[cn |-> {[text |-> Server, whole |-> TRUE]}, san |-> <<>>]}

Script == {"handshake", "read", "write", "error"}

ReadmeInit == Init /\ cb["server"] = Script

\* The callbacks of the server's script.
ServerScript ==
    \/ frame["server"] = "read" /\ \E n \in Sizes, k \in 0..2 : write("server", n, k)
    \/ frame["server"] \in {"write", "error"} /\ close("server")
    \/ ReturnHandshake("server", FALSE)
    \/ ReturnOther("server")

ReadmeNext ==
    \/ LoopStep("client") \/ Return("client") \/ ScriptStep("client")
    \/ LoopStep("server") \/ ServerScript

ReadmeSpec == ReadmeInit /\ [][ReadmeNext]_vars

\* What the script says of its connection: it is closed by the write callback,
\* by the error callback, or because the handshake has failed.
ClosedByScript ==
    [][ uv["server"] = "open" /\ uv'["server"] # "open"
        => frame["server"] \in {"write", "error"} \/ hs'["server"] = "failed" ]_vars
=============================================================================
