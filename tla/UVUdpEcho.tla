----------------------------- MODULE UVUdpEcho -----------------------------
(***************************************************************************)
(* UVUdp driven by one script, the echo server of                          *)
(* src/tests/custom_loop/test_uv_udp_echo_server.php: every datagram that  *)
(* arrives is sent back, and every send callback closes the socket.        *)
(***************************************************************************)
EXTENDS UVUdp

CONSTANT server

VARIABLE acted      \* the running callback has made its call

TheServer    == {server}
AllCallbacks == {Callbacks}

EchoVars == <<vars, acted>>

EchoInit == Init /\ acted = FALSE

\* $server->bind(...), $server->setCallback(...) and then $loop->run(); the
\* script keeps $server.
Setup ==
    /\ ~pinned[server]
    /\ \/ Construct(server)
       \/ "HANDLE_START" \notin flag[server] /\ bind(server)
       \/ "HANDLE_START" \in flag[server] /\ setCallback(server, Callbacks)
    /\ UNCHANGED acted

\* recvCallback calls sendTo, sendCallback calls close, errorCallback nothing.
Act ==
    /\ frame # None /\ ~acted
    /\ \/ frame.cb = "recv" /\ sendTo(server)
       \/ frame.cb = "send" /\ close(server)
    /\ acted' = TRUE

Leave == frame # None /\ (acted \/ frame.cb = "error") /\ Return /\ acted' = FALSE

Loop == pinned[server] /\ LoopStep(server) /\ UNCHANGED acted

EchoNext == Setup \/ Act \/ Leave \/ Loop
EchoSpec == EchoInit /\ [][EchoNext]_EchoVars

\* The script of the test runs without making libuv abort: close() may be
\* called from every send callback.
CloseNeverAborts == fault # "abort"
=============================================================================
