------------------------------- MODULE UVSSL -------------------------------
(***************************************************************************)
(* A TLS session of UVSSL objects (src/src/uv_ssl.cpp), both ends of one   *)
(* connection: the client made it with connect, the server with accept.    *)
(* OpenSSL reads from and writes to memory: read_cb fills the read BIO and *)
(* drives the handshake, write_bio_to_socket empties the write BIO into    *)
(* uv_write requests of at most 512 bytes.  A request is a chunk here; a   *)
(* message is one chunk or more, and usable when its last chunk is there.  *)
(*                                                                         *)
(* References and the closing of the handle are as in UVTcp, whose         *)
(* callbacks UVSSL inherits: both objects are taken to hold their self     *)
(* reference, the connection to be made, and the script not to write from  *)
(* within a verify callback, of which a session has one at most.           *)
(***************************************************************************)
EXTENDS SslVerify

CONSTANTS
    Sizes,          \* chunks that one call of write may take
    MaxWrites,      \* bound: calls of write by one end
    CallbackSets,   \* which callbacks the script of an end has set
    Answers,        \* what a handshake callback may return, as a boolean
    Certificates,   \* the certificates that the server may present
    Hostname        \* the client's sniConnectHostname

Ends      == {"client", "server"}
Peer(s)   == IF s = "client" THEN "server" ELSE "client"
Callbacks == {"connect", "handshake", "read", "write", "error"}
Flights   == {"ClientHello", "ServerHello", "ClientFinish", "ServerFinish"}
Chunk     == [msg : Flights \cup {"alert", "data"}, last : BOOLEAN]
Nothing   == [msg |-> "nothing", last |-> TRUE]

\* Where the end is in user code.  The handshake callback is called from
\* verify, mismatch and finish; readMore is a read callback that the loop of
\* read_cb will follow with another.
Frames == {"none", "connect", "verify", "mismatch", "finish", "read", "readMore",
           "write", "error"}

ASSUME BoundAssumption ==
    /\ Sizes \subseteq Nat \ {0}
    /\ MaxWrites \in Nat
    /\ CallbackSets \subseteq SUBSET Callbacks
    /\ Answers \subseteq BOOLEAN
    /\ Certificates # {}

VARIABLES
    cb,         \* the callbacks of an end that are not null
    trusted,    \* the server's chain verifies
    named,      \* the server's certificate matches Hostname
    uv,         \* fresh, open, closing, closed
    hs,         \* OpenSSL: fresh, hello and finish (what it waits for), done, failed
    bio,        \* the read BIO
    out,        \* libuv: write requests that the socket has not taken yet
    due,        \* libuv: write requests that it has taken, whose write_cb is due
    wire,       \* what an end has sent and the other has not read
    enabled,    \* UV_TCP_WRITE_CALLBACK_ENABLE
    frame,      \* the user callback that is running
    reported,   \* the request that the running write callback is for
    written,    \* history: messages that write has queued
    got,        \* history: messages handed to the read callback
    verdict     \* history: what the handshake callbacks have said

config  == <<cb, trusted, named>>
history == <<written, got, verdict>>
vars    == <<config, uv, hs, bio, out, due, wire, enabled, frame, reported, history>>

-----------------------------------------------------------------------------
(* Messages *)

Chunks(msg, n) == [i \in 1..n |-> [msg |-> msg, last |-> i = n]]
IsLast(c) == c.last

\* Faulty variants of definitions below.  The specification does not use them;
\* each makes one of the properties at the end of this module fail.
Messages_Chunks(b) == Len(b)
After_DropsRest(b) == <<>>
Flight_Kept(s) == IF s = "server" THEN <<>> ELSE Chunks("ClientFinish", 1)
Refused_Open(u) == u
AfterError_Open(u) == u

\* A BIO holds a whole message; what follows the first; the messages of data in
\* it; what follows the last whole message.
Arrived(b)  == \E i \in DOMAIN b : b[i].last
After(b)    == SubSeq(b, SelectInSeq(b, IsLast) + 1, Len(b))
Messages(b) == Cardinality({i \in DOMAIN b : b[i].last /\ b[i].msg = "data"})
Partial(b)  == SubSeq(b, SelectLastInSeq(b, IsLast) + 1, Len(b))

\* What SSL_do_handshake writes when it is content with the peer's message.
\* The server's hello carries the certificate and does not fit one chunk.
Flight(s) ==
    CASE s = "server" /\ hs[s] = "hello"  -> Chunks("ServerHello", 2)
      [] s = "server" /\ hs[s] = "finish" -> Chunks("ServerFinish", 1)
      [] s = "client" /\ hs[s] = "hello"  -> Chunks("ClientFinish", 1)
      [] OTHER                            -> <<>>

-----------------------------------------------------------------------------
(* Building blocks *)

\* tcp_close_socket
Closed(u) == IF u = "open" THEN "closing" ELSE u
Refused(u) == Closed(u)
AfterError(u) == Closed(u)

\* How many of the requests for cs the socket takes at once: uv_write tries
\* only while no other request is queued.
Takes(s, cs) == IF out[s] = <<>> THEN 0..Len(cs) ELSE {0}

\* write_bio_to_socket: cs become write requests, k of which leave at once;
\* w: the wires before that.  A handle that is closing refuses them.
write_bio_to_socket(s, cs, k, w) ==
    IF uv[s] = "open"
    THEN /\ k \in Takes(s, cs)
         /\ wire' = [w EXCEPT ![s] = @ \o SubSeq(cs, 1, k)]
         /\ due' = [due EXCEPT ![s] = @ \o SubSeq(cs, 1, k)]
         /\ out' = [out EXCEPT ![s] = @ \o SubSeq(cs, k + 1, Len(cs))]
    ELSE k = 0 /\ wire' = w /\ UNCHANGED <<due, out>>

CallUser(s, name) == frame' = [frame EXCEPT ![s] = name]

\* handleHandshakeCallback: without a callback the answer is no, and no closes.
CallHandshake(s, name) ==
    IF "handshake" \in cb[s]
    THEN CallUser(s, name) /\ UNCHANGED <<uv, verdict>>
    ELSE /\ uv' = [uv EXCEPT ![s] = Refused(@)]
         /\ verdict' = [verdict EXCEPT ![s] = "refused"]
         /\ CallUser(s, "none")

\* The loop of read_cb hands over what is in the BIO, in one call or two; the
\* last call is made even when there is nothing left.
DataLoop(s, b) ==
    /\ bio' = [bio EXCEPT ![s] = Partial(b)]
    /\ IF "read" \in cb[s]
       THEN /\ got' = [got EXCEPT ![s] = @ + Messages(b)]
            /\ \/ CallUser(s, "read")
               \/ Messages(b) > 0 /\ CallUser(s, "readMore")
       ELSE CallUser(s, "none") /\ UNCHANGED got

\* The end is in libuv, its socket open; it reads only after the callbacks of
\* the requests that have left, which libuv runs before it polls again.
Serving(s) == uv[s] = "open" /\ frame[s] = "none"
Reading(s) == Serving(s) /\ due[s] = <<>>

-----------------------------------------------------------------------------
(* The session begins *)

\* accept, and client_connection_cb, in which SSL_connect writes the first flight.
Started(s) == "hello"
Start(s) ==
    /\ uv[s] = "fresh"
    /\ uv' = [uv EXCEPT ![s] = "open"]
    /\ hs' = [hs EXCEPT ![s] = Started(s)]
    /\ IF s = "client"
       THEN \E k \in 0..1 :
               /\ wire' = [wire EXCEPT ![s] = Chunks("ClientHello", k)]
               /\ due' = [due EXCEPT ![s] = Chunks("ClientHello", k)]
               /\ out' = [out EXCEPT ![s] = Chunks("ClientHello", 1 - k)]
       ELSE UNCHANGED <<wire, due, out>>
    /\ CallUser(s, IF s = "client" /\ "connect" \in cb[s] THEN "connect" ELSE "none")
    /\ UNCHANGED <<config, bio, enabled, reported, history>>

-----------------------------------------------------------------------------
(* read_cb: n chunks have come, the BIO then holds b, the wires w *)

Incoming(s, n) == bio[s] \o SubSeq(wire[Peer(s)], 1, n)
Consumed(s, n) == [wire EXCEPT ![Peer(s)] = SubSeq(@, n + 1, Len(@))]

\* After the handshake.  Write callbacks are enabled now, and not before.
ReadData(s, n) ==
    /\ Reading(s) /\ hs[s] = "done"
    /\ wire' = Consumed(s, n)
    /\ enabled' = [enabled EXCEPT ![s] = TRUE]
    /\ DataLoop(s, Incoming(s, n))
    /\ UNCHANGED <<config, uv, hs, out, due, reported, written, verdict>>

\* SSL_ERROR_WANT_READ: the peer's message is not complete.
ReadPart(s, n) ==
    /\ Reading(s) /\ hs[s] \in {"hello", "finish"}
    /\ ~Arrived(Incoming(s, n))
    /\ wire' = Consumed(s, n)
    /\ bio' = [bio EXCEPT ![s] = Incoming(s, n)]
    /\ UNCHANGED <<config, uv, hs, out, due, enabled, frame, reported, history>>

\* The handshake goes on: the answer is written, and with the peer's finish
\* the handshake callback is called, for a server name that does not match first.
ReadFlight(s, n, k) ==
    LET b == Incoming(s, n) IN
    /\ Reading(s) /\ hs[s] \in {"hello", "finish"}
    /\ Arrived(b) /\ b[1].msg # "alert"
    /\ s = "client" /\ hs[s] = "hello" => trusted
    /\ bio' = [bio EXCEPT ![s] = After(b)]
    /\ write_bio_to_socket(s, Flight(s), k, Consumed(s, n))
    /\ IF hs[s] = "hello"
       THEN /\ hs' = [hs EXCEPT ![s] = "finish"]
            /\ UNCHANGED <<uv, frame, verdict>>
       ELSE /\ hs' = [hs EXCEPT ![s] = "done"]
            /\ CallHandshake(s, IF s = "client" /\ ~named THEN "mismatch" ELSE "finish")
    /\ UNCHANGED <<config, enabled, reported, written, got>>

\* A chain that does not verify: verify_callback asks the handshake callback
\* while SSL_do_handshake is under way.
ReadUntrusted(s, n) ==
    LET b == Incoming(s, n) IN
    /\ Reading(s) /\ s = "client" /\ hs[s] = "hello" /\ ~trusted
    /\ Arrived(b) /\ b[1].msg # "alert"
    /\ wire' = Consumed(s, n)
    /\ bio' = [bio EXCEPT ![s] = After(b)]
    /\ hs' = [hs EXCEPT ![s] = IF "handshake" \in cb[s] THEN @ ELSE "failed"]
    /\ CallHandshake(s, "verify")
    /\ UNCHANGED <<config, out, due, enabled, reported, written, got>>

\* SSL_do_handshake fails, on an alert or on what OpenSSL rejects by itself;
\* in the second case an alert goes out before the handle is closed.
ReadFails(s, n, k) ==
    LET b == Incoming(s, n) IN
    /\ Reading(s) /\ hs[s] \in {"hello", "finish"} /\ Arrived(b)
    /\ bio' = [bio EXCEPT ![s] = <<>>]
    /\ hs' = [hs EXCEPT ![s] = "failed"]
    /\ write_bio_to_socket(s, IF b[1].msg = "alert" THEN <<>> ELSE Chunks("alert", 1),
                           k, Consumed(s, n))
    /\ uv' = [uv EXCEPT ![s] = Closed(@)]
    /\ UNCHANGED <<config, enabled, frame, reported, history>>

\* nread < 0: the peer has closed the connection and all it sent was read.
ReadEnd(s) ==
    /\ Reading(s)
    /\ uv[Peer(s)] \in {"closing", "closed"} /\ wire[Peer(s)] = <<>>
    /\ IF "error" \in cb[s]
       THEN CallUser(s, "error") /\ UNCHANGED uv
       ELSE uv' = [uv EXCEPT ![s] = AfterError(@)] /\ UNCHANGED frame
    /\ UNCHANGED <<config, hs, bio, out, due, wire, enabled, reported, history>>

read_cb(s) ==
    \/ \E n \in 1..Len(wire[Peer(s)]) :
          \/ ReadData(s, n) \/ ReadPart(s, n) \/ ReadUntrusted(s, n)
          \/ \E k \in 0..2 : ReadFlight(s, n, k) \/ ReadFails(s, n, k)
    \/ ReadEnd(s)

-----------------------------------------------------------------------------
(* User callbacks *)

\* The callback returns; v is what a handshake callback answers.
ReturnVerify(s, v, k) ==
    /\ frame[s] = "verify"
    /\ CallUser(s, "none")
    /\ IF v THEN /\ hs' = [hs EXCEPT ![s] = "finish"]
                 /\ write_bio_to_socket(s, Flight(s), k, wire)
                 /\ UNCHANGED <<uv, verdict>>
            ELSE /\ hs' = [hs EXCEPT ![s] = "failed"]
                 /\ uv' = [uv EXCEPT ![s] = Refused(@)]
                 /\ verdict' = [verdict EXCEPT ![s] = "refused"]
                 /\ k = 0 /\ UNCHANGED <<wire, due, out>>
    /\ UNCHANGED <<config, bio, enabled, reported, written, got>>

\* After mismatch comes finish; after finish the loop of read_cb.
ReturnHandshake(s, v) ==
    /\ frame[s] \in {"mismatch", "finish"}
    /\ \/ /\ ~v
          /\ CallUser(s, "none")
          /\ uv' = [uv EXCEPT ![s] = Refused(@)]
          /\ verdict' = [verdict EXCEPT ![s] = "refused"]
          /\ UNCHANGED <<bio, got>>
       \/ /\ v /\ frame[s] = "mismatch"
          /\ CallUser(s, "finish")
          /\ UNCHANGED <<uv, verdict, bio, got>>
       \/ /\ v /\ frame[s] = "finish"
          /\ verdict' = [verdict EXCEPT ![s] = "accepted"]
          /\ DataLoop(s, bio[s])
          /\ UNCHANGED uv
    /\ UNCHANGED <<config, hs, out, due, wire, enabled, reported, written>>

ReturnOther(s) ==
    /\ frame[s] \in {"connect", "read", "readMore", "write", "error"}
    /\ CallUser(s, IF frame[s] = "readMore" THEN "read" ELSE "none")
    /\ reported' = [reported EXCEPT ![s] = Nothing]
    /\ uv' = [uv EXCEPT ![s] = IF frame[s] = "error" THEN AfterError(@) ELSE @]
    /\ UNCHANGED <<config, hs, bio, out, due, wire, enabled, history>>

Return(s) ==
    \/ \E v \in Answers, k \in 0..1 : ReturnVerify(s, v, k)
    \/ \E v \in Answers : ReturnHandshake(s, v)
    \/ ReturnOther(s)

\* UVSSL::write.  Before the end of the handshake SSL_write takes nothing and
\* the call returns 0; on a closing handle it returns an error.
write(s, n, k) ==
    /\ uv[s] = "open" /\ hs[s] = "done" /\ written[s] < MaxWrites
    /\ write_bio_to_socket(s, Chunks("data", n), k, wire)
    /\ written' = [written EXCEPT ![s] = @ + 1]
    /\ UNCHANGED <<config, uv, hs, bio, enabled, frame, reported, got, verdict>>

close(s) ==
    /\ uv[s] = "open"
    /\ uv' = [uv EXCEPT ![s] = Closed(@)]
    /\ UNCHANGED <<config, hs, bio, out, due, wire, enabled, frame, reported, history>>

-----------------------------------------------------------------------------
(* libuv *)

\* The socket takes a request that it did not take at once.
Transmit(s) ==
    /\ Serving(s) /\ out[s] # <<>>
    /\ wire' = [wire EXCEPT ![s] = Append(@, Head(out[s]))]
    /\ due' = [due EXCEPT ![s] = Append(@, Head(out[s]))]
    /\ out' = [out EXCEPT ![s] = Tail(@)]
    /\ UNCHANGED <<config, uv, hs, bio, enabled, frame, reported, history>>

\* write_cb of uv_tcp: a request has been sent, or the close has cancelled it.
Report(s, c) ==
    IF enabled[s] /\ "write" \in cb[s]
    THEN CallUser(s, "write") /\ reported' = [reported EXCEPT ![s] = c]
    ELSE UNCHANGED <<frame, reported>>
write_cb(s) ==
    /\ frame[s] = "none"
    /\ \/ /\ due[s] # <<>>
          /\ Report(s, Head(due[s]))
          /\ due' = [due EXCEPT ![s] = Tail(@)]
          /\ UNCHANGED out
       \/ /\ due[s] = <<>> /\ out[s] # <<>> /\ uv[s] = "closing"
          /\ Report(s, Head(out[s]))
          /\ out' = [out EXCEPT ![s] = Tail(@)]
          /\ UNCHANGED due
    /\ UNCHANGED <<config, uv, hs, bio, wire, enabled, history>>

tcp_close_cb(s) ==
    /\ frame[s] = "none" /\ uv[s] = "closing" /\ due[s] = <<>> /\ out[s] = <<>>
    /\ uv' = [uv EXCEPT ![s] = "closed"]
    /\ UNCHANGED <<config, hs, bio, out, due, wire, enabled, frame, reported, history>>

-----------------------------------------------------------------------------
Init ==
    /\ cb \in [Ends -> CallbackSets]
    /\ trusted \in BOOLEAN
    /\ named \in {~Mismatch(peer_cert, Hostname) : peer_cert \in Certificates}
    /\ uv = [s \in Ends |-> "fresh"]
    /\ hs = [s \in Ends |-> "fresh"]
    /\ bio = [s \in Ends |-> <<>>]
    /\ out = [s \in Ends |-> <<>>]
    /\ due = [s \in Ends |-> <<>>]
    /\ wire = [s \in Ends |-> <<>>]
    /\ enabled = [s \in Ends |-> FALSE]
    /\ frame = [s \in Ends |-> "none"]
    /\ reported = [s \in Ends |-> Nothing]
    /\ written = [s \in Ends |-> 0]
    /\ got = [s \in Ends |-> 0]
    /\ verdict = [s \in Ends |-> "none"]

LoopStep(s) == Start(s) \/ read_cb(s) \/ Transmit(s) \/ write_cb(s) \/ tcp_close_cb(s)

ScriptStep(s) ==
    \/ frame[s] # "verify" /\ \E n \in Sizes, k \in 0..2 : write(s, n, k)
    \/ close(s)

Next == \E s \in Ends : LoopStep(s) \/ Return(s) \/ ScriptStep(s)

Spec == Init /\ [][Next]_vars

\* Both ends run their loop, their callbacks return, the network delivers.
FairSpec == Spec /\ \A s \in Ends : WF_vars(LoopStep(s)) /\ WF_vars(Return(s))

-----------------------------------------------------------------------------
(* Properties *)

\* The values every variable may take.
TypeOK ==
    /\ cb \in [Ends -> SUBSET Callbacks] /\ trusted \in BOOLEAN /\ named \in BOOLEAN
    /\ uv \in [Ends -> {"fresh", "open", "closing", "closed"}]
    /\ hs \in [Ends -> {"fresh", "hello", "finish", "done", "failed"}]
    /\ bio \in [Ends -> Seq(Chunk)] /\ out \in [Ends -> Seq(Chunk)]
    /\ due \in [Ends -> Seq(Chunk)] /\ wire \in [Ends -> Seq(Chunk)]
    /\ enabled \in [Ends -> BOOLEAN]
    /\ frame \in [Ends -> Frames]
    /\ reported \in [Ends -> Chunk \cup {Nothing}]
    /\ written \in [Ends -> 0..MaxWrites]
    /\ got \in [Ends -> Nat]
    /\ verdict \in [Ends -> {"none", "accepted", "refused"}]

\* No data reaches a script, and no write is reported to it, before its
\* handshake callback has accepted the session; a session that was refused,
\* for an untrusted chain, a wrong name or at its end, is closed and stays so.
AcceptedBeforeUse ==
    \A s \in Ends :
        /\ frame[s] \in {"read", "readMore", "write"} \/ got[s] > 0 => verdict[s] = "accepted"
        /\ verdict[s] = "refused" => uv[s] \in {"closing", "closed"}

\* What s has sent or queued and the other has not read; what s has not got yet.
Outbound(s) == wire[s] \o out[s]
Inbound(s)  == bio[s] \o Outbound(Peer(s))

\* While both ends are open, every message that write has accepted is with the
\* reader, in its BIO, on the wire or in the writer's queue: none is lost when
\* messages arrive in pieces or together with the end of the handshake.
NothingLost ==
    \A s \in Ends :
        uv[s] = "open" /\ uv[Peer(s)] = "open" /\ "read" \in cb[s]
        => written[Peer(s)] = got[s] + Messages(Inbound(s))

\* What AcceptedBeforeUse rests on: a session that nobody has accepted has not
\* been used, and one that is through the handshake is accepted, refused, or
\* waiting for the answer of a handshake callback.
Judged ==
    \A s \in Ends :
        /\ verdict[s] # "accepted" =>
              got[s] = 0 /\ ~enabled[s] /\ frame[s] \notin {"read", "readMore", "write"}
        /\ verdict[s] = "refused" => uv[s] \in {"closing", "closed"}
        /\ hs[s] \in {"fresh", "hello", "finish"} => verdict[s] = "none"
        /\ hs[s] = "done" /\ verdict[s] = "none" => frame[s] \in {"mismatch", "finish"}
        /\ frame[s] = "verify" => hs[s] = "hello"
        /\ frame[s] \in {"mismatch", "finish"} => hs[s] = "done" /\ verdict[s] = "none"
        /\ uv[s] = "fresh" <=> hs[s] = "fresh"

\* No message of data is invented or handed over twice, also when an end closes.
NothingInvented ==
    \A s \in Ends : got[s] + Messages(Inbound(s)) <= written[Peer(s)]

\* Nobody has begun to close; then nothing was lost.
Up == \A s \in Ends : uv[s] \in {"fresh", "open"}
NothingLostWhileUp ==
    Up => \A s \in Ends :
             "read" \in cb[s] => written[Peer(s)] = got[s] + Messages(Inbound(s))

\* How far the ends are; and the handshake message that s has yet to read.
Progress ==
    /\ <<hs["client"], hs["server"]>> \in
          {<<"fresh", "fresh">>, <<"hello", "fresh">>, <<"fresh", "hello">>, <<"hello", "hello">>,
           <<"hello", "finish">>, <<"finish", "finish">>, <<"finish", "done">>, <<"done", "done">>}
    /\ frame["client"] = "verify" => hs["server"] = "finish"
    /\ frame["server"] # "verify"
Awaited(s) ==
    CASE s = "server" /\ hs["client"] = "hello" /\ hs["server"] \in {"fresh", "hello"}
             -> Chunks("ClientHello", 1)
      [] s = "server" /\ hs["client"] = "finish" /\ hs["server"] = "finish"
             -> Chunks("ClientFinish", 1)
      [] s = "client" /\ hs["client"] = "hello" /\ hs["server"] = "finish"
             /\ frame["client"] # "verify"
             -> Chunks("ServerHello", 2)
      [] s = "client" /\ hs["client"] = "finish" /\ hs["server"] = "done"
             -> Chunks("ServerFinish", 1)
      [] OTHER -> <<>>

\* While both ends are up they take turns: what is on its way to s is that
\* message, and data behind it only if the sender is through.
Follows(q, e, through) ==
    LET d == SubSeq(q, Len(e) + 1, Len(q)) IN
    /\ q = e \o d
    /\ \A i \in DOMAIN d : d[i].msg = "data"
    /\ ~through => d = <<>>
InTurn(s) == Follows(Inbound(s), Awaited(s), hs[Peer(s)] = "done")
Orderly == Up => Progress /\ \A s \in Ends : InTurn(s)

\* The inductive invariant.
IInv == TypeOK /\ Judged /\ NothingInvented /\ NothingLostWhileUp /\ Orderly

\* Neither end waits for the other for ever: a handshake that has begun is
\* finished or its handle closed.
HandshakeEnds ==
    \A s \in Ends : hs[s] \in {"hello", "finish"} ~> hs[s] = "done" \/ uv[s] = "closed"

\* A message that write has accepted reaches the other end's read callback,
\* unless one of them closes.
WriteArrives ==
    \A s \in Ends : \A i \in 1..MaxWrites :
        written[Peer(s)] = i
        ~> (got[s] >= i \/ "read" \notin cb[s] \/ uv["client"] # "open" \/ uv["server"] # "open")

\* When one end is closed the other closes too, whatever it was waiting for.
ClosePropagates ==
    \A s \in Ends : uv[Peer(s)] = "closed" ~> uv[s] = "closed"

\* What README.md promises of the write callback: it runs on data sent.  While
\* nobody closes, a callback then says that the last chunk of a write has left.
SentMeansSent ==
    \A s \in Ends : Up /\ frame[s] = "write" =>
        reported[s].last \/ \E i \in DOMAIN due[s] : due[s][i].last
=============================================================================
