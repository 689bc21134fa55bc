---------------------------- MODULE UVTcpAddress ----------------------------
(***************************************************************************)
(* The addresses of a UVTcp object (getSockname, getSockport, getPeername  *)
(* and getPeerport of src/src/uv_tcp.cpp), beside its life in UVTcp.  Each *)
(* getter asks libuv until it has an answer with a port, keeps that answer *)
(* in the handle and never asks again.                                     *)
(*                                                                         *)
(* Addresses are counted: a socket gets its n-th local address when it     *)
(* listens, is accepted or attempts a connection, and the kernel takes it  *)
(* back when the attempt fails.  A query of one address fills both the     *)
(* name and the port, so one cache stands for two getters.                 *)
(***************************************************************************)
EXTENDS UVTcp

CONSTANT MaxAddresses   \* bound: local addresses one socket goes through

ASSUME AddressAssumption == MaxAddresses \in Nat \ {0}

VARIABLES
    given,      \* the kernel: local addresses the socket has had
    bound,      \* the kernel: the last of them is in use
    sock,       \* sockAddr and sockPort: which address is cached, 0 for none
    peer,       \* peerAddr and peerPort: the local address they were cached with
    early       \* history: the local address was cached during a connection attempt

addrVars == <<given, bound, sock, peer, early>>

-----------------------------------------------------------------------------
(* Faulty variants, as in UVTcp: a getter that ignores what libuv returned. *)
Answers_Always(o) == TRUE
PeerAnswers_Socket(o) == uv[o] \in WithFd

\* uv_tcp_getsockname has an address with a port, uv_tcp_getpeername a peer.
Answers(o)     == uv[o] \in WithFd /\ bound[o]
PeerAnswers(o) == uv[o] = "stream"

getSockname(o) ==
    /\ Reachable(o) /\ sock[o] = 0
    /\ sock' = [sock EXCEPT ![o] = IF Answers(o) THEN given[o] ELSE @]
    /\ early' = [early EXCEPT ![o] = "connect" \in reqs[o]]
    /\ UNCHANGED <<vars, given, bound, peer>>

getPeername(o) ==
    /\ Reachable(o) /\ peer[o] = 0
    /\ peer' = [peer EXCEPT ![o] = IF PeerAnswers(o) THEN given[o] ELSE @]
    /\ UNCHANGED <<vars, given, bound, sock, early>>

\* What a step of UVTcp does to the address of o: opened, or given up.
Opens(o) ==
    \/ uv[o] # "listening" /\ uv'[o] = "listening"
    \/ uv[o] = "none" /\ uv'[o] = "stream"
    \/ "connect" \in reqs'[o] \ reqs[o]
GivesUp(o) == uv'[o] = "socket" /\ "connect" \in reqs[o] \ reqs'[o]
Kernel ==
    /\ given' = [o \in Obj |-> IF Opens(o) /\ ~bound[o] THEN given[o] + 1 ELSE given[o]]
    /\ bound' = [o \in Obj |-> Opens(o) \/ (bound[o] /\ ~GivesUp(o))]
    /\ \A o \in Obj : given'[o] <= MaxAddresses

-----------------------------------------------------------------------------
AddrInit ==
    /\ Init
    /\ given = [o \in Obj |-> 0]
    /\ bound = [o \in Obj |-> FALSE]
    /\ sock = [o \in Obj |-> 0]
    /\ peer = [o \in Obj |-> 0]
    /\ early = [o \in Obj |-> FALSE]

SocketStep == Next /\ Kernel /\ UNCHANGED <<sock, peer, early>>
Query == \E o \in Obj : getSockname(o) \/ getPeername(o)

AddrNext == SocketStep \/ Query

AddrSpec == AddrInit /\ [][AddrNext]_<<vars, addrVars>>

AddrFairSpec ==
    /\ AddrSpec
    /\ WF_vars(Return) /\ \A o \in Obj : SF_vars(CloseStep(o))

-----------------------------------------------------------------------------
(* Properties *)

\* A cached local address is the one the socket has, or had when it was
\* closed, unless it was asked for while a connection attempt was under way:
\* after that attempt has failed, getSockname and getSockport go on answering
\* with its address.
StaleOnlyIfAskedEarly ==
    \A o \in Obj : sock[o] # 0 /\ ~early[o] => sock[o] = given[o] /\ bound[o]

\* The peer's address is never that of another attempt: it is cached only
\* when the connection is made, and a connected socket keeps its address.
PeerIsCurrent == \A o \in Obj : peer[o] # 0 => peer[o] = given[o] /\ bound[o]

\* What the two rest on: when a socket has an address, and in which states an
\* answer was cached.  A socket that is neither connecting nor listening nor
\* connected has none, and none of those that has one asks for another.
AddrTypeOK ==
    /\ given \in [Obj -> 0..MaxAddresses]
    /\ bound \in [Obj -> BOOLEAN]
    /\ sock \in [Obj -> 0..MaxAddresses]
    /\ peer \in [Obj -> 0..MaxAddresses]
    /\ early \in [Obj -> BOOLEAN]
AddressInUse ==
    \A o \in Obj :
        /\ "connect" \in reqs[o] => bound[o] /\ uv[o] \in {"socket", "closing"}
        /\ uv[o] \in {"stream", "listening"} => bound[o]
        /\ bound[o] => given[o] > 0 /\ uv[o] \notin {"none", "idle"}
        /\ bound[o] /\ uv[o] = "socket" => "connect" \in reqs[o]
CachedWhen ==
    \A o \in Obj :
        /\ sock[o] # 0 /\ ~early[o] => uv[o] \in {"stream", "listening", "closing", "closed"}
        /\ peer[o] # 0 => uv[o] \in {"stream", "closing", "closed"}

\* The inductive invariant, beside that of UVTcp.
AddrIInv ==
    /\ IInv /\ AddrTypeOK /\ AddressInUse /\ CachedWhen
    /\ StaleOnlyIfAskedEarly /\ PeerIsCurrent
=============================================================================
