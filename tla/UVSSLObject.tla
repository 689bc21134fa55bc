---------------------------- MODULE UVSSLObject ----------------------------
(***************************************************************************)
(* The life of UVSSL objects (src/src/uv_ssl.cpp): UVTcp with the calls    *)
(* and callbacks that UVSSL replaces or adds.  What the two ends of a      *)
(* session say to each other is in UVSSL; here is who is alive when a      *)
(* callback comes.  Writes and shutdown are UVTcp's and left out.          *)
(*                                                                         *)
(* UVSSL leaves three pointers with others that no reference backs: the    *)
(* handle in a pending getaddrinfo, the listening object in the argument   *)
(* of sni_cb, which sessions inherit with the context they are made from,  *)
(* and the session itself while the callback of sni_cb runs.               *)
(***************************************************************************)
EXTENDS UVTcp

CONSTANTS
    Made,           \* the objects the script constructs; the others are accepted
    MaxLookups      \* bound: calls of getaddrinfo outstanding for one object

ASSUME SslAssumption ==
    /\ Made \subseteq Obj /\ MaxLookups \in Nat
    /\ None \notin Obj
    /\ None \notin [cb : {"handshake", "resolved", "servername"}, obj : Obj \cup {None}]

VARIABLES
    lookups,    \* uv_getaddrinfo_ext_t requests that point to the object's handle
    asked,      \* the objects whose handshake callback is not null
    ssl,        \* the SSL object: none, hello (nothing read), greeted, done
    listener,   \* the object whose contexts an accepted session uses
    greeting,   \* the session whose ClientHello the servername callback is about
    unresolved, \* history: a failed connect by name has released the object
    misused     \* history: accept without a connection, write without a session

sslVars == <<lookups, asked, ssl, listener, greeting, unresolved, misused>>
allVars == <<vars, sslVars>>

Session == <<asked, ssl, listener, greeting>>
History == <<unresolved, misused>>

-----------------------------------------------------------------------------
(* Faulty variants, as in UVTcp *)

LookupRefs_None(o) == UNCHANGED <<rc, flag, pinned>>
Released_Twice(o) ==
    /\ rc' = [rc EXCEPT ![o] = IF @ > 2 THEN @ - 2 ELSE 1]
    /\ flag' = [flag EXCEPT ![o] = ReleasedFlags(@)]
    /\ UNCHANGED <<life, cb, uvflag>>
SniTarget_Session(o, c) == c

-----------------------------------------------------------------------------
(* Building blocks *)

\* connect by name takes the self reference for the time of the resolution.
LookupRefs(o) == setSelfReference(o, {"HANDLE_START"})

\* releaseHandle, on a handle that need not be closed.
Released(o) ==
    IF "INTERNAL_REF" \in flag[o]
    THEN decRefAndRelease(o, ReleasedFlags(flag[o]), ReadStopped(flag[o], uvflag[o]))
    ELSE /\ flag' = [flag EXCEPT ![o] = ReleasedFlags(@)]
         /\ uvflag' = [uvflag EXCEPT ![o] = ReadStopped(flag[o], @)]
         /\ UNCHANGED <<life, rc, cb>>

\* SSL_CTX_set_tlsext_servername_arg: c's contexts name the object that
\* constructed them.
SniTarget(o, c) == o

ResolverCalls(o) == ~crashed /\ frame = None /\ lookups[o] > 0
Answered(o) == lookups' = [lookups EXCEPT ![o] = @ - 1]
Readable(o) == Deliverable(o) /\ uv[o] = "stream" /\ "READING" \in uvflag[o]

Crash == crashed' = TRUE /\ UNCHANGED <<objVars, flag, cb, uvVars, frame, pinned>>

-----------------------------------------------------------------------------
(* What the script does *)

\* connect with an address that uv_tcp_connect refuses: the callback is
\* replaced all the same, also that of an attempt under way.
ConnectRefused(o, on) ==
    /\ Reachable(o) /\ uv[o] \in {"idle", "socket"}
    /\ cb' = [cb EXCEPT ![o] = With(@, "connect", on)]
    /\ uv' = [uv EXCEPT ![o] = "socket"]
    /\ UNCHANGED <<objVars, flag, uvflag, reqs, writes, frame, pinned, crashed, sslVars>>

\* connect with a name.  Whether uv_getaddrinfo takes the request is not
\* looked at.
ConnectByName(o, on, taken) ==
    /\ Reachable(o) /\ uv[o] \in {"idle", "socket"} /\ lookups[o] < MaxLookups
    /\ cb' = [cb EXCEPT ![o] = With(@, "connect", on)]
    /\ lookups' = [lookups EXCEPT ![o] = IF taken THEN @ + 1 ELSE @]
    /\ LookupRefs(o)
    /\ UNCHANGED <<life, held, uvVars, frame, crashed, Session, History>>

\* accept: the session uses a context of the listening object.
SslAccept(o, c) ==
    /\ accept(o, c)
    /\ ssl' = [ssl EXCEPT ![c] = "hello"]
    /\ listener' = [listener EXCEPT ![c] = SniTarget(o, c)]
    /\ UNCHANGED <<lookups, asked, greeting, History>>

\* accept without a waiting connection goes on with the NULL it got.
SslAcceptFailed(o) ==
    /\ Reachable(o) /\ "ACCEPTED" \notin uvflag[o]
    /\ Crash /\ misused' = TRUE
    /\ UNCHANGED <<lookups, Session, unresolved>>

\* setSSLHandshakeCallback: no self reference is taken.
setSSLHandshakeCallback(o) ==
    /\ Reachable(o)
    /\ asked' = asked \cup {o}
    /\ UNCHANGED <<vars, lookups, ssl, listener, greeting, History>>

\* write: SSL_write does not survive a NULL for its SSL object.
WriteWithoutSession(o) ==
    /\ Reachable(o) /\ ssl[o] = "none"
    /\ Crash /\ misused' = TRUE
    /\ UNCHANGED <<lookups, Session, unresolved>>

-----------------------------------------------------------------------------
(* on_addrinfo_resolved *)

ResolvedConnects(o) ==
    /\ ResolverCalls(o) /\ life[o] = "live"
    /\ uv[o] \in {"idle", "socket"} /\ "connect" \notin reqs[o]
    /\ Answered(o)
    /\ uv' = [uv EXCEPT ![o] = "socket"]
    /\ reqs' = [reqs EXCEPT ![o] = @ \cup {"connect"}]
    /\ UNCHANGED <<objVars, flag, cb, uvflag, writes, frame, pinned, crashed, Session, History>>

\* The name is unknown or uv_tcp_connect fails: the callback, then releaseHandle.
ResolvedFails(o) ==
    /\ ResolverCalls(o) /\ life[o] = "live"
    /\ Answered(o)
    /\ unresolved' = unresolved \cup {o}
    /\ IF "connect" \in cb[o]
       THEN CallUser("resolved", o, TRUE) /\ UNCHANGED <<life, flag, cb, uvflag>>
       ELSE Released(o) /\ UNCHANGED frame
    /\ UNCHANGED <<held, uv, reqs, writes, pinned, crashed, Session, misused>>

\* The handle was freed, or uv_tcp_connect opens a descriptor on one that is
\* closing or closed, which libuv does not survive.
Late(o) == lookups[o] > 0 /\ (life[o] = "dead" \/ uv[o] \in {"closing", "closed"})
ResolvedLate(o) == ResolverCalls(o) /\ Late(o) /\ Crash /\ UNCHANGED sslVars

-----------------------------------------------------------------------------
(* What libuv calls back *)

\* client_connection_cb: neither the status nor uv_read_start's result is
\* looked at, and the callback runs for a cancelled attempt too.
SslConnected(o, s) ==
    /\ Deliverable(o) /\ "connect" \in reqs[o]
    /\ reqs' = [reqs EXCEPT ![o] = @ \ {"connect"}]
    /\ uv' = [uv EXCEPT ![o] = IF @ = "closing" THEN @ ELSE s]
    /\ flag' = [flag EXCEPT ![o] = @ \cup {"HANDLE_START", "READ_START"}]
    /\ uvflag' = [uvflag EXCEPT ![o] = IF ReadStartOk(o) THEN @ \cup {"READING"} ELSE @]
    /\ ssl' = [ssl EXCEPT ![o] = "greeted"]
    /\ CallUser("connect", o, "connect" \in cb[o])
    /\ UNCHANGED <<life, held, cb, writes, pinned, crashed, lookups, asked, listener, greeting, History>>

\* read_cb, ClientHello: sni_cb follows its argument to the listening object
\* and may call the servername callback, whose argument is only a name.
ReadHello(o, called) ==
    /\ Readable(o) /\ ssl[o] = "hello"
    /\ IF life[listener[o]] = "dead"
       THEN Crash /\ UNCHANGED <<ssl, greeting>>
       ELSE /\ ssl' = [ssl EXCEPT ![o] = "greeted"]
            /\ IF called THEN frame' = [cb |-> "servername", obj |-> None] /\ greeting' = o
                         ELSE UNCHANGED <<frame, greeting>>
            /\ UNCHANGED <<objVars, flag, cb, uvVars, pinned, crashed>>
    /\ UNCHANGED <<lookups, asked, listener, History>>

\* read_cb, end of the handshake: it fails, or nobody answers for the session,
\* and the handle is closed; or the handshake callback is called.
ReadHandshake(o, ok) ==
    /\ Readable(o) /\ ssl[o] = "greeted"
    /\ ssl' = [ssl EXCEPT ![o] = IF ok THEN "done" ELSE @]
    /\ IF ok /\ o \in asked
       THEN CallUser("handshake", o, TRUE) /\ UNCHANGED <<flag, uv, uvflag, crashed>>
       ELSE tcp_close_socket(o) /\ UNCHANGED <<rc, frame>>
    /\ UNCHANGED <<life, held, cb, reqs, writes, pinned, lookups, asked, listener, greeting, History>>

\* read_cb after the handshake
SslRead(o) ==
    /\ Readable(o) /\ ssl[o] = "done"
    /\ flag' = [flag EXCEPT ![o] = @ \cup {"WRITE_CALLBACK_ENABLE"}]
    /\ CallUser("read", o, "read" \in cb[o])
    /\ UNCHANGED <<life, held, cb, uvVars, pinned, crashed, sslVars>>

\* The arguments are freed; if that is the end of the object, the code that
\* follows works on freed memory.
LastReference ==
    /\ rc[frame.obj] = 1
    /\ decRefAndRelease(frame.obj, flag[frame.obj], uvflag[frame.obj])
    /\ crashed' = TRUE
    /\ frame' = None
    /\ UNCHANGED <<held, uv, reqs, writes, pinned>>

\* After the handshake callback: close, or the loop of read_cb.
ReturnHandshake(v) ==
    LET o == frame.obj IN
    /\ ~crashed /\ frame # None /\ frame.cb = "handshake"
    /\ \/ LastReference
       \/ /\ rc[o] > 1
          /\ IF v /\ "read" \in cb[o]
             THEN frame' = [cb |-> "read", obj |-> o] /\ UNCHANGED rc
             ELSE frame' = None /\ rc' = [rc EXCEPT ![o] = @ - 1]
          /\ IF v THEN UNCHANGED <<flag, uv, uvflag, crashed>> ELSE tcp_close_socket(o)
          /\ UNCHANGED <<life, held, cb, reqs, writes, pinned>>
    /\ UNCHANGED sslVars

\* After the callback of a failed connect by name: the arguments' reference
\* goes, and with releaseHandle the object's own.
ReturnResolved ==
    LET o == frame.obj
        refs == IF "INTERNAL_REF" \in flag[o] THEN 2 ELSE 1 IN
    /\ ~crashed /\ frame # None /\ frame.cb = "resolved"
    /\ \/ LastReference
       \/ /\ rc[o] > 1
          /\ frame' = None
          /\ rc' = [rc EXCEPT ![o] = @ - refs]
          /\ life' = [life EXCEPT ![o] = IF rc[o] = refs THEN "dead" ELSE @]
          /\ cb' = [cb EXCEPT ![o] = IF rc[o] = refs THEN {} ELSE @]
          /\ flag' = [flag EXCEPT ![o] = ReleasedFlags(@)]
          /\ uvflag' = [uvflag EXCEPT ![o] = ReadStopped(flag[o], @)]
          /\ UNCHANGED <<held, uv, reqs, writes, pinned, crashed>>
    /\ UNCHANGED sslVars

\* After the servername callback: sni_cb reads the listening object again and
\* SSL_do_handshake goes on with the session.
ReturnServername ==
    /\ ~crashed /\ greeting # None
    /\ frame' = None
    /\ greeting' = None
    /\ crashed' = (life[greeting] = "dead" \/ life[listener[greeting]] = "dead")
    /\ UNCHANGED <<objVars, flag, cb, uvVars, pinned, lookups, asked, ssl, listener, History>>

ReturnTcp == frame # None /\ frame.cb \in Callbacks /\ Return /\ UNCHANGED sslVars

-----------------------------------------------------------------------------
SslInit ==
    /\ Init
    /\ lookups = [o \in Obj |-> 0]
    /\ asked = {} /\ unresolved = {}
    /\ ssl = [o \in Obj |-> "none"]
    /\ listener = [o \in Obj |-> None]
    /\ greeting = None
    /\ misused = FALSE

\* What UVSSL inherits from UVTcp.
Inherited(o) ==
    /\ \/ o \in Made /\ Construct(o)
       \/ Share(o) \/ Drop(o) \/ close(o)
       \/ \E on \in OnChoices : listen(o, on) \/ connect(o, on)
       \/ \E S \in CallbackSets : setCallback(o, S)
       \/ \E ok \in BOOLEAN : connection_cb(o, ok)
       \/ ReadErrorCall(o) \/ ReadErrorClose(o)
       \/ tcp_close_cb(o) \/ LibuvTouchesFreed(o)
    /\ UNCHANGED sslVars

SslStep(o) ==
    \/ \E on \in OnChoices :
          ConnectRefused(o, on) \/ \E taken \in BOOLEAN : ConnectByName(o, on, taken)
    \/ \E c \in Obj : SslAccept(o, c)
    \/ SslAcceptFailed(o) \/ setSSLHandshakeCallback(o) \/ WriteWithoutSession(o)
    \/ ResolvedConnects(o) \/ ResolvedFails(o) \/ ResolvedLate(o)
    \/ \E s \in {"socket", "stream"} : SslConnected(o, s)
    \/ \E called \in BOOLEAN : ReadHello(o, called)
    \/ \E ok \in BOOLEAN : ReadHandshake(o, ok)
    \/ SslRead(o)

SslReturn ==
    ReturnTcp \/ ReturnResolved \/ ReturnServername \/ \E v \in BOOLEAN : ReturnHandshake(v)

SslNext == SslReturn \/ \E o \in Obj : Inherited(o) \/ SslStep(o)

SslSpec == SslInit /\ [][SslNext]_allVars

-----------------------------------------------------------------------------
(* Properties *)

\* The values every variable may take.
SslTypeOK ==
    /\ life \in [Obj -> {"unborn", "live", "dead"}]
    /\ rc \in [Obj -> 0..MaxRefs + 2] /\ held \in [Obj -> 0..MaxRefs]
    /\ flag \in [Obj -> SUBSET Flags] /\ cb \in [Obj -> SUBSET Callbacks]
    /\ uv \in [Obj -> UvStates] /\ uvflag \in [Obj -> SUBSET {"READING", "SHUT", "ACCEPTED"}]
    /\ reqs \in [Obj -> SUBSET {"connect", "shutdown"}] /\ writes \in [Obj -> 0..MaxWrites]
    /\ frame \in {None, [cb |-> "servername", obj |-> None]}
                 \cup [cb : Callbacks \cup {"handshake", "resolved"}, obj : Obj]
    /\ lookups \in [Obj -> 0..MaxLookups]
    /\ asked \subseteq Obj /\ unresolved \subseteq Obj
    /\ ssl \in [Obj -> {"none", "hello", "greeted", "done"}]
    /\ listener \in [Obj -> Obj \cup {None}] /\ greeting \in Obj \cup {None}
    /\ pinned \in [Obj -> BOOLEAN]

\* UVSSL keeps UVTcp's promise (SafeDelivery) to every object that holds a
\* reference to itself, except to one whose connect by name has failed: there
\* on_addrinfo_resolved gives the reference back without closing the handle.
SafeUnlessUnresolved ==
    \A o \in Obj : pinned[o] /\ o \notin unresolved =>
        /\ uv[o] # "closed" => life[o] = "live" /\ "INTERNAL_REF" \in flag[o]
        /\ life[o] = "dead" => uv[o] = "closed" /\ reqs[o] = {} /\ writes[o] = 0

\* The answer of getaddrinfo finds the object alive and open unless the
\* script has closed it meanwhile or an earlier answer has released it: the
\* script alone cannot lose an object that is being resolved.
LookupFindsObject ==
    \A o \in Obj : lookups[o] > 0 /\ o \notin unresolved /\ "CLOSING_START" \notin flag[o]
        => life[o] = "live" /\ "INTERNAL_REF" \in flag[o]

\* A ClientHello that comes after its listening object died: only when that
\* object was closed before, or released by a failed connect.
HelloFindsListener ==
    \A o \in Obj : ssl[o] = "hello" /\ life[listener[o]] = "dead"
        => uv[listener[o]] = "closed" \/ listener[o] \in unresolved

\* Every way in which the life of UVSSL objects ends in a use of freed memory:
\* UVTcp's, a released or late resolution, sni_cb, a call without a session.
UnsafeOnlyHere ==
    crashed =>
        \/ misused
        \/ \E o \in Obj :
              \/ Orphan(o) /\ ~pinned[o]
              \/ life[o] = "dead" /\ o \in unresolved
              \/ Late(o)
              \/ ssl[o] # "none" /\ listener[o] # None /\ life[listener[o]] = "dead"

\* What these rest on.  An object is alive while it has references; it
\* refers to itself only once pinned, which everything that listens or waits
\* for a resolution is; the flag tells whether uv_close was called.
SslLifecycle ==
    \A o \in Obj :
        /\ life[o] = "live" <=> rc[o] > 0
        /\ life[o] # "live" => held[o] = 0
        /\ life[o] = "unborn" <=> uv[o] = "none"
        /\ life[o] = "unborn" => ~pinned[o]
        /\ "INTERNAL_REF" \in flag[o] => life[o] = "live" /\ pinned[o]
        /\ "CLOSING_START" \in flag[o] <=> uv[o] \in {"closing", "closed"}
        /\ uv[o] = "closed" => reqs[o] = {} /\ writes[o] = 0
        /\ uv[o] = "listening" \/ lookups[o] > 0 => pinned[o]

\* No callback runs on an object whose close has ended, but for that of a
\* failed connect by name; the session of a servername callback is as open.
SslFrame ==
    /\ frame # None /\ frame.obj # None =>
          uv[frame.obj] # "closed" \/ frame.obj \in unresolved
    /\ frame # None /\ frame.cb = "resolved" => frame.obj \in unresolved
    /\ greeting # None <=> frame = [cb |-> "servername", obj |-> None]
    /\ greeting # None =>
          /\ uv[greeting] # "closed" \/ greeting \in unresolved
          /\ ssl[greeting] # "none" /\ listener[greeting] \in Obj
SslListener ==
    \A o \in Obj : ssl[o] = "hello" => listener[o] \in Obj /\ pinned[listener[o]]

\* The inductive invariant.  With RefCountExact: references balance in UVSSL
\* too, with the one that a name resolution takes and gives back.
SslInv ==
    /\ SslTypeOK /\ RefCountExact /\ SafeUnlessUnresolved /\ SslLifecycle
    /\ SslFrame /\ SslListener /\ UnsafeOnlyHere
=============================================================================
