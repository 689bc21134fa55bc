------------------------------- MODULE UVTcp -------------------------------
(***************************************************************************)
(* The life of UVTcp objects (src/src/uv_tcp.cpp, src/src/uv_tcp.h).       *)
(*                                                                         *)
(* A UVTcp object is reference counted by the script engine and owns a     *)
(* libuv handle allocated with new and freed by its native data's sweep(). *)
(* libuv keeps a raw pointer to the handle from uv_tcp_init until uv_close *)
(* has called tcp_close_cb.  The extension bridges the two life times with *)
(* one reference the object holds to itself (UV_TCP_HANDLE_INTERNAL_REF):  *)
(* listen, connect, shutdown and setCallback take it, tcp_close_cb gives   *)
(* it back.                                                                *)
(*                                                                         *)
(* Script calls happen either between two calls of $loop->run (frame =     *)
(* None) or inside a user callback (frame # None).  Callbacks do not nest: *)
(* the script does not call $loop->run from within a callback.             *)
(***************************************************************************)
EXTENDS Naturals

CONSTANTS
    Obj,            \* the UVTcp objects a request may create
    None,           \* no user callback is running
    MaxRefs,        \* bound: references the script keeps to one object
    MaxWrites,      \* bound: uv_write requests outstanding on one handle
    CallbackSets,   \* the arguments of setCallback: which of the three are not null
    OnChoices       \* the other callback arguments: TRUE given, FALSE null

\* The bits of uv_tcp_ext_t.flag.
Flags == {"INTERNAL_REF", "HANDLE_START", "READ_START", "CLOSING_START",
          "WRITE_CALLBACK_ENABLE"}

\* The Variants of UVTcpData that hold user callbacks.
Callbacks == {"connect", "read", "write", "error", "shutdown"}

\* What libuv knows of a handle: none before uv_tcp_init, idle without a
\* descriptor, socket with one that is neither connected nor listening.
UvStates == {"none", "idle", "socket", "stream", "listening", "closing", "closed"}
WithFd   == {"socket", "stream", "listening"}

ASSUME NoneAssumption == None \notin [cb : Callbacks, obj : Obj]
ASSUME BoundAssumption ==
    /\ MaxRefs \in Nat \ {0}
    /\ MaxWrites \in Nat
    /\ CallbackSets \subseteq SUBSET {"read", "write", "error"}
    /\ OnChoices \subseteq BOOLEAN

VARIABLES
    life,       \* unborn, live, or dead once sweep() has freed the handle
    rc,         \* the object's reference count
    held,       \* how many of those references the script holds
    flag,       \* tcp_handle->flag
    cb,         \* the callback Variants that are not null
    uv,         \* libuv: state of the handle
    uvflag,     \* libuv: READING, SHUT, and ACCEPTED while a connection awaits uv_accept
    reqs,       \* libuv: connect_req, shutdown_req in flight
    writes,     \* libuv: write requests whose write_cb is due
    frame,      \* the user callback that is running, or None
    pinned,     \* history: setSelfReference has been called on the object
    crashed     \* freed memory was touched, or libuv aborted

objVars == <<life, rc, held>>
uvVars  == <<uv, uvflag, reqs, writes>>
vars    == <<life, rc, held, flag, cb, uv, uvflag, reqs, writes, frame, pinned, crashed>>

-----------------------------------------------------------------------------
(* Building blocks *)

InFrame(o) == frame # None /\ frame.obj = o

\* The script can call a method of an object it refers to.
Reachable(o) == ~crashed /\ life[o] = "live" /\ (held[o] > 0 \/ InFrame(o))

\* uv_run can deliver an event of a handle that still exists.
Deliverable(o) == ~crashed /\ frame = None /\ life[o] = "live"

\* A callback Variant is assigned, a null one when ~on.
With(S, name, on) == IF on THEN S \cup {name} ELSE S \ {name}

\* Faulty variants of the definitions below.  The specification does not use
\* them; each makes one of the properties at the end of this module fail.
SelfRefs_Unguarded(f) == 1
SelfRefs_Forgotten(f) == 0
CloseFlags_Early(f) == (f \cup {"CLOSING_START"}) \ {"INTERNAL_REF"}
CloseFlags_Unset(f) == f
UvClose_Skipped(s) == IF s = "stream" THEN "closing" ELSE s
ReleasedFlags_KeepsRef(f) == f \ {"READ_START", "HANDLE_START"}
ReadStartOk_Always(o) == TRUE

\* References setSelfReference adds: none when the bit is set already.
SelfRefs(f) == IF "INTERNAL_REF" \in f THEN 0 ELSE 1

setSelfReference(o, extra) ==
    /\ rc' = [rc EXCEPT ![o] = @ + SelfRefs(flag[o])]
    /\ flag' = [flag EXCEPT ![o] = @ \cup {"INTERNAL_REF"} \cup extra]
    /\ pinned' = [pinned EXCEPT ![o] = TRUE]

\* releaseHandle clears the three bits it acts on; uv_read_stop, when READ_START was set.
ReleasedFlags(f) == f \ {"READ_START", "HANDLE_START", "INTERNAL_REF"}
ReadStopped(f, u) == IF "READ_START" \in f THEN u \ {"READING"} ELSE u

\* One reference to o goes.  The last one destroys the native data: sweep()
\* unsets the callbacks, runs releaseHandle and frees the handle, without
\* uv_close.  f, u: the handle's and libuv's flags at that point.
decRefAndRelease(o, f, u) ==
    LET last == rc[o] = 1 IN
    /\ rc' = [rc EXCEPT ![o] = @ - 1]
    /\ life' = [life EXCEPT ![o] = IF last THEN "dead" ELSE @]
    /\ cb' = [cb EXCEPT ![o] = IF last THEN {} ELSE @]
    /\ flag' = [flag EXCEPT ![o] = IF last THEN ReleasedFlags(f) ELSE f]
    /\ uvflag' = [uvflag EXCEPT ![o] = IF last THEN ReadStopped(f, u) ELSE u]

CloseFlags(f) == f \cup {"CLOSING_START"}
UvClose(s) == "closing"

\* uv_close stops reading and closes the descriptor, a connection that waits
\* for uv_accept included; on a handle that is closing already it aborts.
tcp_close_socket(o) ==
    IF "CLOSING_START" \in flag[o]
    THEN UNCHANGED <<flag, uv, uvflag, crashed>>
    ELSE /\ flag' = [flag EXCEPT ![o] = CloseFlags(@)]
         /\ uv' = [uv EXCEPT ![o] = UvClose(@)]
         /\ uvflag' = [uvflag EXCEPT ![o] = @ \ {"READING", "ACCEPTED"}]
         /\ crashed' = (uv[o] \in {"closing", "closed"})

\* uv_read_start refuses a handle that is closing.
ReadStartOk(o) == uv[o] # "closing"

\* vm_call_user_func: the arguments hold a reference while the callback runs.
CallUser(name, o, when) ==
    IF when
    THEN /\ frame' = [cb |-> name, obj |-> o]
         /\ rc' = [rc EXCEPT ![o] = @ + 1]
    ELSE UNCHANGED <<frame, rc>>

-----------------------------------------------------------------------------
(* What the script does *)

Construct(o) ==
    /\ ~crashed /\ life[o] = "unborn"
    /\ life' = [life EXCEPT ![o] = "live"]
    /\ rc' = [rc EXCEPT ![o] = 1]
    /\ held' = [held EXCEPT ![o] = 1]
    /\ uv' = [uv EXCEPT ![o] = "idle"]
    /\ UNCHANGED <<flag, cb, uvflag, reqs, writes, frame, pinned, crashed>>

\* The script, or a closure it registers, keeps one more reference.
Share(o) ==
    /\ Reachable(o) /\ held[o] < MaxRefs
    /\ held' = [held EXCEPT ![o] = @ + 1]
    /\ rc' = [rc EXCEPT ![o] = @ + 1]
    /\ UNCHANGED <<life, flag, cb, uvVars, frame, pinned, crashed>>

Drop(o) ==
    /\ ~crashed /\ life[o] = "live" /\ held[o] > 0
    /\ held' = [held EXCEPT ![o] = @ - 1]
    /\ decRefAndRelease(o, flag[o], uvflag[o])
    /\ UNCHANGED <<uv, reqs, writes, frame, pinned, crashed>>

\* listen: uv_tcp_bind and uv_listen both succeed.
listen(o, on) ==
    /\ Reachable(o) /\ uv[o] \in {"idle", "socket"} /\ "connect" \notin reqs[o]
    /\ uv' = [uv EXCEPT ![o] = "listening"]
    /\ cb' = [cb EXCEPT ![o] = With(@, "connect", on)]
    /\ setSelfReference(o, {"HANDLE_START"})
    /\ UNCHANGED <<life, held, uvflag, reqs, writes, frame, crashed>>

\* connect: uv_tcp_connect succeeds.
connect(o, on) ==
    /\ Reachable(o) /\ uv[o] \in {"idle", "socket"} /\ "connect" \notin reqs[o]
    /\ uv' = [uv EXCEPT ![o] = "socket"]
    /\ reqs' = [reqs EXCEPT ![o] = @ \cup {"connect"}]
    /\ cb' = [cb EXCEPT ![o] = With(@, "connect", on)]
    /\ setSelfReference(o, {"HANDLE_START"})
    /\ UNCHANGED <<life, held, uvflag, writes, frame, crashed>>

\* listen or connect returns an error after libuv has created the socket; an
\* earlier error leaves everything as it was.
OpenFailed(o) ==
    /\ Reachable(o) /\ uv[o] = "idle"
    /\ uv' = [uv EXCEPT ![o] = "socket"]
    /\ UNCHANGED <<objVars, flag, cb, uvflag, reqs, writes, frame, pinned, crashed>>

\* accept: the new object c gets the waiting connection and is reading, but
\* holds no reference to itself.  (uv_read_start cannot fail on it.)
accept(o, c) ==
    /\ Reachable(o) /\ life[c] = "unborn"
    /\ uv[o] = "listening" /\ "ACCEPTED" \in uvflag[o]
    /\ life' = [life EXCEPT ![c] = "live"]
    /\ rc' = [rc EXCEPT ![c] = 1]
    /\ held' = [held EXCEPT ![c] = 1]
    /\ flag' = [flag EXCEPT ![c] = {"HANDLE_START", "READ_START"}]
    /\ uv' = [uv EXCEPT ![c] = "stream"]
    /\ uvflag' = [uvflag EXCEPT ![o] = @ \ {"ACCEPTED"}, ![c] = {"READING"}]
    /\ UNCHANGED <<cb, reqs, writes, frame, pinned, crashed>>

\* accept finds no waiting connection: c is destroyed and the call returns NULL.
AcceptFailed(o, c) ==
    /\ Reachable(o) /\ life[c] = "unborn"
    /\ "ACCEPTED" \notin uvflag[o]
    /\ life' = [life EXCEPT ![c] = "dead"]
    /\ uv' = [uv EXCEPT ![c] = "idle"]
    /\ UNCHANGED <<rc, held, flag, cb, uvflag, reqs, writes, frame, pinned, crashed>>

close(o) ==
    /\ Reachable(o)
    /\ tcp_close_socket(o)
    /\ UNCHANGED <<objVars, cb, reqs, writes, frame, pinned>>

setCallback(o, S) ==
    /\ Reachable(o)
    /\ cb' = [cb EXCEPT ![o] = (@ \ {"read", "write", "error"}) \cup S]
    /\ setSelfReference(o, {})
    /\ UNCHANGED <<life, held, uvVars, frame, crashed>>

\* write: uv_write refuses a handle without descriptor, the bit is set anyway.
write(o) ==
    /\ Reachable(o)
    /\ flag' = [flag EXCEPT ![o] = @ \cup {"WRITE_CALLBACK_ENABLE"}]
    /\ IF uv[o] \in WithFd
       THEN writes[o] < MaxWrites /\ writes' = [writes EXCEPT ![o] = @ + 1]
       ELSE UNCHANGED writes
    /\ UNCHANGED <<objVars, cb, uv, uvflag, reqs, frame, pinned, crashed>>

\* shutdown: uv_shutdown accepts one request on an open handle.
shutdown(o, on) ==
    /\ Reachable(o)
    /\ uv[o] \in WithFd /\ "shutdown" \notin reqs[o] /\ "SHUT" \notin uvflag[o]
    /\ cb' = [cb EXCEPT ![o] = With(@, "shutdown", on)]
    /\ reqs' = [reqs EXCEPT ![o] = @ \cup {"shutdown"}]
    /\ setSelfReference(o, {"HANDLE_START"})
    /\ UNCHANGED <<life, held, uv, uvflag, writes, frame, crashed>>

\* shutdown refused: the callback has been replaced all the same.
ShutdownFailed(o, on) ==
    /\ Reachable(o)
    /\ uv[o] \notin WithFd \/ "shutdown" \in reqs[o] \/ "SHUT" \in uvflag[o]
    /\ cb' = [cb EXCEPT ![o] = With(@, "shutdown", on)]
    /\ UNCHANGED <<objVars, flag, uvVars, frame, pinned, crashed>>

-----------------------------------------------------------------------------
(* What libuv calls back *)

\* A connection waits to be accepted (ok), or accepting it failed; the
\* callback is told by its status argument.
connection_cb(o, ok) ==
    /\ Deliverable(o) /\ uv[o] = "listening" /\ "ACCEPTED" \notin uvflag[o]
    /\ uvflag' = [uvflag EXCEPT ![o] = IF ok THEN @ \cup {"ACCEPTED"} ELSE @]
    /\ CallUser("connect", o, "connect" \in cb[o])
    /\ UNCHANGED <<life, held, flag, cb, uv, reqs, writes, pinned, crashed>>

\* The connection is made (s = "stream"), has failed (s = "socket"), or is
\* cancelled by uv_close.  The status is not looked at; only a refused
\* uv_read_start returns before the callback.
client_connection_cb(o, s) ==
    /\ Deliverable(o) /\ "connect" \in reqs[o]
    /\ reqs' = [reqs EXCEPT ![o] = @ \ {"connect"}]
    /\ uv' = [uv EXCEPT ![o] = IF @ = "closing" THEN @ ELSE s]
    /\ IF ReadStartOk(o)
       THEN /\ flag' = [flag EXCEPT ![o] = @ \cup {"HANDLE_START", "READ_START"}]
            /\ uvflag' = [uvflag EXCEPT ![o] = @ \cup {"READING"}]
       ELSE UNCHANGED <<flag, uvflag>>
    /\ CallUser("connect", o, ReadStartOk(o) /\ "connect" \in cb[o])
    /\ UNCHANGED <<life, held, cb, writes, pinned, crashed>>

\* read_cb with nread > 0
ReadData(o) ==
    /\ Deliverable(o) /\ uv[o] = "stream" /\ "READING" \in uvflag[o]
    /\ "read" \in cb[o]
    /\ CallUser("read", o, TRUE)
    /\ UNCHANGED <<life, held, flag, cb, uvVars, pinned, crashed>>

\* read_cb with nread < 0 and an error callback: it runs, tcp_close_socket
\* follows when it returns.
ReadErrorCall(o) ==
    /\ Deliverable(o) /\ uv[o] \in {"socket", "stream"} /\ "READING" \in uvflag[o]
    /\ "error" \in cb[o]
    /\ uvflag' = [uvflag EXCEPT ![o] = @ \ {"READING"}]
    /\ CallUser("error", o, TRUE)
    /\ UNCHANGED <<life, held, flag, cb, uv, reqs, writes, pinned, crashed>>

\* read_cb with nread < 0 and no error callback
ReadErrorClose(o) ==
    /\ Deliverable(o) /\ uv[o] \in {"socket", "stream"} /\ "READING" \in uvflag[o]
    /\ "error" \notin cb[o]
    /\ tcp_close_socket(o)
    /\ UNCHANGED <<objVars, cb, reqs, writes, frame, pinned>>

\* Requests complete in order: connect, the writes, shutdown; those of a
\* listening handle only when it closes.
Settled(o) == "connect" \notin reqs[o] /\ uv[o] \in {"socket", "stream", "closing"}

write_cb(o) ==
    /\ Deliverable(o) /\ writes[o] > 0 /\ Settled(o)
    /\ writes' = [writes EXCEPT ![o] = @ - 1]
    /\ CallUser("write", o, "write" \in cb[o] /\ "WRITE_CALLBACK_ENABLE" \in flag[o])
    /\ UNCHANGED <<life, held, flag, cb, uv, uvflag, reqs, pinned, crashed>>

\* shutdown(2) succeeds on a connected socket; otherwise, or when the handle
\* closes, the callback gets an error and the socket is not marked.
shutdown_cb(o) ==
    /\ Deliverable(o) /\ "shutdown" \in reqs[o] /\ writes[o] = 0 /\ Settled(o)
    /\ reqs' = [reqs EXCEPT ![o] = @ \ {"shutdown"}]
    /\ uvflag' = [uvflag EXCEPT ![o] = IF uv[o] = "stream" THEN @ \cup {"SHUT"} ELSE @]
    /\ CallUser("shutdown", o, "shutdown" \in cb[o])
    /\ UNCHANGED <<life, held, flag, cb, uv, writes, pinned, crashed>>

\* uv_close has finished.  releaseHandle clears INTERNAL_REF before it gives
\* the reference back, so that the sweep this may cause finds it cleared.
tcp_close_cb(o) ==
    /\ Deliverable(o) /\ uv[o] = "closing" /\ reqs[o] = {} /\ writes[o] = 0
    /\ uv' = [uv EXCEPT ![o] = "closed"]
    /\ IF "INTERNAL_REF" \in flag[o]
       THEN decRefAndRelease(o, ReleasedFlags(flag[o]), ReadStopped(flag[o], uvflag[o]))
       ELSE /\ flag' = [flag EXCEPT ![o] = ReleasedFlags(@)]
            /\ uvflag' = [uvflag EXCEPT ![o] = ReadStopped(flag[o], @)]
            /\ UNCHANGED <<life, rc, cb>>
    /\ UNCHANGED <<held, reqs, writes, frame, pinned, crashed>>

\* The user callback returns and its arguments are freed; read_cb then closes
\* the handle after an error, and libuv goes on using the handle in any case.
Return ==
    /\ ~crashed /\ frame # None
    /\ frame' = None
    /\ IF rc[frame.obj] = 1
       THEN /\ decRefAndRelease(frame.obj, flag[frame.obj], uvflag[frame.obj])
            /\ crashed' = TRUE
            /\ UNCHANGED uv
       ELSE /\ rc' = [rc EXCEPT ![frame.obj] = @ - 1]
            /\ IF frame.cb = "error" THEN tcp_close_socket(frame.obj)
                                     ELSE UNCHANGED <<flag, uv, uvflag, crashed>>
            /\ UNCHANGED <<life, cb>>
    /\ UNCHANGED <<held, reqs, writes, pinned>>

\* libuv follows a pointer to a handle that was freed without uv_close having
\* completed: a request, the watcher, or the loop's queue of handles.
Orphan(o) == life[o] = "dead" /\ uv[o] # "closed"
LibuvTouchesFreed(o) ==
    /\ ~crashed /\ Orphan(o)
    /\ crashed' = TRUE
    /\ UNCHANGED <<objVars, flag, cb, uvVars, frame, pinned>>

-----------------------------------------------------------------------------
Init ==
    /\ life = [o \in Obj |-> "unborn"]
    /\ rc = [o \in Obj |-> 0]
    /\ held = [o \in Obj |-> 0]
    /\ flag = [o \in Obj |-> {}]
    /\ cb = [o \in Obj |-> {}]
    /\ uv = [o \in Obj |-> "none"]
    /\ uvflag = [o \in Obj |-> {}]
    /\ reqs = [o \in Obj |-> {}]
    /\ writes = [o \in Obj |-> 0]
    /\ frame = None
    /\ pinned = [o \in Obj |-> FALSE]
    /\ crashed = FALSE

ScriptStep(o) ==
    \/ Construct(o) \/ Share(o) \/ Drop(o)
    \/ \E on \in OnChoices : listen(o, on)
    \/ \E on \in OnChoices : connect(o, on)
    \/ OpenFailed(o)
    \/ \E c \in Obj : accept(o, c)
    \/ \E c \in Obj : AcceptFailed(o, c)
    \/ close(o)
    \/ \E S \in CallbackSets : setCallback(o, S)
    \/ write(o)
    \/ \E on \in OnChoices : shutdown(o, on)
    \/ \E on \in OnChoices : ShutdownFailed(o, on)

LoopStep(o) ==
    \/ \E ok \in BOOLEAN : connection_cb(o, ok)
    \/ \E s \in {"socket", "stream"} : client_connection_cb(o, s)
    \/ ReadData(o) \/ ReadErrorCall(o) \/ ReadErrorClose(o)
    \/ write_cb(o)
    \/ shutdown_cb(o)
    \/ tcp_close_cb(o)
    \/ LibuvTouchesFreed(o)

Next == Return \/ \E o \in Obj : ScriptStep(o) \/ LoopStep(o)

Spec == Init /\ [][Next]_vars

\* uv_run ends every iteration with the closing handles: it cancels what is
\* pending on them and calls tcp_close_cb, whatever other events there are.
\* The script keeps running the loop, and its callbacks return.
CloseStep(o) ==
    /\ uv[o] = "closing"
    /\ \/ \E s \in {"socket", "stream"} : client_connection_cb(o, s)
       \/ write_cb(o)
       \/ shutdown_cb(o)
       \/ tcp_close_cb(o)

FairSpec == Spec /\ WF_vars(Return) /\ \A o \in Obj : SF_vars(CloseStep(o))

-----------------------------------------------------------------------------
(* Properties *)

\* The values every variable may take.
TypeOK ==
    /\ life \in [Obj -> {"unborn", "live", "dead"}]
    /\ rc \in [Obj -> 0..MaxRefs + 2]
    /\ held \in [Obj -> 0..MaxRefs]
    /\ flag \in [Obj -> SUBSET Flags]
    /\ cb \in [Obj -> SUBSET Callbacks]
    /\ uv \in [Obj -> UvStates]
    /\ uvflag \in [Obj -> SUBSET {"READING", "SHUT", "ACCEPTED"}]
    /\ reqs \in [Obj -> SUBSET {"connect", "shutdown"}]
    /\ writes \in [Obj -> 0..MaxWrites]
    /\ frame \in {None} \cup [cb : Callbacks, obj : Obj]
    /\ pinned \in [Obj -> BOOLEAN]
    /\ crashed \in BOOLEAN

\* The reference count of an object is the number of references the script
\* holds, plus one while INTERNAL_REF is set, plus one while a callback on it
\* runs: setSelfReference and releaseHandle never take or give one too many,
\* in whatever order calls and callbacks come.
SelfRef(o)  == IF "INTERNAL_REF" \in flag[o] THEN 1 ELSE 0
FrameRef(o) == IF InFrame(o) THEN 1 ELSE 0
RefCountExact ==
    \A o \in Obj : rc[o] = held[o] + SelfRef(o) + FrameRef(o)

\* Memory safety for every object that was ever listened on, connected, shut
\* down or given callbacks: until tcp_close_cb it keeps its self reference,
\* so its handle is freed only when libuv has let go of it.
SafeDelivery ==
    \A o \in Obj : pinned[o] =>
        /\ uv[o] # "closed" => life[o] = "live" /\ "INTERNAL_REF" \in flag[o]
        /\ life[o] = "dead" => uv[o] = "closed" /\ reqs[o] = {} /\ writes[o] = 0

\* Everything libuv still has to answer with a user callback belongs to such
\* an object: a connect or shutdown request, a listening socket, and the
\* callbacks set with setCallback, connect or listen.
PendingPinned ==
    \A o \in Obj :
        (reqs[o] # {} \/ uv[o] = "listening" \/ cb[o] \ {"shutdown"} # {}) => pinned[o]

\* The reference in the arguments of a running callback is never the last
\* one: the script may drop every other reference, and the code after
\* vm_call_user_func, read_cb's tcp_close_socket above all, still finds the handle.
CallbackTargetHeld ==
    frame # None => life[frame.obj] = "live" /\ rc[frame.obj] > 1

\* The extension's flags agree with libuv: a handle libuv reads from has
\* READ_START set and is not freed, and CLOSING_START tells exactly whether
\* uv_close was called, which is what keeps it from being called twice.
FlagMirrors ==
    \A o \in Obj :
        /\ "READING" \in uvflag[o] => life[o] = "live" /\ "READ_START" \in flag[o]
        /\ "CLOSING_START" \in flag[o] <=> uv[o] \in {"closing", "closed"}

\* The process touches freed memory, or aborts in uv_close, only after an
\* object died that never held a reference to itself (a fresh or an accepted
\* object that the script dropped without setCallback).
CrashOnlyUnpinned ==
    crashed => \E o \in Obj : Orphan(o) /\ ~pinned[o]

\* What the invariants above rest on: how the life of an object, its count
\* and its self reference hang together, and that a callback runs only on an
\* object that holds a reference to itself.
Lifecycle ==
    \A o \in Obj :
        /\ life[o] = "unborn" <=> uv[o] = "none"
        /\ life[o] = "unborn" => ~pinned[o] /\ flag[o] = {} /\ uvflag[o] = {}
        /\ life[o] = "live" => rc[o] > 0
        /\ life[o] # "live" => held[o] = 0
        /\ "INTERNAL_REF" \in flag[o] => life[o] = "live" /\ pinned[o]
        /\ uv[o] = "closed" => reqs[o] = {} /\ writes[o] = 0
FrameHeld ==
    frame # None => "INTERNAL_REF" \in flag[frame.obj] /\ uv[frame.obj] # "closed"

\* The inductive invariant.
IInv ==
    /\ TypeOK /\ RefCountExact /\ SafeDelivery /\ PendingPinned /\ FlagMirrors
    /\ Lifecycle /\ FrameHeld /\ CrashOnlyUnpinned

\* The self reference goes in the step that ends the close, and no earlier.
SelfRefUntilClosed ==
    [][\A o \in Obj : "INTERNAL_REF" \in flag[o] /\ "INTERNAL_REF" \notin flag'[o]
           => uv[o] = "closing" /\ uv'[o] = "closed"]_vars

\* And it does go: when the close ends, an object that the script no longer
\* refers to is destroyed there and then.
CloseReclaims ==
    [][\A o \in Obj : uv[o] = "closing" /\ uv'[o] = "closed"
           => /\ "INTERNAL_REF" \notin flag'[o]
              /\ held[o] = 0 => life'[o] = "dead"]_vars

\* The connect callback of an object never starts once uv_close was called
\* on it: a cancelled connection attempt is not reported.
NoConnectAfterClose ==
    [][\A o \in Obj : frame = None /\ frame' = [cb |-> "connect", obj |-> o]
           => uv[o] \notin {"closing", "closed"}]_vars

\* UVTcp implements the contract KeepAlive states.
Status(o) ==
    IF life[o] # "live" THEN life[o]
    ELSE IF "INTERNAL_REF" \in flag[o] THEN "pinned" ELSE "loose"
Handle(o) == IF uv[o] \in {"none", "closing", "closed"} THEN uv[o] ELSE "open"
Contract == INSTANCE KeepAlive WITH
    status <- [o \in Obj |-> Status(o)],
    handle <- [o \in Obj |-> Handle(o)],
    everPinned <- {o \in Obj : pinned[o]},
    broken <- crashed
Implements == Contract!Spec

\* A socket with a self reference on which close was called, or whose error
\* callback has started, is closed in the end.
Closing(o) == "CLOSING_START" \in flag[o] \/ frame = [cb |-> "error", obj |-> o]
CloseCompletes ==
    \A o \in Obj : (Closing(o) /\ pinned[o]) ~> (uv[o] = "closed" \/ crashed)
=============================================================================
