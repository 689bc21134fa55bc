------------------------------- MODULE UVUdp -------------------------------
(***************************************************************************)
(* UVUdp objects (src/src/uv_udp.cpp, src/src/uv_udp.h).  The design is    *)
(* that of UVTcp, with three differences: only setCallback takes the self  *)
(* reference, it adds it without looking at the bit, and close() passes    *)
(* the handle to uv_close however often it is called.                      *)
(*                                                                         *)
(* Nothing keeps a script from using a socket after close().  libuv then   *)
(* opens a socket on the handle again: bind, setCallback and sendTo work   *)
(* on a closed handle, but libuv aborts if it finds a socket on a handle   *)
(* whose close it is about to finish.                                      *)
(***************************************************************************)
EXTENDS Naturals

CONSTANTS
    Obj,            \* the UVUdp objects a request may create
    None,           \* no user callback is running
    MaxRefs,        \* bound: references the script keeps to one object
    MaxSends,       \* bound: uv_udp_send requests outstanding on one handle
    CallbackSets    \* the arguments of setCallback: which of the three are not null

Flags     == {"INTERNAL_REF", "HANDLE_START", "READ_START"}
Callbacks == {"recv", "send", "error"}

\* closing: uv_close was called; ending: libuv cancels the sends that are left
\* and then calls close_cb; reopened: closed, and then used again.
UvStates  == {"none", "open", "closing", "ending", "closed", "reopened"}

ASSUME NoneAssumption == None \notin [cb : Callbacks, obj : Obj]
ASSUME BoundAssumption ==
    /\ MaxRefs \in Nat \ {0}
    /\ MaxSends \in Nat
    /\ CallbackSets \subseteq SUBSET Callbacks

VARIABLES
    life,       \* unborn, live, or dead once release() has deleted the handle
    rc,         \* the object's reference count
    held,       \* how many of those references the script holds
    flag,       \* udp_handle->flag
    cb,         \* the callback Variants that are not null
    uv,         \* libuv: state of the handle
    receiving,  \* libuv: the handle is polled for datagrams
    sends,      \* libuv: send requests whose send_cb is due
    bound,      \* libuv: the handle has a socket with a local address
    sockPort,   \* the handle keeps the local address in sockAddr and sockPort
    frame,      \* the user callback that is running, or None
    pinned,     \* history: setCallback has taken the self reference since the
                \* handle was opened
    again,      \* history: setCallback has added a reference to that one
    fault       \* freed: a freed handle was used; abort: uv_close was called twice,
                \* or found a socket on the handle it was to finish

objVars == <<life, rc, held>>
uvVars  == <<uv, receiving, sends>>
addrVars == <<bound, sockPort>>
vars    == <<life, rc, held, flag, cb, uv, receiving, sends, addrVars, frame, pinned, again, fault>>

InFrame(o)     == frame # None /\ frame.obj = o

\* libuv does not return to the script while it ends a close, except in the
\* callbacks of the cancelled sends.
ScriptRuns     == fault = "none" /\ (frame # None \/ \A p \in Obj : uv[p] # "ending")
Reachable(o)   == ScriptRuns /\ life[o] = "live" /\ (held[o] > 0 \/ InFrame(o))
Deliverable(o) == /\ fault = "none" /\ frame = None /\ life[o] = "live"
                  /\ \A p \in Obj \ {o} : uv[p] # "ending"

\* Faulty variants of the definitions below.  The specification does not use
\* them; each makes one of the properties at the end of this module fail.
RecvStartOk_Always(o) == TRUE
SelfRefs_Forgotten == 0
ReleasedFlags_KeepsRef(f) == f \ {"READ_START", "HANDLE_START"}
SendsLeft_Cancelled(o) == IF uv[o] = "ending" THEN sends[o] ELSE sends[o] - 1

\* uv_udp_recv_start refuses a socket that is receiving, and nothing else.
RecvStartOk(o) == ~receiving[o]

\* bind, setCallback and sendTo give a closed handle a new socket.
Opened(o) == [uv EXCEPT ![o] = IF @ = "closed" THEN "reopened" ELSE @]

\* What setCallback adds to the reference count.
SelfRefs == 1

\* releaseHandle clears its three bits; uv_udp_recv_stop when READ_START was set.
ReleasedFlags(f) == f \ {"READ_START", "HANDLE_START", "INTERNAL_REF"}
RecvStopped(f, r) == IF "READ_START" \in f THEN FALSE ELSE r

\* One reference goes; with the last one sweep() releases and deletes the
\* handle, without uv_close.
decRefAndRelease(o, f, r) ==
    LET last == rc[o] = 1 IN
    /\ rc' = [rc EXCEPT ![o] = @ - 1]
    /\ life' = [life EXCEPT ![o] = IF last THEN "dead" ELSE @]
    /\ cb' = [cb EXCEPT ![o] = IF last THEN {} ELSE @]
    /\ flag' = [flag EXCEPT ![o] = IF last THEN ReleasedFlags(f) ELSE f]
    /\ receiving' = [receiving EXCEPT ![o] = IF last THEN RecvStopped(f, r) ELSE r]

\* vm_call_user_func: the arguments hold a reference while the callback runs.
CallUser(name, o) ==
    IF name \in cb[o]
    THEN /\ frame' = [cb |-> name, obj |-> o]
         /\ rc' = [rc EXCEPT ![o] = @ + 1]
    ELSE UNCHANGED <<frame, rc>>

-----------------------------------------------------------------------------
(* What the script does *)

Construct(o) ==
    /\ ScriptRuns /\ life[o] = "unborn"
    /\ life' = [life EXCEPT ![o] = "live"]
    /\ rc' = [rc EXCEPT ![o] = 1]
    /\ held' = [held EXCEPT ![o] = 1]
    /\ uv' = [uv EXCEPT ![o] = "open"]
    /\ UNCHANGED <<flag, cb, receiving, sends, frame, addrVars, pinned, again, fault>>

Share(o) ==
    /\ Reachable(o) /\ held[o] < MaxRefs
    /\ held' = [held EXCEPT ![o] = @ + 1]
    /\ rc' = [rc EXCEPT ![o] = @ + 1]
    /\ UNCHANGED <<life, flag, cb, uvVars, frame, addrVars, pinned, again, fault>>

Drop(o) ==
    /\ ScriptRuns /\ life[o] = "live" /\ held[o] > 0
    /\ held' = [held EXCEPT ![o] = @ - 1]
    /\ decRefAndRelease(o, flag[o], receiving[o])
    /\ UNCHANGED <<uv, sends, frame, addrVars, pinned, again, fault>>

\* bind, when uv_udp_bind succeeds: a socket is bound once.
bind(o) ==
    /\ Reachable(o) /\ ~bound[o]
    /\ uv' = Opened(o)
    /\ bound' = [bound EXCEPT ![o] = TRUE]
    /\ flag' = [flag EXCEPT ![o] = @ \cup {"HANDLE_START"}]
    /\ pinned' = [pinned EXCEPT ![o] = @ /\ uv[o] # "closed"]
    /\ UNCHANGED <<objVars, cb, receiving, sends, sockPort, frame, again, fault>>

\* uv_close aborts on a handle that is closing or closed, with a new socket or
\* without; it closes the socket.
CloseAborts(o) == uv[o] # "open"
close(o) ==
    /\ Reachable(o)
    /\ IF CloseAborts(o)
       THEN fault' = "abort" /\ UNCHANGED <<uv, receiving, bound>>
       ELSE /\ uv' = [uv EXCEPT ![o] = "closing"]
            /\ receiving' = [receiving EXCEPT ![o] = FALSE]
            /\ bound' = [bound EXCEPT ![o] = FALSE]
            /\ UNCHANGED fault
    /\ UNCHANGED <<objVars, flag, cb, sends, frame, sockPort, pinned, again>>

\* setCallback: nothing changes when uv_udp_recv_start refuses.  libuv binds a
\* socket that has no address before it receives or sends.
setCallback(o, S) ==
    /\ Reachable(o) /\ RecvStartOk(o)
    /\ cb' = [cb EXCEPT ![o] = S]
    /\ flag' = [flag EXCEPT ![o] = @ \cup {"HANDLE_START", "READ_START", "INTERNAL_REF"}]
    /\ rc' = [rc EXCEPT ![o] = @ + SelfRefs]
    /\ again' = [again EXCEPT ![o] = @ \/ "INTERNAL_REF" \in flag[o]]
    /\ uv' = Opened(o)
    /\ receiving' = [receiving EXCEPT ![o] = TRUE]
    /\ pinned' = [pinned EXCEPT ![o] = TRUE]
    /\ bound' = [bound EXCEPT ![o] = TRUE]
    /\ UNCHANGED <<life, held, sends, sockPort, frame, fault>>

\* sendTo, when the address is valid and uv_udp_send accepts the datagram; it
\* takes no reference.
sendTo(o) ==
    /\ Reachable(o) /\ sends[o] < MaxSends
    /\ uv' = Opened(o)
    /\ sends' = [sends EXCEPT ![o] = @ + 1]
    /\ bound' = [bound EXCEPT ![o] = TRUE]
    /\ pinned' = [pinned EXCEPT ![o] = @ /\ uv[o] # "closed"]
    /\ UNCHANGED <<objVars, flag, cb, receiving, sockPort, frame, again, fault>>

\* getSockname, getSockport: libuv is asked while sockPort is 0, and answers
\* for a bound socket; the answer is kept when the socket is closed.
SocknameKnown(o) == bound[o]
getSockname(o) ==
    /\ Reachable(o) /\ ~sockPort[o] /\ SocknameKnown(o)
    /\ sockPort' = [sockPort EXCEPT ![o] = TRUE]
    /\ UNCHANGED <<objVars, flag, cb, uvVars, bound, frame, pinned, again, fault>>

-----------------------------------------------------------------------------
(* What libuv calls back *)

\* Sent, failed, or cancelled by uv_close
SendsLeft(o) == sends[o] - 1
send_cb(o) ==
    /\ Deliverable(o) /\ sends[o] > 0
    /\ sends' = [sends EXCEPT ![o] = SendsLeft(o)]
    /\ CallUser("send", o)
    /\ UNCHANGED <<life, held, flag, cb, uv, receiving, addrVars, pinned, again, fault>>

\* A datagram goes to the receive callback; everything else, the end of a
\* batch (nread = 0) included, to the error callback.
recv_cb(o, name) ==
    /\ Deliverable(o) /\ receiving[o] /\ name \in cb[o]
    /\ CallUser(name, o)
    /\ UNCHANGED <<life, held, flag, cb, uvVars, addrVars, pinned, again, fault>>

\* libuv ends the close, the callbacks of cancelled sends first.  It asserts
\* that the handle has no socket.
EndClose(o) ==
    /\ Deliverable(o) /\ uv[o] = "closing"
    /\ IF bound[o]
       THEN fault' = "abort" /\ UNCHANGED uv
       ELSE uv' = [uv EXCEPT ![o] = "ending"] /\ UNCHANGED fault
    /\ UNCHANGED <<objVars, flag, cb, receiving, sends, frame, addrVars, pinned, again>>

close_cb(o) ==
    /\ Deliverable(o) /\ uv[o] = "ending" /\ sends[o] = 0
    /\ uv' = [uv EXCEPT ![o] = "closed"]
    /\ IF "INTERNAL_REF" \in flag[o]
       THEN decRefAndRelease(o, ReleasedFlags(flag[o]), RecvStopped(flag[o], receiving[o]))
       ELSE /\ flag' = [flag EXCEPT ![o] = ReleasedFlags(@)]
            /\ UNCHANGED <<life, rc, cb, receiving>>
    /\ UNCHANGED <<held, sends, frame, addrVars, pinned, again, fault>>

\* The callback's arguments are freed; libuv goes on using the handle.
Return ==
    /\ fault = "none" /\ frame # None
    /\ frame' = None
    /\ decRefAndRelease(frame.obj, flag[frame.obj], receiving[frame.obj])
    /\ fault' = IF rc[frame.obj] = 1 THEN "freed" ELSE fault
    /\ UNCHANGED <<held, uv, sends, addrVars, pinned, again>>

\* A handle was deleted that libuv still has in a list or a request queue; a
\* closed handle is in no list, a reopened one only in those of its requests.
Orphan(o) == life[o] = "dead" /\ uv[o] # "closed"
LibuvTouchesFreed(o) ==
    /\ fault = "none" /\ Orphan(o) /\ (uv[o] = "reopened" => sends[o] > 0)
    /\ fault' = "freed"
    /\ UNCHANGED <<objVars, flag, cb, uvVars, frame, addrVars, pinned, again>>

-----------------------------------------------------------------------------
Init ==
    /\ life = [o \in Obj |-> "unborn"]
    /\ rc = [o \in Obj |-> 0]
    /\ held = [o \in Obj |-> 0]
    /\ flag = [o \in Obj |-> {}]
    /\ cb = [o \in Obj |-> {}]
    /\ uv = [o \in Obj |-> "none"]
    /\ receiving = [o \in Obj |-> FALSE]
    /\ sends = [o \in Obj |-> 0]
    /\ bound = [o \in Obj |-> FALSE]
    /\ sockPort = [o \in Obj |-> FALSE]
    /\ frame = None
    /\ pinned = [o \in Obj |-> FALSE]
    /\ again = [o \in Obj |-> FALSE]
    /\ fault = "none"

ScriptStep(o) ==
    \/ Construct(o) \/ Share(o) \/ Drop(o)
    \/ bind(o) \/ close(o) \/ sendTo(o) \/ getSockname(o)
    \/ \E S \in CallbackSets : setCallback(o, S)

LoopStep(o) ==
    \/ send_cb(o)
    \/ \E name \in {"recv", "error"} : recv_cb(o, name)
    \/ EndClose(o) \/ close_cb(o)
    \/ LibuvTouchesFreed(o)

Next == Return \/ \E o \in Obj : ScriptStep(o) \/ LoopStep(o)

Spec == Init /\ [][Next]_vars

\* uv_run ends every iteration with the closing handles; callbacks return and
\* the script keeps running the loop.
CloseStep(o) == uv[o] \in {"closing", "ending"} /\ (send_cb(o) \/ EndClose(o) \/ close_cb(o))
FairSpec == Spec /\ WF_vars(Return) /\ \A o \in Obj : SF_vars(CloseStep(o))

-----------------------------------------------------------------------------
(* Properties *)

\* The values every variable may take.
TypeOK ==
    /\ life \in [Obj -> {"unborn", "live", "dead"}]
    /\ rc \in [Obj -> 0..MaxRefs + 3]
    /\ held \in [Obj -> 0..MaxRefs]
    /\ flag \in [Obj -> SUBSET Flags]
    /\ cb \in [Obj -> SUBSET Callbacks]
    /\ uv \in [Obj -> UvStates]
    /\ receiving \in [Obj -> BOOLEAN]
    /\ sends \in [Obj -> 0..MaxSends]
    /\ bound \in [Obj -> BOOLEAN]
    /\ sockPort \in [Obj -> BOOLEAN]
    /\ frame \in {None} \cup [cb : Callbacks, obj : Obj]
    /\ pinned \in [Obj -> BOOLEAN]
    /\ again \in [Obj -> BOOLEAN]
    /\ fault \in {"none", "freed", "abort"}

\* The count is what the script holds, one while INTERNAL_REF is set and one
\* while a callback runs.  setCallback adds its reference without looking at
\* the bit, but it adds a second one only to a socket that was closed: either
\* libuv will abort before close_cb, or the callback of a cancelled send made
\* the call and the reference stays for ever.
RefCountExact ==
    \A o \in Obj :
        /\ rc[o] = held[o] + (IF "INTERNAL_REF" \in flag[o] THEN 1 ELSE 0)
                           + (IF again[o] THEN 1 ELSE 0)
                           + (IF InFrame(o) THEN 1 ELSE 0)
        /\ again[o] => uv[o] # "open" /\ (uv[o] = "closing" => bound[o])

\* A handle libuv receives from belongs to a live object with its own
\* reference, and once setCallback was called the handle is deleted only when
\* libuv has let go of it and every send was answered.  (A closed socket that
\* sends again must call setCallback again for this.)
SafeDelivery ==
    \A o \in Obj :
        /\ receiving[o] => life[o] = "live" /\ "INTERNAL_REF" \in flag[o]
        /\ pinned[o] /\ life[o] = "dead" => uv[o] = "closed" /\ sends[o] = 0

\* Freed memory is used only after an object died that had no reference to
\* itself: setCallback was never called successfully, or the reference went
\* with the close and the script went on to send from the closed socket.
FreedOnlyUnpinned == fault = "freed" => \E o \in Obj : Orphan(o) /\ ~pinned[o]

\* What these rest on: how the life of an object, its self reference, what
\* libuv has to do for it and the kept address hang together.
Lifecycle ==
    \A o \in Obj :
        /\ life[o] = "unborn" <=> uv[o] = "none"
        /\ life[o] = "unborn" => /\ ~pinned[o] /\ ~again[o] /\ flag[o] = {}
                                /\ sends[o] = 0 /\ ~bound[o]
        /\ life[o] = "live" => rc[o] > 0
        /\ life[o] # "live" => held[o] = 0
        /\ "INTERNAL_REF" \in flag[o] <=> pinned[o] /\ uv[o] # "closed"
        /\ "INTERNAL_REF" \in flag[o] => life[o] = "live"
        /\ "READ_START" \in flag[o] <=> "INTERNAL_REF" \in flag[o]
        /\ "INTERNAL_REF" \in flag[o] /\ uv[o] \in {"open", "reopened"} => receiving[o]
        /\ "INTERNAL_REF" \in flag[o] /\ again[o] => receiving[o]
        /\ receiving[o] => "INTERNAL_REF" \in flag[o] /\ bound[o]
        /\ cb[o] # {} => pinned[o] \/ uv[o] = "reopened"
        /\ uv[o] = "closed" => sends[o] = 0
FrameHeld ==
    frame # None => /\ life[frame.obj] = "live"
                    /\ "INTERNAL_REF" \in flag[frame.obj] \/ uv[frame.obj] = "reopened"

\* The inductive invariant.
IInv == TypeOK /\ RefCountExact /\ SafeDelivery /\ Lifecycle /\ FrameHeld /\ FreedOnlyUnpinned

\* UVUdp implements the contract KeepAlive states.  There a handle that has a
\* socket again is open.
Status(o) ==
    IF life[o] # "live" THEN life[o]
    ELSE IF "INTERNAL_REF" \in flag[o] THEN "pinned" ELSE "loose"
Handle(o) ==
    CASE uv[o] = "ending" -> "closing" [] uv[o] = "reopened" -> "open" [] OTHER -> uv[o]
Contract == INSTANCE KeepAlive WITH
    status <- [o \in Obj |-> Status(o)],
    handle <- [o \in Obj |-> Handle(o)],
    everPinned <- {o \in Obj : pinned[o]},
    broken <- (fault = "freed")
Implements == Contract!Spec

\* A socket with callbacks that is closed once reaches closed, unless the
\* script uses a socket that is being closed: one that sends again from the
\* callback of each cancelled send keeps libuv from ending any close.
CloseCompletes ==
    \A o \in Obj : (uv[o] = "closing" /\ pinned[o])
                      ~> \/ uv[o] = "closed" \/ fault # "none"
                         \/ \E p \in Obj : uv[p] \in {"closing", "ending"} /\ bound[p]
=============================================================================
