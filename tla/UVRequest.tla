----------------------------- MODULE UVRequest -----------------------------
(***************************************************************************)
(* Requests, loops and the sockets on them: UVLoop (src/src/uv_loop.cpp),  *)
(* composed with UVUdp.  A script makes a loop of its own with new UVLoop, *)
(* or gets the process's default loop, and puts each socket on one of      *)
(* them; callbacks come only while UVLoop::run runs that loop.  A socket   *)
(* keeps a reference to the loop object it was given (SET_LOOP), and a     *)
(* loop object that is released closes and deletes its uv_loop_t unless it *)
(* is the default loop.  When the request ends HHVM sweeps the objects     *)
(* that are left in any order; the default loop goes on to the next one.   *)
(*                                                                         *)
(* The script runs one loop at a time, has at most one of its own, and     *)
(* does not end within a callback.                                         *)
(***************************************************************************)
EXTENDS UVUdp

CONSTANTS
    MaxRequests,    \* bound: requests the process serves
    Reused          \* bound: the sockets that the script may use after close()

ASSUME MaxRequestsAssumption == MaxRequests \in Nat \ {0}

Loops == {"own", "default"}
Modes == {"RUN_DEFAULT", "RUN_ONCE"}

VARIABLES
    request,    \* which request the process serves
    sweeping,   \* the request has ended
    uvloop,     \* the uv_loop_t: none, live, deleted
    loopHeld,   \* the loops whose UVLoop object the script holds
    unswept,    \* the UVLoop objects that the sweep still has to visit
    loopOf,     \* the loop of a socket; gone for an own loop of an earlier request
    running,    \* the loop that UVLoop::run runs, in which mode
    stop,       \* libuv: the loops whose stop flag is set
    asked,      \* history: the loops on which this request has called stop
    early,      \* history: a RUN_DEFAULT that nobody stopped returned with work left
    swept,      \* history: sockets that the end of a request took away
    loopFault   \* freed memory was used while a loop or a socket was released

loopVars == <<uvloop, loopHeld, running, stop, asked, early>>
endVars  == <<request, sweeping, unswept, swept>>
reqVars  == <<vars, loopVars, endVars, loopOf, loopFault>>
Idle     == [loop |-> None, mode |-> None]

Sound    == fault = "none" /\ ~loopFault
MayAct   == Sound /\ ~sweeping /\ (running = Idle \/ frame # None)

\* Faulty variants of the definitions below; the specification does not use
\* them, and each makes one of the properties fail.
LoopRef_NotSet(o) == FALSE
Deletes_Any(l) == TRUE
StopTarget_Default(l) == "default"

\* SET_LOOP: the socket refers to the loop object it was constructed with.
LoopRef(o) == life[o] = "live" /\ loopOf[o] = "own"
LoopObjects == loopHeld \cup (IF running = Idle THEN {} ELSE {running.loop})
                        \cup (IF \E o \in Obj : LoopRef(o) THEN {"own"} ELSE {})

\* UVLoopData::sweep deletes every loop but the default one.
Deletes(l) == l # "default"

\* uv_loop_close looks at every handle of a loop that has no request pending;
\* one that was closed is no longer in the list, reopened or not.
CloseTouchesFreed(l) ==
    /\ \A o \in Obj : loopOf[o] = l => sends[o] = 0
    /\ \E o \in Obj : loopOf[o] = l /\ Orphan(o) /\ uv[o] # "reopened"

\* The loops in S are closed and deleted, whatever uv_loop_close says.
Delete(S) ==
    /\ uvloop' = [l \in Loops |-> IF l \in S THEN "deleted" ELSE uvloop[l]]
    /\ loopFault' = (loopFault \/ \E l \in S : CloseTouchesFreed(l)')

\* A UVLoop object that lost its last reference in this step is released.
ReleaseLoops == Delete({l \in LoopObjects : l \notin LoopObjects' /\ Deletes(l)})

\* libuv: the loop has an active handle, a request or a closing handle.  The
\* end of its close has taken a handle from those that count as active.
Closing(o) == uv[o] \in {"closing", "ending"}
Alive(l) == \E o \in Obj :
    /\ loopOf[o] = l
    /\ \/ receiving[o] /\ uv[o] # "reopened"
       \/ sends[o] > 0
       \/ Closing(o)

-----------------------------------------------------------------------------
(* Loops *)

\* new UVLoop
NewLoop ==
    /\ MayAct /\ uvloop["own"] = "none"
    /\ uvloop' = [uvloop EXCEPT !["own"] = "live"]
    /\ loopHeld' = loopHeld \cup {"own"}
    /\ UNCHANGED <<vars, endVars, loopOf, running, stop, asked, early, loopFault>>

\* The object makes its own loop first; makeDefaultLoop replaces and leaks it.
makeDefaultLoop ==
    /\ MayAct /\ "default" \notin LoopObjects
    /\ loopHeld' = loopHeld \cup {"default"}
    /\ UNCHANGED <<vars, endVars, loopOf, uvloop, running, stop, asked, early, loopFault>>

DropLoop(l) ==
    /\ MayAct /\ l \in loopHeld
    /\ loopHeld' = loopHeld \ {l}
    /\ UNCHANGED <<vars, endVars, loopOf, running, stop, asked, early>>
    /\ ReleaseLoops

StopTarget(l) == l
StopLoop(l) ==
    /\ MayAct /\ l \in loopHeld
    /\ stop' = stop \cup {StopTarget(l)}
    /\ asked' = asked \cup {l}
    /\ UNCHANGED <<vars, endVars, loopOf, uvloop, loopHeld, running, early, loopFault>>

\* uv_run clears the stop flag when it returns, and returns at once if it is
\* set or there is nothing to do.
Returned(l, mode) ==
    /\ running' = Idle
    /\ stop' = stop \ {l}
    /\ early' = (early \cup (IF mode = "RUN_DEFAULT" /\ Alive(l) /\ l \notin asked
                             THEN {<<l, request>>} ELSE {}))
    /\ UNCHANGED <<loopHeld, asked>>

Run(l, mode) ==
    /\ MayAct /\ running = Idle /\ l \in loopHeld
    /\ IF l \in stop \/ ~Alive(l)
       THEN Returned(l, mode)
       ELSE running' = [loop |-> l, mode |-> mode] /\ UNCHANGED <<loopHeld, stop, asked, early>>
    /\ UNCHANGED <<vars, endVars, loopOf, uvloop, loopFault>>

RunReturns ==
    /\ Sound /\ running # Idle /\ frame = None /\ \A o \in Obj : uv[o] # "ending"
    /\ running.loop \in stop \/ ~Alive(running.loop) \/ running.mode = "RUN_ONCE"
    /\ Returned(running.loop, running.mode)
    /\ UNCHANGED <<vars, endVars, loopOf>>
    /\ ReleaseLoops

-----------------------------------------------------------------------------
(* Sockets on their loops *)

ConstructOn(o, l) ==
    /\ MayAct /\ (l = "own" => l \in loopHeld) /\ Construct(o)
    /\ loopOf' = [loopOf EXCEPT ![o] = l]
    /\ loopFault' = (uvloop[l] = "deleted")
    /\ UNCHANGED <<loopVars, endVars>>

\* A method of a socket, while the script runs.
MayUse(o) == uv[o] = "open" \/ o \in Reused
Call(o) ==
    /\ MayAct
    /\ \/ Drop(o) \/ close(o)
       \/ MayUse(o) /\ (bind(o) \/ sendTo(o) \/ \E S \in CallbackSets : setCallback(o, S))

\* A callback of the loop that runs, and its return.
Deliver(o) ==
    /\ running # Idle /\ running.loop = loopOf[o]
    /\ \/ send_cb(o) \/ EndClose(o) \/ close_cb(o)
       \/ \E name \in {"recv", "error"} : recv_cb(o, name)

\* A loop that still exists has the handle of a dead socket in its lists.
Touch(o) == loopOf[o] \in Loops /\ uvloop[loopOf[o]] = "live" /\ LibuvTouchesFreed(o)

SocketStep ==
    /\ ~loopFault /\ ~sweeping
    /\ Return \/ \E o \in Obj : Call(o) \/ Deliver(o) \/ Touch(o)
    /\ UNCHANGED <<endVars, loopOf, loopHeld, running, stop, asked, early>>
    /\ ReleaseLoops

-----------------------------------------------------------------------------
(* The end of a request *)

EndRequest ==
    /\ MayAct /\ running = Idle
    /\ sweeping' = TRUE
    /\ unswept' = LoopObjects
    /\ UNCHANGED <<vars, loopVars, request, swept, loopOf, loopFault>>

\* UVUdpData::sweep: the handle is deleted without uv_close; stopping the
\* receiving on its socket, or making an active handle no longer count for the
\* loop, looks at the loop.
SweepTouchesLoop(o) ==
    \/ "READ_START" \in flag[o] /\ bound[o]
    \/ "HANDLE_START" \in flag[o] /\ uv[o] = "open" /\ sends[o] > 0
SweepSocket(o) ==
    /\ Sound /\ sweeping /\ life[o] = "live"
    /\ life' = [life EXCEPT ![o] = "dead"]
    /\ rc' = [rc EXCEPT ![o] = 0]
    /\ held' = [held EXCEPT ![o] = 0]
    /\ cb' = [cb EXCEPT ![o] = {}]
    /\ flag' = [flag EXCEPT ![o] = ReleasedFlags(@)]
    /\ receiving' = [receiving EXCEPT ![o] = RecvStopped(flag[o], @)]
    /\ again' = [again EXCEPT ![o] = FALSE]
    /\ swept' = swept \cup {o}
    /\ loopFault' = (SweepTouchesLoop(o) /\ uvloop[loopOf[o]] = "deleted")
    /\ UNCHANGED <<uv, sends, addrVars, frame, pinned, fault>>
    /\ UNCHANGED <<loopVars, request, sweeping, unswept, loopOf>>

SweepLoop(l) ==
    /\ Sound /\ sweeping /\ l \in unswept
    /\ unswept' = unswept \ {l}
    /\ UNCHANGED <<vars, request, sweeping, swept, loopOf>>
    /\ UNCHANGED <<loopHeld, running, stop, asked, early>>
    /\ Delete(IF Deletes(l) THEN {l} ELSE {})

\* The default loop, its stop flag and what is left in its lists stay.
NextRequest ==
    /\ Sound /\ sweeping /\ request < MaxRequests
    /\ unswept = {} /\ \A o \in Obj : life[o] # "live"
    /\ request' = request + 1
    /\ sweeping' = FALSE
    /\ uvloop' = [uvloop EXCEPT !["own"] = "none"]
    /\ loopHeld' = {} /\ asked' = {}
    /\ stop' = stop \ {"own"}
    /\ loopOf' = [o \in Obj |-> IF loopOf[o] = "own" THEN "gone" ELSE loopOf[o]]
    /\ UNCHANGED <<vars, running, early, unswept, swept, loopFault>>

-----------------------------------------------------------------------------
ReqInit ==
    /\ Init
    /\ request = 1 /\ sweeping = FALSE
    /\ uvloop = [own |-> "none", default |-> "live"]
    /\ loopHeld = {} /\ unswept = {} /\ stop = {} /\ asked = {} /\ early = {} /\ swept = {}
    /\ loopOf = [o \in Obj |-> "none"]
    /\ running = Idle
    /\ loopFault = FALSE

LoopCall(l) ==
    DropLoop(l) \/ StopLoop(l) \/ \E mode \in Modes : Run(l, mode)

ReqNext ==
    \/ NewLoop \/ makeDefaultLoop \/ RunReturns
    \/ \E l \in Loops : LoopCall(l) \/ SweepLoop(l) \/ \E o \in Obj : ConstructOn(o, l)
    \/ SocketStep
    \/ EndRequest \/ NextRequest \/ \E o \in Obj : SweepSocket(o)

ReqSpec == ReqInit /\ [][ReqNext]_reqVars

-----------------------------------------------------------------------------
(* Properties *)

\* While the script runs, a loop that a live socket is on, or that is being
\* run, has not been deleted, even if the script has dropped its UVLoop object.
LoopOutlivesSockets ==
    ~sweeping =>
        /\ \A o \in Obj : life[o] = "live" => uvloop[loopOf[o]] = "live"
        /\ running # Idle => uvloop[running.loop] = "live"

\* What it rests on: a live socket is on a loop of this request, the default
\* loop is never deleted, the script's own only when nothing refers to it.
LoopInv ==
    /\ life \in [Obj -> {"unborn", "live", "dead"}]
    /\ loopOf \in [Obj -> Loops \cup {"none", "gone"}]
    /\ uvloop \in [Loops -> {"none", "live", "deleted"}]
    /\ loopHeld \subseteq Loops
    /\ running \in {Idle} \cup [loop : Loops, mode : Modes]
    /\ sweeping => running = Idle
    /\ uvloop["default"] = "live"
    /\ \A o \in Obj : life[o] = "live" => loopOf[o] \in Loops
    /\ ~sweeping /\ "own" \in LoopObjects => uvloop["own"] = "live"

\* Freed memory is used only because of a socket that was deleted before its
\* handle was closed: one that had no reference to itself (setCallback was not
\* called, or the script sent from a closed socket), or one the end of a
\* request took away.  A script that closes every socket, does not use it any
\* more and runs the loop until the close callbacks came is safe, and so is
\* the next one.
UnsafeOnlyLeftOpen ==
    fault = "freed" \/ loopFault =>
        \E o \in Obj : Orphan(o) /\ (~pinned[o] \/ o \in swept)

\* A run in the default mode that this request did not stop ends with work
\* left only on the default loop, and only because a request before has set
\* the stop flag there and not used it up.
EarlyOnlyStale == \A e \in early : e[1] = "default" /\ e[2] > 1

\* What it rests on: a flag that is set was set in this request, or on the
\* default loop in an earlier one.
StopInv ==
    /\ request \in Nat \ {0} /\ stop \subseteq Loops
    /\ stop \subseteq asked \cup (IF request > 1 THEN {"default"} ELSE {})
    /\ EarlyOnlyStale

\* What UnsafeOnlyLeftOpen rests on, beside the invariant of UVUdp: no
\* callback is running when a request ends, the end of a request destroys what
\* it sweeps, and a release of a loop or a socket meets freed memory only at
\* a handle that was deleted open.
SweepInv ==
    /\ frame # None => running # Idle
    /\ pinned \in [Obj -> BOOLEAN]
    /\ \A o \in Obj : o \in swept => life[o] = "dead"
    /\ loopFault => \E o \in Obj : Orphan(o)
=============================================================================
