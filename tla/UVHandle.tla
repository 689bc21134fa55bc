------------------------------ MODULE UVHandle ------------------------------
(***************************************************************************)
(* UVTimer, UVIdle and UVSignal objects (src/src/uv_timer.cpp,             *)
(* uv_idle.cpp, uv_signal.cpp) sharing one loop.  The three classes have   *)
(* one design: start() hands the handle to libuv and adds a reference the  *)
(* object holds to itself, stop() takes the handle back and drops one      *)
(* reference, and __destruct stops, unrefs and deletes the handle without  *)
(* uv_close.  They differ in when libuv stops by itself and in what        *)
(* uv_*_start may refuse.                                                  *)
(*                                                                         *)
(* As in UVTcp, callbacks do not nest, and the script acts inside a        *)
(* callback or between two calls of $loop->run.                            *)
(***************************************************************************)
EXTENDS Naturals

CONSTANTS
    Timers, Idles, Signals,     \* the objects of each class
    None,                       \* no callback is running
    MaxRefs,                    \* bound: references the script keeps to one object
    MaxTaken                    \* bound: references start() has taken and stop() not dropped

Obj == Timers \cup Idles \cup Signals

ASSUME ClassAssumption ==
    /\ Timers \cap Idles = {} /\ Timers \cap Signals = {} /\ Idles \cap Signals = {}
    /\ None \notin Obj
ASSUME BoundAssumption == MaxRefs \in Nat \ {0} /\ MaxTaken \in Nat \ {0}

VARIABLES
    life,       \* unborn, live, or dead once __destruct has deleted the handle
    rc,         \* the object's reference count
    held,       \* how many of those references the script holds
    start,      \* handle->start
    active,     \* libuv: the handle's watcher is running
    repeat,     \* libuv: a timer starts again when it has fired
    taken,      \* history: incRefCount calls of start() minus decRef calls of stop()
    again,      \* history: start() was called on an object whose start bit was set
    ended,      \* history: how the watcher of a started object came to stand still
    frame,      \* the object whose callback runs, or None
    fault       \* use: freed memory used; queue: a freed neighbour in the loop's list

vars == <<life, rc, held, start, active, repeat, taken, again, ended, frame, fault>>

-----------------------------------------------------------------------------
(* Building blocks *)

Reachable(o)   == fault = "none" /\ life[o] = "live" /\ (held[o] > 0 \/ frame = o)
Deliverable(o) == fault = "none" /\ frame = None /\ active[o]

\* Faulty variants of the definitions below.  The specification does not use
\* them; each makes one of the properties at the end of this module fail.
StartRefs_None(o) == 0
StopRefs_None(o) == 0
StopRefs_Two(o) == 2
StillActive_Never(o) == FALSE
FlagAfterStart_Unset(o) == start[o]

\* What start() adds to the reference count: one, whether or not the object
\* is started already.
StartRefs(o) == 1
StopRefs(o)  == 1

\* releaseHandle in __destruct: stops the watcher if the start bit is set.
Destroyed(o) == IF start[o] THEN [active EXCEPT ![o] = FALSE] ELSE active

\* n references to o go; without any left, __destruct runs.
decRefAndRelease(o, n) ==
    /\ rc' = [rc EXCEPT ![o] = @ - n]
    /\ life' = [life EXCEPT ![o] = IF rc[o] = n THEN "dead" ELSE @]

\* libuv stops a one-shot timer before it calls back; everything else goes on.
StillActive(o) == o \in Timers => repeat[o]

\* Where the start bit ends up when uv_*_start returns 0.
FlagAfterStart(o) == TRUE

-----------------------------------------------------------------------------
(* What the script does *)

Construct(o) ==
    /\ fault = "none" /\ life[o] = "unborn"
    /\ life' = [life EXCEPT ![o] = "live"]
    /\ rc' = [rc EXCEPT ![o] = 1]
    /\ held' = [held EXCEPT ![o] = 1]
    /\ UNCHANGED <<start, active, repeat, taken, again, ended, frame, fault>>

Share(o) ==
    /\ Reachable(o) /\ held[o] < MaxRefs
    /\ held' = [held EXCEPT ![o] = @ + 1]
    /\ rc' = [rc EXCEPT ![o] = @ + 1]
    /\ UNCHANGED <<life, start, active, repeat, taken, again, ended, frame, fault>>

Drop(o) ==
    /\ fault = "none" /\ life[o] = "live" /\ held[o] > 0
    /\ held' = [held EXCEPT ![o] = @ - 1]
    /\ decRefAndRelease(o, 1)
    /\ active' = IF rc[o] = 1 THEN Destroyed(o) ELSE active
    /\ UNCHANGED <<start, repeat, taken, again, ended, frame, fault>>

\* uv_*_start has returned 0.
Started(o, r) ==
    /\ Reachable(o) /\ taken[o] < MaxTaken
    /\ active' = [active EXCEPT ![o] = TRUE]
    /\ repeat' = [repeat EXCEPT ![o] = r]
    /\ start' = [start EXCEPT ![o] = FlagAfterStart(o)]
    /\ rc' = [rc EXCEPT ![o] = @ + StartRefs(o)]
    /\ taken' = [taken EXCEPT ![o] = @ + 1]
    /\ again' = [again EXCEPT ![o] = @ \/ start[o]]
    /\ ended' = [ended EXCEPT ![o] = "no"]
    /\ UNCHANGED <<life, held, frame, fault>>

\* uv_timer_start arms a timer anew, uv_idle_start leaves a running handle
\* alone: neither refuses.  uv_signal_start accepts a signal it can watch.
TimerStart(o, r) == o \in Timers /\ Started(o, r)
IdleStart(o)     == o \in Idles /\ Started(o, FALSE)
SignalStart(o)   == o \in Signals /\ Started(o, FALSE)

\* start on a signal number that cannot be watched: libuv has stopped the
\* watcher of the previous number by then, the start bit stays as it was.
SignalStartFailed(o) ==
    /\ Reachable(o) /\ o \in Signals
    /\ active' = [active EXCEPT ![o] = FALSE]
    /\ ended' = [ended EXCEPT ![o] = "refused"]
    /\ UNCHANGED <<life, rc, held, start, repeat, taken, again, frame, fault>>

\* stop() on a handle whose start bit is set; otherwise it does nothing.
Stopped(o) ==
    /\ Reachable(o) /\ start[o]
    /\ active' = [active EXCEPT ![o] = FALSE]
    /\ start' = [start EXCEPT ![o] = FALSE]
    /\ taken' = [taken EXCEPT ![o] = @ - StopRefs(o)]
    /\ decRefAndRelease(o, StopRefs(o))
    /\ UNCHANGED <<held, repeat, again, ended, frame>>

\* UVTimer clears the bit before it drops the reference, UVIdle and UVSignal
\* after: theirs is a write to a handle that may have been deleted.
WritesFreed(o) == fault' = IF rc[o] = StopRefs(o) THEN "use" ELSE fault
TimerStop(o)  == o \in Timers /\ Stopped(o) /\ UNCHANGED fault
IdleStop(o)   == o \in Idles /\ Stopped(o) /\ WritesFreed(o)
SignalStop(o) == o \in Signals /\ Stopped(o) /\ WritesFreed(o)

-----------------------------------------------------------------------------
(* What libuv calls back *)

\* timer_handle_callback, idle_handle_callback and signal_handle_callback
Fire(o) ==
    /\ Deliverable(o)
    /\ IF life[o] = "live"
       THEN /\ frame' = o
            /\ rc' = [rc EXCEPT ![o] = @ + 1]
            /\ active' = [active EXCEPT ![o] = StillActive(o)]
            /\ ended' = [ended EXCEPT ![o] = IF StillActive(o) THEN @ ELSE "fired"]
            /\ UNCHANGED fault
       ELSE fault' = "use" /\ UNCHANGED <<frame, rc, active, ended>>
    /\ UNCHANGED <<life, held, start, repeat, taken, again>>

\* The callback's arguments are freed.  When this destroys the object, libuv
\* is done with a timer and an idle handle, but counts the dispatched signal
\* in a signal handle.
Return ==
    /\ fault = "none" /\ frame # None
    /\ decRefAndRelease(frame, 1)
    /\ active' = IF rc[frame] = 1 THEN Destroyed(frame) ELSE active
    /\ fault' = IF rc[frame] = 1 /\ frame \in Signals THEN "use" ELSE fault
    /\ frame' = None
    /\ UNCHANGED <<held, start, repeat, taken, again, ended>>

\* The next uv_*_init or uv_close on the loop writes to the neighbours in its
\* list of handles; a deleted handle was never taken out of it.
QueueTouchesFreed(o) ==
    /\ fault = "none" /\ life[o] = "dead"
    /\ fault' = "queue"
    /\ UNCHANGED <<life, rc, held, start, active, repeat, taken, again, ended, frame>>

-----------------------------------------------------------------------------
Init ==
    /\ life = [o \in Obj |-> "unborn"]
    /\ rc = [o \in Obj |-> 0]
    /\ held = [o \in Obj |-> 0]
    /\ start = [o \in Obj |-> FALSE]
    /\ active = [o \in Obj |-> FALSE]
    /\ repeat = [o \in Obj |-> FALSE]
    /\ taken = [o \in Obj |-> 0]
    /\ again = [o \in Obj |-> FALSE]
    /\ ended = [o \in Obj |-> "no"]
    /\ frame = None
    /\ fault = "none"

ScriptStep(o) ==
    \/ Construct(o) \/ Share(o) \/ Drop(o)
    \/ \E r \in BOOLEAN : TimerStart(o, r)
    \/ TimerStop(o)
    \/ IdleStart(o) \/ IdleStop(o)
    \/ SignalStart(o) \/ SignalStartFailed(o) \/ SignalStop(o)

Next == Return \/ \E o \in Obj : ScriptStep(o) \/ Fire(o) \/ QueueTouchesFreed(o)

Spec == Init /\ [][Next]_vars

\* uv_run serves every due watcher again and again; callbacks return and the
\* script keeps running the loop.
FairSpec == Spec /\ WF_vars(Return) /\ \A o \in Obj : SF_vars(Fire(o))

-----------------------------------------------------------------------------
(* Properties *)

\* The values every variable may take.
TypeOK ==
    /\ life \in [Obj -> {"unborn", "live", "dead"}]
    /\ rc \in [Obj -> 0..MaxRefs + MaxTaken + 1]
    /\ held \in [Obj -> 0..MaxRefs]
    /\ start \in [Obj -> BOOLEAN]
    /\ active \in [Obj -> BOOLEAN]
    /\ repeat \in [Obj -> BOOLEAN]
    /\ taken \in [Obj -> 0..MaxTaken]
    /\ again \in [Obj -> BOOLEAN]
    /\ ended \in [Obj -> {"no", "fired", "refused"}]
    /\ frame \in Obj \cup {None}
    /\ fault \in {"none", "use", "queue"}

\* The count is what the script holds, what start() took and stop() has not
\* given back, and one for a running callback: stop() never gives back a
\* reference that start() did not take.  With it, the types.
RefCountExact ==
    /\ TypeOK
    /\ \A o \in Obj : rc[o] = held[o] + taken[o] + (IF frame = o THEN 1 ELSE 0)

\* A watcher that libuv runs belongs to an object that is alive, and that the
\* start bit protects: its destructor or stop() will find it set.
ActiveIsHeld ==
    \A o \in Obj : active[o] => life[o] = "live" /\ start[o] /\ taken[o] > 0

\* An object that neither the script nor a callback refers to and that libuv
\* does not call: nothing can act on it any more, yet it has not been freed.
Stranded(o) == life[o] = "live" /\ held[o] = 0 /\ frame # o /\ ~active[o]

\* A started object whose watcher stands still: a one-shot timer that has
\* fired, a signal whose restart was refused.
Halted(o) == \/ o \in Timers /\ start[o] /\ ~repeat[o] /\ ended[o] = "fired"
             \/ o \in Signals /\ start[o] /\ ended[o] = "refused"

\* start() and stop() are exact until start() is called again without stop():
\* one stop() gives back one reference only, so from then on the object holds
\* a reference too many, and is never freed.
SelfRefsExact ==
    \A o \in Obj :
        LET own == IF start[o] THEN 1 ELSE 0
        IN  IF again[o] THEN taken[o] > own ELSE taken[o] = own

\* There are three ways to be stranded.  start() was called again without
\* stop(), or the object still counts as started although its watcher stands
\* still: nothing clears the start bit and gives the reference back when a
\* one-shot timer has fired, or when the restart of a signal is refused.
StrandedExplained ==
    /\ SelfRefsExact
    /\ \A o \in Obj : Stranded(o) => again[o] \/ Halted(o)

\* Freed memory is used in one situation only: the callback of a signal has
\* stopped the signal and no other reference is left when it returns.  stop()
\* itself never writes to a freed handle, and no watcher fires on one.
UseOnlyBySelfStoppedSignal ==
    [][fault' = "use" => /\ frame \in Signals /\ frame' = None
                         /\ held[frame] = 0 /\ taken[frame] = 0]_vars

\* What these rest on: an object lives as long as it has references, and a
\* set start bit stands for one that start() took.
Lifecycle ==
    \A o \in Obj :
        /\ life[o] = "live" <=> rc[o] > 0
        /\ start[o] => taken[o] > 0

\* The watcher of a started object stands still for no other reason.
HaltExplained == \A o \in Obj : start[o] /\ ~active[o] => Halted(o)

\* The inductive invariant.
IInv == RefCountExact /\ ActiveIsHeld /\ SelfRefsExact /\ Lifecycle /\ HaltExplained

\* An idle handle or a repeating timer that was started is called again and
\* again until stop() is called.
Recurring(o) == start[o] /\ (o \in Idles \/ (o \in Timers /\ repeat[o]))
RecurringIsServed ==
    \A o \in Obj : Recurring(o) ~> (frame = o \/ ~Recurring(o) \/ fault # "none")
=============================================================================
