--------------------------- MODULE UVHandleProofs ---------------------------
(***************************************************************************)
(* Theorems about UVHandle, for any number of timers, idle handles and     *)
(* signals and all bounds: IInv is inductive, one lemma for each way in    *)
(* which the code changes an object, and the safety properties follow.     *)
(***************************************************************************)
EXTENDS UVHandle, TLAPS

-----------------------------------------------------------------------------
(* IInv is inductive *)

\* At the start of a request there is no object.
LEMMA Init_Inv == ASSUME Init PROVE IInv
<1> USE DEF Init
<1>1. TypeOK
  BY BoundAssumption DEF TypeOK
<1>2. RefCountExact
  BY <1>1, ClassAssumption DEF RefCountExact
<1>3. ActiveIsHeld /\ SelfRefsExact /\ Lifecycle /\ HaltExplained
  BY DEF ActiveIsHeld, SelfRefsExact, Lifecycle, HaltExplained, Halted
<1> QED BY <1>2, <1>3 DEF IInv

\* A new object has one reference, the script's; its handle is not started.
LEMMA Construct_Inv == ASSUME IInv, NEW o \in Obj, Construct(o) PROVE IInv'
<1> USE DEF IInv, RefCountExact, TypeOK, Construct
<1>1. rc[o] = 0 /\ held[o] = 0 /\ taken[o] = 0 /\ frame # o /\ ~start[o] /\ ~active[o]
  BY DEF Lifecycle, ActiveIsHeld
<1>2. TypeOK'
  BY BoundAssumption
<1>3. RefCountExact'
  BY <1>1, <1>2
<1>4. ActiveIsHeld' /\ SelfRefsExact' /\ Lifecycle' /\ HaltExplained'
  BY <1>1 DEF ActiveIsHeld, SelfRefsExact, Lifecycle, HaltExplained, Halted
<1> QED BY <1>3, <1>4

\* A copied reference is counted.
LEMMA Share_Inv == ASSUME IInv, NEW o \in Obj, Share(o) PROVE IInv'
<1> USE DEF IInv, RefCountExact, TypeOK, Share
<1>1. TypeOK'
  BY BoundAssumption
<1>2. RefCountExact'
  BY <1>1
<1>3. ActiveIsHeld' /\ SelfRefsExact' /\ Lifecycle' /\ HaltExplained'
  BY DEF ActiveIsHeld, SelfRefsExact, Lifecycle, HaltExplained, Halted, Reachable
<1> QED BY <1>2, <1>3

\* When the script drops the last reference the handle is not started:
\* otherwise start() would hold one more.
LEMMA Drop_Inv == ASSUME IInv, NEW o \in Obj, Drop(o) PROVE IInv'
<1>1. rc[o] = 1 => held[o] = 1 /\ taken[o] = 0 /\ frame # o /\ ~start[o] /\ ~active[o]
  <2>1. held[o] > 0
    BY DEF Drop
  <2>2. rc[o] = 1 => held[o] = 1 /\ taken[o] = 0 /\ frame # o
    BY <2>1 DEF IInv, RefCountExact, TypeOK
  <2> QED BY <2>2 DEF IInv, RefCountExact, TypeOK, Lifecycle, ActiveIsHeld
<1> USE DEF IInv, RefCountExact, TypeOK, Drop, decRefAndRelease
<1>2. active' = active
  BY <1>1 DEF Destroyed
<1>3. TypeOK'
  BY <1>2, BoundAssumption
<1>4. RefCountExact'
  BY <1>3
<1>5. ActiveIsHeld' /\ Lifecycle'
  <2>1. ActiveIsHeld'
    BY <1>1, <1>2 DEF ActiveIsHeld
  <2>2. Lifecycle'
    BY <1>1 DEF Lifecycle
  <2> QED BY <2>1, <2>2
<1>6. SelfRefsExact' /\ HaltExplained'
  BY <1>2 DEF SelfRefsExact, HaltExplained, Halted
<1> QED BY <1>4, <1>5, <1>6

\* start() takes the reference that the start bit stands for, or one too many.
LEMMA Started_Inv ==
    ASSUME IInv, NEW o \in Obj, NEW r \in BOOLEAN, Started(o, r) PROVE IInv'
<1> USE DEF IInv, RefCountExact, TypeOK, Started, StartRefs, FlagAfterStart
<1>1. TypeOK'
  BY BoundAssumption
<1>2. RefCountExact'
  BY <1>1
<1>3. ActiveIsHeld' /\ SelfRefsExact' /\ Lifecycle' /\ HaltExplained'
  BY DEF ActiveIsHeld, SelfRefsExact, Lifecycle, HaltExplained, Halted, Reachable
<1> QED BY <1>2, <1>3

\* A refused signal number stops the watcher and leaves the rest as it was.
LEMMA SignalStartFailed_Inv ==
    ASSUME IInv, NEW o \in Obj, SignalStartFailed(o) PROVE IInv'
<1> USE DEF IInv, RefCountExact, TypeOK, SignalStartFailed
<1>1. RefCountExact'
  OBVIOUS
<1>2. ActiveIsHeld' /\ SelfRefsExact' /\ Lifecycle' /\ HaltExplained'
  BY DEF ActiveIsHeld, SelfRefsExact, Lifecycle, HaltExplained, Halted
<1> QED BY <1>1, <1>2

\* stop() never drops the last reference: the object is started, and whoever
\* calls the method holds a reference too.
LEMMA StoppedIsHeld ==
    ASSUME IInv, NEW o \in Obj, Stopped(o) PROVE rc[o] > 1 /\ taken[o] > 0
BY DEF IInv, RefCountExact, TypeOK, Stopped, Reachable, Lifecycle

\* stop() gives back one of the references that start() took.
LEMMA Stopped_Inv ==
    ASSUME IInv, NEW o \in Obj, Stopped(o), UNCHANGED fault PROVE IInv'
<1> USE DEF IInv, RefCountExact, TypeOK, Stopped, StopRefs, decRefAndRelease
<1>0. rc[o] > 1 /\ taken[o] > 0
  BY StoppedIsHeld
<1>1. rc[o] > 1 /\ taken[o] > 0 /\ life' = life
  BY <1>0
<1>2. TypeOK'
  BY <1>1, BoundAssumption
<1>3. RefCountExact'
  BY <1>1, <1>2
<1>4. ActiveIsHeld' /\ SelfRefsExact' /\ Lifecycle' /\ HaltExplained'
  BY <1>1 DEF ActiveIsHeld, SelfRefsExact, Lifecycle, HaltExplained, Halted, Reachable
<1> QED BY <1>3, <1>4

\* A watcher fires on a live object, which the arguments then hold.
LEMMA Fire_Inv == ASSUME IInv, NEW o \in Obj, Fire(o) PROVE IInv' /\ UNCHANGED fault
<1> USE DEF IInv, RefCountExact, TypeOK, Fire, Deliverable
<1>1. life[o] = "live" /\ start[o] /\ taken[o] > 0
  BY DEF ActiveIsHeld
<1>2. /\ frame' = o /\ UNCHANGED fault
      /\ rc' = [rc EXCEPT ![o] = @ + 1]
      /\ active' = [active EXCEPT ![o] = StillActive(o)]
      /\ ended' = [ended EXCEPT ![o] = IF StillActive(o) THEN @ ELSE "fired"]
      /\ UNCHANGED <<life, held, start, repeat, taken, again>>
  BY <1>1
<1>3. StillActive(o) \in BOOLEAN
  BY DEF StillActive
<1>4. TypeOK'
  <2>1. rc[o] = held[o] + taken[o]
    BY ClassAssumption
  <2>2. rc[o] + 1 \in 0..MaxRefs + MaxTaken + 1
    BY <2>1, BoundAssumption
  <2>3. rc' \in [Obj -> 0..MaxRefs + MaxTaken + 1]
    BY <1>2, <2>2
  <2>4. active' \in [Obj -> BOOLEAN]
    BY <1>2, <1>3
  <2>5. /\ frame' \in Obj \cup {None} /\ ended' \in [Obj -> {"no", "fired", "refused"}]
        /\ UNCHANGED <<life, held, start, repeat, taken, again, fault>>
    BY <1>2
  <2> QED BY <2>3, <2>4, <2>5
<1>5. RefCountExact'
  BY <1>2, <1>4, ClassAssumption
<1>6. ActiveIsHeld' /\ SelfRefsExact' /\ Lifecycle' /\ HaltExplained'
  <2>1. ~StillActive(o) => o \in Timers /\ ~repeat[o]
    BY DEF StillActive
  <2>2. ActiveIsHeld'
    BY <1>1, <1>2 DEF ActiveIsHeld
  <2>3. Lifecycle'
    BY <1>1, <1>2, <2>1, ClassAssumption DEF Lifecycle
  <2>4. SelfRefsExact'
    BY <1>2 DEF SelfRefsExact
  <2>5. HaltExplained'
    BY <1>2, <2>1 DEF HaltExplained, Halted
  <2> QED BY <2>2, <2>3, <2>4, <2>5
<1> QED BY <1>2, <1>5, <1>6

\* When a callback's arguments held the last reference, the handle had been
\* stopped.
LEMMA ReturnDestroys ==
    ASSUME IInv, Return
    PROVE /\ frame \in Obj
          /\ rc[frame] = 1 => held[frame] = 0 /\ taken[frame] = 0 /\ ~start[frame] /\ ~active[frame]
<1>1. frame \in Obj
  BY DEF IInv, RefCountExact, TypeOK, Return
<1>2. rc[frame] = 1 => held[frame] = 0 /\ taken[frame] = 0
  BY <1>1 DEF IInv, RefCountExact, TypeOK
<1>3. start[frame] => taken[frame] > 0
  BY <1>1 DEF IInv, Lifecycle
<1>4. active[frame] => start[frame]
  BY <1>1 DEF IInv, ActiveIsHeld
<1>5. taken[frame] = 0 => ~start[frame]
  BY <1>3
<1> QED BY <1>1, <1>2, <1>4, <1>5

\* The return of a callback destroys an object that only the callback still
\* held, and such an object is stopped.
LEMMA Return_Inv == ASSUME IInv, Return PROVE IInv'
<1> USE DEF IInv, RefCountExact, TypeOK
<1>1. PICK o \in Obj : o = frame
  BY ReturnDestroys
<1>2. /\ rc[o] = held[o] + taken[o] + 1
      /\ rc[o] = 1 => held[o] = 0 /\ taken[o] = 0 /\ ~start[o] /\ ~active[o]
  BY <1>1, ReturnDestroys
<1>3. /\ rc' = [rc EXCEPT ![o] = @ - 1]
      /\ life' = [life EXCEPT ![o] = IF rc[o] = 1 THEN "dead" ELSE @]
      /\ frame' = None
      /\ UNCHANGED <<held, start, repeat, taken, again, ended>>
      /\ fault' \in {"none", "use", "queue"}
  BY <1>1 DEF Return, decRefAndRelease
<1>4. active' = active
  BY <1>1, <1>2 DEF Destroyed, Return
<1>5. TypeOK'
  <2>1. rc[o] - 1 \in 0..MaxRefs + MaxTaken + 1
    BY <1>2, BoundAssumption
  <2>2. rc' \in [Obj -> 0..MaxRefs + MaxTaken + 1]
    BY <1>3, <2>1
  <2>3. life' \in [Obj -> {"unborn", "live", "dead"}]
    BY <1>3
  <2> QED BY <1>3, <1>4, <2>2, <2>3
<1>6. RefCountExact'
  <2>1. ASSUME NEW p \in Obj PROVE rc'[p] = held'[p] + taken'[p] + (IF frame' = p THEN 1 ELSE 0)
    <3>0. frame' # p BY <1>3, ClassAssumption
    <3>1. CASE p = o
      <4>1. rc'[o] = rc[o] - 1 BY <1>3
      <4>2. rc'[o] = held[o] + taken[o] BY <4>1, <1>2
      <4> QED BY <1>3, <3>0, <3>1, <4>2
    <3>2. CASE p # o BY <1>1, <1>3, <3>2, ClassAssumption
    <3> QED BY <3>1, <3>2
  <2> QED BY <1>5, <2>1
<1>7. rc[o] = 1 => rc'[o] = 0 /\ life'[o] = "dead"
  BY <1>3
<1>8. rc[o] > 1 => rc'[o] > 0 /\ life'[o] = life[o] /\ (held[o] > 0 \/ taken[o] > 0)
  BY <1>2, <1>3
<1>9. \A p \in Obj : p # o => rc'[p] = rc[p] /\ life'[p] = life[p] /\ frame # p
  BY <1>1, <1>3
<1>10. ActiveIsHeld'
  BY <1>2, <1>3, <1>4, <1>7, <1>8, <1>9 DEF ActiveIsHeld
<1>11. SelfRefsExact' /\ HaltExplained'
  BY <1>3, <1>4 DEF SelfRefsExact, HaltExplained, Halted
<1>12. Lifecycle'
  BY <1>1, <1>2, <1>3, <1>4, <1>7, <1>8, <1>9 DEF Lifecycle
<1> QED BY <1>6, <1>10, <1>11, <1>12

\* A dangling link changes nothing but fault.
LEMMA QueueTouchesFreed_Inv ==
    ASSUME IInv, NEW o \in Obj, QueueTouchesFreed(o) PROVE IInv'
BY DEF IInv, RefCountExact, TypeOK, ActiveIsHeld, SelfRefsExact, Lifecycle, HaltExplained, Halted, QueueTouchesFreed

\* A step that changes nothing.
LEMMA Stutter_Inv == ASSUME IInv, UNCHANGED vars PROVE IInv'
BY DEF IInv, RefCountExact, TypeOK, ActiveIsHeld, SelfRefsExact, Lifecycle, HaltExplained, Halted, vars

\* The three classes start and stop in the same way; the last write of stop()
\* to the handle finds it there.
LEMMA Stops == ASSUME IInv, NEW o \in Obj, TimerStop(o) \/ IdleStop(o) \/ SignalStop(o)
               PROVE Stopped(o) /\ UNCHANGED fault
<1>1. Stopped(o)
  BY DEF TimerStop, IdleStop, SignalStop
<1>2. rc[o] > 1
  BY <1>1, StoppedIsHeld
<1> QED
  BY <1>1, <1>2 DEF TimerStop, IdleStop, SignalStop, WritesFreed, StopRefs, IInv, RefCountExact, TypeOK

\* Every step is one of those above.
LEMMA Step_Inv == ASSUME IInv, [Next]_vars PROVE IInv'
<1>1. CASE Return BY <1>1, Return_Inv
<1>2. CASE UNCHANGED vars BY <1>2, Stutter_Inv
<1>3. ASSUME NEW o \in Obj, ScriptStep(o) PROVE IInv'
  <2>1. CASE Construct(o) BY <2>1, Construct_Inv
  <2>2. CASE Share(o) BY <2>2, Share_Inv
  <2>3. CASE Drop(o) BY <2>3, Drop_Inv
  <2>4. CASE (\E r \in BOOLEAN : TimerStart(o, r)) \/ IdleStart(o) \/ SignalStart(o)
    BY <2>4, Started_Inv DEF TimerStart, IdleStart, SignalStart
  <2>5. CASE SignalStartFailed(o) BY <2>5, SignalStartFailed_Inv
  <2>6. CASE TimerStop(o) \/ IdleStop(o) \/ SignalStop(o) BY <2>6, Stops, Stopped_Inv
  <2> QED BY <1>3, <2>1, <2>2, <2>3, <2>4, <2>5, <2>6 DEF ScriptStep
<1>4. ASSUME NEW o \in Obj, Fire(o) \/ QueueTouchesFreed(o) PROVE IInv'
  BY <1>4, Fire_Inv, QueueTouchesFreed_Inv
<1> QED BY <1>1, <1>2, <1>3, <1>4 DEF Next

\* IInv holds in every state of UVHandle.
THEOREM Invariance == Spec => []IInv
<1>1. Init => IInv BY Init_Inv
<1>2. IInv /\ [Next]_vars => IInv' BY Step_Inv
<1> QED BY <1>1, <1>2, PTL DEF Spec

-----------------------------------------------------------------------------
(* What follows *)

\* start() and stop() of the three classes balance the references of every
\* object, in any order and number of calls and callbacks.
THEOREM CountsExact == Spec => []RefCountExact
<1>1. IInv => RefCountExact BY DEF IInv
<1> QED BY <1>1, Invariance, PTL

\* No watcher runs for an object that is gone or that stop() would not stop.
THEOREM WatchersAlive == Spec => []ActiveIsHeld
<1>1. IInv => ActiveIsHeld BY DEF IInv
<1> QED BY <1>1, Invariance, PTL

\* An object that is alive although nobody refers to it and libuv does not call
\* it was started twice in a row, or is a one-shot timer that has fired, or a
\* signal whose restart was refused.
THEOREM StrandedObjects == Spec => []StrandedExplained
<1>1. ASSUME IInv PROVE StrandedExplained
  <2>1. ASSUME NEW o \in Obj, Stranded(o), ~again[o] PROVE start[o] /\ ~active[o]
    BY <1>1, <2>1 DEF IInv, RefCountExact, TypeOK, SelfRefsExact, Lifecycle, Stranded
  <2> QED BY <1>1, <2>1 DEF IInv, StrandedExplained, HaltExplained
<1> QED BY <1>1, Invariance, PTL

\* Neither stop() nor the dispatch of a watcher uses a handle that was freed,
\* but for a signal that its own callback has left without references.
THEOREM UseExplained == Spec => UseOnlyBySelfStoppedSignal
<1> DEFINE Use == fault' = "use" => /\ frame \in Signals /\ frame' = None
                                    /\ held[frame] = 0 /\ taken[frame] = 0
<1>1. ASSUME IInv, Next PROVE Use
  <2>1. fault = "none"
    BY <1>1 DEF Next, Return, ScriptStep, Construct, Share, Drop, Reachable, TimerStart, IdleStart,
       SignalStart, Started, SignalStartFailed, TimerStop, IdleStop, SignalStop, Stopped, Fire,
       Deliverable, QueueTouchesFreed
  <2>2. CASE Return
    BY <1>1, <2>1, <2>2, ReturnDestroys DEF Return
  <2>3. ASSUME NEW o \in Obj, ScriptStep(o) PROVE UNCHANGED fault
    BY <1>1, <2>3, Stops DEF ScriptStep, Construct, Share, Drop, TimerStart, IdleStart, SignalStart,
       Started, SignalStartFailed
  <2>4. ASSUME NEW o \in Obj, Fire(o) PROVE UNCHANGED fault
    BY <1>1, <2>4, Fire_Inv
  <2>5. ASSUME NEW o \in Obj, QueueTouchesFreed(o) PROVE fault' = "queue"
    BY <2>5 DEF QueueTouchesFreed
  <2> QED BY <1>1, <2>1, <2>2, <2>3, <2>4, <2>5 DEF Next
<1>2. IInv /\ [Next]_vars => [Use]_vars
  BY <1>1
<1> QED BY <1>2, Invariance, PTL DEF Spec, UseOnlyBySelfStoppedSignal
=============================================================================
