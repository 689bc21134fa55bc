---------------------------- MODULE UVUdpProofs ----------------------------
(***************************************************************************)
(* Theorems about UVUdp, for every set of objects and all bounds: IInv is  *)
(* inductive, one lemma for each action, and UVUdp implements KeepAlive.   *)
(***************************************************************************)
EXTENDS UVUdp, TLAPS

-----------------------------------------------------------------------------
(* IInv is inductive *)

\* At the start of a request there is no object.
LEMMA Init_Inv == ASSUME Init PROVE IInv
<1> USE DEF Init
<1>1. TypeOK
  BY BoundAssumption DEF TypeOK, UvStates
<1>2. RefCountExact /\ SafeDelivery
  BY DEF RefCountExact, SafeDelivery, InFrame
<1>3. Lifecycle /\ FrameHeld /\ FreedOnlyUnpinned
  BY DEF Lifecycle, FrameHeld, FreedOnlyUnpinned
<1> QED BY <1>1, <1>2, <1>3 DEF IInv

\* A new object has one reference, the script's, and a handle without an address.
LEMMA Construct_Inv == ASSUME IInv, NEW o \in Obj, Construct(o) PROVE IInv'
<1> USE DEF IInv, TypeOK, Construct
<1>1. TypeOK'
  BY BoundAssumption DEF UvStates, addrVars
<1>2. RefCountExact'
  BY DEF RefCountExact, Lifecycle, FrameHeld, InFrame, addrVars
<1>3. SafeDelivery'
  BY DEF SafeDelivery, Lifecycle
<1>4. Lifecycle'
  BY DEF Lifecycle, addrVars
<1>5. FrameHeld' /\ FreedOnlyUnpinned'
  BY DEF FrameHeld, FreedOnlyUnpinned, ScriptRuns
<1> QED BY <1>1, <1>2, <1>3, <1>4, <1>5

\* A copied reference is counted.
LEMMA Share_Inv == ASSUME IInv, NEW o \in Obj, Share(o) PROVE IInv'
<1> USE DEF IInv, TypeOK, Share
<1>1. TypeOK'
  BY BoundAssumption DEF RefCountExact, Lifecycle, Reachable, uvVars, addrVars
<1>2. RefCountExact'
  BY DEF RefCountExact, InFrame, uvVars, addrVars
<1>3. SafeDelivery'
  BY DEF SafeDelivery, uvVars
<1>4. Lifecycle'
  BY DEF Lifecycle, Reachable, uvVars, addrVars
<1>5. FrameHeld' /\ FreedOnlyUnpinned'
  BY DEF FrameHeld, FreedOnlyUnpinned, uvVars, Orphan
<1> QED BY <1>1, <1>2, <1>3, <1>4, <1>5

\* If the last reference goes the object was not pinned, or its close has ended:
\* a set INTERNAL_REF would be one reference more.
LEMMA Drop_Inv == ASSUME IInv, NEW o \in Obj, Drop(o) PROVE IInv'
<1> USE DEF IInv, TypeOK, Drop
<1>1. fault = "none" /\ life[o] = "live"
  BY DEF ScriptRuns
<1>2. rc[o] = 1 => /\ "INTERNAL_REF" \notin flag[o] /\ ~receiving[o]
                   /\ ~InFrame(o) /\ held[o] = 1 /\ ~again[o]
  BY DEF RefCountExact, Lifecycle
<1>3. TypeOK'
  <2>1. /\ held' \in [Obj -> 0..MaxRefs] /\ rc' \in [Obj -> 0..MaxRefs + 3]
        /\ life' \in [Obj -> {"unborn", "live", "dead"}]
    BY <1>1, <1>2, BoundAssumption DEF decRefAndRelease, Lifecycle
  <2>2. flag' \in [Obj -> SUBSET Flags] /\ cb' \in [Obj -> SUBSET Callbacks]
    BY DEF decRefAndRelease, ReleasedFlags
  <2>3. receiving' \in [Obj -> BOOLEAN]
    BY <1>1, <1>2 DEF decRefAndRelease, RecvStopped
  <2> QED BY <2>1, <2>2, <2>3 DEF addrVars
<1>4. RefCountExact'
  BY <1>1, <1>2 DEF RefCountExact, InFrame, decRefAndRelease, ReleasedFlags, addrVars
<1>5. SafeDelivery'
  BY <1>1, <1>2 DEF SafeDelivery, Lifecycle, decRefAndRelease, RecvStopped
<1>6. Lifecycle'
  BY <1>1, <1>2 DEF Lifecycle, RefCountExact, InFrame, decRefAndRelease, ReleasedFlags, RecvStopped, addrVars
<1>7. FrameHeld' /\ FreedOnlyUnpinned'
  BY <1>1, <1>2 DEF FrameHeld, FreedOnlyUnpinned, decRefAndRelease, ReleasedFlags, InFrame
<1> QED BY <1>3, <1>4, <1>5, <1>6, <1>7

\* bind gives the socket its address and sets a flag that is not a reference; a
\* closed handle that is bound is open again, and not pinned.
LEMMA bind_Inv == ASSUME IInv, NEW o \in Obj, bind(o) PROVE IInv'
<1> USE DEF IInv, TypeOK, bind, Opened, objVars
<1>1. fault = "none" /\ life[o] = "live"
  BY DEF Reachable, ScriptRuns
<1>2. TypeOK'
  BY DEF UvStates, Flags
<1>3. RefCountExact'
  BY DEF RefCountExact, InFrame
<1>4. SafeDelivery'
  BY <1>1 DEF SafeDelivery
<1>5. Lifecycle'
  BY <1>1 DEF Lifecycle
<1>6. FrameHeld' /\ FreedOnlyUnpinned'
  BY <1>1 DEF FrameHeld, FreedOnlyUnpinned
<1> QED BY <1>2, <1>3, <1>4, <1>5, <1>6

\* uv_close stops the receiving and closes the socket; the self reference stays.
LEMMA close_Inv == ASSUME IInv, NEW o \in Obj, close(o) PROVE IInv'
<1> USE DEF IInv, TypeOK, close, CloseAborts, objVars
<1>1. TypeOK'
  BY DEF UvStates
<1>2. RefCountExact'
  BY DEF RefCountExact, InFrame
<1>3. SafeDelivery'
  BY DEF SafeDelivery, Lifecycle
<1>4. Lifecycle'
  BY DEF Lifecycle, RefCountExact
<1>5. FrameHeld' /\ FreedOnlyUnpinned'
  BY DEF FrameHeld, FreedOnlyUnpinned, Reachable, ScriptRuns
<1> QED BY <1>1, <1>2, <1>3, <1>4, <1>5

\* uv_udp_recv_start accepts a socket that is not receiving.  If it is open, or
\* open again, it has no reference to itself; one that is being closed may have
\* one, but not two.
LEMMA setCallback_Inv == ASSUME IInv, NEW o \in Obj, NEW S \in CallbackSets, setCallback(o, S) PROVE IInv'
<1> USE DEF IInv, TypeOK, setCallback, Opened, SelfRefs
<1>1. fault = "none" /\ life[o] = "live" /\ ~receiving[o]
  BY DEF Reachable, ScriptRuns, RecvStartOk
<1>2. "INTERNAL_REF" \in flag[o] => ~again[o] /\ uv[o] \in {"closing", "ending"}
  BY <1>1 DEF Lifecycle, UvStates
<1>3. TypeOK'
  <2>1. rc' \in [Obj -> 0..MaxRefs + 3]
    BY <1>2, BoundAssumption DEF RefCountExact
  <2> QED BY <2>1, BoundAssumption DEF UvStates, Flags
<1>4. RefCountExact'
  <2>1. again'[o] => uv'[o] # "open" /\ (uv'[o] = "closing" => bound'[o])
    BY <1>2 DEF RefCountExact
  <2>2. rc'[o] = held'[o] + 1 + (IF again'[o] THEN 1 ELSE 0) + (IF InFrame(o) THEN 1 ELSE 0)
    <3>1. rc'[o] = rc[o] + 1 /\ held'[o] = held[o]
      OBVIOUS
    <3>2. again'[o] <=> again[o] \/ "INTERNAL_REF" \in flag[o]
      OBVIOUS
    <3>3. rc[o] = held[o] + (IF "INTERNAL_REF" \in flag[o] THEN 1 ELSE 0)
                          + (IF again[o] THEN 1 ELSE 0) + (IF InFrame(o) THEN 1 ELSE 0)
      BY DEF RefCountExact
    <3> HIDE DEF setCallback, IInv
    <3>4. held[o] \in Nat
      BY BoundAssumption DEF IInv
    <3> QED BY <1>2, <3>1, <3>2, <3>3, <3>4
  <2> QED BY <2>1, <2>2 DEF RefCountExact, InFrame
<1>5. SafeDelivery'
  BY <1>1 DEF SafeDelivery
<1>6. Lifecycle'
  BY <1>1 DEF Lifecycle
<1>7. FrameHeld' /\ FreedOnlyUnpinned'
  BY <1>1 DEF FrameHeld, FreedOnlyUnpinned
<1> QED BY <1>3, <1>4, <1>5, <1>6, <1>7

\* A send request binds the socket; it opens a closed handle, unpinned.
LEMMA sendTo_Inv == ASSUME IInv, NEW o \in Obj, sendTo(o) PROVE IInv'
<1> USE DEF IInv, TypeOK, sendTo, Opened, objVars
<1>1. fault = "none" /\ life[o] = "live"
  BY DEF Reachable, ScriptRuns
<1>2. TypeOK'
  BY BoundAssumption DEF UvStates
<1>3. RefCountExact'
  BY DEF RefCountExact, InFrame
<1>4. SafeDelivery'
  BY <1>1 DEF SafeDelivery
<1>5. Lifecycle'
  BY <1>1 DEF Lifecycle
<1>6. FrameHeld' /\ FreedOnlyUnpinned'
  BY <1>1 DEF FrameHeld, FreedOnlyUnpinned
<1> QED BY <1>2, <1>3, <1>4, <1>5, <1>6

\* The kept address is nothing the other parts refer to.
LEMMA getSockname_Inv == ASSUME IInv, NEW o \in Obj, getSockname(o) PROVE IInv'
<1> USE DEF IInv, TypeOK, getSockname, objVars, uvVars
<1>1. TypeOK'
  OBVIOUS
<1>2. RefCountExact'
  BY DEF RefCountExact, InFrame
<1>3. SafeDelivery'
  BY DEF SafeDelivery
<1>4. Lifecycle'
  BY DEF Lifecycle
<1>5. FrameHeld' /\ FreedOnlyUnpinned'
  BY DEF FrameHeld, FreedOnlyUnpinned, Orphan
<1> QED BY <1>1, <1>2, <1>3, <1>4, <1>5

\* A send is answered; its callback is not null only on a pinned object, or on
\* one whose handle was opened again.
LEMMA send_cb_Inv == ASSUME IInv, NEW o \in Obj, send_cb(o) PROVE IInv'
<1> USE DEF IInv, TypeOK, send_cb, addrVars
<1>1. frame = None /\ fault = "none" /\ life[o] = "live"
  BY DEF Deliverable
<1>2. TypeOK'
  BY <1>1, BoundAssumption DEF RefCountExact, InFrame, SendsLeft, CallUser
<1>3. RefCountExact'
  BY <1>1, NoneAssumption DEF RefCountExact, InFrame, CallUser
<1>4. SafeDelivery'
  BY DEF SafeDelivery, SendsLeft
<1>5. Lifecycle'
  BY <1>1 DEF Lifecycle, CallUser, SendsLeft
<1>6. FrameHeld' /\ FreedOnlyUnpinned'
  BY <1>1 DEF FrameHeld, FreedOnlyUnpinned, Lifecycle, CallUser
<1> QED BY <1>2, <1>3, <1>4, <1>5, <1>6

\* A receiving socket belongs to a pinned object.
LEMMA recv_cb_Inv == ASSUME IInv, NEW o \in Obj, NEW name \in {"recv", "error"}, recv_cb(o, name) PROVE IInv'
<1> USE DEF IInv, TypeOK, recv_cb, uvVars, addrVars
<1>1. frame = None /\ fault = "none" /\ life[o] = "live"
  BY DEF Deliverable
<1>2. TypeOK'
  BY <1>1, BoundAssumption DEF RefCountExact, InFrame, CallUser
<1>3. RefCountExact'
  BY <1>1, NoneAssumption DEF RefCountExact, InFrame, CallUser
<1>4. SafeDelivery'
  BY DEF SafeDelivery
<1>5. Lifecycle'
  BY <1>1 DEF Lifecycle, CallUser
<1>6. FrameHeld' /\ FreedOnlyUnpinned'
  BY <1>1 DEF FrameHeld, FreedOnlyUnpinned, Lifecycle, CallUser
<1> QED BY <1>2, <1>3, <1>4, <1>5, <1>6

\* libuv begins to end a close only if the handle has no socket.
LEMMA EndClose_Inv == ASSUME IInv, NEW o \in Obj, EndClose(o) PROVE IInv'
<1> USE DEF IInv, TypeOK, EndClose, objVars, addrVars
<1>1. frame = None /\ fault = "none" /\ life[o] = "live"
  BY DEF Deliverable
<1>2. TypeOK'
  BY DEF UvStates
<1>3. RefCountExact' /\ SafeDelivery'
  BY DEF RefCountExact, SafeDelivery, InFrame
<1>4. Lifecycle'
  BY DEF Lifecycle
<1>5. FrameHeld' /\ FreedOnlyUnpinned'
  BY <1>1 DEF FrameHeld, FreedOnlyUnpinned
<1> QED BY <1>2, <1>3, <1>4, <1>5

\* The end of the close gives the self reference back, if there is one.
LEMMA close_cb_Inv == ASSUME IInv, NEW o \in Obj, close_cb(o) PROVE IInv'
<1> USE DEF IInv, TypeOK
<1>1. /\ fault = "none" /\ frame = None /\ life[o] = "live"
      /\ uv[o] = "ending" /\ sends[o] = 0 /\ uv' = [uv EXCEPT ![o] = "closed"]
      /\ UNCHANGED <<held, sends, frame, bound, sockPort, pinned, again, fault>>
  BY DEF close_cb, Deliverable, addrVars
<1>2. /\ flag' = [flag EXCEPT ![o] = @ \ {"READ_START", "HANDLE_START", "INTERNAL_REF"}]
      /\ receiving' = [receiving EXCEPT ![o] = FALSE]
  <2>1. receiving[o] => "INTERNAL_REF" \in flag[o]
    BY <1>1 DEF Lifecycle
  <2>2. "INTERNAL_REF" \in flag[o] => RecvStopped(flag[o], receiving[o]) = FALSE
    BY <1>1 DEF Lifecycle, RecvStopped
  <2>3. RecvStopped(ReleasedFlags(flag[o]), FALSE) = FALSE
    BY DEF RecvStopped
  <2>4. ReleasedFlags(ReleasedFlags(flag[o])) = ReleasedFlags(flag[o])
    BY DEF ReleasedFlags
  <2>5. flag' = [flag EXCEPT ![o] = ReleasedFlags(@)]
    BY <2>4 DEF close_cb, decRefAndRelease
  <2>6. receiving' = [receiving EXCEPT ![o] = FALSE]
    BY <2>1, <2>2, <2>3 DEF close_cb, decRefAndRelease
  <2> QED BY <2>5, <2>6 DEF ReleasedFlags
<1>3. IF "INTERNAL_REF" \in flag[o]
      THEN /\ rc' = [rc EXCEPT ![o] = @ - 1]
           /\ life' = [life EXCEPT ![o] = IF rc[o] = 1 THEN "dead" ELSE @]
           /\ cb' = [cb EXCEPT ![o] = IF rc[o] = 1 THEN {} ELSE @]
      ELSE UNCHANGED <<life, rc, cb>>
  BY DEF close_cb, decRefAndRelease
<1>4. TypeOK'
  BY <1>1, <1>2, <1>3, BoundAssumption DEF UvStates, Lifecycle
<1>5. RefCountExact'
  BY <1>1, <1>2, <1>3 DEF RefCountExact, InFrame
<1>6. SafeDelivery'
  BY <1>1, <1>2, <1>3 DEF SafeDelivery, Lifecycle
<1>7. Lifecycle'
  BY <1>1, <1>2, <1>3 DEF Lifecycle, RefCountExact, InFrame
<1>8. FrameHeld' /\ FreedOnlyUnpinned'
  BY <1>1 DEF FrameHeld, FreedOnlyUnpinned
<1> QED BY <1>4, <1>5, <1>6, <1>7, <1>8

\* Only the handle of an object that was not pinned can be touched after its end.
LEMMA LibuvTouchesFreed_Inv == ASSUME IInv, NEW o \in Obj, LibuvTouchesFreed(o) PROVE IInv'
<1> USE DEF IInv, TypeOK, LibuvTouchesFreed, objVars, uvVars, addrVars
<1>1. TypeOK'
  OBVIOUS
<1>2. RefCountExact' /\ SafeDelivery' /\ Lifecycle' /\ FrameHeld'
  BY DEF RefCountExact, InFrame, SafeDelivery, Lifecycle, FrameHeld
<1>3. FreedOnlyUnpinned'
  BY DEF SafeDelivery, Orphan, FreedOnlyUnpinned
<1> QED BY <1>1, <1>2, <1>3

\* Of the object whose callback runs.
LEMMA FrameObj == ASSUME IInv, frame # None
                  PROVE  /\ frame.obj \in Obj /\ InFrame(frame.obj) /\ life[frame.obj] = "live"
                         /\ rc[frame.obj] = 1 => /\ uv[frame.obj] = "reopened"
                                                 /\ ~pinned[frame.obj] /\ ~again[frame.obj]
                                                 /\ "INTERNAL_REF" \notin flag[frame.obj]
                                                 /\ held[frame.obj] = 0
<1>1. frame.obj \in Obj
  BY DEF IInv, TypeOK
<1>2. PICK o \in Obj : o = frame.obj
  BY <1>1
<1>3. InFrame(o) /\ life[o] = "live" /\ ("INTERNAL_REF" \in flag[o] \/ uv[o] = "reopened")
  BY <1>2 DEF IInv, FrameHeld, InFrame
<1>4. rc[o] = 1 => "INTERNAL_REF" \notin flag[o] /\ ~again[o] /\ held[o] = 0
  BY <1>3 DEF IInv, TypeOK, RefCountExact
<1>5. uv[o] = "reopened" /\ "INTERNAL_REF" \notin flag[o] => ~pinned[o]
  BY DEF IInv, Lifecycle
<1> QED BY <1>2, <1>3, <1>4, <1>5

\* A returning callback leaves its object pinned, so the reference that goes is not
\* the last one; or the handle was opened again, and the object may die.
LEMMA Return_Inv == ASSUME IInv, Return PROVE IInv'
<1> USE DEF IInv, TypeOK
<1>1. PICK o \in Obj : frame.obj = o /\ InFrame(o) /\ life[o] = "live"
  BY FrameObj DEF Return
<1>2. rc[o] = 1 => /\ uv[o] = "reopened" /\ ~pinned[o] /\ ~again[o]
                   /\ "INTERNAL_REF" \notin flag[o] /\ ~receiving[o] /\ held[o] = 0
  BY <1>1, FrameObj DEF Return, Lifecycle
<1>3. /\ rc' = [rc EXCEPT ![o] = @ - 1] /\ frame' = None /\ fault = "none"
      /\ UNCHANGED <<held, uv, sends, bound, sockPort, pinned, again>>
  BY <1>1 DEF Return, decRefAndRelease, addrVars
<1>4. CASE rc[o] # 1
  <2>1. UNCHANGED <<life, flag, cb, receiving, fault>>
    BY <1>1, <1>4 DEF Return, decRefAndRelease
  <2>2. TypeOK' /\ RefCountExact'
    BY <1>1, <1>3, <1>4, <2>1, BoundAssumption DEF RefCountExact, Lifecycle, InFrame
  <2>3. SafeDelivery' /\ Lifecycle' /\ FrameHeld' /\ FreedOnlyUnpinned'
    BY <1>1, <1>3, <1>4, <2>1 DEF RefCountExact, SafeDelivery, Lifecycle, FrameHeld, FreedOnlyUnpinned, InFrame
  <2> QED BY <2>2, <2>3
<1>5. CASE rc[o] = 1
  <2>1. /\ life' = [life EXCEPT ![o] = "dead"] /\ cb' = [cb EXCEPT ![o] = {}]
        /\ flag' = [flag EXCEPT ![o] = ReleasedFlags(@)] /\ fault' = "freed"
    BY <1>1, <1>5 DEF Return, decRefAndRelease
  <2>2. receiving' = receiving
    <3>1. RecvStopped(flag[o], receiving[o]) = receiving[o]
      BY <1>2, <1>5 DEF RecvStopped
    <3> QED BY <1>1, <3>1 DEF Return, decRefAndRelease
  <2>3. TypeOK' /\ RefCountExact'
    BY <1>1, <1>2, <1>3, <1>5, <2>1, <2>2, BoundAssumption DEF RefCountExact, InFrame, ReleasedFlags
  <2>4. SafeDelivery' /\ FrameHeld' /\ FreedOnlyUnpinned'
    BY <1>2, <1>3, <1>5, <2>1, <2>2 DEF SafeDelivery, FrameHeld, FreedOnlyUnpinned, Orphan, ReleasedFlags
  <2>5. Lifecycle'
    BY <1>2, <1>3, <1>5, <2>1, <2>2 DEF Lifecycle, ReleasedFlags
  <2> QED BY <2>3, <2>4, <2>5
<1> QED BY <1>4, <1>5

\* Stuttering.
LEMMA Stutter_Inv == ASSUME IInv, UNCHANGED vars PROVE IInv'
BY DEF IInv, vars, addrVars, TypeOK, RefCountExact, SafeDelivery, Lifecycle, FrameHeld,
       FreedOnlyUnpinned, InFrame, Orphan

\* Every step of the specification keeps IInv.
LEMMA Step_Inv == ASSUME IInv, [Next]_vars PROVE IInv'
BY Construct_Inv, Share_Inv, Drop_Inv, bind_Inv, close_Inv, setCallback_Inv, sendTo_Inv,
   getSockname_Inv, send_cb_Inv, recv_cb_Inv, EndClose_Inv, close_cb_Inv, Return_Inv, LibuvTouchesFreed_Inv,
   Stutter_Inv DEF Next, ScriptStep, LoopStep

\* The inductive invariant of UVUdp, for any number of objects: the counts are
\* exact, sockets used after their close included, and a receiving or pinned
\* handle is freed only when libuv has closed it.
THEOREM Invariance == Spec => []IInv
<1>1. Init => IInv
  BY Init_Inv
<1>2. IInv /\ [Next]_vars => IInv'
  BY Step_Inv
<1> QED BY <1>1, <1>2, PTL DEF Spec

\* Freed memory is used only after the death of an object that setCallback had
\* not pinned since its handle was opened.
THEOREM FreedUnpinned == Spec => []FreedOnlyUnpinned
<1>1. IInv => FreedOnlyUnpinned
  BY DEF IInv
<1> QED BY <1>1, Invariance, PTL
-----------------------------------------------------------------------------
(* UVUdp implements KeepAlive *)

\* Steps that leave the life, the self reference and the handle of every
\* object alone are invisible to the contract.
LEMMA Hidden ==
    ASSUME UNCHANGED <<life, pinned>>, fault' = "freed" <=> fault = "freed",
           \A p \in Obj : Handle(p)' = Handle(p),
           \A p \in Obj : "INTERNAL_REF" \in flag'[p] <=> "INTERNAL_REF" \in flag[p]
    PROVE  UNCHANGED Contract!vars
<1>1. \A p \in Obj : Status(p)' = Status(p)
  BY DEF Status
<1> QED BY <1>1 DEF Contract!vars

\* A step of one object does not change what the contract sees of another.
LEMMA Others ==
    ASSUME NEW o \in Obj, NEW p \in Obj, life'[p] = life[p], uv'[p] = uv[p], flag'[p] = flag[p]
    PROVE  Status(p)' = Status(p) /\ Handle(p)' = Handle(p)
BY DEF Status, Handle

\* setCallback pins an object that is not pinned, opening its handle again if it
\* was closed; on a pinned one it changes nothing the contract sees.
LEMMA Pins == ASSUME IInv, NEW o \in Obj, NEW S \in CallbackSets, setCallback(o, S)
              PROVE  Contract!Pin(o) \/ Contract!Reopen(o) \/ UNCHANGED Contract!vars
<1> USE DEF IInv, TypeOK, setCallback, Opened
<1>1. life[o] = "live" /\ UNCHANGED <<life, fault>>
  BY DEF Reachable
<1>2. \A p \in Obj \ {o} : Status(p)' = Status(p) /\ Handle(p)' = Handle(p)
  BY Others
<1>3. {p \in Obj : pinned'[p]} = {p \in Obj : pinned[p]} \cup {o}
  OBVIOUS
<1>4. CASE "INTERNAL_REF" \in flag[o]
  <2>1. pinned[o] /\ uv[o] # "closed"
    BY <1>4 DEF Lifecycle
  <2>2. pinned' = pinned /\ uv' = uv
    BY <2>1
  <2>3. \A p \in Obj : "INTERNAL_REF" \in flag'[p] <=> "INTERNAL_REF" \in flag[p]
    BY <1>4
  <2>4. \A p \in Obj : Handle(p)' = Handle(p)
    BY <2>2 DEF Handle
  <2> QED BY <1>1, <2>2, <2>3, <2>4, Hidden
<1>5. CASE "INTERNAL_REF" \notin flag[o]
  <2>1. Status(o) = "loose" /\ Status(o)' = "pinned"
    BY <1>1, <1>5 DEF Status
  <2>2. [p \in Obj |-> Status(p)]' = [[p \in Obj |-> Status(p)] EXCEPT ![o] = "pinned"]
    BY <1>2, <2>1, Zenon
  <2>3. CASE uv[o] = "closed"
    <3>1. Handle(o) = "closed" /\ Handle(o)' = "open"
      BY <2>3 DEF Handle
    <3>2. [p \in Obj |-> Handle(p)]' = [[p \in Obj |-> Handle(p)] EXCEPT ![o] = "open"]
      BY <1>2, <3>1, Zenon
    <3> QED BY <1>1, <1>3, <2>1, <2>2, <3>1, <3>2 DEF Contract!Reopen
  <2>4. CASE uv[o] # "closed"
    <3>1. \A p \in Obj : Handle(p)' = Handle(p)
      BY <2>4 DEF Handle
    <3> QED BY <1>1, <1>3, <2>1, <2>2, <3>1 DEF Contract!Pin
  <2> QED BY <2>3, <2>4
<1> QED BY <1>4, <1>5

\* bind and sendTo open a closed handle again, without pinning the object; of
\* another the contract sees nothing.
LEMMA Reopens == ASSUME IInv, NEW o \in Obj, bind(o) \/ sendTo(o)
                 PROVE  Contract!Reopen(o) \/ UNCHANGED Contract!vars
<1> USE DEF IInv, TypeOK, Opened
<1>1. /\ life[o] = "live" /\ UNCHANGED <<life, fault>> /\ uv' = Opened(o)
      /\ pinned' = [pinned EXCEPT ![o] = @ /\ uv[o] # "closed"]
      /\ \A p \in Obj : "INTERNAL_REF" \in flag'[p] <=> "INTERNAL_REF" \in flag[p]
  BY DEF bind, sendTo, Reachable, objVars
<1>2. \A p \in Obj : Status(p)' = Status(p)
  BY <1>1 DEF Status
<1>3. CASE uv[o] = "closed"
  <2>1. Status(o) = "loose"
    BY <1>1, <1>3 DEF Status, Lifecycle
  <2>2. Handle(o) = "closed" /\ Handle(o)' = "open"
    BY <1>1, <1>3 DEF Handle
  <2>3. \A p \in Obj \ {o} : Handle(p)' = Handle(p)
    BY <1>1 DEF Handle
  <2>4. {p \in Obj : pinned'[p]} = {p \in Obj : pinned[p]} \ {o}
    BY <1>1, <1>3
  <2> QED BY <1>1, <1>2, <2>1, <2>2, <2>3, <2>4, Zenon DEF Contract!Reopen
<1>4. CASE uv[o] # "closed"
  <2>1. uv' = uv /\ pinned' = pinned
    BY <1>1, <1>4
  <2>2. \A p \in Obj : Handle(p)' = Handle(p)
    BY <2>1 DEF Handle
  <2> QED BY <1>1, <2>1, <2>2, Hidden
<1> QED BY <1>3, <1>4

\* close starts the close of an open handle; a second call aborts the process,
\* which the contract does not see.
LEMMA StartsClose == ASSUME IInv, NEW o \in Obj, close(o)
                     PROVE  Contract!StartClose(o) \/ UNCHANGED Contract!vars
<1>1. CASE CloseAborts(o)
  BY <1>1, Hidden DEF close, Reachable, ScriptRuns, objVars, Handle
<1>2. CASE ~CloseAborts(o)
  <2>1. \A p \in Obj : Status(p)' = Status(p)
    BY DEF close, objVars, Status
  <2>2. Status(o) \in {"loose", "pinned"}
    BY DEF IInv, TypeOK, close, Reachable, Status
  <2>3. Handle(o) = "open" /\ Handle(o)' = "closing"
    BY <1>2 DEF IInv, TypeOK, close, CloseAborts, Handle
  <2>4. \A p \in Obj \ {o} : Handle(p)' = Handle(p)
    BY <1>2 DEF IInv, TypeOK, close, Handle
  <2>5. UNCHANGED <<pinned, fault>>
    BY <1>2 DEF close
  <2> QED BY <2>1, <2>2, <2>3, <2>4, <2>5 DEF Contract!StartClose
<1> QED BY <1>1, <1>2

\* The last reference of an object that is not pinned.
LEMMA Dies == ASSUME IInv, NEW o \in Obj, Drop(o)
              PROVE  Contract!Die(o) \/ UNCHANGED Contract!vars
<1> USE DEF IInv, TypeOK, Drop
<1>1. \A p \in Obj : Handle(p)' = Handle(p)
  BY DEF Handle
<1>2. CASE rc[o] = 1
  <2>1. Status(o) = "loose" /\ Status(o)' = "dead"
    BY <1>2 DEF RefCountExact, decRefAndRelease, Status
  <2>2. \A p \in Obj \ {o} : Status(p)' = Status(p)
    BY DEF decRefAndRelease, Status
  <2> QED BY <1>1, <2>1, <2>2 DEF Contract!Die
<1>3. CASE rc[o] # 1
  BY <1>1, <1>3, Hidden DEF decRefAndRelease
<1> QED BY <1>2, <1>3

\* The script's last reference may go while a callback runs; the object then
\* dies when it returns, if its handle was closed and opened again.
LEMMA DiesInReturn == ASSUME IInv, Return
                      PROVE  (\E o \in Obj : Contract!Die(o)) \/ UNCHANGED Contract!vars
<1> USE DEF IInv, TypeOK
<1>1. PICK o \in Obj : frame.obj = o
  BY FrameObj DEF Return
<1>2. /\ fault = "none" /\ life[o] = "live" /\ UNCHANGED <<uv, pinned>>
      /\ rc[o] = 1 => uv[o] = "reopened" /\ ~pinned[o] /\ "INTERNAL_REF" \notin flag[o]
  BY <1>1, FrameObj DEF Return
<1>3. \A p \in Obj : Handle(p)' = Handle(p)
  BY <1>2 DEF Handle
<1>4. CASE rc[o] # 1
  BY <1>1, <1>2, <1>3, <1>4, Hidden DEF Return, decRefAndRelease
<1>5. CASE rc[o] = 1
  <2>1. fault' = "freed" /\ life' = [life EXCEPT ![o] = "dead"]
    BY <1>1, <1>5 DEF Return, decRefAndRelease
  <2>2. Status(o) = "loose" /\ Status(o)' = "dead"
    BY <1>2, <1>5, <2>1 DEF Status
  <2>3. \A p \in Obj \ {o} : Status(p)' = Status(p)
    BY <1>1, <2>1 DEF Return, decRefAndRelease, Status
  <2>4. Handle(o) = "open" /\ o \notin {p \in Obj : pinned[p]}
    BY <1>2, <1>5 DEF Handle
  <2>5. Contract!Die(o)
    BY <1>2, <1>3, <2>1, <2>2, <2>3, <2>4 DEF Contract!Die, Contract!Dangling
  <2> QED BY <2>5
<1> QED BY <1>4, <1>5

\* close_cb ends the close, and releases the self reference.
LEMMA FinishesClose == ASSUME IInv, NEW o \in Obj, close_cb(o) PROVE Contract!FinishClose(o)
<1> USE DEF IInv, TypeOK, close_cb
<1>1. /\ Status(o) \in {"loose", "pinned"}
      /\ Status(o)' = "loose" \/ (Status(o) = "pinned" /\ Status(o)' = "dead")
  BY DEF Deliverable, decRefAndRelease, ReleasedFlags, Status
<1>2. \A p \in Obj \ {o} : Status(p)' = Status(p)
  BY DEF decRefAndRelease, Status
<1>3. Handle(o) = "closing" /\ Handle(o)' = "closed"
  BY DEF Handle
<1>4. \A p \in Obj \ {o} : Handle(p)' = Handle(p)
  BY DEF Handle
<1> QED BY <1>1, <1>2, <1>3, <1>4 DEF Contract!FinishClose

\* Every step from a state that satisfies IInv is a step of the contract or
\* none.
LEMMA StepContract == ASSUME IInv, Next PROVE Contract!Next \/ UNCHANGED Contract!vars
<1> DEFINE Goal == Contract!Next \/ UNCHANGED Contract!vars
<1>1. CASE Return
  BY <1>1, DiesInReturn DEF Contract!Next
<1>2. ASSUME NEW o \in Obj, Construct(o) PROVE Goal
  <2>1. Status(o) = "unborn" /\ Status(o)' = "loose"
    BY <1>2 DEF IInv, TypeOK, Lifecycle, Construct, Status
  <2>2. \A p \in Obj \ {o} : Status(p)' = Status(p) /\ Handle(p)' = Handle(p)
    BY <1>2, Others DEF IInv, TypeOK, Construct
  <2>3. Handle(o)' = "open" /\ UNCHANGED <<pinned, fault>>
    BY <1>2 DEF IInv, TypeOK, Construct, Handle
  <2>4. Contract!Create(o)
    BY <2>1, <2>2, <2>3 DEF Contract!Create
  <2> QED BY <2>4 DEF Contract!Next
<1>3. ASSUME NEW o \in Obj, Drop(o) \/ close(o) \/ close_cb(o) PROVE Goal
  BY <1>3, Dies, StartsClose, FinishesClose DEF Contract!Next
<1>4. ASSUME NEW o \in Obj, NEW S \in CallbackSets, setCallback(o, S) PROVE Goal
  BY <1>4, Pins DEF Contract!Next
<1>5. ASSUME NEW o \in Obj, bind(o) \/ sendTo(o) PROVE Goal
  BY <1>5, Reopens DEF Contract!Next
<1>6. ASSUME NEW o \in Obj, LibuvTouchesFreed(o) PROVE Goal
  <2>1. life[o] = "dead" /\ uv[o] # "closed" /\ ~pinned[o]
    BY <1>6 DEF IInv, SafeDelivery, LibuvTouchesFreed, Orphan
  <2>2. Status(o) = "dead" /\ Handle(o) # "closed"
    BY <2>1 DEF Status, Handle
  <2>3. /\ \A p \in Obj : Status(p)' = Status(p) /\ Handle(p)' = Handle(p)
        /\ pinned' = pinned /\ fault' = "freed"
    BY <1>6, Others DEF LibuvTouchesFreed, objVars, uvVars
  <2>4. Contract!Break(o)
    BY <2>1, <2>2, <2>3 DEF Contract!Break, Contract!Dangling
  <2> QED BY <2>4 DEF Contract!Next
<1>7. ASSUME NEW o \in Obj, Share(o) \/ getSockname(o) PROVE Goal
  BY <1>7, Hidden DEF IInv, TypeOK, Share, getSockname, uvVars, objVars, Handle
<1>8. ASSUME NEW o \in Obj, NEW name \in {"recv", "error"}, send_cb(o) \/ recv_cb(o, name)
      PROVE  Goal
  BY <1>8, Hidden DEF send_cb, recv_cb, uvVars, Handle
<1>9. ASSUME NEW o \in Obj, EndClose(o) PROVE Goal
  <2>1. \A p \in Obj : Handle(p)' = Handle(p)
    BY <1>9 DEF IInv, TypeOK, EndClose, Handle
  <2> QED BY <1>9, <2>1, Hidden DEF EndClose, Deliverable, objVars
<1> QED BY <1>1, <1>2, <1>3, <1>4, <1>5, <1>6, <1>7, <1>8, <1>9 DEF Next, ScriptStep, LoopStep

\* UVUdp implements the contract: an object whose setCallback succeeded stays
\* alive until libuv has closed its handle.
THEOREM RefinesContract == Spec => Implements
<1>1. Init => Contract!Init
  BY DEF Init, Contract!Init, Status, Handle
<1>2. IInv /\ [Next]_vars => [Contract!Next]_Contract!vars
  <2>1. ASSUME IInv, UNCHANGED vars PROVE UNCHANGED Contract!vars
    BY <2>1, Hidden DEF vars, Handle
  <2> QED BY <2>1, StepContract
<1> QED BY <1>1, <1>2, Invariance, PTL DEF Spec, Implements, Contract!Spec
=============================================================================
