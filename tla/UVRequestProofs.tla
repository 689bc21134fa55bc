-------------------------- MODULE UVRequestProofs --------------------------
(***************************************************************************)
(* Theorems about UVRequest, for any number of sockets and requests.       *)
(*                                                                         *)
(* LoopInv: no loop is deleted under a socket or a run.  All that matters  *)
(* of a socket is that it may die and is never revived.                    *)
(* StopInv: a stop flag that this request did not set is an earlier one's, *)
(* on the default loop.                                                    *)
(* ReqIInv: freed memory is used only because of a socket that was left    *)
(* open.  The sockets still satisfy the invariant of UVUdp, and its proofs *)
(* are used as they stand, when a socket that the end of the request took  *)
(* away no longer counts as pinned: every step is one of UVUdp's, or of    *)
(* the loops, or the sweep of one socket.                                  *)
(***************************************************************************)
EXTENDS UVRequest, TLAPS

-----------------------------------------------------------------------------
(* Helpers *)

\* "own" is among the loop objects as long as one of three refers to it.
LEMMA OwnIsReferred ==
    "own" \in LoopObjects <=>
        \/ "own" \in loopHeld
        \/ running # Idle /\ running.loop = "own"
        \/ \E o \in Obj : LoopRef(o)
BY DEF LoopObjects

\* The same of the next state.
LEMMA OwnIsReferredNext ==
    "own" \in LoopObjects' <=>
        \/ "own" \in loopHeld'
        \/ running' # Idle /\ running'.loop = "own"
        \/ \E o \in Obj : LoopRef(o)'
BY DEF LoopObjects

\* A release deletes the script's own loop only when nothing refers to it any
\* more, and never the default loop.
LEMMA ReleaseKeeps ==
    ASSUME LoopInv, ReleaseLoops
    PROVE /\ uvloop' \in [Loops -> {"none", "live", "deleted"}]
          /\ uvloop'["default"] = "live"
          /\ "own" \in LoopObjects' => uvloop'["own"] = uvloop["own"]
BY DEF LoopInv, ReleaseLoops, Delete, Deletes, Loops

\* No step of a socket that is there already revives an object.
LEMMA NoRevival ==
    ASSUME LoopInv, NEW o \in Obj, Call(o) \/ Deliver(o) \/ Touch(o)
    PROVE /\ life' \in [Obj -> {"unborn", "live", "dead"}]
          /\ \A p \in Obj : life'[p] = "live" => life[p] = "live"
          /\ \A p \in Obj : life[p] = "dead" => life'[p] = "dead"
<1> USE DEF LoopInv
<1>1. CASE Drop(o)
  BY <1>1 DEF Drop, decRefAndRelease
<1>2. CASE bind(o) \/ close(o) \/ sendTo(o) \/ \E S \in CallbackSets : setCallback(o, S)
  BY <1>2 DEF bind, close, sendTo, setCallback, objVars
<1>3. CASE send_cb(o) \/ \E name \in {"recv", "error"} : recv_cb(o, name)
  BY <1>3 DEF send_cb, recv_cb
<1>4. CASE close_cb(o)
  BY <1>4 DEF close_cb, decRefAndRelease
<1>5. CASE LibuvTouchesFreed(o) \/ EndClose(o)
  BY <1>5 DEF LibuvTouchesFreed, EndClose, objVars
<1> QED BY <1>1, <1>2, <1>3, <1>4, <1>5 DEF Call, Deliver, Touch

\* If objects only die, and the script and the run let go of loops only, the
\* loops that are referred to were referred to before.
LEMMA OwnWasReferred ==
    ASSUME loopHeld' \subseteq loopHeld, running' = Idle \/ UNCHANGED running, UNCHANGED loopOf,
           \A p \in Obj : life'[p] = "live" => life[p] = "live",
           "own" \in LoopObjects'
    PROVE "own" \in LoopObjects
BY OwnIsReferred, OwnIsReferredNext DEF LoopRef

-----------------------------------------------------------------------------
(* LoopInv is inductive *)

\* The process starts with its default loop and no socket.
LEMMA Init_Inv == ASSUME ReqInit PROVE LoopInv
<1>1. ~("own" \in LoopObjects)
  BY OwnIsReferred DEF ReqInit, Init, LoopRef
<1> QED BY <1>1 DEF ReqInit, Init, LoopInv, Loops

\* A new loop of the script's own.
LEMMA NewLoop_Inv == ASSUME LoopInv, NewLoop PROVE LoopInv'
<1>1. uvloop' = [uvloop EXCEPT !["own"] = "live"] /\ loopHeld' = loopHeld \cup {"own"}
  BY DEF NewLoop
<1>2. UNCHANGED <<life, loopOf, running, sweeping>>
  BY DEF NewLoop, vars, endVars
<1> QED BY <1>1, <1>2 DEF LoopInv, Loops

\* The script takes a reference to the default loop.
LEMMA makeDefaultLoop_Inv == ASSUME LoopInv, makeDefaultLoop PROVE LoopInv'
<1>1. UNCHANGED <<uvloop, life, loopOf, running, sweeping>> /\ loopHeld' = loopHeld \cup {"default"}
  BY DEF makeDefaultLoop, vars, endVars
<1>2. "own" \in LoopObjects' => "own" \in LoopObjects
  BY <1>1, OwnIsReferred, OwnIsReferredNext DEF LoopRef
<1> QED BY <1>1, <1>2 DEF LoopInv, Loops

\* stop() sets a flag and lets go of nothing.
LEMMA StopLoop_Inv == ASSUME LoopInv, NEW l \in Loops, StopLoop(l) PROVE LoopInv'
<1>1. UNCHANGED <<uvloop, life, loopOf, loopHeld, running, sweeping>>
  BY DEF StopLoop, vars, endVars
<1>2. "own" \in LoopObjects' => "own" \in LoopObjects
  BY <1>1, OwnWasReferred
<1> QED BY <1>1, <1>2 DEF LoopInv

\* The script lets go of a loop.
LEMMA DropLoop_Inv == ASSUME LoopInv, NEW l \in Loops, DropLoop(l) PROVE LoopInv'
<1>1. UNCHANGED <<life, loopOf, running, sweeping>> /\ loopHeld' = loopHeld \ {l} /\ ReleaseLoops
  BY DEF DropLoop, vars, endVars
<1>2. "own" \in LoopObjects' => "own" \in LoopObjects
  BY <1>1, OwnWasReferred
<1> QED BY <1>1, <1>2, ReleaseKeeps DEF LoopInv

\* run() on a loop the script holds; it may return at once.
LEMMA Run_Inv == ASSUME LoopInv, NEW l \in Loops, NEW mode \in Modes, Run(l, mode) PROVE LoopInv'
<1>1. /\ UNCHANGED <<uvloop, life, loopOf, loopHeld, sweeping>> /\ ~sweeping /\ l \in loopHeld
      /\ running' = Idle \/ running' = [loop |-> l, mode |-> mode]
  BY DEF Run, Returned, MayAct, vars, endVars
<1>2. "own" \in LoopObjects' => "own" \in LoopObjects
  BY <1>1, OwnIsReferred, OwnIsReferredNext DEF LoopRef
<1> QED BY <1>1, <1>2 DEF LoopInv

\* The run ends, and with it perhaps the last reference to its loop.
LEMMA RunReturns_Inv == ASSUME LoopInv, RunReturns PROVE LoopInv'
<1>1. UNCHANGED <<life, loopOf, loopHeld, sweeping>> /\ running' = Idle /\ ReleaseLoops
  BY DEF RunReturns, Returned, vars, endVars
<1>2. "own" \in LoopObjects' => "own" \in LoopObjects
  BY <1>1, OwnWasReferred
<1> QED BY <1>1, <1>2, ReleaseKeeps DEF LoopInv

\* A new socket is on a loop that the script holds, or on the default loop.
LEMMA ConstructOn_Inv ==
    ASSUME LoopInv, NEW o \in Obj, NEW l \in Loops, ConstructOn(o, l) PROVE LoopInv'
<1>1. /\ UNCHANGED <<uvloop, loopHeld, running, sweeping>>
      /\ l = "own" => l \in loopHeld
      /\ life' = [life EXCEPT ![o] = "live"] /\ loopOf' = [loopOf EXCEPT ![o] = l]
  BY DEF ConstructOn, Construct, loopVars, endVars
<1>2. "own" \in LoopObjects' => "own" \in LoopObjects
  BY <1>1, OwnIsReferred, OwnIsReferredNext DEF LoopRef, LoopInv, Loops
<1> QED BY <1>1, <1>2 DEF LoopInv, Loops

\* A socket that dies lets go of its loop.
LEMMA SocketStep_Inv == ASSUME LoopInv, SocketStep PROVE LoopInv'
<1>1. UNCHANGED <<loopOf, loopHeld, running, sweeping>> /\ ReleaseLoops
  BY DEF SocketStep, endVars
<1>2. /\ life' \in [Obj -> {"unborn", "live", "dead"}]
      /\ \A p \in Obj : life'[p] = "live" => life[p] = "live"
  <2>1. CASE Return BY <2>1 DEF Return, decRefAndRelease, LoopInv
  <2>2. ASSUME NEW o \in Obj, Call(o) \/ Deliver(o) \/ Touch(o) PROVE <1>2
    BY <2>2, NoRevival
  <2> QED BY <2>1, <2>2 DEF SocketStep
<1>3. "own" \in LoopObjects' => "own" \in LoopObjects
  BY <1>1, <1>2, OwnWasReferred
<1> QED BY <1>1, <1>2, <1>3, ReleaseKeeps DEF LoopInv

\* The sweep may delete the loop before the sockets: from the end of the
\* request on nothing is claimed until the next one has started with none.
LEMMA EndRequest_Inv == ASSUME LoopInv, EndRequest PROVE LoopInv'
<1>1. UNCHANGED <<uvloop, life, loopOf, loopHeld, running>> /\ sweeping' /\ running = Idle
  BY DEF EndRequest, loopVars, vars
<1> QED BY <1>1 DEF LoopInv

\* During the sweep the script's own loop may go at any time.
LEMMA Sweep_Inv ==
    ASSUME LoopInv, (\E o \in Obj : SweepSocket(o)) \/ \E l \in Loops : SweepLoop(l) PROVE LoopInv'
<1>1. ASSUME NEW o \in Obj, SweepSocket(o) PROVE LoopInv'
  <2>1. UNCHANGED <<uvloop, loopOf, loopHeld, running, sweeping>> /\ sweeping
        /\ life' = [life EXCEPT ![o] = "dead"]
    BY <1>1 DEF SweepSocket, loopVars
  <2> QED BY <2>1 DEF LoopInv
<1>2. ASSUME NEW l \in Loops, SweepLoop(l) PROVE LoopInv'
  <2>1. UNCHANGED <<life, loopOf, loopHeld, running, sweeping>> /\ sweeping
    BY <1>2 DEF SweepLoop, vars
  <2>2. uvloop' \in [Loops -> {"none", "live", "deleted"}] /\ uvloop'["default"] = "live"
    BY <1>2 DEF SweepLoop, Delete, Deletes, LoopInv, Loops
  <2> QED BY <2>1, <2>2 DEF LoopInv
<1> QED BY <1>1, <1>2

\* A request starts without a loop of its own and without live sockets.
LEMMA NextRequest_Inv == ASSUME LoopInv, NextRequest PROVE LoopInv'
<1>1. /\ running = Idle /\ loopHeld' = {} /\ UNCHANGED <<life, running>>
      /\ uvloop' = [uvloop EXCEPT !["own"] = "none"]
      /\ \A o \in Obj : life[o] # "live"
      /\ loopOf' = [o \in Obj |-> IF loopOf[o] = "own" THEN "gone" ELSE loopOf[o]]
  BY DEF NextRequest, vars, LoopInv
<1>2. ~("own" \in LoopObjects')
  BY <1>1, OwnIsReferredNext DEF LoopRef
<1> QED BY <1>1, <1>2 DEF LoopInv, Loops

\* A step that changes nothing.
LEMMA Stutter_Inv == ASSUME LoopInv, UNCHANGED reqVars PROVE LoopInv'
<1>1. UNCHANGED <<uvloop, life, loopOf, loopHeld, running, sweeping>>
  BY DEF reqVars, vars, loopVars, endVars
<1>2. "own" \in LoopObjects' => "own" \in LoopObjects
  BY <1>1, OwnWasReferred
<1> QED BY <1>1, <1>2 DEF LoopInv

\* Every step is one of those above.
LEMMA Step_Inv == ASSUME LoopInv, [ReqNext]_reqVars PROVE LoopInv'
<1>1. CASE NewLoop \/ makeDefaultLoop \/ RunReturns
  BY <1>1, NewLoop_Inv, makeDefaultLoop_Inv, RunReturns_Inv
<1>2. ASSUME NEW l \in Loops, LoopCall(l) PROVE LoopInv'
  BY <1>2, DropLoop_Inv, StopLoop_Inv, Run_Inv DEF LoopCall
<1>3. ASSUME NEW l \in Loops, NEW o \in Obj, ConstructOn(o, l) PROVE LoopInv'
  BY <1>3, ConstructOn_Inv
<1>4. CASE SocketStep BY <1>4, SocketStep_Inv
<1>5. CASE EndRequest \/ NextRequest BY <1>5, EndRequest_Inv, NextRequest_Inv
<1>6. CASE (\E o \in Obj : SweepSocket(o)) \/ \E l \in Loops : SweepLoop(l) BY <1>6, Sweep_Inv
<1>7. CASE UNCHANGED reqVars BY <1>7, Stutter_Inv
<1> QED BY <1>1, <1>2, <1>3, <1>4, <1>5, <1>6, <1>7 DEF ReqNext

\* In every state of UVRequest: while the script runs, the loop of a live
\* socket, and the loop that runs, exist.
THEOREM LoopsOutlive == ReqSpec => []LoopOutlivesSockets
<1>1. ReqInit => LoopInv BY Init_Inv
<1>2. LoopInv /\ [ReqNext]_reqVars => LoopInv' BY Step_Inv
<1>3. LoopInv => LoopOutlivesSockets
  <2> SUFFICES ASSUME LoopInv, ~sweeping PROVE LoopOutlivesSockets
    BY DEF LoopOutlivesSockets
  <2>1. \A o \in Obj : life[o] = "live" => uvloop[loopOf[o]] = "live"
    BY OwnIsReferred DEF LoopInv, LoopRef, Loops
  <2>2. running # Idle => uvloop[running.loop] = "live"
    BY OwnIsReferred DEF LoopInv, Loops
  <2> QED BY <2>1, <2>2 DEF LoopOutlivesSockets
<1> QED BY <1>1, <1>2, <1>3, PTL DEF ReqSpec

-----------------------------------------------------------------------------
(* EarlyOnlyStale *)

\* The process starts without a stop flag.
LEMMA Init_Stop == ASSUME ReqInit PROVE StopInv
BY DEF ReqInit, StopInv, EarlyOnlyStale

\* run() clears the flag of its loop. If it returns early, the flag was set
\* but not by this request.
LEMMA Returned_Stop ==
    ASSUME StopInv, NEW l \in Loops, NEW mode \in Modes, Returned(l, mode),
           l \in stop \/ ~Alive(l) \/ mode = "RUN_ONCE", UNCHANGED request
    PROVE  StopInv'
<1>1. stop' = stop \ {l} /\ asked' = asked
  BY DEF Returned
<1>2. EarlyOnlyStale'
  <2> SUFFICES ASSUME NEW e \in early' PROVE e[1] = "default" /\ e[2] > 1
    BY DEF EarlyOnlyStale
  <2>1. CASE e \in early
    BY <2>1 DEF StopInv, EarlyOnlyStale
  <2>2. CASE e \notin early
    <3>1. e = <<l, request>> /\ mode = "RUN_DEFAULT" /\ Alive(l) /\ l \notin asked
      BY <2>2 DEF Returned
    <3>2. l = "default" /\ request > 1
      BY <3>1 DEF StopInv
    <3> QED BY <3>1, <3>2
  <2> QED BY <2>1, <2>2
<1> QED BY <1>1, <1>2 DEF StopInv

\* stop() sets the flag of a loop and is remembered for this request.
LEMMA StopLoop_Stop == ASSUME StopInv, NEW l \in Loops, StopLoop(l) PROVE StopInv'
BY DEF StopInv, StopLoop, StopTarget, endVars, EarlyOnlyStale

\* The flag of the default loop survives the request; the others go with
\* their loop.
LEMMA NextRequest_Stop == ASSUME StopInv, NextRequest PROVE StopInv'
<1>1. request' \in Nat \ {0} /\ request' > 1
  BY DEF StopInv, NextRequest
<1> QED BY <1>1 DEF StopInv, NextRequest, Loops, EarlyOnlyStale

\* No other step looks at a flag or at the request's number.
LEMMA Step_Stop == ASSUME LoopInv, StopInv, [ReqNext]_reqVars PROVE StopInv'
<1>1. ASSUME UNCHANGED <<request, stop, asked, early>> PROVE StopInv'
  BY <1>1 DEF StopInv, EarlyOnlyStale
<1>2. CASE NewLoop \/ makeDefaultLoop \/ SocketStep \/ EndRequest
  BY <1>1, <1>2 DEF NewLoop, makeDefaultLoop, SocketStep, EndRequest, endVars, loopVars
<1>3. CASE RunReturns
  <2>1. running.loop \in Loops /\ running.mode \in Modes
    BY <1>3 DEF RunReturns, LoopInv
  <2> QED BY <1>3, <2>1, Returned_Stop DEF RunReturns, endVars
<1>4. ASSUME NEW l \in Loops, NEW mode \in Modes, Run(l, mode) PROVE StopInv'
  <2>1. CASE l \in stop \/ ~Alive(l)
    BY <1>4, <2>1, Returned_Stop DEF Run, endVars
  <2>2. CASE ~(l \in stop \/ ~Alive(l))
    BY <1>1, <1>4, <2>2 DEF Run, endVars
  <2> QED BY <2>1, <2>2
<1>5. ASSUME NEW l \in Loops, NEW o \in Obj, ConstructOn(o, l) PROVE StopInv'
  BY <1>1, <1>5 DEF ConstructOn, endVars, loopVars
<1>6. ASSUME NEW l \in Loops, DropLoop(l) \/ SweepLoop(l) PROVE StopInv'
  BY <1>1, <1>6 DEF DropLoop, SweepLoop, endVars
<1>7. ASSUME NEW o \in Obj, SweepSocket(o) PROVE StopInv'
  BY <1>1, <1>7 DEF SweepSocket, loopVars
<1>8. CASE UNCHANGED reqVars
  BY <1>1, <1>8 DEF reqVars, loopVars, endVars
<1> QED BY <1>2, <1>3, <1>4, <1>5, <1>6, <1>7, <1>8, StopLoop_Stop, NextRequest_Stop
        DEF ReqNext, LoopCall

\* A run in the default mode that nobody stopped returns with work left only
\* on the default loop, and only in a later request.
THEOREM EarlyIsStale == ReqSpec => []EarlyOnlyStale
<1>1. ReqInit => LoopInv /\ StopInv
  BY Init_Inv, Init_Stop
<1>2. LoopInv /\ StopInv /\ [ReqNext]_reqVars => LoopInv' /\ StopInv'
  BY Step_Inv, Step_Stop
<1>3. StopInv => EarlyOnlyStale
  BY DEF StopInv
<1> QED BY <1>1, <1>2, <1>3, PTL DEF ReqSpec

-----------------------------------------------------------------------------
(* UnsafeOnlyLeftOpen *)

\* The sockets as UVUdp knows them: what the end of a request takes away was
\* not protected by the reference to itself, as if it never had one.
U == INSTANCE UVUdpProofs WITH pinned <- [o \in Obj |-> pinned[o] /\ o \notin swept]

\* The inductive invariant.
ReqIInv == LoopInv /\ SweepInv /\ U!IInv

\* What UVUdp assumes of its constants.
LEMMA UAssumptions ==
    /\ None \notin [cb : U!Callbacks, obj : Obj]
    /\ MaxRefs \in Nat \ {0} /\ MaxSends \in Nat /\ CallbackSets \subseteq SUBSET U!Callbacks
BY NoneAssumption, BoundAssumption DEF Callbacks, U!Callbacks

\* U's names for what does not depend on pinned.
LEMMA SameTests ==
    ASSUME NEW o
    PROVE  /\ U!InFrame(o) <=> InFrame(o)
           /\ U!Reachable(o) <=> Reachable(o)
           /\ U!Deliverable(o) <=> Deliverable(o)
           /\ U!RecvStartOk(o) <=> RecvStartOk(o)
           /\ U!Orphan(o) <=> Orphan(o)
           /\ U!Opened(o) = Opened(o)
           /\ U!ScriptRuns <=> ScriptRuns
BY DEF InFrame, U!InFrame, ScriptRuns, U!ScriptRuns, Reachable, U!Reachable,
       Deliverable, U!Deliverable, RecvStartOk, U!RecvStartOk, Orphan, U!Orphan, Opened, U!Opened

LEMMA SameRelease ==
    ASSUME NEW o, NEW f, NEW r, decRefAndRelease(o, f, r)
    PROVE  U!decRefAndRelease(o, f, r)
BY DEF decRefAndRelease, U!decRefAndRelease, ReleasedFlags, U!ReleasedFlags,
       RecvStopped, U!RecvStopped

LEMMA SameCall ==
    ASSUME NEW o, NEW name, CallUser(name, o)
    PROVE  U!CallUser(name, o)
BY DEF CallUser, U!CallUser

\* While nothing is swept, the calls and callbacks are those of UVUdp.
LEMMA CallIsStep ==
    ASSUME UNCHANGED swept, U!IInv, SweepInv, NEW o \in Obj, Call(o)
    PROVE  U!Next
<1>1. CASE Drop(o)
  <2>1. U!Drop(o)
    BY <1>1, SameTests, SameRelease DEF Drop, U!Drop, addrVars, U!addrVars
  <2> QED BY <2>1 DEF U!Next, U!ScriptStep
<1>2. CASE close(o)
  <2>1. U!close(o)
    BY <1>2, SameTests DEF close, CloseAborts, objVars, U!close, U!CloseAborts, U!objVars
  <2> QED BY <2>1 DEF U!Next, U!ScriptStep
<1>3. CASE bind(o) \/ sendTo(o)
  <2>1. [p \in Obj |-> pinned[p] /\ p \notin swept]'
        = [[p \in Obj |-> pinned[p] /\ p \notin swept] EXCEPT ![o] = @ /\ uv[o] # "closed"]
    BY <1>3 DEF bind, sendTo, SweepInv
  <2>2. CASE bind(o)
    BY <2>1, <2>2, SameTests DEF bind, objVars, U!bind, U!objVars, U!Next, U!ScriptStep
  <2>3. CASE sendTo(o)
    BY <2>1, <2>3, SameTests DEF sendTo, objVars, U!sendTo, U!objVars, U!Next, U!ScriptStep
  <2> QED BY <1>3, <2>2, <2>3
<1>4. ASSUME NEW S \in CallbackSets, setCallback(o, S) PROVE U!Next
  <2>1. o \notin swept
    BY <1>4 DEF setCallback, Reachable, SweepInv
  <2>2. [p \in Obj |-> pinned[p] /\ p \notin swept]'
        = [[p \in Obj |-> pinned[p] /\ p \notin swept] EXCEPT ![o] = TRUE]
    BY <1>4, <2>1 DEF setCallback, SweepInv
  <2>3. U!setCallback(o, S)
    BY <1>4, <2>2, SameTests DEF setCallback, SelfRefs, U!setCallback, U!SelfRefs
  <2> QED BY <2>3 DEF U!Next, U!ScriptStep
<1> QED BY <1>1, <1>2, <1>3, <1>4 DEF Call

LEMMA DeliverIsStep ==
    ASSUME UNCHANGED swept, NEW o \in Obj, Deliver(o) \/ Touch(o)
    PROVE  U!Next
<1>1. CASE send_cb(o)
  <2>1. U!send_cb(o)
    BY <1>1, SameTests, SameCall DEF send_cb, SendsLeft, addrVars, U!send_cb, U!SendsLeft, U!addrVars
  <2> QED BY <2>1 DEF U!Next, U!LoopStep
<1>2. ASSUME NEW name \in {"recv", "error"}, recv_cb(o, name) PROVE U!Next
  <2>1. U!recv_cb(o, name)
    BY <1>2, SameTests, SameCall DEF recv_cb, uvVars, addrVars, U!recv_cb, U!uvVars, U!addrVars
  <2> QED BY <2>1 DEF U!Next, U!LoopStep
<1>3. CASE close_cb(o)
  <2>1. U!close_cb(o)
    BY <1>3, SameTests, SameRelease DEF close_cb, ReleasedFlags, RecvStopped, addrVars,
       U!close_cb, U!ReleasedFlags, U!RecvStopped, U!addrVars
  <2> QED BY <2>1 DEF U!Next, U!LoopStep
<1>4. CASE EndClose(o)
  <2>1. U!EndClose(o)
    BY <1>4, SameTests DEF EndClose, objVars, addrVars, U!EndClose, U!objVars, U!addrVars
  <2> QED BY <2>1 DEF U!Next, U!LoopStep
<1>5. CASE LibuvTouchesFreed(o)
  <2>1. U!LibuvTouchesFreed(o)
    BY <1>5, SameTests DEF LibuvTouchesFreed, objVars, uvVars, addrVars,
       U!LibuvTouchesFreed, U!objVars, U!uvVars, U!addrVars
  <2> QED BY <2>1 DEF U!Next, U!LoopStep
<1> QED BY <1>1, <1>2, <1>3, <1>4, <1>5 DEF Deliver, Touch

LEMMA ReturnIsStep == ASSUME UNCHANGED swept, Return PROVE U!Next
<1>1. U!Return
  BY SameRelease DEF Return, addrVars, U!Return, U!addrVars
<1> QED BY <1>1 DEF U!Next

LEMMA ConstructIsStep == ASSUME UNCHANGED swept, NEW o \in Obj, Construct(o) PROVE U!Next
<1>1. U!Construct(o)
  BY SameTests DEF Construct, addrVars, U!Construct, U!addrVars
<1> QED BY <1>1 DEF U!Next, U!ScriptStep

LEMMA SameVars == ASSUME UNCHANGED <<vars, swept>> PROVE UNCHANGED U!vars
BY DEF vars, addrVars, U!vars, U!addrVars

\* A handle that was deleted open belongs to one of the two kinds.
LEMMA OrphanIsLeftOpen ==
    ASSUME U!IInv, NEW o \in Obj, Orphan(o)
    PROVE  ~pinned[o] \/ o \in swept
BY DEF U!IInv, U!SafeDelivery, Orphan

\* A release of loops breaks only at a handle that was deleted open.
LEMMA ReleaseFault ==
    ASSUME NEW S, Delete(S), ~loopFault, loopFault'
    PROVE  \E o \in Obj : Orphan(o)'
BY DEF Delete, CloseTouchesFreed

\* What is released is a set of loops.
LEMMA ReleaseDeletes == ASSUME LoopInv, ReleaseLoops PROVE \E S \in SUBSET Loops : Delete(S)
<1>1. \A l \in LoopObjects : l \in Loops
  BY DEF LoopInv, LoopObjects, Loops
<1>2. {l \in LoopObjects : l \notin LoopObjects' /\ Deletes(l)} \in SUBSET Loops
  BY <1>1
<1> QED BY <1>2 DEF ReleaseLoops

\* At first there is no socket.
LEMMA Init_Req == ASSUME ReqInit PROVE ReqIInv
<1>1. U!Init
  BY DEF ReqInit, Init, U!Init
<1>2. U!IInv
  BY <1>1, U!Init_Inv, UAssumptions
<1>3. SweepInv
  BY DEF ReqInit, Init, SweepInv
<1> QED BY <1>2, <1>3, Init_Inv DEF ReqIInv

\* Steps of the loops leave the sockets alone.
LEMMA LoopStep_Req ==
    ASSUME ReqIInv, UNCHANGED <<vars, swept>>,
           frame # None => running' # Idle,
           loopFault' = loopFault \/ \E S \in SUBSET Loops : Delete(S)
    PROVE  SweepInv' /\ U!IInv'
<1>1. U!IInv'
  BY SameVars, U!Stutter_Inv, UAssumptions DEF ReqIInv
<1>2. UNCHANGED <<life, uv, flag, receiving, frame, pinned, swept>>
  BY DEF vars
<1>3. loopFault' => \E o \in Obj : Orphan(o)'
  <2>1. CASE loopFault
    BY <1>2, <2>1 DEF ReqIInv, SweepInv, Orphan
  <2>2. CASE ~loopFault
    BY <2>2, ReleaseFault
  <2> QED BY <2>1, <2>2
<1> QED BY <1>1, <1>2, <1>3 DEF ReqIInv, SweepInv

\* A step of the sockets keeps the type of the history of setCallback.
LEMMA PinnedKept ==
    ASSUME ReqIInv, NEW o \in Obj, Call(o) \/ Deliver(o) \/ Touch(o)
    PROVE  pinned' \in [Obj -> BOOLEAN]
<1> USE DEF ReqIInv, SweepInv
<1>1. CASE Drop(o) \/ close(o)
  BY <1>1 DEF Drop, close
<1>2. CASE bind(o) \/ sendTo(o) \/ \E S \in CallbackSets : setCallback(o, S)
  BY <1>2 DEF bind, sendTo, setCallback
<1>3. CASE send_cb(o) \/ EndClose(o) \/ close_cb(o) \/ LibuvTouchesFreed(o)
  BY <1>3 DEF send_cb, EndClose, close_cb, LibuvTouchesFreed
<1>4. ASSUME NEW name \in {"recv", "error"}, recv_cb(o, name) PROVE pinned' \in [Obj -> BOOLEAN]
  BY <1>4 DEF recv_cb
<1> QED BY <1>1, <1>2, <1>3, <1>4 DEF Call, Deliver, Touch

\* No step of a socket revives one that is dead, and a callback starts only
\* while a loop runs.
LEMMA SocketStep_Req == ASSUME ReqIInv, SocketStep PROVE SweepInv' /\ U!IInv'
<1> USE DEF ReqIInv
<1>1. UNCHANGED <<swept, running>> /\ ~loopFault /\ ReleaseLoops
  BY DEF SocketStep, endVars
<1>2. U!Next
  BY <1>1, CallIsStep, DeliverIsStep, ReturnIsStep DEF SocketStep
<1>3. U!IInv'
  BY <1>2, U!Step_Inv, UAssumptions
<1>4. loopFault' => \E o \in Obj : Orphan(o)'
  BY <1>1, ReleaseFault DEF ReleaseLoops
<1>5. CASE Return
  <2>1. frame' = None /\ pinned' = pinned
    BY <1>5 DEF Return
  <2>2. \A o \in Obj : life[o] = "dead" => life'[o] = "dead"
    BY <1>5 DEF Return, decRefAndRelease, LoopInv
  <2> QED BY <1>1, <1>3, <1>4, <2>1, <2>2 DEF SweepInv
<1>6. ASSUME NEW o \in Obj, Call(o) \/ Deliver(o) \/ Touch(o) PROVE SweepInv'
  <2>1. pinned' \in [Obj -> BOOLEAN]
    BY <1>6, PinnedKept
  <2>2. frame' # None => running # Idle
    <3>1. CASE Call(o) \/ Touch(o)
      BY <3>1 DEF Call, Touch, Drop, bind, close, sendTo, setCallback, LibuvTouchesFreed, SweepInv
    <3>2. CASE Deliver(o)
      BY <3>2 DEF Deliver
    <3> QED BY <1>6, <3>1, <3>2
  <2>3. \A p \in Obj : life[p] = "dead" => life'[p] = "dead"
    BY <1>6, NoRevival
  <2> QED BY <1>1, <1>4, <2>1, <2>2, <2>3 DEF SweepInv
<1> QED BY <1>3, <1>5, <1>6 DEF SocketStep

\* A new socket is on a loop that exists.
LEMMA ConstructOn_Req ==
    ASSUME ReqIInv, NEW o \in Obj, NEW l \in Loops, ConstructOn(o, l)
    PROVE  SweepInv' /\ U!IInv'
<1> USE DEF ReqIInv
<1>1. UNCHANGED <<swept, running>> /\ Construct(o)
  BY DEF ConstructOn, loopVars, endVars
<1>2. U!IInv'
  BY <1>1, ConstructIsStep, U!Step_Inv, UAssumptions
<1>3. uvloop[l] = "live"
  BY OwnIsReferred DEF ConstructOn, MayAct, LoopInv, Loops
<1>4. ~loopFault'
  BY <1>3 DEF ConstructOn
<1> QED BY <1>1, <1>2, <1>4 DEF SweepInv, Construct

\* The end of a request deletes a handle that may be open, and says so.
LEMMA SweepSocket_Req == ASSUME ReqIInv, NEW o \in Obj, SweepSocket(o) PROVE SweepInv' /\ U!IInv'
<1> USE DEF ReqIInv
<1>1. /\ fault = "none" /\ ~loopFault /\ sweeping /\ life[o] = "live"
      /\ life' = [life EXCEPT ![o] = "dead"]
      /\ rc' = [rc EXCEPT ![o] = 0] /\ held' = [held EXCEPT ![o] = 0]
      /\ cb' = [cb EXCEPT ![o] = {}] /\ swept' = swept \cup {o}
      /\ again' = [again EXCEPT ![o] = FALSE]
      /\ UNCHANGED <<uv, sends, bound, sockPort, frame, pinned, fault, running>>
  BY DEF SweepSocket, Sound, addrVars, loopVars
<1>2. frame = None
  BY <1>1 DEF LoopInv, SweepInv
<1>3. /\ flag' = [flag EXCEPT ![o] = @ \ {"READ_START", "HANDLE_START", "INTERNAL_REF"}]
      /\ receiving' = [receiving EXCEPT ![o] = FALSE]
  <2>1. RecvStopped(flag[o], receiving[o]) = FALSE
    BY DEF RecvStopped, U!IInv, U!TypeOK, U!Lifecycle
  <2> QED BY <2>1 DEF SweepSocket, ReleasedFlags
<1>4. U!TypeOK'
  BY <1>1, <1>3, UAssumptions DEF U!IInv, U!TypeOK
<1>5. U!RefCountExact'
  BY <1>1, <1>2, <1>3 DEF U!IInv, U!TypeOK, U!RefCountExact, U!InFrame
<1>6. U!SafeDelivery' /\ U!Lifecycle'
  <2>1. ASSUME NEW p \in Obj \ {o}
        PROVE  /\ UNCHANGED <<life[p], rc[p], held[p], cb[p], flag[p], receiving[p], again[p]>>
               /\ p \in swept' <=> p \in swept
    BY <1>1, <1>3 DEF U!IInv, U!TypeOK
  <2> DEFINE Guarded(p) == pinned[p] /\ p \notin swept
             Safe(p) == /\ receiving[p] => life[p] = "live" /\ "INTERNAL_REF" \in flag[p]
                        /\ Guarded(p) /\ life[p] = "dead" => uv[p] = "closed" /\ sends[p] = 0
             Whole(p) == /\ life[p] = "unborn" <=> uv[p] = "none"
                         /\ life[p] = "unborn" => /\ ~Guarded(p) /\ ~again[p] /\ flag[p] = {}
                                                  /\ sends[p] = 0 /\ ~bound[p]
                         /\ life[p] = "live" => rc[p] > 0
                         /\ life[p] # "live" => held[p] = 0
                         /\ "INTERNAL_REF" \in flag[p] <=> Guarded(p) /\ uv[p] # "closed"
                         /\ "INTERNAL_REF" \in flag[p] => life[p] = "live"
                         /\ "READ_START" \in flag[p] <=> "INTERNAL_REF" \in flag[p]
                         /\ "INTERNAL_REF" \in flag[p] /\ uv[p] \in {"open", "reopened"} => receiving[p]
                         /\ "INTERNAL_REF" \in flag[p] /\ again[p] => receiving[p]
                         /\ receiving[p] => "INTERNAL_REF" \in flag[p] /\ bound[p]
                         /\ cb[p] # {} => Guarded(p) \/ uv[p] = "reopened"
                         /\ uv[p] = "closed" => sends[p] = 0
  <2>2. /\ U!SafeDelivery => \A p \in Obj : Safe(p)
        /\ (\A p \in Obj : Safe(p)') => U!SafeDelivery'
    BY DEF U!SafeDelivery
  <2>3. /\ U!Lifecycle => \A p \in Obj : Whole(p)
        /\ (\A p \in Obj : Whole(p)') => U!Lifecycle'
    BY DEF U!Lifecycle
  <2>4. \A p \in Obj : Safe(p) /\ Whole(p)
    BY <2>2, <2>3 DEF U!IInv
  <2>5. /\ life'[o] = "dead" /\ held'[o] = 0 /\ cb'[o] = {} /\ ~receiving'[o]
        /\ flag'[o] \cap {"READ_START", "INTERNAL_REF"} = {} /\ o \in swept' /\ uv'[o] # "none"
    BY <1>1, <1>3 DEF U!IInv, U!TypeOK, U!Lifecycle
  <2>6. ASSUME NEW p \in Obj \ {o} PROVE Safe(p)' /\ Whole(p)'
    BY <1>1, <2>1, <2>4
  <2>7. Safe(o)' /\ Whole(o)'
    <3>1. uv[o] = "closed" => sends[o] = 0
      BY <2>4
    <3> QED BY <1>1, <2>5, <3>1
  <2>8. \A p \in Obj : Safe(p)' /\ Whole(p)'
    BY <2>6, <2>7
  <2> QED BY <2>2, <2>3, <2>8
<1>7. U!FrameHeld' /\ U!FreedOnlyUnpinned'
  BY <1>1, <1>2 DEF U!FrameHeld, U!FreedOnlyUnpinned
<1>8. U!IInv'
  BY <1>4, <1>5, <1>6, <1>7 DEF U!IInv
<1>9. loopFault' => Orphan(o)'
  <2>1. SweepTouchesLoop(o) => uv[o] # "closed"
    BY DEF SweepTouchesLoop, U!IInv, U!Lifecycle
  <2> QED BY <1>1, <2>1 DEF SweepSocket, Orphan, U!IInv, U!TypeOK
<1> QED BY <1>1, <1>2, <1>3, <1>8, <1>9 DEF SweepInv, U!IInv, U!TypeOK

\* The release of a loop in the sweep is one of the loops' steps; every other
\* step was looked at above, or changes neither a socket nor a loop.
LEMMA Step_Req == ASSUME ReqIInv, [ReqNext]_reqVars PROVE ReqIInv'
<1>1. LoopInv'
  BY Step_Inv DEF ReqIInv
<1>2. CASE NewLoop \/ makeDefaultLoop \/ EndRequest \/ UNCHANGED reqVars
  <2>1. UNCHANGED <<vars, swept, running, loopFault>>
    BY <1>2 DEF NewLoop, makeDefaultLoop, EndRequest, reqVars, endVars, loopVars
  <2> QED BY <1>1, <2>1, LoopStep_Req DEF ReqIInv, SweepInv
<1>3. CASE NextRequest
  <2>1. UNCHANGED <<vars, swept, running, loopFault>>
    BY <1>3 DEF NextRequest
  <2> QED BY <1>1, <2>1, LoopStep_Req DEF ReqIInv, SweepInv
<1>4. CASE RunReturns
  <2>1. UNCHANGED <<vars, swept>> /\ frame = None /\ ReleaseLoops
    BY <1>4 DEF RunReturns, endVars
  <2>2. \E S \in SUBSET Loops : Delete(S)
    BY <2>1, ReleaseDeletes DEF ReqIInv
  <2> QED BY <1>1, <2>1, <2>2, LoopStep_Req DEF ReqIInv
<1>5. ASSUME NEW l \in Loops, DropLoop(l) PROVE ReqIInv'
  <2>1. UNCHANGED <<vars, swept, running>> /\ ReleaseLoops
    BY <1>5 DEF DropLoop, endVars
  <2>2. \E S \in SUBSET Loops : Delete(S)
    BY <2>1, ReleaseDeletes DEF ReqIInv
  <2> QED BY <1>1, <2>1, <2>2, LoopStep_Req DEF ReqIInv, SweepInv
<1>6. ASSUME NEW l \in Loops, SweepLoop(l) PROVE ReqIInv'
  <2>1. UNCHANGED <<vars, swept, running>> /\ \E S \in SUBSET Loops : Delete(S)
    BY <1>6 DEF SweepLoop
  <2> QED BY <1>1, <2>1, LoopStep_Req DEF ReqIInv, SweepInv
<1>7. ASSUME NEW l \in Loops, StopLoop(l) \/ \E mode \in Modes : Run(l, mode) PROVE ReqIInv'
  <2>1. UNCHANGED <<vars, swept, loopFault>> /\ (frame # None => UNCHANGED running)
    BY <1>7 DEF StopLoop, Run, endVars, ReqIInv, SweepInv
  <2> QED BY <1>1, <2>1, LoopStep_Req DEF ReqIInv, SweepInv
<1>8. ASSUME NEW l \in Loops, NEW o \in Obj, ConstructOn(o, l) PROVE ReqIInv'
  BY <1>1, <1>8, ConstructOn_Req DEF ReqIInv
<1>9. CASE SocketStep \/ \E o \in Obj : SweepSocket(o)
  BY <1>1, <1>9, SocketStep_Req, SweepSocket_Req DEF ReqIInv
<1> QED BY <1>2, <1>3, <1>4, <1>5, <1>6, <1>7, <1>8, <1>9 DEF ReqNext, LoopCall

\* A script that closes each socket, and runs the loop until the close
\* callbacks came, cannot make the extension use freed memory, and neither can
\* the requests after it: what breaks is a socket that was left open.
THEOREM UnsafeExplained == ReqSpec => []UnsafeOnlyLeftOpen
<1>1. ReqInit => ReqIInv BY Init_Req
<1>2. ReqIInv /\ [ReqNext]_reqVars => ReqIInv' BY Step_Req
<1>3. ReqIInv => UnsafeOnlyLeftOpen
  <2> SUFFICES ASSUME ReqIInv PROVE UnsafeOnlyLeftOpen
    OBVIOUS
  <2>1. fault = "freed" => \E o \in Obj : Orphan(o)
    BY SameTests DEF ReqIInv, U!IInv, U!FreedOnlyUnpinned
  <2> QED BY <2>1, OrphanIsLeftOpen DEF ReqIInv, SweepInv, UnsafeOnlyLeftOpen
<1> QED BY <1>1, <1>2, <1>3, PTL DEF ReqSpec
=============================================================================
