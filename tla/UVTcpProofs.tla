---------------------------- MODULE UVTcpProofs ----------------------------
(***************************************************************************)
(* Theorems about UVTcp, for every set of objects and all bounds.          *)
(*                                                                         *)
(* IInv is inductive: one lemma for each action, with its conjuncts in     *)
(* five groups: the types; the exact count; what a pinned object is        *)
(* guaranteed and who is pinned; the mirrored flags and the life cycle;    *)
(* the running callback and crashes.  The safety properties follow, and    *)
(* the action properties follow from IInv by looking at one step.  So does *)
(* the refinement: UVTcp implements KeepAlive, its initial states map to   *)
(* the contract's and each of its steps, from a state that satisfies IInv, *)
(* to one of the contract's steps or to no change.  Last come the cached   *)
(* addresses of UVTcpAddress, over every step of UVTcp.                    *)
(***************************************************************************)
EXTENDS UVTcpAddress, TLAPS

-----------------------------------------------------------------------------
(* IInv is inductive *)

\* At the start of a request there is no object.
LEMMA Init_Inv == ASSUME Init PROVE IInv
<1> USE DEF Init
<1>1. TypeOK
  <2>1. rc \in [Obj -> 0..MaxRefs + 2] /\ held \in [Obj -> 0..MaxRefs]
    BY BoundAssumption
  <2>2. writes \in [Obj -> 0..MaxWrites]
    BY BoundAssumption
  <2> QED BY <2>1, <2>2 DEF TypeOK, UvStates
<1>2. RefCountExact /\ FrameHeld
  BY DEF RefCountExact, SelfRef, FrameRef, InFrame, FrameHeld
<1>3. SafeDelivery /\ PendingPinned /\ FlagMirrors
  BY DEF SafeDelivery, PendingPinned, FlagMirrors
<1>4. Lifecycle /\ CrashOnlyUnpinned
  BY DEF Lifecycle, CrashOnlyUnpinned
<1> QED BY <1>1, <1>2, <1>3, <1>4 DEF IInv

\* A new object has one reference, the script's, an idle handle and no flag.
LEMMA Construct_Inv == ASSUME IInv, NEW o \in Obj, Construct(o) PROVE IInv'
<1> USE DEF IInv, TypeOK, Construct
<1>1. TypeOK'
  BY BoundAssumption DEF UvStates
<1>2. RefCountExact'
  BY DEF RefCountExact, Lifecycle, FrameHeld, SelfRef, FrameRef, InFrame
<1>3. SafeDelivery' /\ PendingPinned'
  BY DEF SafeDelivery, Lifecycle, PendingPinned
<1>4. FlagMirrors' /\ Lifecycle'
  BY DEF FlagMirrors, Lifecycle
<1>5. FrameHeld' /\ CrashOnlyUnpinned'
  BY DEF FrameHeld, CrashOnlyUnpinned
<1> QED BY <1>1, <1>2, <1>3, <1>4, <1>5

\* A copied reference is counted; nothing else of the object changes.
LEMMA Share_Inv == ASSUME IInv, NEW o \in Obj, Share(o) PROVE IInv'
<1> USE DEF IInv, TypeOK, Share
<1>1. TypeOK'
  BY BoundAssumption DEF uvVars, RefCountExact, SelfRef, FrameRef
<1>2. RefCountExact'
  BY DEF RefCountExact, InFrame, SelfRef, FrameRef
<1>3. SafeDelivery' /\ PendingPinned'
  BY DEF SafeDelivery, uvVars, PendingPinned
<1>4. FlagMirrors' /\ Lifecycle'
  BY DEF FlagMirrors, uvVars, Lifecycle, Reachable
<1>5. FrameHeld' /\ CrashOnlyUnpinned'
  BY DEF FrameHeld, uvVars, CrashOnlyUnpinned, Reachable
<1> QED BY <1>1, <1>2, <1>3, <1>4, <1>5

\* The script drops a reference. If it is the last one the object was not pinned,
\* or its close has ended: a set INTERNAL_REF would be one more reference.
LEMMA Drop_Inv == ASSUME IInv, NEW o \in Obj, Drop(o) PROVE IInv'
<1> USE DEF IInv, TypeOK, Drop
<1>1. TypeOK'
  BY BoundAssumption DEF decRefAndRelease, ReleasedFlags, ReadStopped,
     Lifecycle
<1>2. RefCountExact'
  BY DEF RefCountExact, decRefAndRelease, ReleasedFlags, SelfRef, FrameRef,
     InFrame
<1>3. SafeDelivery' /\ PendingPinned'
  BY DEF SafeDelivery, decRefAndRelease, RefCountExact, Lifecycle, SelfRef,
     FrameRef, PendingPinned
<1>4. FlagMirrors' /\ Lifecycle'
  BY DEF FlagMirrors, decRefAndRelease, ReleasedFlags, ReadStopped, Lifecycle,
     RefCountExact, SelfRef, FrameRef
<1>5. FrameHeld' /\ CrashOnlyUnpinned'
  BY DEF FrameHeld, decRefAndRelease, RefCountExact, SelfRef, FrameRef,
     CrashOnlyUnpinned
<1> QED BY <1>1, <1>2, <1>3, <1>4, <1>5

\* listen pins the object before libuv can call connection_cb.
LEMMA listen_Inv == ASSUME IInv, NEW o \in Obj, NEW on \in OnChoices, listen(o, on) PROVE IInv'
<1> USE DEF IInv, TypeOK, listen
<1>1. TypeOK'
  BY BoundAssumption DEF With, setSelfReference, SelfRefs, RefCountExact,
     SelfRef, FrameRef, Flags, Callbacks, UvStates
<1>2. RefCountExact'
  BY DEF RefCountExact, InFrame, setSelfReference, SelfRefs, SelfRef, FrameRef
<1>3. SafeDelivery' /\ PendingPinned'
  BY DEF SafeDelivery, Reachable, setSelfReference, PendingPinned
<1>4. FlagMirrors' /\ Lifecycle'
  BY DEF FlagMirrors, setSelfReference, Lifecycle, Reachable, SelfRefs
<1>5. FrameHeld' /\ CrashOnlyUnpinned'
  BY DEF FrameHeld, setSelfReference, CrashOnlyUnpinned, Reachable
<1> QED BY <1>1, <1>2, <1>3, <1>4, <1>5

\* connect pins the object in the call that makes the connect request.
LEMMA connect_Inv == ASSUME IInv, NEW o \in Obj, NEW on \in OnChoices, connect(o, on) PROVE IInv'
<1> USE DEF IInv, TypeOK, connect
<1>1. TypeOK'
  BY BoundAssumption DEF With, setSelfReference, SelfRefs, RefCountExact,
     SelfRef, FrameRef, Flags, Callbacks, UvStates
<1>2. RefCountExact'
  BY DEF RefCountExact, InFrame, setSelfReference, SelfRefs, SelfRef, FrameRef
<1>3. SafeDelivery' /\ PendingPinned'
  BY DEF SafeDelivery, Reachable, setSelfReference, PendingPinned
<1>4. FlagMirrors' /\ Lifecycle'
  BY DEF FlagMirrors, setSelfReference, Lifecycle, Reachable, SelfRefs
<1>5. FrameHeld' /\ CrashOnlyUnpinned'
  BY DEF FrameHeld, setSelfReference, CrashOnlyUnpinned, Reachable
<1> QED BY <1>1, <1>2, <1>3, <1>4, <1>5

\* An error return of listen or connect leaves at most a new descriptor.
LEMMA OpenFailed_Inv == ASSUME IInv, NEW o \in Obj, OpenFailed(o) PROVE IInv'
<1> USE DEF IInv, TypeOK, OpenFailed
<1>1. TypeOK'
  BY DEF objVars, UvStates
<1>2. RefCountExact'
  BY DEF RefCountExact, InFrame, objVars, SelfRef, FrameRef
<1>3. SafeDelivery' /\ PendingPinned'
  BY DEF SafeDelivery, objVars, PendingPinned
<1>4. FlagMirrors' /\ Lifecycle'
  BY DEF FlagMirrors, objVars, Lifecycle
<1>5. FrameHeld' /\ CrashOnlyUnpinned'
  BY DEF FrameHeld, CrashOnlyUnpinned, Reachable
<1> QED BY <1>1, <1>2, <1>3, <1>4, <1>5

\* The accepted object starts unpinned, reading, with READ_START set.
LEMMA accept_Inv == ASSUME IInv, NEW o \in Obj, NEW c \in Obj, accept(o, c) PROVE IInv'
<1> USE DEF IInv, TypeOK, accept
<1>1. TypeOK'
  BY BoundAssumption DEF Flags, UvStates
<1>2. RefCountExact'
  BY DEF RefCountExact, InFrame, Lifecycle, FrameHeld, SelfRef, FrameRef
<1>3. SafeDelivery' /\ PendingPinned'
  BY DEF SafeDelivery, Lifecycle, PendingPinned
<1>4. FlagMirrors' /\ Lifecycle'
  BY DEF FlagMirrors, Lifecycle
<1>5. FrameHeld' /\ CrashOnlyUnpinned'
  BY DEF FrameHeld, Lifecycle, CrashOnlyUnpinned, Orphan
<1> QED BY <1>1, <1>2, <1>3, <1>4, <1>5

\* accept without a waiting connection destroys the object it had made.
LEMMA AcceptFailed_Inv == ASSUME IInv, NEW o \in Obj, NEW c \in Obj, AcceptFailed(o, c) PROVE IInv'
<1> USE DEF IInv, TypeOK, AcceptFailed
<1>1. TypeOK'
  BY DEF UvStates
<1>2. RefCountExact'
  BY DEF RefCountExact, InFrame, SelfRef, FrameRef
<1>3. SafeDelivery' /\ PendingPinned'
  BY DEF SafeDelivery, Lifecycle, PendingPinned
<1>4. FlagMirrors' /\ Lifecycle'
  BY DEF FlagMirrors, Lifecycle
<1>5. FrameHeld' /\ CrashOnlyUnpinned'
  BY DEF FrameHeld, CrashOnlyUnpinned, Orphan
<1> QED BY <1>1, <1>2, <1>3, <1>4, <1>5

\* tcp_close_socket calls uv_close on an open handle only, by the bit that
\* mirrors it.
LEMMA close_Inv == ASSUME IInv, NEW o \in Obj, close(o) PROVE IInv'
<1> USE DEF IInv, TypeOK, close
<1>1. TypeOK'
  BY DEF tcp_close_socket, CloseFlags, UvClose, objVars, FlagMirrors,
     CrashOnlyUnpinned, Flags, UvStates
<1>2. RefCountExact'
  BY DEF RefCountExact, InFrame, tcp_close_socket, CloseFlags, objVars,
     SelfRef, FrameRef
<1>3. SafeDelivery' /\ PendingPinned'
  BY DEF SafeDelivery, tcp_close_socket, CloseFlags, objVars, FlagMirrors,
     PendingPinned, UvClose
<1>4. FlagMirrors' /\ Lifecycle'
  BY DEF FlagMirrors, tcp_close_socket, CloseFlags, UvClose, objVars,
     Lifecycle, Reachable
<1>5. FrameHeld' /\ CrashOnlyUnpinned'
  <2>1. ~crashed'
    BY DEF Reachable, tcp_close_socket, FlagMirrors
  <2>2. FrameHeld'
    BY DEF FrameHeld, tcp_close_socket, CloseFlags, UvClose
  <2> QED BY <2>1, <2>2 DEF CrashOnlyUnpinned
<1> QED BY <1>1, <1>2, <1>3, <1>4, <1>5

\* setCallback pins the object before any of its three callbacks can run.
LEMMA setCallback_Inv == ASSUME IInv, NEW o \in Obj, NEW S \in CallbackSets, setCallback(o, S) PROVE IInv'
<1> USE DEF IInv, TypeOK, setCallback
<1>1. TypeOK'
  <2>1. S \subseteq Callbacks
    BY BoundAssumption DEF Callbacks
  <2>2. cb' \in [Obj -> SUBSET Callbacks]
    BY <2>1
  <2>3. rc' \in [Obj -> 0..MaxRefs + 2]
    BY BoundAssumption DEF setSelfReference, SelfRefs, RefCountExact, SelfRef, FrameRef
  <2> QED BY <2>2, <2>3 DEF setSelfReference, uvVars, Flags
<1>2. RefCountExact'
  BY DEF RefCountExact, InFrame, setSelfReference, SelfRefs, SelfRef, FrameRef
<1>3. SafeDelivery' /\ PendingPinned'
  BY DEF SafeDelivery, Reachable, setSelfReference, uvVars, PendingPinned
<1>4. FlagMirrors' /\ Lifecycle'
  BY DEF FlagMirrors, setSelfReference, uvVars, Lifecycle, Reachable, SelfRefs
<1>5. FrameHeld' /\ CrashOnlyUnpinned'
  BY DEF FrameHeld, setSelfReference, uvVars, CrashOnlyUnpinned, Reachable
<1> QED BY <1>1, <1>2, <1>3, <1>4, <1>5

\* A write only adds a request to an open handle.
LEMMA write_Inv == ASSUME IInv, NEW o \in Obj, write(o) PROVE IInv'
<1> USE DEF IInv, TypeOK, write
<1>1. TypeOK'
  BY BoundAssumption DEF objVars, Flags
<1>2. RefCountExact'
  BY DEF RefCountExact, InFrame, objVars, SelfRef, FrameRef
<1>3. SafeDelivery' /\ PendingPinned'
  BY DEF SafeDelivery, WithFd, objVars, PendingPinned
<1>4. FlagMirrors' /\ Lifecycle'
  BY DEF FlagMirrors, objVars, Lifecycle, Reachable, WithFd
<1>5. FrameHeld' /\ CrashOnlyUnpinned'
  BY DEF FrameHeld, CrashOnlyUnpinned, Reachable
<1> QED BY <1>1, <1>2, <1>3, <1>4, <1>5

\* shutdown pins the object in the call that makes the shutdown request.
LEMMA shutdown_Inv == ASSUME IInv, NEW o \in Obj, NEW on \in OnChoices, shutdown(o, on) PROVE IInv'
<1> USE DEF IInv, TypeOK, shutdown
<1>1. TypeOK'
  BY BoundAssumption DEF With, setSelfReference, SelfRefs, RefCountExact,
     SelfRef, FrameRef, Flags, Callbacks
<1>2. RefCountExact'
  BY DEF RefCountExact, InFrame, setSelfReference, SelfRefs, SelfRef, FrameRef
<1>3. SafeDelivery' /\ PendingPinned'
  BY DEF SafeDelivery, Reachable, setSelfReference, PendingPinned
<1>4. FlagMirrors' /\ Lifecycle'
  BY DEF FlagMirrors, setSelfReference, Lifecycle, Reachable, SelfRefs, WithFd
<1>5. FrameHeld' /\ CrashOnlyUnpinned'
  BY DEF FrameHeld, setSelfReference, CrashOnlyUnpinned, Reachable
<1> QED BY <1>1, <1>2, <1>3, <1>4, <1>5

\* A refused shutdown changes a callback and nothing else.
LEMMA ShutdownFailed_Inv == ASSUME IInv, NEW o \in Obj, NEW on \in OnChoices, ShutdownFailed(o, on) PROVE IInv'
<1> USE DEF IInv, TypeOK, ShutdownFailed
<1>1. TypeOK'
  BY DEF With, objVars, uvVars, Callbacks
<1>2. RefCountExact'
  BY DEF RefCountExact, InFrame, objVars, SelfRef, FrameRef
<1>3. SafeDelivery' /\ PendingPinned'
  BY DEF SafeDelivery, objVars, uvVars, PendingPinned, With
<1>4. FlagMirrors' /\ Lifecycle'
  BY DEF FlagMirrors, objVars, uvVars, Lifecycle
<1>5. FrameHeld' /\ CrashOnlyUnpinned'
  BY DEF FrameHeld, uvVars, CrashOnlyUnpinned, Reachable
<1> QED BY <1>1, <1>2, <1>3, <1>4, <1>5

\* connection_cb runs its callback on a listening object, which is pinned.
LEMMA connection_cb_Inv == ASSUME IInv, NEW o \in Obj, NEW ok \in BOOLEAN, connection_cb(o, ok) PROVE IInv'
<1> USE DEF IInv, TypeOK, connection_cb
<1>1. TypeOK'
  BY BoundAssumption DEF Deliverable, CallUser, RefCountExact, SelfRef,
     FrameRef, InFrame
<1>2. RefCountExact'
  BY NoneAssumption DEF RefCountExact, Deliverable, CallUser, SelfRef,
     FrameRef, InFrame
<1>3. SafeDelivery' /\ PendingPinned'
  BY DEF SafeDelivery, PendingPinned
<1>4. FlagMirrors' /\ Lifecycle'
  BY DEF FlagMirrors, Lifecycle, CallUser
<1>5. FrameHeld' /\ CrashOnlyUnpinned'
  BY DEF FrameHeld, CallUser, SafeDelivery, PendingPinned, CrashOnlyUnpinned,
     Orphan
<1> QED BY <1>1, <1>2, <1>3, <1>4, <1>5

\* client_connection_cb starts reading on an open handle; on a closing one
\* uv_read_start refuses and nothing but the request changes.
LEMMA client_connection_cb_Inv == ASSUME IInv, NEW o \in Obj, NEW s \in {"socket", "stream"}, client_connection_cb(o, s) PROVE IInv'
<1> USE DEF IInv, TypeOK, client_connection_cb
<1>1. TypeOK'
  BY BoundAssumption DEF Deliverable, CallUser, RefCountExact, SelfRef,
     FrameRef, InFrame, Flags, UvStates
<1>2. RefCountExact'
  BY NoneAssumption DEF RefCountExact, Deliverable, CallUser, SelfRef,
     FrameRef, InFrame
<1>3. SafeDelivery' /\ PendingPinned'
  BY DEF SafeDelivery, Lifecycle, PendingPinned
<1>4. FlagMirrors' /\ Lifecycle'
  BY DEF FlagMirrors, Deliverable, Lifecycle, CallUser
<1>5. FrameHeld' /\ CrashOnlyUnpinned'
  BY DEF FrameHeld, CallUser, SafeDelivery, PendingPinned, Lifecycle,
     CrashOnlyUnpinned, Orphan
<1> QED BY <1>1, <1>2, <1>3, <1>4, <1>5

\* A read callback runs on an object with callbacks, which is pinned.
LEMMA ReadData_Inv == ASSUME IInv, NEW o \in Obj, ReadData(o) PROVE IInv'
<1> USE DEF IInv, TypeOK, ReadData
<1>1. TypeOK'
  BY BoundAssumption DEF Deliverable, CallUser, uvVars, RefCountExact,
     SelfRef, FrameRef, InFrame
<1>2. RefCountExact'
  BY NoneAssumption DEF RefCountExact, Deliverable, CallUser, SelfRef,
     FrameRef, InFrame
<1>3. SafeDelivery' /\ PendingPinned'
  BY DEF SafeDelivery, uvVars, PendingPinned
<1>4. FlagMirrors' /\ Lifecycle'
  BY DEF FlagMirrors, uvVars, Lifecycle, CallUser
<1>5. FrameHeld' /\ CrashOnlyUnpinned'
  BY DEF FrameHeld, CallUser, uvVars, SafeDelivery, PendingPinned,
     CrashOnlyUnpinned, Deliverable
<1> QED BY <1>1, <1>2, <1>3, <1>4, <1>5

\* An error callback runs on an object with callbacks, which is pinned.
LEMMA ReadErrorCall_Inv == ASSUME IInv, NEW o \in Obj, ReadErrorCall(o) PROVE IInv'
<1> USE DEF IInv, TypeOK, ReadErrorCall
<1>1. TypeOK'
  BY BoundAssumption DEF Deliverable, CallUser, RefCountExact, SelfRef,
     FrameRef, InFrame
<1>2. RefCountExact'
  BY NoneAssumption DEF RefCountExact, Deliverable, CallUser, SelfRef,
     FrameRef, InFrame
<1>3. SafeDelivery' /\ PendingPinned'
  BY DEF SafeDelivery, PendingPinned
<1>4. FlagMirrors' /\ Lifecycle'
  BY DEF FlagMirrors, Lifecycle, CallUser
<1>5. FrameHeld' /\ CrashOnlyUnpinned'
  BY DEF FrameHeld, CallUser, SafeDelivery, PendingPinned, CrashOnlyUnpinned,
     Orphan
<1> QED BY <1>1, <1>2, <1>3, <1>4, <1>5

\* read_cb closes a handle that libuv reads from, hence an open one.
LEMMA ReadErrorClose_Inv == ASSUME IInv, NEW o \in Obj, ReadErrorClose(o) PROVE IInv'
<1> USE DEF IInv, TypeOK, ReadErrorClose
<1>1. TypeOK'
  BY DEF Deliverable, tcp_close_socket, CloseFlags, UvClose, objVars, Flags,
     UvStates
<1>2. RefCountExact'
  BY DEF RefCountExact, tcp_close_socket, CloseFlags, objVars, SelfRef,
     FrameRef, InFrame
<1>3. SafeDelivery' /\ PendingPinned'
  BY DEF SafeDelivery, tcp_close_socket, CloseFlags, objVars, PendingPinned,
     UvClose
<1>4. FlagMirrors' /\ Lifecycle'
  BY DEF FlagMirrors, tcp_close_socket, CloseFlags, UvClose, objVars,
     Lifecycle
<1>5. FrameHeld' /\ CrashOnlyUnpinned'
  <2>1. ~crashed'
    BY DEF Deliverable, tcp_close_socket, FlagMirrors, UvStates
  <2>2. FrameHeld'
    BY DEF FrameHeld, tcp_close_socket, CloseFlags, UvClose, Deliverable
  <2> QED BY <2>1, <2>2 DEF CrashOnlyUnpinned
<1> QED BY <1>1, <1>2, <1>3, <1>4, <1>5

\* A write callback runs on an object with callbacks, which is pinned; its
\* handle is not closed while a request is left.
LEMMA write_cb_Inv == ASSUME IInv, NEW o \in Obj, write_cb(o) PROVE IInv'
<1> USE DEF IInv, TypeOK, write_cb
<1>1. TypeOK'
  BY BoundAssumption DEF Deliverable, CallUser, RefCountExact, SelfRef,
     FrameRef, InFrame
<1>2. RefCountExact'
  BY NoneAssumption DEF RefCountExact, Deliverable, CallUser, SelfRef,
     FrameRef, InFrame
<1>3. SafeDelivery' /\ PendingPinned'
  BY DEF SafeDelivery, PendingPinned
<1>4. FlagMirrors' /\ Lifecycle'
  BY DEF FlagMirrors, Lifecycle, CallUser
<1>5. FrameHeld' /\ CrashOnlyUnpinned'
  BY DEF FrameHeld, CallUser, Settled, SafeDelivery, PendingPinned,
     CrashOnlyUnpinned, Orphan
<1> QED BY <1>1, <1>2, <1>3, <1>4, <1>5

\* A shutdown callback runs on an object with a request, which is pinned.
LEMMA shutdown_cb_Inv == ASSUME IInv, NEW o \in Obj, shutdown_cb(o) PROVE IInv'
<1> USE DEF IInv, TypeOK, shutdown_cb
<1>1. TypeOK'
  BY BoundAssumption DEF Deliverable, CallUser, RefCountExact, SelfRef,
     FrameRef, InFrame
<1>2. RefCountExact'
  BY NoneAssumption DEF RefCountExact, Deliverable, CallUser, SelfRef,
     FrameRef, InFrame
<1>3. SafeDelivery' /\ PendingPinned'
  BY DEF SafeDelivery, PendingPinned
<1>4. FlagMirrors' /\ Lifecycle'
  BY DEF FlagMirrors, Lifecycle, CallUser
<1>5. FrameHeld' /\ CrashOnlyUnpinned'
  BY DEF FrameHeld, CallUser, Settled, SafeDelivery, PendingPinned,
     CrashOnlyUnpinned, Orphan
<1> QED BY <1>1, <1>2, <1>3, <1>4, <1>5

\* tcp_close_cb gives the self reference back when libuv has let go of the
\* handle; the object may die with it.
LEMMA tcp_close_cb_Inv == ASSUME IInv, NEW o \in Obj, tcp_close_cb(o) PROVE IInv'
<1> USE DEF IInv, TypeOK, tcp_close_cb
<1>1. TypeOK'
  <2>1. rc[o] \in 0..(MaxRefs + 2) /\ rc[o] > 0
    BY DEF Lifecycle, Deliverable
  <2>2. rc' \in [Obj -> 0..MaxRefs + 2]
    BY <2>1, BoundAssumption DEF decRefAndRelease
  <2>3. /\ flag' \in [Obj -> SUBSET Flags]
        /\ uvflag' \in [Obj -> SUBSET {"READING", "SHUT", "ACCEPTED"}]
    BY DEF decRefAndRelease, ReleasedFlags, ReadStopped
  <2>4. /\ life' \in [Obj -> {"unborn", "live", "dead"}]
        /\ cb' \in [Obj -> SUBSET Callbacks]
        /\ uv' \in [Obj -> UvStates]
    BY DEF decRefAndRelease, UvStates
  <2> QED BY <2>2, <2>3, <2>4
<1>2. RefCountExact'
  BY DEF RefCountExact, decRefAndRelease, ReleasedFlags, SelfRef, FrameRef,
     InFrame
<1>3. SafeDelivery' /\ PendingPinned'
  BY DEF SafeDelivery, decRefAndRelease, PendingPinned
<1>4. FlagMirrors' /\ Lifecycle'
  BY DEF FlagMirrors, decRefAndRelease, ReleasedFlags, ReadStopped, Lifecycle,
     RefCountExact, PendingPinned, SelfRef, FrameRef
<1>5. FrameHeld' /\ CrashOnlyUnpinned'
  BY DEF FrameHeld, Deliverable, CrashOnlyUnpinned
<1> QED BY <1>1, <1>2, <1>3, <1>4, <1>5

\* When a callback returns, its object is still pinned, so the reference in
\* the arguments is not the last; after an error the handle is then closed.
LEMMA Return_Inv == ASSUME IInv, Return PROVE IInv'
<1> USE DEF IInv, TypeOK, Return
<1>1. TypeOK'
  BY BoundAssumption DEF tcp_close_socket, CloseFlags, UvClose, RefCountExact,
     Lifecycle, FrameHeld, SelfRef, FrameRef, InFrame, Flags, UvStates
<1>2. RefCountExact'
  BY DEF RefCountExact, tcp_close_socket, CloseFlags, FrameHeld, SelfRef,
     FrameRef, InFrame
<1>3. SafeDelivery' /\ PendingPinned'
  BY DEF SafeDelivery, decRefAndRelease, tcp_close_socket, CloseFlags,
     RefCountExact, FlagMirrors, Lifecycle, SelfRef, FrameRef, InFrame,
     PendingPinned, UvClose
<1>4. FlagMirrors' /\ Lifecycle'
  BY DEF FlagMirrors, decRefAndRelease, ReleasedFlags, ReadStopped,
     tcp_close_socket, CloseFlags, UvClose, Lifecycle, RefCountExact,
     FrameHeld, SelfRef, FrameRef, InFrame
<1>5. FrameHeld' /\ CrashOnlyUnpinned'
  <2>1. frame.obj \in Obj /\ rc[frame.obj] > 1
    BY NoneAssumption DEF RefCountExact, SelfRef, FrameRef, InFrame, FrameHeld
  <2>2. ~crashed'
    BY <2>1 DEF FlagMirrors, tcp_close_socket
  <2>3. FrameHeld'
    BY DEF FrameHeld
  <2> QED BY <2>2, <2>3 DEF CrashOnlyUnpinned
<1> QED BY <1>1, <1>2, <1>3, <1>4, <1>5

\* libuv touches a handle that was freed while open: by SafeDelivery the
\* object it belonged to was never pinned.
LEMMA LibuvTouchesFreed_Inv == ASSUME IInv, NEW o \in Obj, LibuvTouchesFreed(o) PROVE IInv'
<1> USE DEF IInv, TypeOK, LibuvTouchesFreed
<1>1. TypeOK'
  BY DEF objVars, uvVars
<1>2. RefCountExact'
  BY DEF RefCountExact, objVars, SelfRef, FrameRef, InFrame
<1>3. SafeDelivery' /\ PendingPinned'
  BY DEF SafeDelivery, objVars, uvVars, PendingPinned
<1>4. FlagMirrors' /\ Lifecycle'
  BY DEF FlagMirrors, objVars, uvVars, Lifecycle
<1>5. FrameHeld' /\ CrashOnlyUnpinned'
  BY DEF FrameHeld, uvVars, CrashOnlyUnpinned, Orphan, objVars, SafeDelivery
<1> QED BY <1>1, <1>2, <1>3, <1>4, <1>5

\* Every step of the script, of libuv and of a returning callback keeps the
\* inductive invariant.
LEMMA Next_Inv == ASSUME IInv, [Next]_vars PROVE IInv'
<1>1. CASE Return
  BY <1>1, Return_Inv
<1>2. ASSUME NEW o \in Obj, ScriptStep(o) PROVE IInv'
  BY <1>2, Construct_Inv, Share_Inv, Drop_Inv, listen_Inv, connect_Inv,
     OpenFailed_Inv, accept_Inv, AcceptFailed_Inv, close_Inv, setCallback_Inv,
     write_Inv, shutdown_Inv, ShutdownFailed_Inv DEF ScriptStep
<1>3. ASSUME NEW o \in Obj, LoopStep(o) PROVE IInv'
  BY <1>3, connection_cb_Inv, client_connection_cb_Inv, ReadData_Inv,
     ReadErrorCall_Inv, ReadErrorClose_Inv, write_cb_Inv, shutdown_cb_Inv,
     tcp_close_cb_Inv, LibuvTouchesFreed_Inv DEF LoopStep
<1>4. CASE UNCHANGED vars
  BY <1>4 DEF vars, IInv, TypeOK, RefCountExact, SafeDelivery, PendingPinned,
     FlagMirrors, Lifecycle, FrameHeld, CrashOnlyUnpinned, SelfRef, FrameRef,
     InFrame, Orphan
<1> QED BY <1>1, <1>2, <1>3, <1>4 DEF Next

\* The inductive invariant holds in every state of every behaviour of UVTcp.
THEOREM Invariance == Spec => []IInv
<1>1. Init => IInv
  BY Init_Inv
<1>2. IInv /\ [Next]_vars => IInv'
  BY Next_Inv
<1> QED BY <1>1, <1>2, PTL DEF Spec

-----------------------------------------------------------------------------
(* Safety *)

\* All variables keep to their values: no count exceeds what the script, the
\* self reference and one running callback can hold.
THEOREM TypeCorrect == Spec => []TypeOK
<1>1. IInv => TypeOK
  BY DEF IInv
<1> QED BY <1>1, Invariance, PTL

\* setSelfReference and releaseHandle balance: a count is never off by one.
THEOREM CountsExact == Spec => []RefCountExact
<1>1. IInv => RefCountExact
  BY DEF IInv
<1> QED BY <1>1, Invariance, PTL

\* sweep never frees the handle of an object that was listened on, connected,
\* shut down or given callbacks before libuv has let go of it; and everything
\* libuv owes a user callback for belongs to such an object.
THEOREM PinnedIsSafe == Spec => [](SafeDelivery /\ PendingPinned)
<1>1. IInv => SafeDelivery /\ PendingPinned
  BY DEF IInv
<1> QED BY <1>1, Invariance, PTL

\* The code after vm_call_user_func in the six libuv callbacks, read_cb's
\* tcp_close_socket above all, finds the object alive and not on its last
\* reference.
THEOREM TargetHeld == Spec => []CallbackTargetHeld
<1>1. IInv => CallbackTargetHeld
  BY NoneAssumption DEF IInv, TypeOK, RefCountExact, Lifecycle, FrameHeld,
     CallbackTargetHeld, SelfRef, FrameRef, InFrame
<1> QED BY <1>1, Invariance, PTL

\* READ_START and CLOSING_START say what libuv does with the handle.
THEOREM FlagsMirror == Spec => []FlagMirrors
<1>1. IInv => FlagMirrors
  BY DEF IInv
<1> QED BY <1>1, Invariance, PTL

\* Freed memory is touched only after an unpinned object died open, and
\* uv_close's assertion never stops the process.
THEOREM CrashesExplained == Spec => []CrashOnlyUnpinned
<1>1. IInv => CrashOnlyUnpinned
  BY DEF IInv
<1> QED BY <1>1, Invariance, PTL

-----------------------------------------------------------------------------
(* What a step may never do *)

\* Which step clears INTERNAL_REF: none of the script's, because releaseHandle
\* in a sweep finds it cleared already; only tcp_close_cb's.
LEMMA SelfRefStep ==
    ASSUME IInv, Next, NEW o \in Obj,
           "INTERNAL_REF" \in flag[o], "INTERNAL_REF" \notin flag'[o]
    PROVE  uv[o] = "closing" /\ uv'[o] = "closed"
<1>1. CASE Return
  <2>1. frame.obj \in Obj /\ rc[frame.obj] > 1
    BY <1>1, NoneAssumption DEF IInv, TypeOK, Return, RefCountExact, SelfRef, FrameRef, InFrame, FrameHeld
  <2> QED BY <1>1, <2>1 DEF IInv, TypeOK, Return, tcp_close_socket, CloseFlags
<1>2. ASSUME NEW p \in Obj, ScriptStep(p) PROVE uv[o] = "closing" /\ uv'[o] = "closed"
  <2>1. CASE Drop(p)
    <3>1. rc[p] = 1 => "INTERNAL_REF" \notin flag[p]
      BY <2>1 DEF IInv, TypeOK, Drop, RefCountExact, SelfRef, FrameRef
    <3> QED BY <2>1, <3>1 DEF IInv, TypeOK, Drop, decRefAndRelease
  <2>2. CASE Construct(p) \/ Share(p) \/ OpenFailed(p) \/ close(p) \/ write(p)
    BY <2>2 DEF IInv, TypeOK, Construct, Share, OpenFailed, close, tcp_close_socket, CloseFlags, write
  <2>3. CASE \E on \in OnChoices : listen(p, on) \/ connect(p, on) \/ shutdown(p, on) \/ ShutdownFailed(p, on)
    BY <2>3 DEF IInv, TypeOK, listen, connect, shutdown, ShutdownFailed, setSelfReference
  <2>4. CASE \E c \in Obj : accept(p, c) \/ AcceptFailed(p, c)
    BY <2>4 DEF IInv, TypeOK, Lifecycle, accept, AcceptFailed
  <2>5. CASE \E S \in CallbackSets : setCallback(p, S)
    BY <2>5 DEF IInv, TypeOK, setCallback, setSelfReference
  <2> QED BY <1>2, <2>1, <2>2, <2>3, <2>4, <2>5 DEF ScriptStep
<1>3. ASSUME NEW p \in Obj, LoopStep(p) PROVE uv[o] = "closing" /\ uv'[o] = "closed"
  <2>1. CASE tcp_close_cb(p)
    BY <2>1 DEF IInv, TypeOK, tcp_close_cb, decRefAndRelease
  <2>2. CASE ReadErrorClose(p)
    BY <2>2 DEF IInv, TypeOK, ReadErrorClose, tcp_close_socket, CloseFlags
  <2>3. CASE \E s \in {"socket", "stream"} : client_connection_cb(p, s)
    BY <2>3 DEF IInv, TypeOK, client_connection_cb
  <2>4. CASE \/ \E ok \in BOOLEAN : connection_cb(p, ok)
             \/ ReadData(p) \/ ReadErrorCall(p) \/ write_cb(p) \/ shutdown_cb(p)
             \/ LibuvTouchesFreed(p)
    BY <2>4 DEF connection_cb, ReadData, ReadErrorCall, write_cb, shutdown_cb, LibuvTouchesFreed
  <2> QED BY <1>3, <2>1, <2>2, <2>3, <2>4 DEF LoopStep
<1> QED BY <1>1, <1>2, <1>3 DEF Next

\* What tcp_close_cb leaves behind: the bit is cleared, and without script
\* references the self reference was the last, so the object is destroyed.
LEMMA CloseStepReclaims ==
    ASSUME IInv, Next, NEW o \in Obj, uv[o] = "closing", uv'[o] = "closed"
    PROVE  "INTERNAL_REF" \notin flag'[o] /\ (held[o] = 0 => life'[o] = "dead")
<1>1. tcp_close_cb(o)
  <2>1. ~Return
    BY DEF IInv, TypeOK, Return, tcp_close_socket, UvClose, UvStates
  <2>2. \A p \in Obj : ~ScriptStep(p)
    BY DEF IInv, TypeOK, ScriptStep, Construct, Share, Drop, listen, connect, OpenFailed,
           accept, AcceptFailed, close, tcp_close_socket, UvClose, setCallback, write,
           shutdown, ShutdownFailed, uvVars
  <2>3. ASSUME NEW p \in Obj, LoopStep(p) PROVE p = o /\ tcp_close_cb(p)
    BY <2>3 DEF IInv, TypeOK, LoopStep, connection_cb, client_connection_cb, ReadData,
           ReadErrorCall, ReadErrorClose, tcp_close_socket, UvClose, write_cb, shutdown_cb,
           tcp_close_cb, LibuvTouchesFreed, uvVars
  <2> QED BY <2>1, <2>2, <2>3 DEF Next
<1>2. held[o] = 0 => "INTERNAL_REF" \in flag[o] /\ rc[o] = 1
  BY <1>1 DEF IInv, TypeOK, tcp_close_cb, Deliverable, RefCountExact, SelfRef, FrameRef, InFrame, Lifecycle
<1> QED BY <1>1, <1>2 DEF IInv, TypeOK, tcp_close_cb, decRefAndRelease, ReleasedFlags

\* Where a connect callback starts: in connection_cb, on a listening handle,
\* or in client_connection_cb after uv_read_start has accepted the handle.
LEMMA ConnectCallbackStart ==
    ASSUME IInv, Next, NEW o \in Obj, frame = None, frame' = [cb |-> "connect", obj |-> o]
    PROVE  uv[o] \notin {"closing", "closed"}
<1>1. frame' # None
  BY NoneAssumption DEF Callbacks
<1>2. ~Return
  BY DEF Return
<1>3. ASSUME NEW p \in Obj, ScriptStep(p) PROVE FALSE
  BY <1>1, <1>3 DEF ScriptStep, Construct, Share, Drop, listen, connect, OpenFailed, accept,
         AcceptFailed, close, setCallback, write, shutdown, ShutdownFailed
<1>4. ASSUME NEW p \in Obj, LoopStep(p)
      PROVE  \/ \E ok \in BOOLEAN : connection_cb(o, ok)
             \/ \E s \in {"socket", "stream"} : client_connection_cb(o, s)
  BY <1>1, <1>4 DEF LoopStep, connection_cb, client_connection_cb, ReadData, ReadErrorCall,
         ReadErrorClose, write_cb, shutdown_cb, tcp_close_cb, LibuvTouchesFreed, CallUser
<1>5. CASE \E ok \in BOOLEAN : connection_cb(o, ok)
  BY <1>5 DEF connection_cb
<1>6. CASE \E s \in {"socket", "stream"} : client_connection_cb(o, s)
  BY <1>1, <1>6 DEF IInv, Lifecycle, client_connection_cb, CallUser, ReadStartOk
<1> QED BY <1>2, <1>3, <1>4, <1>5, <1>6 DEF Next

\* The self reference is given back by the end of a close and nothing else.
THEOREM PinLastsUntilClosed == Spec => SelfRefUntilClosed
<1> DEFINE Kept ==
      \A o \in Obj : "INTERNAL_REF" \in flag[o] /\ "INTERNAL_REF" \notin flag'[o]
          => uv[o] = "closing" /\ uv'[o] = "closed"
<1>1. IInv /\ [Next]_vars => [Kept]_vars
  BY SelfRefStep
<1> QED BY <1>1, Invariance, PTL DEF Spec, SelfRefUntilClosed

\* The end of a close frees what the script no longer refers to.
THEOREM CloseFrees == Spec => CloseReclaims
<1> DEFINE Reclaimed ==
      \A o \in Obj : uv[o] = "closing" /\ uv'[o] = "closed"
          => /\ "INTERNAL_REF" \notin flag'[o]
             /\ held[o] = 0 => life'[o] = "dead"
<1>1. IInv /\ [Next]_vars => [Reclaimed]_vars
  BY CloseStepReclaims
<1> QED BY <1>1, Invariance, PTL DEF Spec, CloseReclaims

\* A connection attempt that close() has cancelled is not reported to the
\* connect callback.
THEOREM CancelledConnectIsSilent == Spec => NoConnectAfterClose
<1> DEFINE Silent ==
      \A o \in Obj : frame = None /\ frame' = [cb |-> "connect", obj |-> o]
          => uv[o] \notin {"closing", "closed"}
<1>1. IInv /\ [Next]_vars => [Silent]_vars
  BY ConnectCallbackStart
<1> QED BY <1>1, Invariance, PTL DEF Spec, NoConnectAfterClose

-----------------------------------------------------------------------------
(* UVTcp implements KeepAlive *)

\* Before the first object the contract is in its initial state.
LEMMA InitContract == ASSUME Init PROVE Contract!Init
BY DEF Init, Contract!Init, Status, Handle

\* Steps that neither create, pin, close nor destroy an object are invisible:
\* they change only counts, callbacks, requests and flags other than INTERNAL_REF.
LEMMA Hidden ==
    ASSUME UNCHANGED <<life, pinned, crashed>>,
           \A p \in Obj : "INTERNAL_REF" \in flag'[p] <=> "INTERNAL_REF" \in flag[p],
           \A p \in Obj : Handle(p)' = Handle(p)
    PROVE  UNCHANGED Contract!vars
<1>1. \A p \in Obj : Status(p)' = Status(p)
  BY DEF Status
<1> QED BY <1>1 DEF Contract!vars

\* An object that the constructor or accept creates, which accept may have
\* destroyed again.
LEMMA Appears ==
    ASSUME IInv, NEW o \in Obj, life[o] = "unborn",
           NEW s \in {"live", "dead"}, life' = [life EXCEPT ![o] = s],
           "INTERNAL_REF" \notin flag'[o], Handle(o)' = "open",
           \A p \in Obj \ {o} : flag'[p] = flag[p] /\ Handle(p)' = Handle(p),
           UNCHANGED <<pinned, crashed>>
    PROVE  Contract!Create(o)
<1>1. Status(o) = "unborn" /\ Status(o)' \in {"loose", "dead"}
  BY DEF IInv, TypeOK, Status
<1>2. \A p \in Obj \ {o} : Status(p)' = Status(p)
  BY DEF IInv, TypeOK, Status
<1> QED BY <1>1, <1>2 DEF Contract!Create

\* setSelfReference pins a loose object; on a pinned one it changes nothing the
\* contract sees.
LEMMA TakesSelfReference ==
    ASSUME IInv, NEW o \in Obj, life[o] = "live", NEW extra, "INTERNAL_REF" \notin extra,
           setSelfReference(o, extra), UNCHANGED <<life, crashed>>,
           \A p \in Obj : Handle(p)' = Handle(p)
    PROVE  Contract!Pin(o) \/ UNCHANGED Contract!vars
<1>1. CASE "INTERNAL_REF" \in flag[o]
  <2>1. pinned' = pinned
    BY <1>1 DEF IInv, TypeOK, Lifecycle, setSelfReference
  <2>2. \A p \in Obj : "INTERNAL_REF" \in flag'[p] <=> "INTERNAL_REF" \in flag[p]
    BY <1>1 DEF IInv, TypeOK, setSelfReference
  <2> QED BY <2>1, <2>2, Hidden
<1>2. CASE "INTERNAL_REF" \notin flag[o]
  <2>1. Status(o) = "loose" /\ Status(o)' = "pinned"
    BY <1>2 DEF IInv, TypeOK, Status, setSelfReference
  <2>2. \A p \in Obj \ {o} : Status(p)' = Status(p) /\ pinned'[p] = pinned[p]
    BY DEF IInv, TypeOK, Status, setSelfReference
  <2>3. pinned'[o]
    BY DEF IInv, TypeOK, setSelfReference
  <2> QED BY <2>1, <2>2, <2>3 DEF Contract!Pin
<1> QED BY <1>1, <1>2

\* tcp_close_socket starts the close of an open handle; a second call changes
\* nothing.
LEMMA StartsClose ==
    ASSUME IInv, ~crashed, NEW o \in Obj, life[o] = "live", tcp_close_socket(o),
           UNCHANGED <<life, pinned>>
    PROVE  Contract!StartClose(o) \/ UNCHANGED Contract!vars
<1>1. CASE "CLOSING_START" \in flag[o]
  BY <1>1, Hidden DEF tcp_close_socket, Handle
<1>2. CASE "CLOSING_START" \notin flag[o]
  <2>1. Handle(o) = "open" /\ Handle(o)' = "closing"
    BY <1>2 DEF IInv, TypeOK, FlagMirrors, Lifecycle, Handle, tcp_close_socket, UvClose
  <2>2. Status(o) \in {"loose", "pinned"} /\ crashed' = crashed
    BY <1>2 DEF IInv, TypeOK, FlagMirrors, Status, tcp_close_socket
  <2>3. \A p \in Obj : Status(p)' = Status(p)
    BY <1>2 DEF IInv, TypeOK, Status, tcp_close_socket, CloseFlags
  <2>4. \A p \in Obj \ {o} : Handle(p)' = Handle(p)
    BY <1>2 DEF IInv, TypeOK, Handle, tcp_close_socket
  <2> QED BY <2>1, <2>2, <2>3, <2>4 DEF Contract!StartClose
<1> QED BY <1>1, <1>2

\* Every method of UVTcp takes a step of the contract or none.
LEMMA ScriptStepContract ==
    ASSUME IInv, NEW o \in Obj, ScriptStep(o)
    PROVE  Contract!Next \/ UNCHANGED Contract!vars
<1> DEFINE Goal == Contract!Next \/ UNCHANGED Contract!vars
<1>1. CASE Construct(o)
  <2>1. Contract!Create(o)
    BY <1>1, Appears DEF IInv, TypeOK, Lifecycle, Construct, Handle
  <2> QED BY <2>1 DEF Contract!Next
<1>2. ASSUME NEW c \in Obj, accept(o, c) PROVE Goal
  <2>1. Contract!Create(c)
    BY <1>2, Appears DEF IInv, TypeOK, Lifecycle, accept, Handle
  <2> QED BY <2>1 DEF Contract!Next
<1>3. ASSUME NEW c \in Obj, AcceptFailed(o, c) PROVE Goal
  <2>1. Contract!Create(c)
    BY <1>3, Appears DEF IInv, TypeOK, Lifecycle, AcceptFailed, Handle
  <2> QED BY <2>1 DEF Contract!Next
<1>4. CASE Share(o) \/ write(o)
  BY <1>4, Hidden DEF IInv, TypeOK, Share, write, uvVars, objVars, Handle
<1>5. CASE OpenFailed(o)
  BY <1>5, Hidden DEF IInv, TypeOK, OpenFailed, objVars, Handle
<1>6. ASSUME NEW on \in OnChoices, ShutdownFailed(o, on) PROVE Goal
  BY <1>6, Hidden DEF ShutdownFailed, objVars, uvVars, Handle
<1>7. CASE Drop(o)
  <2>1. CASE rc[o] = 1
    <3>1. Status(o) = "loose" /\ Status(o)' = "dead"
      BY <1>7, <2>1 DEF IInv, TypeOK, RefCountExact, SelfRef, FrameRef, Drop, decRefAndRelease, Status
    <3>2. \A p \in Obj \ {o} : Status(p)' = Status(p)
      BY <1>7 DEF IInv, TypeOK, Drop, decRefAndRelease, Status
    <3>3. Contract!Die(o)
      BY <1>7, <3>1, <3>2 DEF Drop, Handle, Contract!Die
    <3> QED BY <3>3 DEF Contract!Next
  <2>2. CASE rc[o] # 1
    BY <1>7, <2>2, Hidden DEF IInv, TypeOK, Drop, decRefAndRelease, Handle
  <2> QED BY <2>1, <2>2
<1>8. CASE close(o)
  BY <1>8, StartsClose DEF close, Reachable, objVars, Contract!Next
<1>9. ASSUME NEW on \in OnChoices, listen(o, on) \/ connect(o, on) PROVE Goal
  <2>1. \A p \in Obj : Handle(p)' = Handle(p)
    BY <1>9 DEF IInv, TypeOK, listen, connect, Handle
  <2> QED BY <1>9, <2>1, TakesSelfReference DEF listen, connect, Reachable, Contract!Next
<1>10. ASSUME NEW on \in OnChoices, shutdown(o, on) PROVE Goal
  BY <1>10, TakesSelfReference DEF shutdown, Reachable, Handle, Contract!Next
<1>11. ASSUME NEW S \in CallbackSets, setCallback(o, S) PROVE Goal
  BY <1>11, TakesSelfReference DEF setCallback, Reachable, Handle, uvVars, Contract!Next
<1> QED BY <1>1, <1>2, <1>3, <1>4, <1>5, <1>6, <1>7, <1>8, <1>9, <1>10, <1>11 DEF ScriptStep

\* Every libuv callback, up to the call of the user's, takes a step of the
\* contract or none; tcp_close_cb is its FinishClose.
LEMMA LoopStepContract ==
    ASSUME IInv, NEW o \in Obj, LoopStep(o)
    PROVE  Contract!Next \/ UNCHANGED Contract!vars
<1> DEFINE Goal == Contract!Next \/ UNCHANGED Contract!vars
<1>1. ASSUME NEW s \in {"socket", "stream"}, client_connection_cb(o, s) PROVE Goal
  <2>1. \A p \in Obj : Handle(p)' = Handle(p)
    BY <1>1 DEF IInv, TypeOK, Lifecycle, client_connection_cb, Deliverable, Handle
  <2>2. \A p \in Obj : "INTERNAL_REF" \in flag'[p] <=> "INTERNAL_REF" \in flag[p]
    BY <1>1 DEF IInv, TypeOK, client_connection_cb
  <2> QED BY <1>1, <2>1, <2>2, Hidden DEF client_connection_cb
<1>2. CASE ReadErrorClose(o)
  BY <1>2, StartsClose DEF ReadErrorClose, Deliverable, objVars, Contract!Next
<1>3. CASE tcp_close_cb(o)
  <2>1. /\ Handle(o) = "closing" /\ Handle(o)' = "closed"
        /\ \A p \in Obj \ {o} : Handle(p)' = Handle(p)
    BY <1>3 DEF IInv, TypeOK, tcp_close_cb, Handle
  <2>2. /\ Status(o) \in {"loose", "pinned"}
        /\ Status(o)' = "loose" \/ (Status(o) = "pinned" /\ Status(o)' = "dead")
    BY <1>3 DEF IInv, TypeOK, tcp_close_cb, Deliverable, decRefAndRelease, ReleasedFlags, Status
  <2>3. \A p \in Obj \ {o} : Status(p)' = Status(p)
    BY <1>3 DEF IInv, TypeOK, tcp_close_cb, decRefAndRelease, Status
  <2>4. Contract!FinishClose(o)
    BY <1>3, <2>1, <2>2, <2>3 DEF tcp_close_cb, Contract!FinishClose
  <2> QED BY <2>4 DEF Contract!Next
<1>4. CASE LibuvTouchesFreed(o)
  <2>1. Contract!Break(o)
    BY <1>4 DEF IInv, SafeDelivery, LibuvTouchesFreed, Orphan, objVars, uvVars, Status, Handle, Contract!Break, Contract!Dangling
  <2> QED BY <2>1 DEF Contract!Next
<1>5. CASE \/ \E ok \in BOOLEAN : connection_cb(o, ok)
           \/ ReadData(o) \/ ReadErrorCall(o) \/ write_cb(o) \/ shutdown_cb(o)
  BY <1>5, Hidden DEF connection_cb, ReadData, ReadErrorCall, write_cb, shutdown_cb, uvVars, Handle
<1> QED BY <1>1, <1>2, <1>3, <1>4, <1>5 DEF LoopStep

\* A returning callback takes none, or starts the close that follows an error.
LEMMA ReturnContract ==
    ASSUME IInv, Return
    PROVE  Contract!Next \/ UNCHANGED Contract!vars
<1>1. frame.obj \in Obj /\ rc[frame.obj] > 1 /\ life[frame.obj] = "live"
  BY NoneAssumption DEF IInv, TypeOK, Return, RefCountExact, SelfRef, FrameRef, InFrame, FrameHeld, Lifecycle
<1>2. CASE frame.cb = "error"
  BY <1>1, <1>2, StartsClose DEF Return, Contract!Next
<1>3. CASE frame.cb # "error"
  BY <1>1, <1>3, Hidden DEF Return, Handle
<1> QED BY <1>2, <1>3

\* UVTcp implements the contract: whatever the script does and whatever order
\* libuv calls back in, an object that was pinned stays alive until its handle
\* is closed.
THEOREM RefinesContract == Spec => Implements
<1>1. Init => Contract!Init
  BY InitContract
<1>2. IInv /\ [Next]_vars => [Contract!Next]_Contract!vars
  <2>1. ASSUME IInv, Next PROVE Contract!Next \/ UNCHANGED Contract!vars
    BY <2>1, ScriptStepContract, LoopStepContract, ReturnContract DEF Next
  <2>2. ASSUME UNCHANGED vars PROVE UNCHANGED Contract!vars
    BY <2>2, Hidden DEF vars, Handle
  <2> QED BY <2>1, <2>2
<1> QED BY <1>1, <1>2, Invariance, PTL DEF Spec, Implements, Contract!Spec

-----------------------------------------------------------------------------
(* The addresses of UVTcpAddress *)

\* What one step of UVTcp does to the handle and the connect request of one
\* socket, as far as its address is concerned: nothing; the handle appears,
\* with or without a connection; it listens; it attempts a connection; it gets
\* a descriptor; the attempt ends, also when the handle is closing; it closes.
AddressMove(o) ==
    LET before == "connect" \in reqs[o]
        after  == "connect" \in reqs'[o] IN
    \/ uv'[o] = uv[o] /\ after = before
    \/ uv[o] = "none" /\ uv'[o] \in {"idle", "stream"} /\ after = before
    \/ uv[o] \in {"idle", "socket"} /\ ~before /\ uv'[o] = "listening" /\ ~after
    \/ uv[o] \in {"idle", "socket"} /\ ~before /\ uv'[o] = "socket" /\ after
    \/ uv[o] = "idle" /\ uv'[o] = "socket" /\ after = before
    \/ uv[o] = "closing" /\ before /\ uv'[o] = "closing" /\ ~after
    \/ uv[o] # "closing" /\ before /\ uv'[o] \in {"socket", "stream"} /\ ~after
    \/ uv[o] \in {"idle", "socket", "stream", "listening"} /\ uv'[o] = "closing" /\ after = before
    \/ uv[o] = "closing" /\ ~before /\ uv'[o] = "closed" /\ ~after

\* tcp_close_socket moves an open handle to closing and no other.
LEMMA CloseMoves ==
    ASSUME IInv, NEW p \in Obj, life[p] = "live", tcp_close_socket(p), reqs' = reqs, NEW o \in Obj
    PROVE  AddressMove(o)
<1>1. CASE "CLOSING_START" \in flag[p]
  BY <1>1 DEF tcp_close_socket, AddressMove
<1>2. CASE "CLOSING_START" \notin flag[p]
  <2>1. uv[p] \in {"idle", "socket", "stream", "listening"}
    BY <1>2 DEF IInv, TypeOK, FlagMirrors, Lifecycle, UvStates
  <2>2. uv' = [uv EXCEPT ![p] = "closing"]
    BY <1>2 DEF tcp_close_socket, UvClose
  <2> QED BY <2>1, <2>2 DEF IInv, TypeOK, AddressMove
<1> QED BY <1>1, <1>2

\* Every step of UVTcp makes one of these moves, for every socket.
LEMMA StepMoves == ASSUME IInv, Next, NEW o \in Obj PROVE AddressMove(o)
<1>1. CASE Return
  <2>1. frame.obj \in Obj /\ rc[frame.obj] > 1 /\ life[frame.obj] = "live"
    BY <1>1, NoneAssumption DEF IInv, TypeOK, Return, RefCountExact, SelfRef, FrameRef, InFrame,
       FrameHeld, Lifecycle
  <2>2. CASE frame.cb = "error"
    BY <1>1, <2>1, <2>2, CloseMoves DEF Return
  <2>3. CASE frame.cb # "error"
    BY <1>1, <2>1, <2>3 DEF Return, AddressMove
  <2> QED BY <2>2, <2>3
<1>2. ASSUME NEW p \in Obj, ScriptStep(p) PROVE AddressMove(o)
  <2>1. CASE Construct(p) \/ (\E c \in Obj : accept(p, c) \/ AcceptFailed(p, c))
    BY <2>1 DEF IInv, TypeOK, Lifecycle, Construct, accept, AcceptFailed, AddressMove
  <2>2. CASE Share(p) \/ Drop(p) \/ write(p) \/ (\E S \in CallbackSets : setCallback(p, S))
    BY <2>2 DEF IInv, TypeOK, Share, Drop, write, setCallback, uvVars, AddressMove
  <2>3. CASE OpenFailed(p) \/ (\E on \in OnChoices : listen(p, on) \/ connect(p, on))
    BY <2>3 DEF IInv, TypeOK, OpenFailed, listen, connect, AddressMove
  <2>4. CASE \E on \in OnChoices : shutdown(p, on) \/ ShutdownFailed(p, on)
    BY <2>4 DEF IInv, TypeOK, shutdown, ShutdownFailed, uvVars, AddressMove
  <2>5. CASE close(p)
    BY <2>5, CloseMoves DEF close, Reachable
  <2> QED BY <1>2, <2>1, <2>2, <2>3, <2>4, <2>5 DEF ScriptStep
<1>3. ASSUME NEW p \in Obj, LoopStep(p) PROVE AddressMove(o)
  <2>1. CASE \E s \in {"socket", "stream"} : client_connection_cb(p, s)
    BY <2>1 DEF IInv, TypeOK, client_connection_cb, AddressMove
  <2>2. CASE ReadErrorClose(p)
    BY <2>2, CloseMoves DEF ReadErrorClose, Deliverable
  <2>3. CASE shutdown_cb(p) \/ tcp_close_cb(p)
    BY <2>3 DEF IInv, TypeOK, shutdown_cb, tcp_close_cb, AddressMove
  <2>4. CASE \/ \E ok \in BOOLEAN : connection_cb(p, ok)
             \/ ReadData(p) \/ ReadErrorCall(p) \/ write_cb(p) \/ LibuvTouchesFreed(p)
    BY <2>4 DEF connection_cb, ReadData, ReadErrorCall, write_cb, LibuvTouchesFreed, uvVars, AddressMove
  <2> QED BY <1>3, <2>1, <2>2, <2>3, <2>4 DEF LoopStep
<1> QED BY <1>1, <1>2, <1>3 DEF Next

\* No socket has an address at first.
LEMMA AddrInit_Inv == ASSUME AddrInit PROVE AddrIInv
<1>1. IInv
  BY Init_Inv DEF AddrInit
<1>2. AddrTypeOK
  BY AddressAssumption DEF AddrInit, AddrTypeOK
<1>3. AddressInUse /\ CachedWhen /\ StaleOnlyIfAskedEarly /\ PeerIsCurrent
  BY DEF AddrInit, Init, AddressInUse, CachedWhen, StaleOnlyIfAskedEarly, PeerIsCurrent
<1> QED BY <1>1, <1>2, <1>3 DEF AddrIInv

\* A step of the socket takes a new address only when it has none, and gives
\* one up only when its connection attempt fails, before which the peer has no
\* answer and the local address an early one.
LEMMA SocketStep_Inv == ASSUME AddrIInv, SocketStep PROVE AddrIInv'
<1>1. IInv'
  BY Next_Inv DEF AddrIInv, SocketStep
<1>2. AddrTypeOK'
  BY DEF AddrIInv, AddrTypeOK, SocketStep, Kernel
<1>3. \A o \in Obj : AddressMove(o)
  BY StepMoves DEF AddrIInv, SocketStep
<1>4. ASSUME NEW o \in Obj
      PROVE  /\ given'[o] = IF Opens(o) /\ ~bound[o] THEN given[o] + 1 ELSE given[o]
             /\ bound'[o] <=> Opens(o) \/ (bound[o] /\ ~GivesUp(o))
             /\ given[o] \in Nat
  <2>1. bound'[o] <=> Opens(o) \/ (bound[o] /\ ~GivesUp(o))
    BY Zenon DEF SocketStep, Kernel
  <2> QED BY <2>1 DEF SocketStep, Kernel, AddrIInv, AddrTypeOK
<1>5. AddressInUse'
  <2> SUFFICES ASSUME NEW o \in Obj
               PROVE  /\ "connect" \in reqs'[o] => bound'[o] /\ uv'[o] \in {"socket", "closing"}
                      /\ uv'[o] \in {"stream", "listening"} => bound'[o]
                      /\ bound'[o] => given'[o] > 0 /\ uv'[o] \notin {"none", "idle"}
                      /\ bound'[o] /\ uv'[o] = "socket" => "connect" \in reqs'[o]
    BY DEF AddressInUse
  <2>1. /\ "connect" \in reqs[o] => bound[o] /\ uv[o] \in {"socket", "closing"}
        /\ uv[o] \in {"stream", "listening"} => bound[o]
        /\ bound[o] => given[o] > 0 /\ uv[o] \notin {"none", "idle"}
        /\ bound[o] /\ uv[o] = "socket" => "connect" \in reqs[o]
    BY DEF AddrIInv, AddressInUse
  <2> QED BY <1>3, <1>4, <2>1 DEF AddressMove, Opens, GivesUp
<1>6. CachedWhen'
  BY <1>3 DEF AddrIInv, AddressInUse, CachedWhen, AddressMove, SocketStep
<1>7. StaleOnlyIfAskedEarly' /\ PeerIsCurrent'
  <2> SUFFICES ASSUME NEW o \in Obj
               PROVE  /\ sock[o] # 0 /\ ~early[o] => sock[o] = given'[o] /\ bound'[o]
                      /\ peer[o] # 0 => peer[o] = given'[o] /\ bound'[o]
    BY DEF SocketStep, StaleOnlyIfAskedEarly, PeerIsCurrent
  <2>1. ASSUME bound[o], uv[o] \in {"stream", "listening", "closing", "closed"}
        PROVE  bound'[o] /\ given'[o] = given[o]
    <3>1. AddressMove(o) /\ (bound'[o] <=> Opens(o) \/ (bound[o] /\ ~GivesUp(o)))
      BY <1>3, <1>4
    <3>2. uv'[o] # "socket"
      BY <2>1, <3>1 DEF AddressMove, AddrIInv, AddressInUse
    <3> QED BY <1>4, <2>1, <3>1, <3>2 DEF GivesUp
  <2> QED BY <2>1 DEF AddrIInv, CachedWhen, StaleOnlyIfAskedEarly, PeerIsCurrent
<1> QED BY <1>1, <1>2, <1>5, <1>6, <1>7 DEF AddrIInv

\* A getter caches the address in use, and marks one it got during an attempt.
LEMMA Query_Inv == ASSUME AddrIInv, NEW o \in Obj, getSockname(o) \/ getPeername(o) PROVE AddrIInv'
<1>1. IInv'
  <2>1. UNCHANGED vars
    BY DEF getSockname, getPeername
  <2> QED BY <2>1, Next_Inv DEF AddrIInv
<1>2. AddrTypeOK'
  <2>1. early' \in [Obj -> BOOLEAN]
    <3>1. \A E \in [Obj -> BOOLEAN] : \A e \in BOOLEAN : [E EXCEPT ![o] = e] \in [Obj -> BOOLEAN]
      BY Zenon
    <3>2. ("connect" \in reqs[o]) \in BOOLEAN
      OBVIOUS
    <3> QED BY <3>1, <3>2, Zenon DEF AddrIInv, AddrTypeOK, getSockname, getPeername
  <2>2. /\ sock' \in [Obj -> 0..MaxAddresses] /\ peer' \in [Obj -> 0..MaxAddresses]
        /\ given' = given /\ bound' = bound
    BY DEF AddrIInv, AddrTypeOK, getSockname, getPeername
  <2> QED BY <2>1, <2>2 DEF AddrIInv, AddrTypeOK
<1>3. AddressInUse'
  BY DEF AddrIInv, AddressInUse, getSockname, getPeername, vars
<1>4. CachedWhen' /\ StaleOnlyIfAskedEarly' /\ PeerIsCurrent'
  <2>1. CASE getSockname(o)
    BY <2>1 DEF AddrIInv, AddrTypeOK, AddressInUse, CachedWhen, StaleOnlyIfAskedEarly, PeerIsCurrent,
       getSockname, Answers, WithFd, vars
  <2>2. CASE getPeername(o)
    BY <2>2 DEF AddrIInv, AddrTypeOK, AddressInUse, CachedWhen, StaleOnlyIfAskedEarly, PeerIsCurrent,
       getPeername, PeerAnswers, vars
  <2> QED BY <2>1, <2>2
<1> QED BY <1>1, <1>2, <1>3, <1>4 DEF AddrIInv

\* The inductive invariant of the addresses holds in every state.
THEOREM AddrInvariance == AddrSpec => []AddrIInv
<1>1. AddrInit => AddrIInv
  BY AddrInit_Inv
<1>2. AddrIInv /\ [AddrNext]_<<vars, addrVars>> => AddrIInv'
  <2>1. ASSUME AddrIInv, UNCHANGED <<vars, addrVars>> PROVE AddrIInv'
    <3>1. IInv'
      BY <2>1, Next_Inv DEF AddrIInv
    <3> QED BY <2>1, <3>1 DEF vars, addrVars, AddrIInv, AddrTypeOK, AddressInUse, CachedWhen,
               StaleOnlyIfAskedEarly, PeerIsCurrent
  <2> QED BY <2>1, SocketStep_Inv, Query_Inv DEF AddrNext, Query
<1> QED BY <1>1, <1>2, PTL DEF AddrSpec

\* getSockname and getSockport answer with the socket's address, but for an
\* answer that was cached while a connection attempt was under way.
THEOREM SocknameCurrent == AddrSpec => []StaleOnlyIfAskedEarly
<1>1. AddrIInv => StaleOnlyIfAskedEarly
  BY DEF AddrIInv
<1> QED BY <1>1, AddrInvariance, PTL

\* getPeername and getPeerport never answer for another connection.
THEOREM PeernameCurrent == AddrSpec => []PeerIsCurrent
<1>1. AddrIInv => PeerIsCurrent
  BY DEF AddrIInv
<1> QED BY <1>1, AddrInvariance, PTL
=============================================================================
