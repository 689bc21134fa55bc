-------------------------- MODULE KeepAliveProofs --------------------------
(***************************************************************************)
(* What the contract KeepAlive amounts to: no object that was pinned since *)
(* its handle was opened dies before the handle is closed.                 *)
(***************************************************************************)
EXTENDS KeepAlive, TLAPS

\* An object that was pinned since its handle was opened is pinned still, or
\* the handle is closed; in either case it has left "unborn" behind.  With the
\* domains of the two functions that the actions update.
Guarded ==
    /\ status \in [Obj -> {"unborn", "loose", "pinned", "dead"}]
    /\ handle \in [Obj -> {"none", "open", "closing", "closed"}]
    /\ \A o \in Obj : o \in everPinned =>
          \/ status[o] = "pinned"
          \/ handle[o] = "closed" /\ status[o] \in {"loose", "dead"}
    /\ everPinned \subseteq Obj

\* Each action keeps Guarded: only FinishClose unpins, and it closes the handle;
\* a handle that is opened again counts as pinned only if Reopen pins it.
LEMMA Step_Guarded == ASSUME Guarded, [Next]_vars PROVE Guarded'
<1>1. ASSUME NEW o \in Obj, Create(o) \/ Pin(o) PROVE Guarded'
  BY <1>1 DEF Guarded, Create, Pin
<1>2. ASSUME NEW o \in Obj, StartClose(o) PROVE Guarded'
  BY <1>2 DEF Guarded, StartClose
<1>3. ASSUME NEW o \in Obj, FinishClose(o) PROVE Guarded'
  BY <1>3 DEF Guarded, FinishClose
<1>4. ASSUME NEW o \in Obj, Reopen(o) PROVE Guarded'
  BY <1>4 DEF Guarded, Reopen
<1>5. ASSUME NEW o \in Obj, Die(o) \/ Break(o) PROVE Guarded'
  BY <1>5 DEF Guarded, Die, Break
<1>6. CASE UNCHANGED vars
  BY <1>6 DEF Guarded, vars
<1> QED BY <1>1, <1>2, <1>3, <1>4, <1>5, <1>6 DEF Next

\* The contract's promise in one line: when sweep frees the handle of an
\* object that was pinned, libuv has finished closing it.
THEOREM PromiseKept == Spec => []PinnedFreedClosed
<1>1. Init => Guarded
  BY DEF Init, Guarded
<1>2. Guarded /\ [Next]_vars => Guarded'
  BY Step_Guarded
<1>3. Guarded => PinnedFreedClosed
  BY DEF Guarded, PinnedFreedClosed
<1> QED BY <1>1, <1>2, <1>3, PTL DEF Spec
=============================================================================
