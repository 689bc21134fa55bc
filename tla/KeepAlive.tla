----------------------------- MODULE KeepAlive -----------------------------
(***************************************************************************)
(* What the extension promises about an object that wraps a libuv handle,  *)
(* whatever the protocol: the object is pinned (holds a reference to       *)
(* itself) from the first call that makes libuv owe it a callback, a       *)
(* pinned object cannot die, and the pin is released only in the step in   *)
(* which libuv finishes closing the handle.  Objects that were never       *)
(* pinned carry no such promise: they die with their last script           *)
(* reference, and libuv may be left with a dangling handle.  Nor do        *)
(* objects whose handle the script opens again after its close, unless     *)
(* that pins them again.                                                   *)
(***************************************************************************)
CONSTANT Obj

VARIABLES
    status,     \* unborn, loose (only the script keeps it alive), pinned, dead
    handle,     \* none, open, closing, closed
    everPinned, \* the objects pinned since their handle was opened
    broken      \* the process has used a handle that was freed while open

vars == <<status, handle, everPinned, broken>>

Init ==
    /\ status = [o \in Obj |-> "unborn"]
    /\ handle = [o \in Obj |-> "none"]
    /\ everPinned = {}
    /\ broken = FALSE

\* An object appears with an open handle; accept's may die at once.
Create(o) ==
    /\ status[o] = "unborn"
    /\ \E s \in {"loose", "dead"} : status' = [status EXCEPT ![o] = s]
    /\ handle' = [handle EXCEPT ![o] = "open"]
    /\ UNCHANGED <<everPinned, broken>>

Pin(o) ==
    /\ status[o] = "loose"
    /\ status' = [status EXCEPT ![o] = "pinned"]
    /\ everPinned' = everPinned \cup {o}
    /\ UNCHANGED <<handle, broken>>

StartClose(o) ==
    /\ status[o] \in {"loose", "pinned"} /\ handle[o] = "open"
    /\ handle' = [handle EXCEPT ![o] = "closing"]
    /\ UNCHANGED <<status, everPinned, broken>>

\* The only step that unpins; the object may die in it.
FinishClose(o) ==
    /\ status[o] \in {"loose", "pinned"} /\ handle[o] = "closing"
    /\ handle' = [handle EXCEPT ![o] = "closed"]
    /\ \/ status' = [status EXCEPT ![o] = "loose"]
       \/ status[o] = "pinned" /\ status' = [status EXCEPT ![o] = "dead"]
    /\ UNCHANGED <<everPinned, broken>>

\* The script uses a handle that is closed already.
Reopen(o) ==
    /\ status[o] = "loose" /\ handle[o] = "closed"
    /\ handle' = [handle EXCEPT ![o] = "open"]
    /\ \/ UNCHANGED status /\ everPinned' = everPinned \ {o}
       \/ status' = [status EXCEPT ![o] = "pinned"] /\ everPinned' = everPinned \cup {o}
    /\ UNCHANGED broken

\* libuv may be using the handle of an object that dies open.
Dangling(o) == handle[o] # "closed" /\ o \notin everPinned
Die(o) ==
    /\ status[o] = "loose"
    /\ status' = [status EXCEPT ![o] = "dead"]
    /\ UNCHANGED broken \/ (Dangling(o) /\ broken' = TRUE)
    /\ UNCHANGED <<handle, everPinned>>

\* Possible only for an object that died open and was not pinned.
Break(o) ==
    /\ status[o] = "dead" /\ Dangling(o)
    /\ broken' = TRUE
    /\ UNCHANGED <<status, handle, everPinned>>

Next == \E o \in Obj :
    Create(o) \/ Pin(o) \/ StartClose(o) \/ FinishClose(o) \/ Reopen(o) \/ Die(o) \/ Break(o)

Spec == Init /\ [][Next]_vars

\* Consequence of the promise: a handle freed without its close having ended
\* belongs to an object that was not pinned since the handle was opened.
PinnedFreedClosed ==
    \A o \in everPinned : status[o] = "dead" => handle[o] = "closed"
=============================================================================
