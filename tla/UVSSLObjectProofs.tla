------------------------- MODULE UVSSLObjectProofs -------------------------
(***************************************************************************)
(* Proofs about UVSSLObject: SslInv is inductive, and the properties that  *)
(* the ssl_object run checks on two objects hold for any number of them,   *)
(* of references and of outstanding resolutions.                           *)
(*                                                                         *)
(* First what the shared building blocks do to an object (releaseHandle,   *)
(* tcp_close_socket, the loss of the last reference, the end of a          *)
(* callback), then one lemma per action, in the order of SslNext, then the *)
(* theorems.                                                               *)
(***************************************************************************)
EXTENDS UVSSLObject, TLAPS

\* What releaseHandle does to the object: the three bits are cleared, and the
\* self reference is given back if it was there.
Releases(o) ==
    /\ flag' = [flag EXCEPT ![o] = @ \ {"READ_START", "HANDLE_START", "INTERNAL_REF"}]
    /\ uvflag' \in [Obj -> SUBSET {"READING", "SHUT", "ACCEPTED"}]
    /\ IF "INTERNAL_REF" \in flag[o]
       THEN /\ rc' = [rc EXCEPT ![o] = @ - 1]
            /\ life' = [life EXCEPT ![o] = IF rc[o] = 1 THEN "dead" ELSE @]
            /\ cb' = [cb EXCEPT ![o] = IF rc[o] = 1 THEN {} ELSE @]
       ELSE UNCHANGED <<life, rc, cb>>

LEMMA ReleasedEffect == ASSUME SslInv, NEW o \in Obj, Released(o) PROVE Releases(o)
<1> USE DEF SslInv, SslTypeOK
<1>1. ReleasedFlags(ReleasedFlags(flag[o])) = ReleasedFlags(flag[o])
  BY DEF ReleasedFlags
<1>2. flag' = [flag EXCEPT ![o] = ReleasedFlags(@)]
  BY <1>1 DEF Released, decRefAndRelease
<1>3. uvflag' \in [Obj -> SUBSET {"READING", "SHUT", "ACCEPTED"}]
  BY DEF Released, decRefAndRelease, ReadStopped
<1> QED BY <1>2, <1>3 DEF Releases, Released, decRefAndRelease, ReleasedFlags

\* The end of the close gives the self reference back.
LEMMA tcp_close_cb_Inv ==
    ASSUME SslInv, NEW o \in Obj, tcp_close_cb(o), UNCHANGED sslVars
    PROVE  SslInv'
<1> USE DEF SslInv, SslTypeOK
<1>1. /\ ~crashed /\ frame = None /\ life[o] = "live" /\ uv[o] = "closing"
      /\ reqs[o] = {} /\ writes[o] = 0 /\ uv' = [uv EXCEPT ![o] = "closed"]
      /\ UNCHANGED <<held, reqs, writes, frame, pinned, crashed>>
  BY DEF tcp_close_cb, Deliverable
<1>2. Released(o)
  BY DEF tcp_close_cb, Released
<1>3. /\ Releases(o)
      /\ UNCHANGED <<lookups, asked, ssl, listener, greeting, unresolved, misused>>
  BY <1>1, <1>2, ReleasedEffect DEF sslVars
<1>4. SslTypeOK'
  BY <1>1, <1>3, BoundAssumption DEF Releases, RefCountExact, SelfRef, FrameRef, UvStates
<1>5. RefCountExact'
  BY <1>1, <1>3 DEF Releases, RefCountExact, SelfRef, FrameRef, InFrame
<1>6. SafeUnlessUnresolved'
  BY <1>1, <1>3 DEF Releases, SafeUnlessUnresolved
<1>7. SslLifecycle'
  BY <1>1, <1>3 DEF Releases, RefCountExact, SelfRef, FrameRef, SslLifecycle
<1>8. SslFrame'
  <2>1. greeting = None
    BY <1>1, SslAssumption DEF SslFrame
  <2> QED BY <1>1, <1>3, <2>1, SslAssumption DEF SslFrame
<1>9. SslListener'
  BY <1>1, <1>3 DEF SslListener
<1>10. UnsafeOnlyHere'
  BY <1>1 DEF UnsafeOnlyHere
<1> QED BY <1>4, <1>5, <1>6, <1>7, <1>8, <1>9, <1>10

\* A failed resolution marks the object, and releases it if there is no callback.
LEMMA ResolvedFails_Inv ==
    ASSUME SslInv, NEW o \in Obj, ResolvedFails(o)
    PROVE  SslInv'
<1> USE DEF SslInv, SslTypeOK
<1>1. /\ ~crashed /\ frame = None /\ life[o] = "live" /\ lookups[o] > 0
      /\ lookups' = [lookups EXCEPT ![o] = @ - 1] /\ unresolved' = unresolved \cup {o}
      /\ UNCHANGED <<held, uv, reqs, writes, pinned, crashed, asked, ssl, listener, greeting, misused>>
  BY DEF ResolvedFails, ResolverCalls, Answered, Session
<1>2. lookups' \in [Obj -> 0..MaxLookups]
  BY <1>1, SslAssumption
<1>3. CASE "connect" \in cb[o]
  <2>1. /\ frame' = [cb |-> "resolved", obj |-> o] /\ frame' # None
        /\ rc' = [rc EXCEPT ![o] = @ + 1] /\ UNCHANGED <<life, flag, cb, uvflag>>
    BY <1>3, SslAssumption DEF ResolvedFails, CallUser
  <2>2. SslTypeOK'
    BY <1>1, <1>2, <2>1, BoundAssumption DEF RefCountExact, SelfRef, FrameRef, InFrame
  <2>3. RefCountExact'
    BY <1>1, <2>1 DEF RefCountExact, SelfRef, FrameRef, InFrame
  <2>4. SafeUnlessUnresolved' /\ SslLifecycle'
    BY <1>1, <2>1 DEF SafeUnlessUnresolved, SslLifecycle
  <2>5. SslFrame'
    <3>1. frame' # [cb |-> "servername", obj |-> None]
      BY <2>1
    <3>2. greeting = None
      BY <1>1, SslAssumption DEF SslFrame
    <3> QED BY <1>1, <2>1, <3>1, <3>2 DEF SslFrame
  <2>6. SslListener'
    BY <1>1 DEF SslListener
  <2>7. UnsafeOnlyHere'
    BY <1>1 DEF UnsafeOnlyHere
  <2> QED BY <2>2, <2>3, <2>4, <2>5, <2>6, <2>7
<1>4. CASE "connect" \notin cb[o]
  <2>1. Releases(o) /\ frame' = None
    BY <1>1, <1>4, ReleasedEffect DEF ResolvedFails
  <2>2. SslTypeOK'
    BY <1>1, <1>2, <2>1, BoundAssumption DEF Releases, RefCountExact, SelfRef, FrameRef
  <2>3. RefCountExact'
    BY <1>1, <2>1 DEF Releases, RefCountExact, SelfRef, FrameRef, InFrame
  <2>4. SafeUnlessUnresolved'
    BY <1>1, <2>1 DEF Releases, SafeUnlessUnresolved
  <2>5. SslLifecycle'
    BY <1>1, <2>1 DEF Releases, RefCountExact, SelfRef, FrameRef, SslLifecycle
  <2>6. SslFrame' /\ SslListener' /\ UnsafeOnlyHere'
    BY <1>1, <2>1 DEF SslFrame, SslListener, UnsafeOnlyHere
  <2> QED BY <2>2, <2>3, <2>4, <2>5, <2>6
<1> QED BY <1>3, <1>4

\* sni_cb meets a dead listening object, or calls the servername callback about
\* an open session.
LEMMA ReadHello_Inv ==
    ASSUME SslInv, NEW o \in Obj, NEW called \in BOOLEAN, ReadHello(o, called)
    PROVE  SslInv'
<1> USE DEF SslInv, SslTypeOK
<1>1. /\ ~crashed /\ frame = None /\ uv[o] = "stream" /\ ssl[o] = "hello"
      /\ listener[o] \in Obj
      /\ UNCHANGED <<life, rc, held, flag, cb, uv, uvflag, reqs, writes, pinned>>
      /\ UNCHANGED <<lookups, asked, listener, unresolved, misused>>
  BY DEF ReadHello, Readable, Deliverable, Crash, objVars, uvVars, History, SslListener
<1>2. CASE life[listener[o]] = "dead"
  <2>1. crashed' /\ UNCHANGED <<frame, ssl, greeting>>
    BY <1>2 DEF ReadHello, Crash
  <2>2. SslTypeOK' /\ RefCountExact' /\ SafeUnlessUnresolved' /\ SslLifecycle' /\ SslFrame' /\ SslListener'
    BY <1>1, <2>1 DEF RefCountExact, SelfRef, FrameRef, InFrame, SafeUnlessUnresolved, SslLifecycle,
       SslFrame, SslListener
  <2>3. ssl[o] # "none" /\ listener[o] # None
    BY <1>1, SslAssumption
  <2>4. UnsafeOnlyHere'
    BY <1>1, <1>2, <2>1, <2>3 DEF UnsafeOnlyHere
  <2> QED BY <2>2, <2>4
<1>3. CASE life[listener[o]] # "dead"
  <2>1. ssl' = [ssl EXCEPT ![o] = "greeted"] /\ crashed' = crashed
    BY <1>3 DEF ReadHello
  <2>2. \/ frame' = [cb |-> "servername", obj |-> None] /\ greeting' = o
        \/ UNCHANGED <<frame, greeting>>
    BY <1>3 DEF ReadHello
  <2>3. SslTypeOK' /\ SafeUnlessUnresolved' /\ SslLifecycle'
    BY <1>1, <2>1, <2>2 DEF SafeUnlessUnresolved, SslLifecycle
  <2>4. RefCountExact'
    BY <1>1, <2>2, SslAssumption DEF RefCountExact, SelfRef, FrameRef, InFrame
  <2>5. SslFrame'
    BY <1>1, <2>1, <2>2, SslAssumption DEF SslFrame
  <2>6. SslListener' /\ UnsafeOnlyHere'
    BY <1>1, <2>1 DEF SslListener, UnsafeOnlyHere
  <2> QED BY <2>3, <2>4, <2>5, <2>6
<1> QED BY <1>2, <1>3

\* The arguments of a callback held the last reference: the object never
\* referred to itself, or a failed connect by name has released it.
LEMMA LastReference_Inv ==
    ASSUME SslInv, ~crashed, NEW o \in Obj, frame # None, frame.obj = o,
           LastReference, UNCHANGED sslVars
    PROVE  SslInv'
<1> USE DEF SslInv, SslTypeOK
<1>1. /\ rc[o] = 1 /\ held[o] = 0 /\ "INTERNAL_REF" \notin flag[o] /\ life[o] = "live"
      /\ \A p \in Obj \ {o} : ~InFrame(p)
  <2>1. InFrame(o) /\ \A p \in Obj \ {o} : ~InFrame(p)
    BY DEF InFrame
  <2>2. rc[o] = 1 /\ held[o] \in Nat
    BY DEF LastReference
  <2>3. held[o] = 0 /\ "INTERNAL_REF" \notin flag[o]
    BY <2>1, <2>2 DEF RefCountExact, SelfRef, FrameRef
  <2> QED BY <2>1, <2>2, <2>3 DEF SslLifecycle
<1>2. /\ rc' = [rc EXCEPT ![o] = 0] /\ life' = [life EXCEPT ![o] = "dead"]
      /\ cb' = [cb EXCEPT ![o] = {}] /\ flag' = [flag EXCEPT ![o] = ReleasedFlags(@)]
      /\ uvflag' = [uvflag EXCEPT ![o] = ReadStopped(flag[o], @)]
      /\ crashed' /\ frame' = None
      /\ UNCHANGED <<held, uv, reqs, writes, pinned>>
      /\ UNCHANGED <<lookups, asked, ssl, listener, greeting, unresolved, misused>>
  BY <1>1 DEF LastReference, decRefAndRelease, sslVars
<1>3. greeting = None
  BY SslAssumption DEF SslFrame
<1>4. SslTypeOK'
  BY <1>2, BoundAssumption DEF ReleasedFlags, ReadStopped
<1>5. RefCountExact'
  BY <1>1, <1>2 DEF RefCountExact, SelfRef, FrameRef, InFrame, ReleasedFlags
<1>6. /\ uv[o] # "closed" \/ o \in unresolved
      /\ o \notin unresolved => ~pinned[o]
  <2>1. uv[o] # "closed" \/ o \in unresolved
    BY SslAssumption DEF SslFrame
  <2> QED BY <1>1, <2>1 DEF SafeUnlessUnresolved
<1>7. SslLifecycle'
  BY <1>1, <1>2 DEF SslLifecycle, ReleasedFlags
<1>8. SslFrame' /\ SslListener'
  BY <1>2, <1>3, SslAssumption DEF SslFrame, SslListener
<1>9. SafeUnlessUnresolved'
  BY <1>2, <1>6 DEF SafeUnlessUnresolved
<1>10. UnsafeOnlyHere'
  BY <1>2, <1>6 DEF UnsafeOnlyHere, Orphan
<1> QED BY <1>4, <1>5, <1>7, <1>8, <1>9, <1>10

\* tcp_close_socket, called by a step that leaves the object's life alone.
LEMMA CloseSocket ==
    ASSUME SslInv, NEW o \in Obj, life[o] = "live", ~crashed, tcp_close_socket(o)
    PROVE  /\ ~crashed' /\ flag' \in [Obj -> SUBSET Flags] /\ uv' \in [Obj -> UvStates]
           /\ uvflag' \in [Obj -> SUBSET {"READING", "SHUT", "ACCEPTED"}]
           /\ \A p \in Obj :
                 /\ "INTERNAL_REF" \in flag'[p] <=> "INTERNAL_REF" \in flag[p]
                 /\ "CLOSING_START" \in flag'[p] <=> uv'[p] \in {"closing", "closed"}
                 /\ uv'[p] = uv[p] \/ (uv[p] \notin {"none", "closing", "closed"} /\ uv'[p] = "closing")
<1> USE DEF SslInv, SslTypeOK
<1>1. CASE "CLOSING_START" \in flag[o]
  BY <1>1 DEF SslLifecycle, tcp_close_socket
<1>2. CASE "CLOSING_START" \notin flag[o]
  <2>1. /\ ~crashed' /\ uv' = [uv EXCEPT ![o] = "closing"]
        /\ flag' = [flag EXCEPT ![o] = CloseFlags(@)]
        /\ uvflag' = [uvflag EXCEPT ![o] = @ \ {"READING", "ACCEPTED"}]
    BY <1>2 DEF tcp_close_socket, UvClose, SslLifecycle
  <2>2. uv[o] \notin {"none", "closing", "closed"}
    BY <1>2 DEF SslLifecycle
  <2> QED BY <2>1, <2>2 DEF SslLifecycle, CloseFlags, Flags, UvStates
<1> QED BY <1>1, <1>2

\* A step that may close the handle of o, move to another callback of o, or
\* end the callback, while o keeps a reference.
LEMMA CallbackEnds ==
    ASSUME SslInv, ~crashed, NEW o \in Obj, frame # None, frame.obj = o, rc[o] > 1,
           tcp_close_socket(o) \/ UNCHANGED <<flag, uv, uvflag, crashed>>,
           \/ frame' = [cb |-> "read", obj |-> o] /\ UNCHANGED rc
           \/ frame' = None /\ rc' = [rc EXCEPT ![o] = @ - 1],
           UNCHANGED <<life, held, cb, reqs, writes, pinned, sslVars>>
    PROVE  SslInv'
<1> USE DEF SslInv, SslTypeOK
<1>1. life[o] = "live"
  BY DEF SslLifecycle
<1>2. /\ ~crashed' /\ flag' \in [Obj -> SUBSET Flags] /\ uv' \in [Obj -> UvStates]
      /\ uvflag' \in [Obj -> SUBSET {"READING", "SHUT", "ACCEPTED"}]
      /\ \A p \in Obj :
            /\ "INTERNAL_REF" \in flag'[p] <=> "INTERNAL_REF" \in flag[p]
            /\ "CLOSING_START" \in flag'[p] <=> uv'[p] \in {"closing", "closed"}
            /\ uv'[p] = uv[p] \/ (uv[p] \notin {"none", "closing", "closed"} /\ uv'[p] = "closing")
  <2>1. CASE tcp_close_socket(o)
    BY <1>1, <2>1, CloseSocket
  <2>2. CASE UNCHANGED <<flag, uv, uvflag, crashed>>
    BY <2>2 DEF SslLifecycle
  <2> QED BY <2>1, <2>2
<1>3. UNCHANGED <<lookups, asked, ssl, listener, greeting, unresolved, misused>>
  BY DEF sslVars
<1>4. greeting = None
  BY SslAssumption DEF SslFrame
<1>5. frame' # [cb |-> "servername", obj |-> None]
  BY SslAssumption
<1>6. [cb |-> "read", obj |-> o] # None
  BY NoneAssumption DEF Callbacks
<1>7. SslTypeOK'
  BY <1>2, <1>3, BoundAssumption DEF Callbacks
<1>8. RefCountExact'
  BY <1>2, <1>6 DEF RefCountExact, SelfRef, FrameRef, InFrame
<1>9. SafeUnlessUnresolved' /\ SslLifecycle'
  <2>1. \A p \in Obj : rc'[p] > 0 <=> rc[p] > 0
    OBVIOUS
  <2>2. SafeUnlessUnresolved'
    BY <1>2, <1>3 DEF SafeUnlessUnresolved
  <2>3. SslLifecycle'
    BY <1>2, <1>3, <2>1 DEF SslLifecycle
  <2> QED BY <2>2, <2>3
<1>10. SslFrame' /\ SslListener' /\ UnsafeOnlyHere'
  BY <1>2, <1>3, <1>4, <1>5, SslAssumption DEF SslFrame, SslListener, UnsafeOnlyHere
<1> QED BY <1>7, <1>8, <1>9, <1>10

\* UVTcp's callbacks return.
LEMMA ReturnTcp_Inv == ASSUME SslInv, ReturnTcp PROVE SslInv'
<1>1. PICK o \in Obj : frame.obj = o
  BY DEF SslInv, SslTypeOK, ReturnTcp, Callbacks
<1>2. ~crashed /\ frame # None /\ rc[o] >= 1
  BY <1>1 DEF SslInv, SslTypeOK, RefCountExact, SelfRef, FrameRef, InFrame, ReturnTcp, Return
<1>3. CASE rc[o] = 1
  <2>1. LastReference /\ UNCHANGED sslVars
    BY <1>1, <1>3 DEF ReturnTcp, Return, LastReference
  <2> QED BY <1>1, <1>2, <2>1, LastReference_Inv
<1>4. CASE rc[o] # 1
  <2>1. /\ frame' = None /\ rc' = [rc EXCEPT ![o] = @ - 1]
        /\ tcp_close_socket(o) \/ UNCHANGED <<flag, uv, uvflag, crashed>>
        /\ UNCHANGED <<life, held, cb, reqs, writes, pinned, sslVars>>
    BY <1>1, <1>4 DEF ReturnTcp, Return
  <2>2. rc[o] > 1
    BY <1>2, <1>4 DEF SslInv, SslTypeOK
  <2> QED BY <1>1, <1>2, <2>1, <2>2, CallbackEnds
<1> QED BY <1>3, <1>4

\* The handshake callback returns: the session is closed, or the read callback
\* follows.
LEMMA ReturnHandshake_Inv == ASSUME SslInv, NEW v \in BOOLEAN, ReturnHandshake(v) PROVE SslInv'
<1>1. PICK o \in Obj : frame.obj = o
  BY DEF SslInv, SslTypeOK, ReturnHandshake
<1>2. ~crashed /\ frame # None /\ UNCHANGED sslVars
  BY DEF ReturnHandshake
<1>3. CASE LastReference
  BY <1>1, <1>2, <1>3, LastReference_Inv
<1>4. CASE ~LastReference
  <2>1. /\ rc[o] > 1
        /\ tcp_close_socket(o) \/ UNCHANGED <<flag, uv, uvflag, crashed>>
        /\ \/ frame' = [cb |-> "read", obj |-> o] /\ UNCHANGED rc
           \/ frame' = None /\ rc' = [rc EXCEPT ![o] = @ - 1]
        /\ UNCHANGED <<life, held, cb, reqs, writes, pinned>>
    BY <1>1, <1>4 DEF ReturnHandshake
  <2> QED BY <1>1, <1>2, <2>1, CallbackEnds
<1> QED BY <1>3, <1>4

\* The callback of a failed connect returns, and the self reference is released
\* with its arguments.
LEMMA ReturnResolved_Inv == ASSUME SslInv, ReturnResolved PROVE SslInv'
<1> USE DEF SslInv, SslTypeOK
<1>1. PICK o \in Obj : frame.obj = o
  BY DEF ReturnResolved
<1>2. ~crashed /\ frame # None /\ UNCHANGED sslVars /\ o \in unresolved
  BY <1>1 DEF ReturnResolved, SslFrame
<1>3. CASE LastReference
  BY <1>1, <1>2, <1>3, LastReference_Inv
<1>4. CASE ~LastReference
  <2> DEFINE refs == IF "INTERNAL_REF" \in flag[o] THEN 2 ELSE 1
  <2>1. /\ rc[o] > 1 /\ frame' = None /\ rc' = [rc EXCEPT ![o] = @ - refs]
        /\ life' = [life EXCEPT ![o] = IF rc[o] = refs THEN "dead" ELSE @]
        /\ cb' = [cb EXCEPT ![o] = IF rc[o] = refs THEN {} ELSE @]
        /\ flag' = [flag EXCEPT ![o] = ReleasedFlags(@)]
        /\ uvflag' = [uvflag EXCEPT ![o] = ReadStopped(flag[o], @)]
        /\ UNCHANGED <<held, uv, reqs, writes, pinned, crashed>>
    BY <1>1, <1>4 DEF ReturnResolved
  <2>2. UNCHANGED <<lookups, asked, ssl, listener, greeting, unresolved, misused>>
    BY <1>2 DEF sslVars
  <2>3. /\ rc[o] = held[o] + refs /\ life[o] = "live"
        /\ \A p \in Obj \ {o} : ~InFrame(p)
    BY <1>1, <1>2, <2>1 DEF RefCountExact, SelfRef, FrameRef, InFrame, SslLifecycle
  <2>4. SslTypeOK'
    BY <2>1, <2>2, <2>3, BoundAssumption DEF ReleasedFlags, ReadStopped
  <2>5. RefCountExact'
    BY <2>1, <2>3 DEF RefCountExact, SelfRef, FrameRef, InFrame, ReleasedFlags
  <2>6. SafeUnlessUnresolved'
    BY <1>2, <2>1, <2>2 DEF SafeUnlessUnresolved
  <2>7. SslLifecycle'
    BY <2>1, <2>2, <2>3 DEF SslLifecycle, ReleasedFlags
  <2>8. greeting = None
    BY <1>1, <1>2, SslAssumption DEF SslFrame
  <2>9. SslFrame' /\ SslListener' /\ UnsafeOnlyHere'
    BY <1>2, <2>1, <2>2, <2>8, SslAssumption DEF SslFrame, SslListener, UnsafeOnlyHere
  <2> QED BY <2>4, <2>5, <2>6, <2>7, <2>9
<1> QED BY <1>3, <1>4

\* The servername callback returns to a session that may be gone.
LEMMA ReturnServername_Inv == ASSUME SslInv, ReturnServername PROVE SslInv'
<1> USE DEF SslInv, SslTypeOK
<1>1. PICK o \in Obj : greeting = o
  BY DEF ReturnServername
<1>2. /\ ~crashed /\ frame' = None /\ greeting' = None
      /\ crashed' => life[o] = "dead" \/ life[listener[o]] = "dead"
      /\ UNCHANGED <<life, rc, held, flag, cb, uv, uvflag, reqs, writes, pinned>>
      /\ UNCHANGED <<lookups, asked, ssl, listener, unresolved, misused>>
  BY <1>1 DEF ReturnServername, objVars, uvVars, History
<1>3. /\ frame = [cb |-> "servername", obj |-> None]
      /\ uv[o] # "closed" \/ o \in unresolved
      /\ ssl[o] # "none" /\ listener[o] \in Obj
  BY <1>1, SslAssumption DEF SslFrame
<1>4. SslTypeOK' /\ SafeUnlessUnresolved' /\ SslLifecycle'
  BY <1>2 DEF SafeUnlessUnresolved, SslLifecycle
<1>5. RefCountExact'
  BY <1>2, <1>3, SslAssumption DEF RefCountExact, SelfRef, FrameRef, InFrame
<1>6. SslFrame' /\ SslListener'
  BY <1>2, SslAssumption DEF SslFrame, SslListener
<1>7. UnsafeOnlyHere'
  BY <1>2, <1>3, SslAssumption DEF UnsafeOnlyHere, SafeUnlessUnresolved, Orphan
<1> QED BY <1>4, <1>5, <1>6, <1>7

\* A new object, with the script's reference.
LEMMA Construct_Inv ==
    ASSUME SslInv, NEW o \in Obj, Construct(o), UNCHANGED sslVars
    PROVE  SslInv'
<1> USE DEF SslInv, SslTypeOK, Construct
<1>1. SslTypeOK' /\ RefCountExact' /\ SafeUnlessUnresolved' /\ SslLifecycle'
  BY BoundAssumption DEF sslVars, UvStates, RefCountExact, SelfRef, FrameRef, InFrame,
     SslLifecycle, SafeUnlessUnresolved
<1>2. SslFrame' /\ SslListener' /\ UnsafeOnlyHere'
  BY DEF sslVars, SslFrame, SslListener, UnsafeOnlyHere
<1> QED BY <1>1, <1>2

\* A copied reference is counted.
LEMMA Share_Inv ==
    ASSUME SslInv, NEW o \in Obj, Share(o), UNCHANGED sslVars
    PROVE  SslInv'
<1> USE DEF SslInv, SslTypeOK, Share
<1>1. SslTypeOK' /\ RefCountExact' /\ SafeUnlessUnresolved'
  BY BoundAssumption DEF uvVars, sslVars, RefCountExact, SelfRef, FrameRef, InFrame,
     SafeUnlessUnresolved
<1>2. SslLifecycle' /\ SslFrame' /\ SslListener' /\ UnsafeOnlyHere'
  BY DEF Reachable, uvVars, sslVars, SslLifecycle, SslFrame, SslListener, UnsafeOnlyHere, Orphan,
     Late
<1> QED BY <1>1, <1>2

\* The last reference goes only if the object does not refer to itself.
LEMMA Drop_Inv ==
    ASSUME SslInv, NEW o \in Obj, Drop(o), UNCHANGED sslVars
    PROVE  SslInv'
<1> USE DEF SslInv, SslTypeOK, Drop
<1>1. SslTypeOK'
  <2>1. rc[o] - 1 \in 0..MaxRefs + 2 /\ held[o] - 1 \in 0..MaxRefs
    BY BoundAssumption DEF SslLifecycle
  <2>2. rc' \in [Obj -> 0..MaxRefs + 2] /\ held' \in [Obj -> 0..MaxRefs]
    BY <2>1 DEF decRefAndRelease
  <2> QED BY <2>2 DEF decRefAndRelease, ReleasedFlags, ReadStopped, sslVars
<1>2. RefCountExact'
  BY DEF decRefAndRelease, ReleasedFlags, RefCountExact, SelfRef, FrameRef, InFrame, sslVars,
     SslLifecycle
<1>3. SafeUnlessUnresolved'
  BY DEF decRefAndRelease, ReleasedFlags, RefCountExact, SelfRef, FrameRef, InFrame, sslVars, SslLifecycle,
     SafeUnlessUnresolved
<1>4. SslLifecycle'
  BY DEF decRefAndRelease, ReleasedFlags, RefCountExact, SelfRef, FrameRef, InFrame, sslVars, SslLifecycle
<1>5. SslFrame' /\ SslListener' /\ UnsafeOnlyHere'
  BY DEF sslVars, SslFrame, SslListener, UnsafeOnlyHere
<1> QED BY <1>1, <1>2, <1>3, <1>4, <1>5

\* CLOSING_START keeps uv_close from being called twice.
LEMMA close_Inv ==
    ASSUME SslInv, NEW o \in Obj, close(o), UNCHANGED sslVars
    PROVE  SslInv'
<1> USE DEF SslInv, SslTypeOK, close
<1>1. SslTypeOK'
  BY DEF tcp_close_socket, CloseFlags, UvClose, objVars, sslVars, Flags, UvStates
<1>2. RefCountExact'
  BY DEF tcp_close_socket, CloseFlags, objVars, RefCountExact, SelfRef, FrameRef, InFrame
<1>3. SafeUnlessUnresolved' /\ SslLifecycle' /\ SslFrame'
  BY DEF tcp_close_socket, CloseFlags, objVars, sslVars, SslLifecycle, SafeUnlessUnresolved,
     Reachable, UvClose, SslFrame
<1>4. SslListener'
  BY DEF sslVars, SslListener
<1>5. UnsafeOnlyHere'
  <2>1. ~crashed'
    BY CloseSocket DEF Reachable
  <2> QED BY <2>1 DEF UnsafeOnlyHere
<1> QED BY <1>1, <1>2, <1>3, <1>4, <1>5

\* listen pins the object.
LEMMA listen_Inv ==
    ASSUME SslInv, NEW o \in Obj, NEW on \in OnChoices, listen(o, on), UNCHANGED sslVars
    PROVE  SslInv'
<1> USE DEF SslInv, SslTypeOK, listen
<1>1. SslTypeOK'
  BY BoundAssumption DEF With, setSelfReference, SelfRefs, sslVars, RefCountExact, SelfRef,
     FrameRef, Flags, Callbacks, UvStates
<1>2. RefCountExact' /\ SafeUnlessUnresolved'
  BY DEF setSelfReference, SelfRefs, RefCountExact, SelfRef, FrameRef, InFrame, Reachable, sslVars,
     SafeUnlessUnresolved
<1>3. SslLifecycle' /\ SslFrame' /\ SslListener' /\ UnsafeOnlyHere'
  BY DEF Reachable, setSelfReference, SelfRefs, sslVars, SslLifecycle, SslFrame, SslListener,
     UnsafeOnlyHere
<1> QED BY <1>1, <1>2, <1>3

\* connect to an address pins the object.
LEMMA connect_Inv ==
    ASSUME SslInv, NEW o \in Obj, NEW on \in OnChoices, connect(o, on), UNCHANGED sslVars
    PROVE  SslInv'
<1> USE DEF SslInv, SslTypeOK, connect
<1>1. SslTypeOK'
  BY BoundAssumption DEF With, setSelfReference, SelfRefs, sslVars, RefCountExact, SelfRef,
     FrameRef, Flags, Callbacks, UvStates
<1>2. RefCountExact' /\ SafeUnlessUnresolved'
  BY DEF setSelfReference, SelfRefs, RefCountExact, SelfRef, FrameRef, InFrame, Reachable, sslVars,
     SafeUnlessUnresolved
<1>3. SslLifecycle' /\ SslFrame' /\ SslListener' /\ UnsafeOnlyHere'
  BY DEF Reachable, setSelfReference, SelfRefs, sslVars, SslLifecycle, SslFrame, SslListener,
     UnsafeOnlyHere
<1> QED BY <1>1, <1>2, <1>3

\* setCallback pins the object, which may be one a failed connect has released.
LEMMA setCallback_Inv ==
    ASSUME SslInv, NEW o \in Obj, NEW S \in CallbackSets, setCallback(o, S), UNCHANGED sslVars
    PROVE  SslInv'
<1> USE DEF SslInv, SslTypeOK, setCallback
<1>1. SslTypeOK'
  BY BoundAssumption DEF setSelfReference, SelfRefs, uvVars, sslVars, RefCountExact, SelfRef,
     FrameRef, Flags, Callbacks
<1>2. RefCountExact'
  BY DEF setSelfReference, SelfRefs, RefCountExact, SelfRef, FrameRef, InFrame
<1>3. SafeUnlessUnresolved' /\ SslLifecycle' /\ SslFrame'
  BY DEF Reachable, setSelfReference, uvVars, sslVars, SafeUnlessUnresolved, SelfRefs,
     SslLifecycle, SslFrame
<1>4. SslListener' /\ UnsafeOnlyHere'
  BY DEF Reachable, setSelfReference, sslVars, SslListener, UnsafeOnlyHere
<1> QED BY <1>1, <1>2, <1>3, <1>4

\* A connection waits on a listening object.
LEMMA connection_cb_Inv ==
    ASSUME SslInv, NEW o \in Obj, NEW ok \in BOOLEAN, connection_cb(o, ok), UNCHANGED sslVars
    PROVE  SslInv'
<1> USE DEF SslInv, SslTypeOK, connection_cb
<1>1. SslTypeOK' /\ RefCountExact'
  BY BoundAssumption, NoneAssumption DEF Deliverable, CallUser, sslVars, RefCountExact, SelfRef,
     FrameRef, InFrame
<1>2. SafeUnlessUnresolved' /\ SslLifecycle' /\ SslFrame'
  BY SslAssumption DEF sslVars, SafeUnlessUnresolved, Deliverable, CallUser, SslLifecycle, SslFrame
<1>3. SslListener' /\ UnsafeOnlyHere'
  BY DEF sslVars, SslListener, UnsafeOnlyHere, Orphan, Late
<1> QED BY <1>1, <1>2, <1>3

\* The error callback runs on an open object.
LEMMA ReadErrorCall_Inv ==
    ASSUME SslInv, NEW o \in Obj, ReadErrorCall(o), UNCHANGED sslVars
    PROVE  SslInv'
<1> USE DEF SslInv, SslTypeOK, ReadErrorCall
<1>1. SslTypeOK' /\ RefCountExact'
  BY BoundAssumption, NoneAssumption DEF Deliverable, CallUser, sslVars, RefCountExact, SelfRef,
     FrameRef, InFrame
<1>2. SafeUnlessUnresolved' /\ SslLifecycle' /\ SslFrame'
  BY SslAssumption DEF sslVars, SafeUnlessUnresolved, Deliverable, CallUser, SslLifecycle, SslFrame
<1>3. SslListener' /\ UnsafeOnlyHere'
  BY DEF sslVars, SslListener, UnsafeOnlyHere, Orphan, Late
<1> QED BY <1>1, <1>2, <1>3

\* An error without a callback closes an open handle.
LEMMA ReadErrorClose_Inv ==
    ASSUME SslInv, NEW o \in Obj, ReadErrorClose(o), UNCHANGED sslVars
    PROVE  SslInv'
<1> USE DEF SslInv, SslTypeOK, ReadErrorClose
<1>1. SslTypeOK'
  BY DEF tcp_close_socket, CloseFlags, UvClose, objVars, sslVars, RefCountExact, Flags, UvStates
<1>2. RefCountExact' /\ SafeUnlessUnresolved'
  BY DEF tcp_close_socket, CloseFlags, objVars, RefCountExact, SelfRef, FrameRef, InFrame, sslVars,
     SafeUnlessUnresolved
<1>3. SslLifecycle' /\ SslFrame'
  BY DEF tcp_close_socket, CloseFlags, UvClose, objVars, sslVars, SslLifecycle, SslFrame
<1>4. SslListener'
  BY DEF sslVars, SslListener
<1>5. UnsafeOnlyHere'
  <2>1. ~crashed'
    BY CloseSocket DEF Deliverable
  <2> QED BY <2>1 DEF UnsafeOnlyHere
<1> QED BY <1>1, <1>2, <1>3, <1>4, <1>5

\* libuv meets only handles of objects never pinned, or released by a failed connect.
LEMMA LibuvTouchesFreed_Inv ==
    ASSUME SslInv, NEW o \in Obj, LibuvTouchesFreed(o), UNCHANGED sslVars
    PROVE  SslInv'
<1> USE DEF SslInv, SslTypeOK, LibuvTouchesFreed
<1>1. SslTypeOK' /\ RefCountExact' /\ SafeUnlessUnresolved' /\ SslLifecycle'
  BY DEF objVars, uvVars, sslVars, RefCountExact, SelfRef, FrameRef, InFrame, SafeUnlessUnresolved,
     SslLifecycle
<1>2. SslFrame' /\ SslListener' /\ UnsafeOnlyHere'
  BY DEF uvVars, sslVars, SslFrame, Orphan, objVars, SslListener, UnsafeOnlyHere,
     SafeUnlessUnresolved
<1> QED BY <1>1, <1>2

\* A refused connect replaces the callback.
LEMMA ConnectRefused_Inv ==
    ASSUME SslInv, NEW o \in Obj, NEW on \in OnChoices, ConnectRefused(o, on)
    PROVE  SslInv'
<1> USE DEF SslInv, SslTypeOK, ConnectRefused
<1>1. SslTypeOK' /\ RefCountExact'
  BY DEF With, objVars, sslVars, Callbacks, UvStates, RefCountExact, SelfRef, FrameRef, InFrame
<1>2. SafeUnlessUnresolved' /\ SslLifecycle' /\ SslFrame' /\ SslListener' /\ UnsafeOnlyHere'
  BY DEF objVars, sslVars, SafeUnlessUnresolved, SslLifecycle, SslFrame, SslListener,
     UnsafeOnlyHere, Orphan, Late
<1> QED BY <1>1, <1>2

\* connect by name pins the object for the resolution.
LEMMA ConnectByName_Inv ==
    ASSUME SslInv, NEW o \in Obj, NEW on \in OnChoices, NEW taken \in BOOLEAN, ConnectByName(o, on, taken)
    PROVE  SslInv'
<1> USE DEF SslInv, SslTypeOK, ConnectByName
<1>1. SslTypeOK'
  BY BoundAssumption, SslAssumption DEF With, LookupRefs, setSelfReference, SelfRefs, uvVars,
     Session, History, RefCountExact, SelfRef, FrameRef, Flags, Callbacks
<1>2. RefCountExact'
  BY DEF LookupRefs, setSelfReference, SelfRefs, RefCountExact, SelfRef, FrameRef, InFrame
<1>3. SafeUnlessUnresolved' /\ SslLifecycle'
  BY DEF Reachable, LookupRefs, setSelfReference, uvVars, History, SafeUnlessUnresolved, SelfRefs,
     SslLifecycle
<1>4. SslFrame' /\ SslListener' /\ UnsafeOnlyHere'
  BY DEF uvVars, Session, History, SslFrame, Reachable, LookupRefs, setSelfReference, SslListener,
     UnsafeOnlyHere
<1> QED BY <1>1, <1>2, <1>3, <1>4

\* The session's contexts name the listening object, which is pinned.
LEMMA SslAccept_Inv ==
    ASSUME SslInv, NEW o \in Obj, NEW c \in Obj, SslAccept(o, c)
    PROVE  SslInv'
<1> USE DEF SslInv, SslTypeOK, SslAccept
<1>1. SslTypeOK'
  BY BoundAssumption DEF accept, SniTarget, History, Flags, UvStates
<1>2. RefCountExact' /\ SafeUnlessUnresolved' /\ SslLifecycle'
  BY DEF accept, RefCountExact, SelfRef, FrameRef, InFrame, SslLifecycle, History,
     SafeUnlessUnresolved
<1>3. SslFrame' /\ SslListener' /\ UnsafeOnlyHere'
  BY DEF accept, SniTarget, History, SslFrame, Reachable, SslListener, UnsafeOnlyHere, SslLifecycle
<1> QED BY <1>1, <1>2, <1>3

\* A misuse that crashes is recorded.
LEMMA SslAcceptFailed_Inv ==
    ASSUME SslInv, NEW o \in Obj, SslAcceptFailed(o)
    PROVE  SslInv'
<1> USE DEF SslInv, SslTypeOK, SslAcceptFailed
<1>1. SslTypeOK' /\ RefCountExact' /\ SafeUnlessUnresolved'
  BY DEF Crash, objVars, uvVars, Session, RefCountExact, SelfRef, FrameRef, InFrame,
     SafeUnlessUnresolved
<1>2. SslLifecycle' /\ SslFrame' /\ SslListener' /\ UnsafeOnlyHere'
  BY DEF Crash, objVars, uvVars, SslLifecycle, Session, SslFrame, SslListener, UnsafeOnlyHere
<1> QED BY <1>1, <1>2

\* Only the callback changes.
LEMMA setSSLHandshakeCallback_Inv ==
    ASSUME SslInv, NEW o \in Obj, setSSLHandshakeCallback(o)
    PROVE  SslInv'
<1> USE DEF SslInv, SslTypeOK, setSSLHandshakeCallback
<1>1. SslTypeOK' /\ RefCountExact' /\ SafeUnlessUnresolved' /\ SslLifecycle' /\ SslFrame'
  BY DEF vars, History, RefCountExact, SelfRef, FrameRef, InFrame, SafeUnlessUnresolved,
     SslLifecycle, SslFrame
<1>2. SslListener' /\ UnsafeOnlyHere'
  BY DEF vars, History, SslListener, UnsafeOnlyHere, Orphan, Late
<1> QED BY <1>1, <1>2

\* A misuse that crashes is recorded.
LEMMA WriteWithoutSession_Inv ==
    ASSUME SslInv, NEW o \in Obj, WriteWithoutSession(o)
    PROVE  SslInv'
<1> USE DEF SslInv, SslTypeOK, WriteWithoutSession
<1>1. SslTypeOK' /\ RefCountExact' /\ SafeUnlessUnresolved'
  BY DEF Crash, objVars, uvVars, Session, RefCountExact, SelfRef, FrameRef, InFrame,
     SafeUnlessUnresolved
<1>2. SslLifecycle' /\ SslFrame' /\ SslListener' /\ UnsafeOnlyHere'
  BY DEF Crash, objVars, uvVars, SslLifecycle, Session, SslFrame, SslListener, UnsafeOnlyHere
<1> QED BY <1>1, <1>2

\* A resolved name: the attempt starts on an open handle.
LEMMA ResolvedConnects_Inv ==
    ASSUME SslInv, NEW o \in Obj, ResolvedConnects(o)
    PROVE  SslInv'
<1> USE DEF SslInv, SslTypeOK, ResolvedConnects
<1>1. SslTypeOK'
  BY SslAssumption DEF ResolverCalls, Answered, objVars, Session, History, UvStates
<1>2. RefCountExact' /\ SafeUnlessUnresolved' /\ SslLifecycle'
  BY DEF objVars, RefCountExact, SelfRef, FrameRef, InFrame, History, SafeUnlessUnresolved,
     Answered, SslLifecycle
<1>3. SslFrame' /\ SslListener' /\ UnsafeOnlyHere'
  BY DEF Session, History, SslFrame, Answered, objVars, SslListener, UnsafeOnlyHere, Orphan, Late
<1> QED BY <1>1, <1>2, <1>3

\* A late answer is one of the listed ways to crash.
LEMMA ResolvedLate_Inv ==
    ASSUME SslInv, NEW o \in Obj, ResolvedLate(o)
    PROVE  SslInv'
<1> USE DEF SslInv, SslTypeOK, ResolvedLate
<1>1. SslTypeOK' /\ RefCountExact' /\ SafeUnlessUnresolved'
  BY DEF Crash, objVars, uvVars, sslVars, RefCountExact, SelfRef, FrameRef, InFrame,
     SafeUnlessUnresolved
<1>2. SslLifecycle' /\ SslFrame' /\ SslListener' /\ UnsafeOnlyHere'
  BY DEF Crash, objVars, uvVars, sslVars, SslLifecycle, SslFrame, Late, SslListener, UnsafeOnlyHere
<1> QED BY <1>1, <1>2

\* The handle of a connect request is not closed.
LEMMA SslConnected_Inv ==
    ASSUME SslInv, NEW o \in Obj, NEW s \in {"socket", "stream"}, SslConnected(o, s)
    PROVE  SslInv'
<1> USE DEF SslInv, SslTypeOK, SslConnected
<1>1. SslTypeOK'
  BY BoundAssumption DEF Deliverable, CallUser, History, RefCountExact, SelfRef, FrameRef, InFrame,
     Flags, UvStates
<1>2. RefCountExact'
  BY NoneAssumption DEF Deliverable, CallUser, RefCountExact, SelfRef, FrameRef, InFrame
<1>3. SafeUnlessUnresolved' /\ SslLifecycle' /\ SslFrame'
  BY SslAssumption DEF History, SslLifecycle, SafeUnlessUnresolved, Deliverable, CallUser, SslFrame
<1>4. SslListener' /\ UnsafeOnlyHere'
  BY DEF History, SslListener, UnsafeOnlyHere, Orphan, Late, SslLifecycle
<1> QED BY <1>1, <1>2, <1>3, <1>4

\* The handshake callback runs on an open session; otherwise the session is closed.
LEMMA ReadHandshake_Inv ==
    ASSUME SslInv, NEW o \in Obj, NEW ok \in BOOLEAN, ReadHandshake(o, ok)
    PROVE  SslInv'
<1> USE DEF SslInv, SslTypeOK, ReadHandshake
<1>1. SslTypeOK'
  BY BoundAssumption DEF Readable, Deliverable, CallUser, tcp_close_socket, CloseFlags, UvClose,
     History, RefCountExact, SelfRef, FrameRef, InFrame, Flags, UvStates
<1>2. RefCountExact'
  BY SslAssumption DEF Readable, Deliverable, CallUser, tcp_close_socket, CloseFlags,
     RefCountExact, SelfRef, FrameRef, InFrame
<1>3. SafeUnlessUnresolved' /\ SslLifecycle'
  BY DEF CallUser, tcp_close_socket, CloseFlags, History, SslLifecycle, SafeUnlessUnresolved,
     Readable, Deliverable, UvClose
<1>4. SslFrame' /\ SslListener'
  BY SslAssumption DEF Readable, Deliverable, CallUser, SslFrame, SslListener
<1>5. UnsafeOnlyHere'
  <2>1. life[o] = "live" /\ ~crashed
    BY DEF Readable, Deliverable
  <2>2. ~crashed'
    BY <2>1, CloseSocket
  <2> QED BY <2>2 DEF UnsafeOnlyHere
<1> QED BY <1>1, <1>2, <1>3, <1>4, <1>5

\* The read callback runs on an open session.
LEMMA SslRead_Inv ==
    ASSUME SslInv, NEW o \in Obj, SslRead(o)
    PROVE  SslInv'
<1> USE DEF SslInv, SslTypeOK, SslRead
<1>1. SslTypeOK'
  BY BoundAssumption DEF Readable, Deliverable, CallUser, uvVars, sslVars, RefCountExact, SelfRef,
     FrameRef, InFrame, Flags
<1>2. RefCountExact'
  BY NoneAssumption DEF Readable, Deliverable, CallUser, RefCountExact, SelfRef, FrameRef, InFrame
<1>3. SafeUnlessUnresolved' /\ SslLifecycle' /\ SslFrame'
  BY SslAssumption DEF uvVars, sslVars, SafeUnlessUnresolved, Readable, Deliverable, CallUser,
     SslLifecycle, SslFrame
<1>4. SslListener' /\ UnsafeOnlyHere'
  BY DEF uvVars, sslVars, SslListener, UnsafeOnlyHere, Orphan, Late
<1> QED BY <1>1, <1>2, <1>3, <1>4

\* A step that changes nothing keeps the invariant.
LEMMA Stutter_Inv == ASSUME SslInv, UNCHANGED allVars PROVE SslInv'
<1> USE DEF SslInv, SslTypeOK, allVars, vars, objVars, uvVars, sslVars
<1>1. SslTypeOK' /\ RefCountExact' /\ SafeUnlessUnresolved'
  BY DEF RefCountExact, SelfRef, FrameRef, InFrame, SafeUnlessUnresolved
<1>2. SslLifecycle' /\ SslFrame' /\ SslListener'
  BY DEF SslLifecycle, SslFrame, SslListener
<1>3. UnsafeOnlyHere'
  BY DEF UnsafeOnlyHere, Orphan, Late
<1> QED BY <1>1, <1>2, <1>3

\* Nothing is constructed yet.
LEMMA SslInit_Inv == ASSUME SslInit PROVE SslInv
<1> USE DEF SslInit, Init
<1>1. SslTypeOK
  BY BoundAssumption, SslAssumption DEF SslTypeOK, UvStates
<1>2. RefCountExact
  <2> SUFFICES ASSUME NEW o \in Obj PROVE rc[o] = held[o] + SelfRef(o) + FrameRef(o)
    BY DEF RefCountExact
  <2> QED BY DEF SelfRef, FrameRef, InFrame
<1>3. SafeUnlessUnresolved /\ SslLifecycle
  BY DEF SafeUnlessUnresolved, SslLifecycle
<1>4. SslFrame /\ SslListener /\ UnsafeOnlyHere
  BY SslAssumption DEF SslFrame, SslListener, UnsafeOnlyHere
<1> QED BY <1>1, <1>2, <1>3, <1>4 DEF SslInv

\* What UVSSL inherits keeps the invariant of UVSSL.
LEMMA Inherited_Inv == ASSUME SslInv, NEW o \in Obj, Inherited(o) PROVE SslInv'
<1>1. UNCHANGED sslVars
  BY DEF Inherited
<1>2. CASE Construct(o) \/ Share(o) \/ Drop(o) \/ close(o)
  BY <1>1, <1>2, Construct_Inv, Share_Inv, Drop_Inv, close_Inv
<1>3. CASE \E on \in OnChoices : listen(o, on) \/ connect(o, on)
  BY <1>1, <1>3, listen_Inv, connect_Inv
<1>4. CASE \E S \in CallbackSets : setCallback(o, S)
  BY <1>1, <1>4, setCallback_Inv
<1>5. CASE \E ok \in BOOLEAN : connection_cb(o, ok)
  BY <1>1, <1>5, connection_cb_Inv
<1>6. CASE ReadErrorCall(o) \/ ReadErrorClose(o) \/ tcp_close_cb(o) \/ LibuvTouchesFreed(o)
  BY <1>1, <1>6, ReadErrorCall_Inv, ReadErrorClose_Inv, tcp_close_cb_Inv, LibuvTouchesFreed_Inv
<1> QED BY <1>2, <1>3, <1>4, <1>5, <1>6 DEF Inherited

\* So does everything UVSSL replaces or adds,
LEMMA SslStep_Inv == ASSUME SslInv, NEW o \in Obj, SslStep(o) PROVE SslInv'
<1>1. CASE \E on \in OnChoices :
             ConnectRefused(o, on) \/ \E taken \in BOOLEAN : ConnectByName(o, on, taken)
  BY <1>1, ConnectRefused_Inv, ConnectByName_Inv
<1>2. CASE \E c \in Obj : SslAccept(o, c)
  BY <1>2, SslAccept_Inv
<1>3. CASE SslAcceptFailed(o) \/ setSSLHandshakeCallback(o) \/ WriteWithoutSession(o)
  BY <1>3, SslAcceptFailed_Inv, setSSLHandshakeCallback_Inv, WriteWithoutSession_Inv
<1>4. CASE ResolvedConnects(o) \/ ResolvedFails(o) \/ ResolvedLate(o)
  BY <1>4, ResolvedConnects_Inv, ResolvedFails_Inv, ResolvedLate_Inv
<1>5. CASE \E s \in {"socket", "stream"} : SslConnected(o, s)
  BY <1>5, SslConnected_Inv
<1>6. CASE \E called \in BOOLEAN : ReadHello(o, called)
  BY <1>6, ReadHello_Inv
<1>7. CASE \E ok \in BOOLEAN : ReadHandshake(o, ok)
  BY <1>7, ReadHandshake_Inv
<1>8. CASE SslRead(o)
  BY <1>8, SslRead_Inv
<1> QED BY <1>1, <1>2, <1>3, <1>4, <1>5, <1>6, <1>7, <1>8 DEF SslStep

\* and every step of the system.
LEMMA SslNext_Inv == ASSUME SslInv, [SslNext]_allVars PROVE SslInv'
<1>1. CASE SslReturn
  BY <1>1, ReturnTcp_Inv, ReturnHandshake_Inv, ReturnResolved_Inv, ReturnServername_Inv
  DEF SslReturn
<1>2. CASE \E o \in Obj : Inherited(o) \/ SslStep(o)
  BY <1>2, Inherited_Inv, SslStep_Inv
<1>3. CASE UNCHANGED allVars
  BY <1>3, Stutter_Inv
<1> QED BY <1>1, <1>2, <1>3 DEF SslNext

-----------------------------------------------------------------------------
(* The theorems *)

\* The inductive invariant holds in every reachable state of UVSSL's objects.
THEOREM SslInvariance == SslSpec => []SslInv
<1>1. SslInit => SslInv
  BY SslInit_Inv
<1>2. SslInv /\ [SslNext]_allVars => SslInv'
  BY SslNext_Inv
<1> QED BY <1>1, <1>2, PTL DEF SslSpec

\* The variables keep their types and the reference counts balance: also the
\* reference that a resolution takes and that on_addrinfo_resolved gives back.
THEOREM SslConsistency == SslSpec => [](SslTypeOK /\ RefCountExact)
<1>1. SslInv => SslTypeOK /\ RefCountExact
  BY DEF SslInv
<1> QED BY <1>1, SslInvariance, PTL

\* An object that refers to itself lives until its handle is closed, unless a
\* failed connect by name has released it (releaseHandle in
\* on_addrinfo_resolved).
THEOREM SslSafety == SslSpec => []SafeUnlessUnresolved
<1>1. SslInv => SafeUnlessUnresolved
  BY DEF SslInv
<1> QED BY <1>1, SslInvariance, PTL

\* Only close or an earlier failed answer can take the object from under a
\* resolution: dropping every reference in the script does not.
THEOREM ResolutionKeepsObject == SslSpec => []LookupFindsObject
<1>1. SslInv => LookupFindsObject
  BY DEF SslInv, SslLifecycle, SafeUnlessUnresolved, LookupFindsObject
<1> QED BY <1>1, SslInvariance, PTL

\* sni_cb follows its argument to a dead listening object only if that one was
\* closed, or released by a failed connect.
THEOREM ListenerOutlivesHello == SslSpec => []HelloFindsListener
<1>1. SslInv => HelloFindsListener
  <2> SUFFICES ASSUME SslInv, NEW o \in Obj, ssl[o] = "hello", life[listener[o]] = "dead"
               PROVE  uv[listener[o]] = "closed" \/ listener[o] \in unresolved
    BY DEF HelloFindsListener
  <2>1. listener[o] \in Obj /\ pinned[listener[o]]
    BY DEF SslInv, SslListener
  <2> QED BY <2>1 DEF SslInv, SafeUnlessUnresolved
<1> QED BY <1>1, SslInvariance, PTL

\* The list of ways in which UVSSL's objects are used after their memory is
\* freed is complete.
THEOREM SslUnsafeExplained == SslSpec => []UnsafeOnlyHere
<1>1. SslInv => UnsafeOnlyHere
  BY DEF SslInv
<1> QED BY <1>1, SslInvariance, PTL
=============================================================================
