-------------------------- MODULE UVResolverProofs --------------------------
(***************************************************************************)
(* Theorems about UVResolver, for any resolvers and any finite number of   *)
(* calls: IInv is inductive, one lemma for each action.  The references of *)
(* a resolver are counted against the set of its requests in flight, so    *)
(* each lemma says first what its action does to that set.                 *)
(***************************************************************************)
EXTENDS UVResolver, FiniteSetTheorems, TLAPS

-----------------------------------------------------------------------------
(* Requests in flight *)

\* There are finitely many, no more than calls.
LEMMA InFlightFinite ==
    ASSUME NEW o
    PROVE  /\ IsFiniteSet(InFlight(o)) /\ Cardinality(InFlight(o)) \in Nat
           /\ Cardinality(InFlight(o)) <= Cardinality(Req) /\ Cardinality(Req) \in Nat
<1>1. InFlight(o) \in SUBSET Req
  BY DEF InFlight
<1> QED BY <1>1, BoundAssumption, FS_Subset, FS_CardinalityType

\* A resolver with a request in flight has a request counted.
LEMMA InFlightCounted ==
    ASSUME NEW o, NEW r \in Req, owner[r] = o, state[r] \in {"pending", "running"}
    PROVE  Cardinality(InFlight(o)) > 0
<1>1. r \in InFlight(o)
  BY DEF InFlight
<1> QED BY <1>1, InFlightFinite, FS_EmptySet

\* Steps that leave owners and states alone leave the sets alone.
LEMMA InFlightSame ==
    ASSUME NEW o, UNCHANGED <<owner, state>> PROVE InFlight(o)' = InFlight(o)
BY DEF InFlight

-----------------------------------------------------------------------------
(* IInv is inductive *)

\* At the start of a request there is no resolver and no call.
LEMMA Init_Inv == ASSUME Init PROVE IInv
<1> USE DEF Init
<1>1. TypeOK
  <2>1. MaxRefs \in Nat /\ Cardinality(Req) \in Nat
    BY BoundAssumption, FS_CardinalityType
  <2>2. 0 \in 0..MaxRefs + Cardinality(Req) /\ 0 \in 0..MaxRefs
    BY <2>1
  <2>3. rc \in [Obj -> 0..MaxRefs + Cardinality(Req)] /\ held \in [Obj -> 0..MaxRefs]
    BY <2>2
  <2> QED BY <2>3 DEF TypeOK, Kinds
<1>2. RefCountExact
  <2>1. \A o \in Obj : InFlight(o) = {}
    BY DEF InFlight
  <2> QED BY <1>1, <2>1, FS_EmptySet DEF RefCountExact
<1>3. ResolverOutlivesRequests /\ MisdeliveredOnlyWhenOvertaken /\ Lifecycle
  BY NoneAssumption DEF ResolverOutlivesRequests, MisdeliveredOnlyWhenOvertaken, Lifecycle
<1> QED BY <1>2, <1>3 DEF IInv

\* A new resolver has one reference, the script's, and no request.
LEMMA Construct_Inv == ASSUME IInv, NEW o \in Obj, Construct(o) PROVE IInv'
<1> USE DEF IInv, RefCountExact, TypeOK, Construct, reqVars
<1>1. rc[o] = 0 /\ held[o] = 0 /\ Cardinality(InFlight(o)) = 0
  <2>1. rc[o] = held[o] + Cardinality(InFlight(o)) /\ rc[o] = 0
    BY DEF Lifecycle
  <2> QED BY <2>1, InFlightFinite
<1>2. TypeOK'
  BY BoundAssumption, InFlightFinite
<1>3. RefCountExact'
  BY <1>1, <1>2, InFlightSame
<1>4. ResolverOutlivesRequests' /\ MisdeliveredOnlyWhenOvertaken' /\ Lifecycle'
  BY <1>1 DEF ResolverOutlivesRequests, MisdeliveredOnlyWhenOvertaken, Lifecycle, CallbackOf
<1> QED BY <1>3, <1>4

\* A copied reference is counted.
LEMMA Share_Inv == ASSUME IInv, NEW o \in Obj, Share(o) PROVE IInv'
<1> USE DEF IInv, RefCountExact, TypeOK, Share, reqVars
<1>1. rc[o] + 1 \in 0..MaxRefs + Cardinality(Req) /\ rc[o] > 0
  <2>1. rc[o] = held[o] + Cardinality(InFlight(o)) /\ held[o] + 1 <= MaxRefs
    BY BoundAssumption
  <2>2. rc[o] > 0
    BY DEF Reachable, Lifecycle
  <2> QED BY <2>1, <2>2, BoundAssumption, InFlightFinite
<1>2. TypeOK'
  BY <1>1, BoundAssumption
<1>3. RefCountExact'
  <2>1. ASSUME NEW p \in Obj PROVE rc'[p] = held'[p] + Cardinality(InFlight(p)')
    <3>1. InFlight(p)' = InFlight(p)
      BY InFlightSame
    <3>2. rc[p] = held[p] + Cardinality(InFlight(p)) /\ Cardinality(InFlight(p)) \in Nat
      BY InFlightFinite
    <3>3. CASE p = o BY <3>1, <3>2, <3>3
    <3>4. CASE p # o BY <3>1, <3>2, <3>4
    <3> QED BY <3>3, <3>4
  <2> QED BY <1>2, <2>1
<1>4. ResolverOutlivesRequests' /\ MisdeliveredOnlyWhenOvertaken' /\ Lifecycle'
  BY <1>1 DEF ResolverOutlivesRequests, MisdeliveredOnlyWhenOvertaken, Lifecycle, CallbackOf, Reachable
<1> QED BY <1>3, <1>4

\* The script's last reference is the resolver's last only when nothing is in flight.
LEMMA Drop_Inv == ASSUME IInv, NEW o \in Obj, Drop(o) PROVE IInv'
<1> USE DEF IInv, RefCountExact, TypeOK, Drop, reqVars, decRefAndRelease
<1>1. rc[o] = held[o] + Cardinality(InFlight(o)) /\ held[o] > 0 /\ Cardinality(InFlight(o)) \in Nat
  BY InFlightFinite DEF Reachable
<1>2. rc[o] - 1 \in 0..MaxRefs + Cardinality(Req) /\ held[o] - 1 \in 0..MaxRefs
  BY <1>1, BoundAssumption, InFlightFinite
<1>3. TypeOK'
  BY <1>2, BoundAssumption
<1>4. RefCountExact'
  BY <1>1, <1>3, InFlightSame, InFlightFinite
<1>5. ResolverOutlivesRequests'
  <2>1. ASSUME NEW r \in Req, state[r] \in {"pending", "running"} PROVE life'[owner[r]] = "live"
    <3>1. CASE owner[r] = o
      <4>1. rc[o] > 1
        BY <1>1, <2>1, <3>1, InFlightCounted
      <4> QED BY <2>1, <3>1, <4>1 DEF ResolverOutlivesRequests
    <3>2. CASE owner[r] # o
      BY <2>1, <3>2 DEF ResolverOutlivesRequests, Lifecycle
    <3> QED BY <3>1, <3>2
  <2> QED BY <2>1 DEF ResolverOutlivesRequests
<1>6. MisdeliveredOnlyWhenOvertaken' /\ Lifecycle'
  BY <1>1, <1>2 DEF MisdeliveredOnlyWhenOvertaken, Lifecycle, CallbackOf, Reachable
<1> QED BY <1>4, <1>5, <1>6

\* A call of getaddrinfo or getnameinfo adds a request in flight and a
\* reference, or neither; a pending call of its kind is overtaken.
LEMMA resolve_InFlight ==
    ASSUME IInv, NEW o \in Obj, NEW r \in Req, NEW k \in Kinds, NEW accepted \in BOOLEAN,
           resolve(o, r, k, accepted)
    PROVE  /\ InFlight(o)' = IF accepted THEN InFlight(o) \cup {r} ELSE InFlight(o)
           /\ r \notin InFlight(o)
           /\ \A p \in Obj : p # o => InFlight(p)' = InFlight(p)
BY DEF IInv, RefCountExact, TypeOK, resolve, InFlight

LEMMA resolve_Inv ==
    ASSUME IInv, NEW o \in Obj, NEW r \in Req, NEW k \in Kinds, NEW accepted \in BOOLEAN,
           resolve(o, r, k, accepted)
    PROVE  IInv'
<1> USE DEF IInv, RefCountExact, TypeOK
<1>1. /\ Reachable(o) /\ state[r] = "unmade"
      /\ slot' = [slot EXCEPT ![o][k] = r] /\ kind' = [kind EXCEPT ![r] = k]
      /\ owner' = [owner EXCEPT ![r] = o]
      /\ state' = [state EXCEPT ![r] = IF accepted THEN "pending" ELSE "refused"]
      /\ rc' = [rc EXCEPT ![o] = IF accepted THEN @ + 1 ELSE @]
      /\ UNCHANGED <<life, held, got, frame, crashed>>
  BY DEF resolve, RefsAfter, RequestRefs
<1>2. \A q \in Req : overtakers'[q] =
          IF state[q] = "pending" /\ owner[q] = o /\ kind[q] = k
          THEN overtakers[q] \cup {r} ELSE overtakers[q]
  BY DEF resolve
<1>3. rc'[o] = held[o] + Cardinality(InFlight(o)')
  <2>1. /\ InFlight(o)' = IF accepted THEN InFlight(o) \cup {r} ELSE InFlight(o)
        /\ r \notin InFlight(o)
    BY resolve_InFlight
  <2>2. rc[o] = held[o] + Cardinality(InFlight(o)) /\ Cardinality(InFlight(o)) \in Nat
    BY InFlightFinite
  <2>3. Cardinality(InFlight(o) \cup {r}) = Cardinality(InFlight(o)) + 1
    BY <2>1, InFlightFinite, FS_AddElement
  <2> QED BY <1>1, <2>1, <2>2, <2>3
<1>4. IsFiniteSet(InFlight(o)') /\ Cardinality(InFlight(o)') \in 0..Cardinality(Req)
  <2>1. InFlight(o)' \in SUBSET Req BY DEF InFlight
  <2> QED BY <2>1, BoundAssumption, FS_Subset, FS_CardinalityType
<1>5. TypeOK'
  <2>1. rc'[o] \in 0..MaxRefs + Cardinality(Req)
    BY <1>3, <1>4, InFlightFinite, BoundAssumption
  <2>2. rc' \in [Obj -> 0..MaxRefs + Cardinality(Req)]
    BY <1>1, <2>1
  <2>3. overtakers' \in [Req -> SUBSET Req]
    BY <1>2 DEF resolve
  <2>4. slot' \in [Obj -> [Kinds -> Req \cup {None}]]
    BY <1>1
  <2> QED BY <1>1, <2>2, <2>3, <2>4
<1>6. RefCountExact'
  <2>1. ASSUME NEW p \in Obj, p # o PROVE rc'[p] = held'[p] + Cardinality(InFlight(p)')
    BY <1>1, <2>1, resolve_InFlight
  <2> QED BY <1>1, <1>3, <1>5, <2>1
<1>7. ResolverOutlivesRequests'
  BY <1>1 DEF ResolverOutlivesRequests, Reachable
<1>8. MisdeliveredOnlyWhenOvertaken'
  BY <1>1, <1>2 DEF MisdeliveredOnlyWhenOvertaken
<1>9. Lifecycle'
  <2>1. \A p \in Obj : life'[p] = "live" <=> rc'[p] > 0
    BY <1>1 DEF Lifecycle, Reachable
  <2>2. ASSUME NEW q \in Req
        PROVE /\ state'[q] = "running" <=> frame' = q
              /\ state'[q] \in {"pending", "running"} => owner'[q] \in Obj
              /\ got'[q] # None => state'[q] \in {"running", "done"}
    BY <1>1 DEF Lifecycle
  <2>3. ASSUME NEW q \in Req, state'[q] = "pending" PROVE CallbackOf(q)' \in {q} \cup overtakers'[q]
    <3>1. CASE q = r
      BY <1>1, <3>1 DEF CallbackOf
    <3>2. CASE q # r
      <4>1. /\ state[q] = "pending" /\ owner'[q] = owner[q] /\ kind'[q] = kind[q] /\ owner[q] \in Obj
            /\ CallbackOf(q) \in {q} \cup overtakers[q]
        BY <1>1, <2>3, <3>2 DEF Lifecycle
      <4>2. CASE owner[q] = o /\ kind[q] = k
        BY <1>1, <1>2, <4>1, <4>2 DEF CallbackOf
      <4>3. CASE ~(owner[q] = o /\ kind[q] = k)
        <5>1. slot'[owner[q]][kind[q]] = slot[owner[q]][kind[q]]
          BY <1>1, <4>1, <4>3
        <5> QED BY <1>2, <4>1, <4>3, <5>1 DEF CallbackOf
      <4> QED BY <4>2, <4>3
    <3> QED BY <3>1, <3>2
  <2> QED BY <2>1, <2>2, <2>3 DEF Lifecycle
<1> QED BY <1>6, <1>7, <1>8, <1>9

\* An answer finds its resolver alive; the request stays in flight while its
\* callback runs.
LEMMA on_resolved_Inv ==
    ASSUME IInv, NEW r \in Req, on_resolved(r) PROVE IInv'
<1> USE DEF IInv, RefCountExact, TypeOK
<1>1. /\ state[r] = "pending" /\ frame = None /\ frame' = r
      /\ state' = [state EXCEPT ![r] = "running"] /\ got' = [got EXCEPT ![r] = CallbackOf(r)]
      /\ UNCHANGED <<life, rc, held, slot, kind, owner, overtakers, crashed>>
  BY DEF on_resolved, ResolverOutlivesRequests
<1>2. CallbackOf(r) \in {r} \cup overtakers[r] /\ owner[r] \in Obj
  BY <1>1 DEF Lifecycle
<1>3. TypeOK'
  BY <1>1, <1>2
<1>4. RefCountExact'
  <2>1. ASSUME NEW p \in Obj PROVE InFlight(p)' = InFlight(p)
    BY <1>1 DEF InFlight
  <2> QED BY <1>1, <1>3, <2>1
<1>5. ResolverOutlivesRequests' /\ MisdeliveredOnlyWhenOvertaken'
  BY <1>1, <1>2 DEF ResolverOutlivesRequests, MisdeliveredOnlyWhenOvertaken
<1>6. Lifecycle'
  BY <1>1, NoneAssumption DEF Lifecycle, CallbackOf
<1> QED BY <1>4, <1>5, <1>6

\* RELEASE_INFO gives back the reference of the request that is done; it is
\* the last one only when nothing else is in flight.
LEMMA Return_Inv == ASSUME IInv, Return PROVE IInv'
<1> USE DEF IInv, RefCountExact, TypeOK
<1>1. PICK r \in Req : r = frame
  BY DEF Return
<1>2. state[r] = "running" /\ owner[r] \in Obj
  BY <1>1 DEF Lifecycle
<1>3. PICK w \in Obj : w = owner[r]
  BY <1>2
<1>4. /\ frame' = None /\ state' = [state EXCEPT ![r] = "done"]
      /\ rc' = [rc EXCEPT ![w] = @ - 1]
      /\ life' = [life EXCEPT ![w] = IF rc[w] = 1 THEN "dead" ELSE @]
      /\ UNCHANGED <<held, slot, kind, owner, got, overtakers, crashed>>
  BY <1>1, <1>3 DEF Return, Released, RequestRefs, decRefAndRelease
<1>5. /\ InFlight(w)' = InFlight(w) \ {r} /\ r \in InFlight(w)
      /\ \A p \in Obj : p # w => InFlight(p)' = InFlight(p)
  BY <1>2, <1>4, <1>3 DEF InFlight
<1>6. Cardinality(InFlight(w)') = Cardinality(InFlight(w)) - 1 /\ Cardinality(InFlight(w)) > 0
  <2>1. Cardinality(InFlight(w) \ {r}) = Cardinality(InFlight(w)) - 1
    BY <1>5, InFlightFinite, FS_RemoveElement
  <2>2. Cardinality(InFlight(w)) > 0
    BY <1>2, <1>3, InFlightCounted
  <2> QED BY <1>5, <2>1, <2>2
<1>7. rc[w] = held[w] + Cardinality(InFlight(w)) /\ rc[w] > 0
  BY <1>6, <1>3, InFlightFinite
<1>8. TypeOK'
  <2>1. rc[w] - 1 \in 0..MaxRefs + Cardinality(Req)
    BY <1>3, <1>7, BoundAssumption, InFlightFinite
  <2>2. rc' \in [Obj -> 0..MaxRefs + Cardinality(Req)]
    BY <1>4, <1>3, <2>1
  <2> QED BY <1>4, <2>2
<1>9. RefCountExact'
  <2>1. rc'[w] = held'[w] + Cardinality(InFlight(w)')
    BY <1>4, <1>6, <1>3, <1>7, InFlightFinite
  <2>2. ASSUME NEW p \in Obj, p # w PROVE rc'[p] = held'[p] + Cardinality(InFlight(p)')
    BY <1>4, <1>5, <2>2
  <2> QED BY <1>8, <2>1, <2>2
<1>10. ResolverOutlivesRequests'
  <2>1. ASSUME NEW q \in Req, q # r, state[q] \in {"pending", "running"} PROVE life'[owner[q]] = "live"
    <3>1. CASE owner[q] = w
      <4>1. q \in InFlight(w) \ {r}
        BY <2>1, <3>1 DEF InFlight
      <4>2. /\ Cardinality(InFlight(w) \ {r}) \in Nat
            /\ Cardinality(InFlight(w) \ {r}) # 0
        <5>1. IsFiniteSet(InFlight(w) \ {r})
          BY InFlightFinite, FS_RemoveElement
        <5> HIDE DEF IInv, RefCountExact, TypeOK
        <5> QED BY <4>1, <5>1, FS_EmptySet, FS_CardinalityType
      <4>3. Cardinality(InFlight(w)') > 0
        BY <1>5, <4>2
      <4>4. rc[w] > 1
        BY <1>6, <1>3, <1>7, <4>2, <4>3, InFlightFinite
      <4> QED BY <1>4, <1>3, <2>1, <3>1, <4>4 DEF ResolverOutlivesRequests
    <3>2. CASE owner[q] # w
      BY <1>4, <2>1, <3>2 DEF ResolverOutlivesRequests, Lifecycle
    <3> QED BY <3>1, <3>2
  <2> QED BY <1>4, <2>1 DEF ResolverOutlivesRequests
<1>11. MisdeliveredOnlyWhenOvertaken'
  BY <1>4 DEF MisdeliveredOnlyWhenOvertaken
<1>12. Lifecycle'
  <2>1. \A p \in Obj : life'[p] = "live" <=> rc'[p] > 0
    BY <1>4, <1>3, <1>7 DEF Lifecycle
  <2> QED BY <1>1, <1>2, <1>4, <1>3, <2>1, NoneAssumption DEF Lifecycle, CallbackOf
<1> QED BY <1>9, <1>10, <1>11, <1>12

\* A step that changes nothing.
LEMMA Stutter_Inv == ASSUME IInv, UNCHANGED vars PROVE IInv'
BY InFlightSame DEF IInv, RefCountExact, TypeOK, ResolverOutlivesRequests,
   MisdeliveredOnlyWhenOvertaken, Lifecycle, CallbackOf, vars

\* Every step is one of those above.
LEMMA Step_Inv == ASSUME IInv, [Next]_vars PROVE IInv'
BY Construct_Inv, Share_Inv, Drop_Inv, resolve_Inv, on_resolved_Inv, Return_Inv, Stutter_Inv DEF Next

\* IInv holds in every state of UVResolver.
THEOREM Invariance == Spec => []IInv
<1>1. Init => IInv BY Init_Inv
<1>2. IInv /\ [Next]_vars => IInv' BY Step_Inv
<1> QED BY <1>1, <1>2, PTL DEF Spec

-----------------------------------------------------------------------------
(* What follows *)

\* References balance over calls, refusals and answers in any order.
THEOREM CountsExact == Spec => []RefCountExact
<1>1. IInv => RefCountExact BY DEF IInv
<1> QED BY <1>1, Invariance, PTL

\* No answer finds its resolver freed, whatever the script has dropped.
THEOREM Outlives == Spec => []ResolverOutlivesRequests
<1>1. IInv => ResolverOutlivesRequests BY DEF IInv
<1> QED BY <1>1, Invariance, PTL

\* An answer goes astray only to a later call of the same kind.
THEOREM Overtaken == Spec => []MisdeliveredOnlyWhenOvertaken
<1>1. IInv => MisdeliveredOnlyWhenOvertaken BY DEF IInv
<1> QED BY <1>1, Invariance, PTL

\* The callback of a call is given one answer.
THEOREM OneAnswer == Spec => AnsweredOnce
<1> DEFINE Once == \A r \in Req : got[r] # None =>
                       got'[r] = got[r] /\ state'[r] \in {"running", "done"}
<1>1. ASSUME IInv, [Next]_vars PROVE [Once]_vars
  <2> SUFFICES ASSUME Next, NEW r \in Req, got[r] # None
               PROVE got'[r] = got[r] /\ state'[r] \in {"running", "done"}
    BY <1>1
  <2> USE DEF IInv, RefCountExact, TypeOK
  <2>1. state[r] \in {"running", "done"}
    BY <1>1 DEF Lifecycle
  <2>2. CASE Return
    BY <1>1, <2>1, <2>2 DEF Return, Released
  <2>3. CASE \E o \in Obj : Construct(o) \/ Share(o) \/ Drop(o)
    BY <2>1, <2>3 DEF Construct, Share, Drop, reqVars
  <2>4. CASE \E o \in Obj, q \in Req, k \in Kinds, accepted \in BOOLEAN : resolve(o, q, k, accepted)
    BY <1>1, <2>1, <2>4 DEF resolve
  <2>5. CASE \E q \in Req : on_resolved(q)
    BY <1>1, <2>1, <2>5 DEF on_resolved
  <2> QED BY <2>2, <2>3, <2>4, <2>5 DEF Next
<1>2. IInv /\ [Next]_vars => [Once]_vars BY <1>1
<1> QED BY <1>2, Invariance, PTL DEF Spec, AnsweredOnce
=============================================================================
