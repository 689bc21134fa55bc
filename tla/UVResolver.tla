----------------------------- MODULE UVResolver -----------------------------
(***************************************************************************)
(* UVResolver objects (src/src/uv_resolver.cpp) and the requests they      *)
(* start.  Every getaddrinfo or getnameinfo call allocates a request that  *)
(* holds a reference to the resolver until it is answered; but the user    *)
(* callback is kept in the resolver, one slot for each of the two calls,   *)
(* and read from there when libuv's worker has the answer.                 *)
(***************************************************************************)
EXTENDS Naturals, FiniteSets

CONSTANTS
    Obj,        \* the resolver objects
    Req,        \* the calls a script may make, each with a callback of its own
    None,
    MaxRefs     \* bound: references the script keeps to one resolver

Kinds == {"addrinfo", "nameinfo"}

ASSUME NoneAssumption  == None \notin Req
ASSUME BoundAssumption == MaxRefs \in Nat \ {0} /\ IsFiniteSet(Req)

VARIABLES
    life,       \* unborn, live, dead
    rc, held,   \* the reference count, and the part of it the script holds
    slot,       \* addrinfoCallback and nameinfoCallback: the call that set them
    state,      \* of a call: unmade, pending, running its callback, done, refused
    kind,       \* what it asks for
    owner,      \* its resolver_object_data
    got,        \* the call whose callback was given its answer
    overtakers, \* history: calls of its kind made on its resolver while it was pending
    frame,      \* the request whose callback is running
    crashed     \* a request was answered on a freed resolver

reqVars == <<state, kind, owner, got, overtakers>>
vars    == <<life, rc, held, slot, state, kind, owner, got, overtakers, frame, crashed>>

Reachable(o) == ~crashed /\ life[o] = "live" /\ held[o] > 0

InFlight(o) == {r \in Req : owner[r] = o /\ state[r] \in {"pending", "running"}}

\* Faulty variants of the definitions below.  The specification does not use
\* them; each makes one of the properties at the end of this module fail.
RequestRefs_None == 0
RefsAfter_Unbalanced(o, accepted) == IF accepted THEN rc[o] + 1 ELSE rc[o] - 1
CallbackOf_WrongSlot(r) == slot[owner[r]]["addrinfo"]
Released_Again(r) == "pending"

\* A request holds one reference to its resolver.
RequestRefs == 1

\* RELEASE_INFO, and any other reference that goes.
decRefAndRelease(o, n) ==
    /\ rc' = [rc EXCEPT ![o] = @ - n]
    /\ life' = [life EXCEPT ![o] = IF rc[o] = n THEN "dead" ELSE @]

-----------------------------------------------------------------------------
Construct(o) ==
    /\ ~crashed /\ life[o] = "unborn"
    /\ life' = [life EXCEPT ![o] = "live"]
    /\ rc' = [rc EXCEPT ![o] = 1]
    /\ held' = [held EXCEPT ![o] = 1]
    /\ UNCHANGED <<slot, reqVars, frame, crashed>>

Share(o) ==
    /\ Reachable(o) /\ held[o] < MaxRefs
    /\ held' = [held EXCEPT ![o] = @ + 1]
    /\ rc' = [rc EXCEPT ![o] = @ + 1]
    /\ UNCHANGED <<life, slot, reqVars, frame, crashed>>

Drop(o) ==
    /\ Reachable(o)
    /\ held' = [held EXCEPT ![o] = @ - 1]
    /\ decRefAndRelease(o, 1)
    /\ UNCHANGED <<slot, reqVars, frame, crashed>>

RefsAfter(o, accepted) == IF accepted THEN rc[o] + RequestRefs ELSE rc[o]

\* getaddrinfo and getnameinfo: the slot is overwritten whatever request may
\* still be in flight, and before libuv has accepted the new one; when libuv
\* refuses it, RELEASE_INFO drops the reference again.
resolve(o, r, k, accepted) ==
    /\ Reachable(o) /\ state[r] = "unmade"
    /\ slot' = [slot EXCEPT ![o][k] = r]
    /\ kind' = [kind EXCEPT ![r] = k]
    /\ owner' = [owner EXCEPT ![r] = o]
    /\ state' = [state EXCEPT ![r] = IF accepted THEN "pending" ELSE "refused"]
    /\ rc' = [rc EXCEPT ![o] = RefsAfter(o, accepted)]
    /\ overtakers' = [q \in Req |->
          IF state[q] = "pending" /\ owner[q] = o /\ kind[q] = k
          THEN overtakers[q] \cup {r} ELSE overtakers[q]]
    /\ UNCHANGED <<life, held, got, frame, crashed>>

\* on_addrinfo_resolved, on_nameinfo_resolved: the workers answer in any
\* order, the callback is the one in the slot now.
CallbackOf(r) == slot[owner[r]][kind[r]]
on_resolved(r) ==
    /\ ~crashed /\ frame = None /\ state[r] = "pending"
    /\ IF life[owner[r]] = "live"
       THEN /\ state' = [state EXCEPT ![r] = "running"]
            /\ got' = [got EXCEPT ![r] = CallbackOf(r)]
            /\ frame' = r
            /\ UNCHANGED crashed
       ELSE crashed' = TRUE /\ UNCHANGED <<state, got, frame>>
    /\ UNCHANGED <<life, rc, held, slot, kind, owner, overtakers>>

\* The callback returns; RELEASE_INFO drops the reference and frees the request.
Released(r) == "done"
Return ==
    /\ ~crashed /\ frame # None
    /\ state' = [state EXCEPT ![frame] = Released(frame)]
    /\ decRefAndRelease(owner[frame], RequestRefs)
    /\ frame' = None
    /\ UNCHANGED <<held, slot, kind, owner, got, overtakers, crashed>>

-----------------------------------------------------------------------------
Init ==
    /\ life = [o \in Obj |-> "unborn"]
    /\ rc = [o \in Obj |-> 0]
    /\ held = [o \in Obj |-> 0]
    /\ slot = [o \in Obj |-> [k \in Kinds |-> None]]
    /\ state = [r \in Req |-> "unmade"]
    /\ kind = [r \in Req |-> "addrinfo"]
    /\ owner = [r \in Req |-> None]
    /\ got = [r \in Req |-> None]
    /\ overtakers = [r \in Req |-> {}]
    /\ frame = None
    /\ crashed = FALSE

Next ==
    \/ Return
    \/ \E o \in Obj : Construct(o) \/ Share(o) \/ Drop(o)
    \/ \E o \in Obj, r \in Req, k \in Kinds, accepted \in BOOLEAN : resolve(o, r, k, accepted)
    \/ \E r \in Req : on_resolved(r)

Spec == Init /\ [][Next]_vars

\* The thread pool answers every request; callbacks return and the script
\* keeps running the loop.
FairSpec == Spec /\ WF_vars(Return) /\ \A r \in Req : SF_vars(on_resolved(r))

-----------------------------------------------------------------------------
(* Properties *)

\* The values every variable may take.
TypeOK ==
    /\ life \in [Obj -> {"unborn", "live", "dead"}]
    /\ rc \in [Obj -> 0..MaxRefs + Cardinality(Req)]
    /\ held \in [Obj -> 0..MaxRefs]
    /\ slot \in [Obj -> [Kinds -> Req \cup {None}]]
    /\ state \in [Req -> {"unmade", "pending", "running", "done", "refused"}]
    /\ kind \in [Req -> Kinds]
    /\ owner \in [Req -> Obj \cup {None}]
    /\ got \in [Req -> Req \cup {None}]
    /\ overtakers \in [Req -> SUBSET Req]
    /\ frame \in Req \cup {None}
    /\ crashed \in BOOLEAN

\* A resolver counts the script's references and one for every request that
\* is in flight: refused calls and answered requests leave none behind.  With
\* it, the types.
RefCountExact ==
    /\ TypeOK
    /\ \A o \in Obj : rc[o] = held[o] + Cardinality(InFlight(o))

\* The script may forget a resolver at once: it lives until its last request
\* is answered, and no answer finds it freed.
ResolverOutlivesRequests ==
    /\ ~crashed
    /\ \A r \in Req : state[r] \in {"pending", "running"} => life[owner[r]] = "live"

\* An answer reaches the callback that was passed with the call, unless the
\* script made another call of the same kind on the same resolver before the
\* answer came, be it one that was refused.
MisdeliveredOnlyWhenOvertaken ==
    \A r \in Req : got[r] \in {None, r} \cup overtakers[r]

\* What these rest on: a resolver lives as long as it has references, the slot
\* of a pending request was set by it or by a call that has overtaken it, and
\* only an answered request has a callback's name against it.
Lifecycle ==
    /\ \A o \in Obj : life[o] = "live" <=> rc[o] > 0
    /\ \A r \in Req :
          /\ state[r] = "running" <=> frame = r
          /\ state[r] \in {"pending", "running"} => owner[r] \in Obj
          /\ state[r] = "pending" => CallbackOf(r) \in {r} \cup overtakers[r]
          /\ got[r] # None => state[r] \in {"running", "done"}

\* The inductive invariant.
IInv ==
    RefCountExact /\ ResolverOutlivesRequests /\ MisdeliveredOnlyWhenOvertaken /\ Lifecycle

\* Every request that was accepted is answered, once: it gets to done, and
\* from there nowhere else.
EveryRequestAnswered ==
    \A r \in Req : state[r] = "pending" ~> state[r] = "done" /\ got[r] # None
AnsweredOnce ==
    [][\A r \in Req : got[r] # None => got'[r] = got[r] /\ state'[r] \in {"running", "done"}]_vars
=============================================================================
