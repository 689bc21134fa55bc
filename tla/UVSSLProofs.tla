---------------------------- MODULE UVSSLProofs ----------------------------
(***************************************************************************)
(* Proofs about a TLS session and about the certificates it checks.        *)
(*                                                                         *)
(* Certificates: what the comparisons of SslVerify amount to, for names of *)
(* any length and for every certificate.  Sessions: that IInv of UVSSL is  *)
(* inductive, for any certificates, callbacks, message sizes and number of *)
(* writes; so that no session is used before the script has accepted it,   *)
(* and that no message is lost, invented or handed over twice.             *)
(*                                                                         *)
(* The proof that a step preserves IInv is in three parts, one lemma per   *)
(* action in each: types (<Action>_Type), the verdict (<Action>_Judged)    *)
(* and what is on its way (<Action>_Flow).  Before them come the lemmas    *)
(* about sequences of chunks that the last part rests on.                  *)
(***************************************************************************)
EXTENDS UVSSL, FiniteSetTheorems, SequenceTheorems, WellFoundedInduction, TLAPS

-----------------------------------------------------------------------------
(* Certificates *)

\* A wildcard name with a second full stop.
IsWildcard(c) ==
    /\ Len(c) > 3 /\ c[1] = "*" /\ c[2] = "."
    /\ \E k \in 3..Len(c) : c[k] = "."

\* What is left of a name without its first character.
LEMMA TailOf ==
    ASSUME NEW t \in Name, Len(t) > 0
    PROVE  Tail(t) \in Name /\ Len(Tail(t)) = Len(t) - 1 /\ (Len(t) > 1 => Tail(t)[1] = t[2])
BY DEF Name

\* Where the wildcard name without its star occurs there is a full stop.
LEMMA OccursAtDot ==
    ASSUME NEW s \in Name, NEW c \in Name, IsWildcard(c), NEW i \in 1..Len(s),
           OccursAt(s, Tail(c), i)
    PROVE  OccursAt(s, <<".">>, i)
<1>1. Len(c) \in Nat /\ Len(Tail(c)) = Len(c) - 1 /\ Tail(c)[1] = "."
  BY TailOf DEF Name, IsWildcard
<1>2. 1 \in 1..Len(Tail(c))
  BY <1>1 DEF IsWildcard
<1>3. s[i + 1 - 1] = "."
  BY <1>1, <1>2, Zenon DEF OccursAt
<1> QED BY <1>3 DEF OccursAt, Name

\* The strcmp of matches_wildcard_name never finds its arguments equal: the
\* first is longer.
LEMMA RestLonger ==
    ASSUME NEW s \in Name, NEW c \in Name, IsWildcard(c), NEW i \in 1..Len(s),
           OccursAt(s, Tail(c), i)
    PROVE  SubSeq(s, i, Len(s)) # Tail(Tail(c))
<1>1. Len(c) > 3 /\ Tail(c) \in Name /\ Len(Tail(c)) = Len(c) - 1
  BY TailOf DEF IsWildcard
<1>2. Len(c) \in Nat /\ Len(s) \in Nat
  BY DEF Name
<1>3. Len(Tail(Tail(c))) = Len(c) - 2
  <2>1. \A t \in Name : Len(t) > 0 => Len(Tail(t)) = Len(t) - 1
    BY TailOf
  <2>2. Len(Tail(c)) > 0
    BY <1>1, <1>2
  <2>3. Len(Tail(Tail(c))) = Len(Tail(c)) - 1
    BY <1>1, <2>1, <2>2, Zenon
  <2> QED BY <1>1, <1>2, <2>3
<1>4. Len(SubSeq(s, i, Len(s))) = Len(s) - i + 1
  BY <1>2 DEF Name
<1>5. i + (Len(c) - 1) <= Len(s) + 1
  BY <1>1 DEF OccursAt
<1>6. Len(SubSeq(s, i, Len(s))) # Len(Tail(Tail(c)))
  BY <1>2, <1>3, <1>4, <1>5
<1> QED BY <1>6, Zenon

\* matches_wildcard_name holds of a wildcard name exactly when the two names
\* are equal or the host name continues, from its first full stop on, with the
\* rest of the wildcard name: its three tests of strstr's result are one.
THEOREM WildcardMatch ==
    ASSUME NEW s \in Name, NEW c \in Name, IsWildcard(c)
    PROVE  matches_wildcard_name(s, c) <=>
              \/ s = c
              \/ \E i \in 1..Len(s) : FirstAt(s, <<".">>, i) /\ OccursAt(s, Tail(c), i)
<1>1. ASSUME NEW i \in 1..Len(s), FirstAt(s, <<".">>, i), OccursAt(s, Tail(c), i)
      PROVE  FirstAt(s, Tail(c), i) /\ SubSeq(s, i, Len(s)) # Tail(Tail(c))
  BY <1>1, OccursAtDot, RestLonger, Zenon DEF FirstAt
<1>2. ASSUME NEW i \in 1..Len(s), FirstAt(s, Tail(c), i) PROVE OccursAt(s, Tail(c), i)
  BY <1>2 DEF FirstAt
<1> QED BY <1>1, <1>2, Zenon DEF matches_wildcard_name, IsWildcard

\* matches_common_name does not depend on the host name: it holds of every
\* certificate with a common name that has no null byte.
THEOREM CommonNameMatch ==
    ASSUME NEW peer \in Cert, NEW s \in Name
    PROVE  matches_common_name(peer, s) <=> \E cn \in peer.cn : cn.whole
<1>1. \A t : s = t => matches_wildcard_name(s, t)
  BY DEF matches_wildcard_name
<1> QED BY <1>1 DEF matches_common_name

\* The handshake reports a mismatch exactly when the certificate has no usable
\* common name and no alternative name matches.
THEOREM MismatchMeans ==
    ASSUME NEW peer \in Cert, NEW s \in Name
    PROVE  Mismatch(peer, s) <=>
              (\A cn \in peer.cn : ~cn.whole) /\ ~matches_san_list(peer, s)
BY CommonNameMatch DEF Mismatch

-----------------------------------------------------------------------------
(* Least and greatest *)

\* A nonempty set of natural numbers has a least element, and a greatest one
\* if it is bounded.
LEMMA LeastNat == ASSUME NEW T \in SUBSET Nat, T # {} PROVE \E x \in T : \A y \in T : x <= y
<1>1. PICK x \in T : \A y \in T : ~(<<y, x>> \in OpToRel(<, Nat))
  BY NatLessThanWellFounded, WFMin, Zenon
<1>2. \A y \in T : ~(y < x)
  BY <1>1, Zenon DEF OpToRel
<1> QED BY <1>2

LEMMA GreatestNat ==
    ASSUME NEW n \in Nat, NEW T \in SUBSET (1..n), T # {} PROVE \E x \in T : \A y \in T : x >= y
<1> DEFINE U == {n - x : x \in T}
<1>1. U \in SUBSET Nat
  <2>1. \A x \in T : n - x \in Nat
    OBVIOUS
  <2> QED BY <2>1, Zenon
<1>2. PICK u \in U : \A v \in U : u <= v
  <2>1. U # {}
    BY Zenon
  <2> HIDE DEF U
  <2> QED BY <1>1, <2>1, LeastNat
<1>3. PICK x \in T : u = n - x
  OBVIOUS
<1>4. \A y \in T : n - y \in U
  OBVIOUS
<1>5. \A y \in T : x >= y
  BY <1>2, <1>3, <1>4
<1> QED BY <1>5

\* The first and the last chunk that ends a message, in what a BIO holds.
LEMMA FirstEnd ==
    ASSUME NEW b \in Seq(Chunk), Arrived(b)
    PROVE  LET k == SelectInSeq(b, IsLast)
           IN  k \in 1..Len(b) /\ b[k].last /\ \A i \in 1..Len(b) : i < k => ~b[i].last
<1> DEFINE I == {i \in 1..Len(b) : b[i].last}
<1>1. I \in SUBSET Nat /\ I # {}
  BY DEF Arrived
<1>2. PICK k \in I : \A i \in I : k <= i
  BY <1>1, LeastNat, Zenon
<1>3. SelectInSeq(b, IsLast) = Min(I)
  BY <1>1 DEF SelectInSeq, IsLast
<1>4. Min(I) \in I /\ \A i \in I : Min(I) <= i
  BY <1>2, Zenon DEF Min
<1> HIDE DEF I
<1>5. \A i \in 1..Len(b) : b[i].last => i \in I
  BY DEF I
<1>6. Min(I) \in 1..Len(b) /\ b[Min(I)].last
  BY <1>4 DEF I
<1> QED BY <1>3, <1>4, <1>5, <1>6

LEMMA LastEnd ==
    ASSUME NEW b \in Seq(Chunk)
    PROVE  LET k == SelectLastInSeq(b, IsLast)
           IN  k \in 0..Len(b) /\ \A i \in 1..Len(b) : i > k => ~b[i].last
<1> DEFINE I == {i \in 1..Len(b) : b[i].last}
<1>1. CASE I = {}
  BY <1>1 DEF SelectLastInSeq, IsLast
<1>2. CASE I # {}
  <2>1. PICK k \in I : \A i \in I : k >= i
    <3>1. Len(b) \in Nat /\ I \in SUBSET (1..Len(b))
      OBVIOUS
    <3> HIDE DEF I
    <3> QED BY <1>2, <3>1, GreatestNat, Zenon
  <2>2. SelectLastInSeq(b, IsLast) = Max(I)
    BY <1>2 DEF SelectLastInSeq, IsLast
  <2>3. Max(I) \in I /\ \A i \in I : Max(I) >= i
    BY <2>1, Zenon DEF Max
  <2> HIDE DEF I
  <2>4. \A i \in 1..Len(b) : b[i].last => i \in I
    BY DEF I
  <2>5. Max(I) \in 1..Len(b)
    BY <2>3 DEF I
  <2> QED BY <2>2, <2>3, <2>4, <2>5
<1> QED BY <1>1, <1>2

-----------------------------------------------------------------------------
(* Counting messages *)

\* The positions at which a message of data ends.
DataEnds(b) == {i \in 1..Len(b) : b[i].last /\ b[i].msg = "data"}

LEMMA MessagesCount ==
    ASSUME NEW b \in Seq(Chunk)
    PROVE  /\ IsFiniteSet(DataEnds(b)) /\ Messages(b) = Cardinality(DataEnds(b))
           /\ Messages(b) \in Nat
           /\ DataEnds(b) = {} => Messages(b) = 0
<1>1. IsFiniteSet(1..Len(b)) /\ DataEnds(b) \subseteq 1..Len(b)
  BY FS_Interval DEF DataEnds
<1>2. IsFiniteSet(DataEnds(b))
  BY <1>1, FS_Subset
<1>3. Messages(b) = Cardinality(DataEnds(b))
  <2>1. DOMAIN b = 1..Len(b)
    OBVIOUS
  <2> QED BY <2>1, Zenon DEF Messages, DataEnds
<1> QED BY <1>2, <1>3, FS_CardinalityType, FS_EmptySet

\* Messages are counted piece by piece.
LEMMA MessagesConcat ==
    ASSUME NEW a \in Seq(Chunk), NEW b \in Seq(Chunk)
    PROVE  Messages(a \o b) = Messages(a) + Messages(b)
<1> DEFINE A == DataEnds(a)  B == DataEnds(b)  C == DataEnds(a \o b)
           f == [i \in B |-> Len(a) + i]
           D == {Len(a) + i : i \in B}
<1>1. /\ a \o b \in Seq(Chunk) /\ Len(a) \in Nat /\ Len(b) \in Nat
      /\ Len(a \o b) = Len(a) + Len(b)
      /\ \A i \in 1..Len(a) + Len(b) : (a \o b)[i] = IF i <= Len(a) THEN a[i] ELSE b[i - Len(a)]
  BY ConcatProperties
<1>2. f \in Bijection(B, D)
  <2>1. f \in [B -> D] /\ \A d \in D : \E i \in B : f[i] = d
    OBVIOUS
  <2>2. ASSUME NEW i \in B, NEW j \in B, f[i] = f[j] PROVE i = j
    BY <1>1, <2>2 DEF DataEnds
  <2> QED BY <2>1, <2>2, Zenon DEF Bijection, Injection, Surjection, IsInjective
<1>3. IsFiniteSet(A) /\ IsFiniteSet(B)
  BY MessagesCount
<1>4. IsFiniteSet(D) /\ Cardinality(D) = Cardinality(B)
  BY <1>2, <1>3, FS_Bijection DEF ExistsBijection
<1>5. C = A \cup D
  <2>1. ASSUME NEW i \in C PROVE i \in A \/ i \in D
    <3>1. i \in 1..Len(a) + Len(b) /\ (a \o b)[i].last /\ (a \o b)[i].msg = "data"
      BY <1>1, <2>1 DEF DataEnds
    <3>2. CASE i <= Len(a)
      BY <1>1, <3>1, <3>2 DEF DataEnds
    <3>3. CASE i > Len(a)
      <4>1. i - Len(a) \in 1..Len(b) /\ (a \o b)[i] = b[i - Len(a)]
        BY <1>1, <3>1, <3>3
      <4>2. i - Len(a) \in B
        BY <3>1, <4>1 DEF DataEnds
      <4> QED BY <1>1, <3>1, <4>2
    <3> QED BY <1>1, <3>1, <3>2, <3>3
  <2>2. ASSUME NEW i \in A PROVE i \in C
    BY <1>1, <2>2 DEF DataEnds
  <2>3. ASSUME NEW i \in B PROVE Len(a) + i \in C
    BY <1>1, <2>3 DEF DataEnds
  <2> HIDE DEF C
  <2> QED BY <2>1, <2>2, <2>3
<1>6. A \cap D = {}
  BY <1>1 DEF DataEnds
<1>7. Cardinality(C) = Cardinality(A) + Cardinality(D) - Cardinality(A \cap D)
  BY <1>3, <1>4, <1>5, FS_Union
<1>8. Cardinality(A) \in Nat /\ Cardinality(D) \in Nat /\ Cardinality(A \cap D) = 0
  BY <1>3, <1>4, <1>6, FS_CardinalityType, FS_EmptySet, Zenon
<1>9. Cardinality(C) = Cardinality(A) + Cardinality(B)
  BY <1>4, <1>7, <1>8
<1> QED BY <1>1, <1>9, MessagesCount, Zenon

LEMMA Empty == <<>> \in Seq(Chunk) /\ Messages(<<>>) = 0
<1>1. <<>> \in Seq(Chunk)
  BY EmptySeq
<1>2. DataEnds(<<>>) = {}
  BY DEF DataEnds
<1> QED BY <1>1, <1>2, MessagesCount, Zenon

\* A call of write makes one message, a handshake none.
LEMMA ChunksAre ==
    ASSUME NEW m, NEW n \in Nat
    PROVE  \A i \in 1..n : Chunks(m, n)[i].msg = m /\ (Chunks(m, n)[i].last <=> i = n)
BY Zenon DEF Chunks

LEMMA ChunksType ==
    ASSUME NEW m \in Flights \cup {"alert", "data"}, NEW n \in Nat
    PROVE  Chunks(m, n) \in Seq(Chunk) /\ Len(Chunks(m, n)) = n
<1> DEFINE f == [i \in 1..n |-> [msg |-> m, last |-> i = n]]
<1>1. \A i \in 1..n : [msg |-> m, last |-> i = n] \in Chunk
  BY Zenon DEF Chunk
<1>2. f \in [1..n -> Chunk]
  BY <1>1
<1>3. f \in Seq(Chunk)
  BY <1>2, SeqDef
<1>4. 1..n = 1..Len(f) /\ Len(f) \in Nat
  BY <1>3, LenProperties
<1>5. Len(f) = n
  BY <1>4
<1> QED BY <1>3, <1>5 DEF Chunks

LEMMA OneMessage ==
    ASSUME NEW n \in Nat \ {0}
    PROVE  Chunks("data", n) \in Seq(Chunk) /\ Messages(Chunks("data", n)) = 1
<1>1. "data" \in Flights \cup {"alert", "data"}
  OBVIOUS
<1>2. Chunks("data", n) \in Seq(Chunk) /\ Len(Chunks("data", n)) = n
  BY <1>1, ChunksType, Zenon
<1>3. DataEnds(Chunks("data", n)) = {n}
  BY <1>2, ChunksAre DEF DataEnds
<1>4. Cardinality({n}) = 1
  BY FS_Singleton
<1> QED BY <1>2, <1>3, <1>4, MessagesCount, Zenon

LEMMA NoMessage ==
    ASSUME NEW m \in Flights \cup {"alert"}, NEW n \in Nat
    PROVE  Chunks(m, n) \in Seq(Chunk) /\ Messages(Chunks(m, n)) = 0
<1>1. Chunks(m, n) \in Seq(Chunk) /\ Len(Chunks(m, n)) = n
  BY ChunksType
<1>2. DataEnds(Chunks(m, n)) = {}
  BY <1>1, ChunksAre DEF DataEnds, Flights
<1> QED BY <1>1, <1>2, MessagesCount, Zenon


-----------------------------------------------------------------------------
(* What is left of a BIO *)

\* A sequence is what comes before a point and what comes after.
LEMMA Cut ==
    ASSUME NEW b \in Seq(Chunk), NEW k \in 0..Len(b)
    PROVE  /\ SubSeq(b, 1, k) \in Seq(Chunk) /\ SubSeq(b, k + 1, Len(b)) \in Seq(Chunk)
           /\ Len(SubSeq(b, 1, k)) = k /\ Len(SubSeq(b, k + 1, Len(b))) = Len(b) - k
           /\ \A i \in 1..Len(b) - k : SubSeq(b, k + 1, Len(b))[i] = b[k + i]
           /\ b = SubSeq(b, 1, k) \o SubSeq(b, k + 1, Len(b))
           /\ k = 0 => SubSeq(b, 1, k) = <<>>
<1>1. Len(b) \in Nat
  OBVIOUS
<1>2. /\ SubSeq(b, 1, k) \in Seq(Chunk) /\ SubSeq(b, k + 1, Len(b)) \in Seq(Chunk)
      /\ Len(SubSeq(b, 1, k)) = k /\ Len(SubSeq(b, k + 1, Len(b))) = Len(b) - k
      /\ \A i \in 1..Len(b) - k : SubSeq(b, k + 1, Len(b))[i] = b[k + i]
  BY <1>1, SubSeqProperties
<1>3. SubSeq(b, 1, k) \o SubSeq(b, k + 1, Len(b)) = SubSeq(b, 1, Len(b))
  <2>1. 1 \in 1..Len(b) + 1 /\ k \in 1 - 1..Len(b) /\ Len(b) \in k..Len(b)
    BY <1>1
  <2> QED BY <2>1, ConcatAdjacentSubSeq, Zenon
<1>4. b = SubSeq(b, 1, k) \o SubSeq(b, k + 1, Len(b))
  BY <1>3, SubSeqFull, Zenon
<1>5. k = 0 => SubSeq(b, 1, k) = <<>>
  BY SubSeqEmpty
<1> QED BY <1>2, <1>4, <1>5, Zenon

\* A queue is its head and its tail.
LEMMA HeadFirst ==
    ASSUME NEW q \in Seq(Chunk), q # <<>>
    PROVE  /\ Head(q) \in Chunk /\ Tail(q) \in Seq(Chunk) /\ <<Head(q)>> \in Seq(Chunk)
           /\ q = <<Head(q)>> \o Tail(q)
<1>1. Head(q) \in Chunk /\ Tail(q) \in Seq(Chunk) /\ <<Head(q)>> \in Seq(Chunk)
  BY HeadTailProperties
<1>2. Len(q) \in Nat \ {0} /\ Head(q) = q[1]
  BY EmptySeq
<1>3. SubSeq(q, 1, Len(q)) = <<q[1]>> \o SubSeq(q, 1 + 1, Len(q))
  <2>1. 1 \in 1..Len(q) /\ Len(q) \in 1..Len(q)
    BY <1>2
  <2> QED BY <2>1, SubSeqRecursiveFirst, Zenon
<1>4. SubSeq(q, 1, Len(q)) = q
  BY SubSeqFull
<1>5. Tail(q) = SubSeq(q, 1 + 1, Len(q))
  BY TailIsSubSeq
<1>6. q = <<Head(q)>> \o Tail(q)
  BY <1>2, <1>3, <1>4, <1>5, Zenon
<1> QED BY <1>1, <1>6

\* The BIO is the chunks up to the first end of a message, and After.
LEMMA AfterIs ==
    ASSUME NEW b \in Seq(Chunk), Arrived(b)
    PROVE  LET k == SelectInSeq(b, IsLast)
           IN  /\ SubSeq(b, 1, k) \in Seq(Chunk) /\ Len(SubSeq(b, 1, k)) = k
               /\ After(b) \in Seq(Chunk) /\ b = SubSeq(b, 1, k) \o After(b)
<1> DEFINE k == SelectInSeq(b, IsLast)
<1>1. k \in 1..Len(b) /\ Len(b) \in Nat
  BY FirstEnd
<1> HIDE DEF k
<1>2. k \in 0..Len(b)
  BY <1>1
<1>3. /\ SubSeq(b, 1, k) \in Seq(Chunk) /\ SubSeq(b, k + 1, Len(b)) \in Seq(Chunk)
      /\ Len(SubSeq(b, 1, k)) = k /\ b = SubSeq(b, 1, k) \o SubSeq(b, k + 1, Len(b))
  BY <1>2, Cut, Zenon
<1> QED BY <1>3, Zenon DEF After, k

\* The loop of read_cb leaves no end of a message in the BIO.
LEMMA PartialIs ==
    ASSUME NEW b \in Seq(Chunk)
    PROVE  /\ Partial(b) \in Seq(Chunk) /\ Messages(Partial(b)) = 0
           /\ \E a \in Seq(Chunk) : b = a \o Partial(b)
<1> DEFINE k == SelectLastInSeq(b, IsLast)
<1>1. k \in 0..Len(b) /\ Len(b) \in Nat /\ \A i \in 1..Len(b) : i > k => ~b[i].last
  BY LastEnd
<1> HIDE DEF k
<1>2. /\ SubSeq(b, 1, k) \in Seq(Chunk) /\ SubSeq(b, k + 1, Len(b)) \in Seq(Chunk)
      /\ b = SubSeq(b, 1, k) \o SubSeq(b, k + 1, Len(b))
      /\ Len(SubSeq(b, k + 1, Len(b))) = Len(b) - k
      /\ \A i \in 1..Len(b) - k : SubSeq(b, k + 1, Len(b))[i] = b[k + i]
  BY <1>1, Cut, Zenon
<1>3. \A i \in 1..Len(b) - k : ~b[k + i].last
  BY <1>1
<1>4. DataEnds(SubSeq(b, k + 1, Len(b))) = {}
  BY <1>2, <1>3, Zenon DEF DataEnds
<1>5. Messages(SubSeq(b, k + 1, Len(b))) = 0
  BY <1>2, <1>4, MessagesCount, Zenon
<1> QED BY <1>2, <1>5, Zenon DEF Partial, k

-----------------------------------------------------------------------------
(* What is on its way: an awaited message, and data behind it *)

AllData(d) == \A i \in 1..Len(d) : d[i].msg = "data"

LEMMA Associative ==
    ASSUME NEW x \in Seq(Chunk), NEW y \in Seq(Chunk), NEW z \in Seq(Chunk)
    PROVE  (x \o y) \o z = x \o (y \o z)
BY ConcatAssociative

LEMMA FollowsElim ==
    ASSUME NEW q \in Seq(Chunk), NEW e \in Seq(Chunk), NEW t \in BOOLEAN, Follows(q, e, t)
    PROVE  \E d \in Seq(Chunk) : q = e \o d /\ AllData(d) /\ (~t => d = <<>>)
<1> DEFINE f == SubSeq(q, Len(e) + 1, Len(q))
<1>1. f \in Seq(Chunk)
  BY SubSeqProperties
<1>2. DOMAIN f = 1..Len(f)
  BY <1>1, LenProperties
<1>3. q = e \o f /\ AllData(f) /\ (~t => f = <<>>)
  BY <1>2, Zenon DEF Follows, AllData
<1> QED BY <1>1, <1>3, Zenon

LEMMA FollowsIntro ==
    ASSUME NEW e \in Seq(Chunk), NEW d \in Seq(Chunk), NEW t \in BOOLEAN, AllData(d), ~t => d = <<>>
    PROVE  Follows(e \o d, e, t)
<1> DEFINE q == e \o d  f == SubSeq(q, Len(e) + 1, Len(q))
<1>1. q \in Seq(Chunk)
  BY ConcatProperties
<1>2. f \in Seq(Chunk)
  BY <1>1, SubSeqProperties
<1>3. /\ Len(q) = Len(e) + Len(d) /\ Len(e) \in Nat /\ Len(d) \in Nat
      /\ \A i \in 1..Len(d) : q[Len(e) + i] = d[i]
  BY ConcatProperties
<1>4. Len(f) = Len(d) /\ \A i \in 1..Len(d) : f[i] = q[Len(e) + i]
  BY <1>1, <1>3, SubSeqProperties
<1>5. f = d
  BY <1>2, <1>3, <1>4, SeqEqual
<1>6. DOMAIN f = 1..Len(f)
  BY <1>2, LenProperties
<1> QED BY <1>5, <1>6, Zenon DEF Follows, AllData

\* Nothing is awaited: what comes is data.
LEMMA FollowsEmpty ==
    ASSUME NEW d \in Seq(Chunk), NEW t \in BOOLEAN
    PROVE  Follows(d, <<>>, t) <=> AllData(d) /\ (~t => d = <<>>)
<1>1. SubSeq(d, Len(<<>>) + 1, Len(d)) = d
  BY EmptySeq, SubSeqFull
<1>2. d = <<>> \o d /\ DOMAIN d = 1..Len(d)
  BY ConcatEmptySeq, LenProperties
<1> QED BY <1>1, <1>2, Zenon DEF Follows, AllData

\* The peer writes data.
LEMMA FollowsData ==
    ASSUME NEW q \in Seq(Chunk), NEW e \in Seq(Chunk), NEW c \in Seq(Chunk),
           Follows(q, e, TRUE), AllData(c)
    PROVE  Follows(q \o c, e, TRUE)
<1>1. PICK d \in Seq(Chunk) : q = e \o d /\ AllData(d)
  BY FollowsElim, Zenon
<1>2. /\ d \o c \in Seq(Chunk) /\ Len(d) \in Nat /\ Len(c) \in Nat
      /\ Len(d \o c) = Len(d) + Len(c)
      /\ \A i \in 1..Len(d) + Len(c) : (d \o c)[i] = IF i <= Len(d) THEN d[i] ELSE c[i - Len(d)]
  BY ConcatProperties
<1>3. ASSUME NEW i \in 1..Len(d) + Len(c) PROVE (d \o c)[i].msg = "data"
  <2>1. CASE i <= Len(d)
    BY <1>1, <1>2, <2>1 DEF AllData
  <2>2. CASE i > Len(d)
    <3>1. i - Len(d) \in 1..Len(c) /\ (d \o c)[i] = c[i - Len(d)]
      BY <1>2, <2>2
    <3> QED BY <3>1 DEF AllData
  <2> QED BY <1>2, <2>1, <2>2
<1>4. AllData(d \o c)
  BY <1>2, <1>3 DEF AllData
<1>5. q \o c = e \o (d \o c)
  BY <1>1, ConcatAssociative
<1>6. Follows(e \o (d \o c), e, TRUE)
  BY <1>2, <1>4, FollowsIntro, Zenon
<1> QED BY <1>5, <1>6, Zenon

\* The peer begins to be through.
LEMMA FollowsItself ==
    ASSUME NEW e \in Seq(Chunk), NEW t \in BOOLEAN PROVE Follows(e, e, t)
<1>1. e = e \o <<>> /\ <<>> \in Seq(Chunk) /\ AllData(<<>>)
  BY ConcatEmptySeq, EmptySeq DEF AllData
<1>2. Follows(e \o <<>>, e, t)
  BY <1>1, FollowsIntro, Zenon
<1> QED BY <1>1, <1>2, Zenon

\* Data is read.
LEMMA FollowsRest ==
    ASSUME NEW a \in Seq(Chunk), NEW q \in Seq(Chunk), NEW t \in BOOLEAN, Follows(a \o q, <<>>, t)
    PROVE  Follows(q, <<>>, t)
<1>1. a \o q \in Seq(Chunk)
  BY ConcatProperties
<1>2. AllData(a \o q) /\ (~t => a \o q = <<>>)
  BY <1>1, FollowsEmpty, Zenon
<1>3. \A i \in 1..Len(q) : Len(a) + i \in 1..Len(a \o q) /\ (a \o q)[Len(a) + i] = q[i]
  BY ConcatProperties
<1>4. AllData(q)
  BY <1>2, <1>3 DEF AllData
<1>5. ~t => q = <<>>
  BY <1>2, ConcatEqualIffEmpty
<1> QED BY <1>4, <1>5, FollowsEmpty, Zenon

\* The awaited message is read, and with it nothing of the data behind it.
LEMMA FollowsAfter ==
    ASSUME NEW b \in Seq(Chunk), NEW r \in Seq(Chunk), NEW e \in Seq(Chunk), NEW t \in BOOLEAN,
           Follows(b \o r, e, t), Arrived(b), Len(e) > 0, Messages(e) = 0,
           \A i \in 1..Len(e) : e[i].last <=> i = Len(e)
    PROVE  /\ After(b) \in Seq(Chunk)
           /\ Follows(After(b) \o r, <<>>, t)
           /\ Messages(After(b) \o r) = Messages(b \o r)
<1> DEFINE k == SelectInSeq(b, IsLast)  a == SubSeq(b, 1, k)
<1>1. b \o r \in Seq(Chunk) /\ <<>> \in Seq(Chunk)
  BY ConcatProperties
<1>2. PICK d \in Seq(Chunk) : b \o r = e \o d /\ AllData(d) /\ (~t => d = <<>>)
  BY <1>1, FollowsElim, Zenon
<1>3. /\ k \in 1..Len(b) /\ b[k].last /\ \A i \in 1..Len(b) : i < k => ~b[i].last
      /\ a \in Seq(Chunk) /\ Len(a) = k /\ After(b) \in Seq(Chunk) /\ b = a \o After(b)
  BY FirstEnd, AfterIs, Zenon
<1> HIDE DEF k, a
<1>4. /\ Len(b) \in Nat /\ Len(e) \in Nat /\ Len(r) \in Nat /\ Len(d) \in Nat
      /\ Len(b) + Len(r) = Len(e) + Len(d)
      /\ \A i \in 1..Len(b) : i <= Len(e) => b[i] = e[i]
  BY <1>2, ConcatProperties
<1>5. k = Len(e)
  <2>1. k <= Len(e) => k = Len(e)
    BY <1>3, <1>4
  <2>2. ASSUME k > Len(e) PROVE FALSE
    <3>1. Len(e) \in 1..Len(b) /\ Len(e) \in 1..Len(e)
      BY <1>3, <1>4, <2>2
    <3>2. b[Len(e)].last
      BY <1>4, <3>1
    <3> QED BY <1>3, <2>2, <3>1, <3>2
  <2> QED BY <1>3, <1>4, <2>1, <2>2
<1>6. a = e
  <2>1. \A i \in 1..Len(a) : b[i] = a[i]
    <3>1. \A i \in 1..k : (a \o After(b))[i] = a[i]
      BY <1>3, <1>4, ConcatProperties
    <3> QED BY <1>3, <3>1, Zenon
  <2>2. \A i \in 1..Len(a) : a[i] = e[i]
    <3>1. \A i \in 1..Len(a) : i \in 1..Len(b) /\ i <= Len(e)
      BY <1>3, <1>4, <1>5
    <3> QED BY <1>4, <2>1, <3>1
  <2> QED BY <1>3, <1>5, <2>2, SeqEqual
<1>7. After(b) \o r \in Seq(Chunk)
  BY <1>3, ConcatProperties
<1>8. e \o (After(b) \o r) = e \o d
  <2>1. (e \o After(b)) \o r = e \o (After(b) \o r)
    BY <1>3, Associative, Zenon
  <2> QED BY <1>2, <1>3, <1>6, <2>1, Zenon
<1>9. After(b) \o r = d
  BY <1>7, <1>8, ConcatSimplifications, Zenon
<1>10. Follows(d, <<>>, t)
  BY <1>2, FollowsEmpty, Zenon
<1>11. Messages(b \o r) = Messages(e) + Messages(d) /\ Messages(d) \in Nat
  BY <1>2, MessagesConcat, MessagesCount
<1> QED BY <1>3, <1>9, <1>10, <1>11

-----------------------------------------------------------------------------
(* Building blocks *)

LEMMA Peers ==
    ASSUME NEW s \in Ends
    PROVE  /\ Peer(s) \in Ends /\ Peer(s) # s /\ Peer(Peer(s)) = s
           /\ \A r \in Ends : r = s \/ r = Peer(s)
BY DEF Ends, Peer

\* What is written and handed over is counted.
LEMMA Numbers ==
    ASSUME TypeOK
    PROVE  \A e \in Ends : got[e] \in Nat /\ written[e] \in Nat /\ written[Peer(e)] \in Nat
BY Peers DEF TypeOK

\* The queues hold chunks.
LEMMA Flowing ==
    ASSUME TypeOK, NEW s \in Ends
    PROVE  /\ bio[s] \in Seq(Chunk) /\ wire[s] \in Seq(Chunk) /\ out[s] \in Seq(Chunk)
           /\ due[s] \in Seq(Chunk) /\ Outbound(s) \in Seq(Chunk) /\ Inbound(s) \in Seq(Chunk)
           /\ Messages(Inbound(s)) = Messages(bio[s]) + Messages(Outbound(Peer(s)))
           /\ Messages(bio[s]) \in Nat /\ Messages(Outbound(s)) \in Nat
           /\ Messages(Inbound(s)) \in Nat
<1>1. \A r \in Ends : /\ bio[r] \in Seq(Chunk) /\ wire[r] \in Seq(Chunk)
                      /\ out[r] \in Seq(Chunk) /\ due[r] \in Seq(Chunk)
  BY DEF TypeOK
<1>2. \A r \in Ends : Outbound(r) \in Seq(Chunk)
  BY <1>1, ConcatProperties DEF Outbound
<1>3. /\ bio[s] \in Seq(Chunk) /\ Outbound(Peer(s)) \in Seq(Chunk)
      /\ Inbound(s) = bio[s] \o Outbound(Peer(s))
  BY <1>1, <1>2, Peers DEF Inbound
<1> HIDE DEF TypeOK
<1>4. Inbound(s) \in Seq(Chunk)
  BY <1>3, ConcatProperties
<1>5. Messages(Inbound(s)) = Messages(bio[s]) + Messages(Outbound(Peer(s)))
  BY <1>3, MessagesConcat, Zenon
<1>6. /\ Messages(bio[s]) \in Nat /\ Messages(Outbound(s)) \in Nat
      /\ Messages(Inbound(s)) \in Nat
  BY <1>1, <1>2, <1>4, MessagesCount
<1> QED BY <1>1, <1>2, <1>4, <1>5, <1>6

\* read_cb takes chunks from the wire.
LEMMA Consume ==
    ASSUME TypeOK, NEW s \in Ends, NEW n \in 1..Len(wire[Peer(s)])
    PROVE  /\ Incoming(s, n) \in Seq(Chunk) /\ Consumed(s, n) \in [Ends -> Seq(Chunk)]
           /\ Consumed(s, n)[s] = wire[s]
           /\ Consumed(s, n)[Peer(s)] \o out[Peer(s)] \in Seq(Chunk)
           /\ Inbound(s) = Incoming(s, n) \o (Consumed(s, n)[Peer(s)] \o out[Peer(s)])
<1> DEFINE p == Peer(s)  w == wire[p]  x == SubSeq(w, 1, n)  y == SubSeq(w, n + 1, Len(w))
<1>1. /\ p \in Ends /\ p # s /\ wire \in [Ends -> Seq(Chunk)] /\ w \in Seq(Chunk)
      /\ bio[s] \in Seq(Chunk) /\ out[p] \in Seq(Chunk)
  BY Peers DEF TypeOK
<1>2. x \in Seq(Chunk) /\ y \in Seq(Chunk) /\ w = x \o y
  <2>1. n \in 0..Len(w)
    OBVIOUS
  <2> HIDE DEF w
  <2> QED BY <1>1, <2>1, Cut, Zenon
<1>4. Incoming(s, n) = bio[s] \o x /\ Inbound(s) = bio[s] \o (w \o out[p])
  BY DEF Incoming, Inbound, Outbound
<1>5. Consumed(s, n) = [wire EXCEPT ![p] = y]
  BY DEF Consumed
<1>6. /\ Consumed(s, n) \in [Ends -> Seq(Chunk)]
      /\ Consumed(s, n)[s] = wire[s] /\ Consumed(s, n)[p] = y
  <2> HIDE DEF y, p
  <2> QED BY <1>1, <1>2, <1>5
<1> HIDE DEF p, w, x, y
<1>7. bio[s] \o x \in Seq(Chunk) /\ y \o out[p] \in Seq(Chunk)
  BY <1>1, <1>2, ConcatProperties
<1>8. bio[s] \o (w \o out[p]) = (bio[s] \o x) \o (y \o out[p])
  <2>1. x \in Seq(Chunk) /\ y \in Seq(Chunk) /\ out[p] \in Seq(Chunk) /\ bio[s] \in Seq(Chunk)
    BY <1>1, <1>2
  <2>2. (x \o y) \o out[p] = x \o (y \o out[p])
    BY <2>1, Associative, ZenonT(30)
  <2>3. w \o out[p] = x \o (y \o out[p])
    BY <1>2, <2>2, Zenon
  <2>4. bio[s] \o (x \o (y \o out[p])) = (bio[s] \o x) \o (y \o out[p])
    BY <1>7, <2>1, Associative, ZenonT(30)
  <2> QED BY <2>3, <2>4, Zenon
<1> QED BY <1>4, <1>6, <1>7, <1>8 DEF p

\* write_bio_to_socket adds to what the end has sent or queued, in order.
LEMMA WriteBio ==
    ASSUME TypeOK, NEW s \in Ends, NEW cs \in Seq(Chunk), NEW k \in Nat,
           NEW w \in [Ends -> Seq(Chunk)], write_bio_to_socket(s, cs, k, w)
    PROVE  /\ wire' \in [Ends -> Seq(Chunk)] /\ out' \in [Ends -> Seq(Chunk)]
           /\ due' \in [Ends -> Seq(Chunk)]
           /\ wire'[Peer(s)] = w[Peer(s)] /\ out'[Peer(s)] = out[Peer(s)]
           /\ uv[s] = "open" => wire'[s] \o out'[s] = (w[s] \o out[s]) \o cs
           /\ uv[s] # "open" => wire'[s] \o out'[s] = w[s] \o out[s]
<1> DEFINE x == SubSeq(cs, 1, k)  y == SubSeq(cs, k + 1, Len(cs))
<1>1. /\ out \in [Ends -> Seq(Chunk)] /\ due \in [Ends -> Seq(Chunk)]
      /\ w[s] \in Seq(Chunk) /\ out[s] \in Seq(Chunk) /\ due[s] \in Seq(Chunk)
      /\ Peer(s) \in Ends /\ Peer(s) # s
  BY Peers DEF TypeOK
<1>2. CASE uv[s] # "open"
  BY <1>1, <1>2, Zenon DEF write_bio_to_socket
<1>3. CASE uv[s] = "open"
  <2>1. /\ k \in Takes(s, cs)
        /\ wire' = [w EXCEPT ![s] = @ \o x]
        /\ due' = [due EXCEPT ![s] = @ \o x]
        /\ out' = [out EXCEPT ![s] = @ \o y]
    BY <1>3, Zenon DEF write_bio_to_socket
  <2>2. k \in 0..Len(cs) /\ (out[s] # <<>> => k = 0) /\ Len(cs) \in Nat
    BY <2>1 DEF Takes
  <2>3. x \in Seq(Chunk) /\ y \in Seq(Chunk) /\ cs = x \o y /\ (k = 0 => x = <<>>)
    BY <2>2, Cut, Zenon
  <2> HIDE DEF x, y
  <2>6. w[s] \o x \in Seq(Chunk) /\ due[s] \o x \in Seq(Chunk) /\ out[s] \o y \in Seq(Chunk)
    BY <1>1, <2>3, ConcatProperties
  <2>7. /\ wire' \in [Ends -> Seq(Chunk)] /\ out' \in [Ends -> Seq(Chunk)]
        /\ due' \in [Ends -> Seq(Chunk)]
        /\ wire'[Peer(s)] = w[Peer(s)] /\ out'[Peer(s)] = out[Peer(s)]
        /\ wire'[s] = w[s] \o x /\ out'[s] = out[s] \o y
    BY <1>1, <2>1, <2>6, Zenon
  <2>4. x \in Seq(Chunk) /\ y \in Seq(Chunk)
    BY <2>3
  <2>5. w[s] \in Seq(Chunk) /\ out[s] \in Seq(Chunk)
    BY <1>1
  <2>8. (w[s] \o x) \o (out[s] \o y) = (w[s] \o out[s]) \o cs
    <3>1. CASE out[s] = <<>>
      <4>1. out[s] \o y = y /\ w[s] \o out[s] = w[s]
        BY <1>1, <2>3, <3>1, ConcatEmptySeq
      <4>2. (w[s] \o x) \o y = w[s] \o (x \o y)
        BY <2>4, <2>5, Associative, ZenonT(30)
      <4> QED BY <2>3, <4>1, <4>2, Zenon
    <3>2. CASE out[s] # <<>>
      <4>1. w[s] \o x = w[s] /\ cs = y
        BY <1>1, <2>2, <2>3, <3>2, ConcatEmptySeq
      <4>2. (w[s] \o out[s]) \o y = w[s] \o (out[s] \o y)
        BY <2>4, <2>5, Associative, ZenonT(30)
      <4> QED BY <4>1, <4>2, Zenon
    <3> QED BY <3>1, <3>2, Zenon
  <2> QED BY <1>3, <2>7, <2>8
<1> QED BY <1>2, <1>3, Zenon

\* A flight of the handshake is no data.
LEMMA FlightIs ==
    ASSUME NEW s \in Ends
    PROVE  Flight(s) \in Seq(Chunk) /\ Messages(Flight(s)) = 0
<1>1. /\ Chunks("ServerHello", 2) \in Seq(Chunk) /\ Messages(Chunks("ServerHello", 2)) = 0
      /\ Chunks("ServerFinish", 1) \in Seq(Chunk) /\ Messages(Chunks("ServerFinish", 1)) = 0
      /\ Chunks("ClientFinish", 1) \in Seq(Chunk) /\ Messages(Chunks("ClientFinish", 1)) = 0
  <2>1. "ServerHello" \in Flights \cup {"alert"} /\ "ServerFinish" \in Flights \cup {"alert"}
        /\ "ClientFinish" \in Flights \cup {"alert"} /\ 1 \in Nat /\ 2 \in Nat
    BY DEF Flights
  <2> QED BY <2>1, NoMessage, Zenon
<1>3. <<>> \in Seq(Chunk) /\ Messages(<<>>) = 0
  BY Empty
<1>4. \/ Flight(s) = Chunks("ServerHello", 2) \/ Flight(s) = Chunks("ServerFinish", 1)
      \/ Flight(s) = Chunks("ClientFinish", 1) \/ Flight(s) = <<>>
  BY Zenon DEF Flight
<1> QED BY <1>1, <1>3, <1>4, Zenon

-----------------------------------------------------------------------------
(* Types *)

\* A session begins.
LEMMA Start_Type == ASSUME TypeOK, NEW s \in Ends, Start(s) PROVE TypeOK'
<1>1. \A n \in 0..1 : Chunks("ClientHello", n) \in Seq(Chunk)
  <2>1. "ClientHello" \in Flights \cup {"alert"}
    BY DEF Flights
  <2> QED BY <2>1, NoMessage
<1>2. /\ wire' \in [Ends -> Seq(Chunk)] /\ due' \in [Ends -> Seq(Chunk)]
      /\ out' \in [Ends -> Seq(Chunk)]
  <2>1. CASE s = "client"
    <3>1. PICK k \in 0..1 : /\ wire' = [wire EXCEPT ![s] = Chunks("ClientHello", k)]
                            /\ due' = [due EXCEPT ![s] = Chunks("ClientHello", k)]
                            /\ out' = [out EXCEPT ![s] = Chunks("ClientHello", 1 - k)]
      BY <2>1 DEF Start
    <3>2. Chunks("ClientHello", k) \in Seq(Chunk) /\ Chunks("ClientHello", 1 - k) \in Seq(Chunk)
      BY <1>1
    <3> QED BY <3>1, <3>2 DEF TypeOK
  <2>2. CASE s # "client"
    BY <2>2 DEF TypeOK, Start
  <2> QED BY <2>1, <2>2
<1> QED BY <1>2, Zenon DEF TypeOK, Start, config, history, Started, CallUser, Frames

\* The loop of read_cb hands over messages and keeps the rest.
LEMMA DataLoop_Type ==
    ASSUME TypeOK, NEW s \in Ends, NEW b \in Seq(Chunk), DataLoop(s, b)
    PROVE  bio' \in [Ends -> Seq(Chunk)] /\ got' \in [Ends -> Nat] /\ frame' \in [Ends -> Frames]
<1>1. Partial(b) \in Seq(Chunk) /\ Messages(b) \in Nat
  BY PartialIs, MessagesCount
<1>2. bio' \in [Ends -> Seq(Chunk)]
  BY <1>1 DEF TypeOK, DataLoop
<1>3. got' \in [Ends -> Nat]
  <2>1. got \in [Ends -> Nat] /\ (got' = [got EXCEPT ![s] = @ + Messages(b)] \/ got' = got)
    BY DEF TypeOK, DataLoop
  <2>2. got[s] + Messages(b) \in Nat
    BY <1>1, <2>1
  <2> QED BY <2>1, <2>2
<1>4. frame' \in [Ends -> Frames]
  BY Zenon DEF TypeOK, DataLoop, CallUser, Frames
<1> QED BY <1>2, <1>3, <1>4

\* Asking the handshake callback.
LEMMA CallHandshake_Type ==
    ASSUME TypeOK, NEW s \in Ends, NEW name \in Frames, CallHandshake(s, name)
    PROVE  /\ uv' \in [Ends -> {"fresh", "open", "closing", "closed"}]
           /\ verdict' \in [Ends -> {"none", "accepted", "refused"}]
           /\ frame' \in [Ends -> Frames]
<1>1. frame' \in [Ends -> Frames]
  BY Zenon DEF TypeOK, CallHandshake, CallUser, Frames
<1>2. uv' \in [Ends -> {"fresh", "open", "closing", "closed"}]
  <2>1. /\ uv \in [Ends -> {"fresh", "open", "closing", "closed"}]
        /\ uv' = uv \/ uv' = [uv EXCEPT ![s] = Closed(@)]
    BY DEF TypeOK, CallHandshake, Refused
  <2> QED BY <2>1 DEF Closed
<1>3. verdict' \in [Ends -> {"none", "accepted", "refused"}]
  BY Zenon DEF TypeOK, CallHandshake
<1> QED BY <1>1, <1>2, <1>3

\* Data is read.
LEMMA ReadData_Type ==
    ASSUME TypeOK, NEW s \in Ends, NEW n \in 1..Len(wire[Peer(s)]), ReadData(s, n)
    PROVE  TypeOK'
<1>1. wire' \in [Ends -> Seq(Chunk)] /\ Incoming(s, n) \in Seq(Chunk)
  BY Consume, Zenon DEF ReadData
<1>2. bio' \in [Ends -> Seq(Chunk)] /\ got' \in [Ends -> Nat] /\ frame' \in [Ends -> Frames]
  BY <1>1, DataLoop_Type DEF ReadData
<1> QED BY <1>1, <1>2, Zenon DEF TypeOK, ReadData, config

\* Half a message is kept.
LEMMA ReadPart_Type ==
    ASSUME TypeOK, NEW s \in Ends, NEW n \in 1..Len(wire[Peer(s)]), ReadPart(s, n)
    PROVE  TypeOK'
<1>1. wire' \in [Ends -> Seq(Chunk)] /\ Incoming(s, n) \in Seq(Chunk)
  BY Consume, Zenon DEF ReadPart
<1>2. bio' \in [Ends -> Seq(Chunk)]
  BY <1>1 DEF TypeOK, ReadPart
<1> QED BY <1>1, <1>2, Zenon DEF TypeOK, ReadPart, config, history

\* The handshake goes on.
LEMMA ReadFlight_Type ==
    ASSUME TypeOK, NEW s \in Ends, NEW n \in 1..Len(wire[Peer(s)]), NEW k \in 0..2,
           ReadFlight(s, n, k)
    PROVE  TypeOK'
<1>1. Consumed(s, n) \in [Ends -> Seq(Chunk)] /\ Incoming(s, n) \in Seq(Chunk)
  BY Consume, Zenon
<1>2. After(Incoming(s, n)) \in Seq(Chunk)
  BY <1>1, AfterIs DEF ReadFlight
<1>3. /\ wire' \in [Ends -> Seq(Chunk)] /\ due' \in [Ends -> Seq(Chunk)]
      /\ out' \in [Ends -> Seq(Chunk)]
  <2>1. write_bio_to_socket(s, Flight(s), k, Consumed(s, n)) /\ k \in Nat
    BY DEF ReadFlight
  <2> QED BY <1>1, <2>1, WriteBio, FlightIs, Zenon
<1>4. bio' \in [Ends -> Seq(Chunk)]
  BY <1>2 DEF TypeOK, ReadFlight
<1>5. /\ uv' \in [Ends -> {"fresh", "open", "closing", "closed"}]
      /\ verdict' \in [Ends -> {"none", "accepted", "refused"}] /\ frame' \in [Ends -> Frames]
  <2>1. CASE hs[s] = "hello"
    BY <2>1, Zenon DEF TypeOK, ReadFlight
  <2>2. CASE hs[s] # "hello"
    <3>1. "mismatch" \in Frames /\ "finish" \in Frames
      BY DEF Frames
    <3> QED BY <2>2, <3>1, CallHandshake_Type DEF ReadFlight
  <2> QED BY <2>1, <2>2
<1> QED BY <1>3, <1>4, <1>5, Zenon DEF TypeOK, ReadFlight, config

\* The handshake callback is asked about the chain.
LEMMA ReadUntrusted_Type ==
    ASSUME TypeOK, NEW s \in Ends, NEW n \in 1..Len(wire[Peer(s)]), ReadUntrusted(s, n)
    PROVE  TypeOK'
<1>1. wire' \in [Ends -> Seq(Chunk)] /\ Incoming(s, n) \in Seq(Chunk)
  BY Consume, Zenon DEF ReadUntrusted
<1>2. After(Incoming(s, n)) \in Seq(Chunk)
  BY <1>1, AfterIs DEF ReadUntrusted
<1>3. bio' \in [Ends -> Seq(Chunk)]
  BY <1>2 DEF TypeOK, ReadUntrusted
<1>4. "verify" \in Frames
  BY DEF Frames
<1>5. /\ uv' \in [Ends -> {"fresh", "open", "closing", "closed"}]
      /\ verdict' \in [Ends -> {"none", "accepted", "refused"}] /\ frame' \in [Ends -> Frames]
  BY <1>4, CallHandshake_Type DEF ReadUntrusted
<1> QED BY <1>1, <1>3, <1>5, Zenon DEF TypeOK, ReadUntrusted, config

\* The handshake fails.
LEMMA ReadFails_Type ==
    ASSUME TypeOK, NEW s \in Ends, NEW n \in 1..Len(wire[Peer(s)]), NEW k \in 0..2,
           ReadFails(s, n, k)
    PROVE  TypeOK'
<1>1. Consumed(s, n) \in [Ends -> Seq(Chunk)]
  BY Consume, Zenon
<1>2. <<>> \in Seq(Chunk) /\ Chunks("alert", 1) \in Seq(Chunk)
  BY EmptySeq, ChunksType, Zenon
<1>3. /\ wire' \in [Ends -> Seq(Chunk)] /\ due' \in [Ends -> Seq(Chunk)]
      /\ out' \in [Ends -> Seq(Chunk)]
  <2>1. k \in Nat /\ \E cs \in {<<>>, Chunks("alert", 1)} :
           write_bio_to_socket(s, cs, k, Consumed(s, n))
    BY DEF ReadFails
  <2>2. \A cs \in {<<>>, Chunks("alert", 1)} : cs \in Seq(Chunk)
    BY <1>2, Zenon
  <2> QED BY <1>1, <2>1, <2>2, WriteBio, Zenon
<1>4. bio' \in [Ends -> Seq(Chunk)]
  BY <1>2 DEF TypeOK, ReadFails
<1> QED BY <1>3, <1>4, Zenon DEF TypeOK, ReadFails, config, history, Closed

\* The end of the connection.
LEMMA ReadEnd_Type == ASSUME TypeOK, NEW s \in Ends, ReadEnd(s) PROVE TypeOK'
<1>1. frame' \in [Ends -> Frames]
  BY Zenon DEF TypeOK, ReadEnd, CallUser, Frames
<1>2. uv' \in [Ends -> {"fresh", "open", "closing", "closed"}]
  BY Zenon DEF TypeOK, ReadEnd, AfterError, Closed
<1> QED BY <1>1, <1>2, Zenon DEF TypeOK, ReadEnd, config, history

\* The answer about the chain.
LEMMA ReturnVerify_Type ==
    ASSUME TypeOK, NEW s \in Ends, NEW v, NEW k \in 0..1, ReturnVerify(s, v, k) PROVE TypeOK'
<1>1. wire \in [Ends -> Seq(Chunk)]
  BY DEF TypeOK
<1>2. /\ wire' \in [Ends -> Seq(Chunk)] /\ due' \in [Ends -> Seq(Chunk)]
      /\ out' \in [Ends -> Seq(Chunk)]
  <2>1. CASE v
    <3>1. write_bio_to_socket(s, Flight(s), k, wire) /\ k \in Nat
      BY <2>1 DEF ReturnVerify
    <3> QED BY <1>1, <3>1, WriteBio, FlightIs, Zenon
  <2>2. CASE ~v
    BY <2>2 DEF TypeOK, ReturnVerify
  <2> QED BY <2>1, <2>2
<1>3. frame' \in [Ends -> Frames] /\ hs' \in [Ends -> {"fresh", "hello", "finish", "done", "failed"}]
  <2>1. frame \in [Ends -> Frames] /\ hs \in [Ends -> {"fresh", "hello", "finish", "done", "failed"}]
    BY DEF TypeOK
  <2>2. /\ frame' = [frame EXCEPT ![s] = "none"]
        /\ hs' = [hs EXCEPT ![s] = "finish"] \/ hs' = [hs EXCEPT ![s] = "failed"]
    BY DEF ReturnVerify, CallUser
  <2> QED BY <2>1, <2>2 DEF Frames
<1>4. uv' \in [Ends -> {"fresh", "open", "closing", "closed"}]
  <2>1. uv \in [Ends -> {"fresh", "open", "closing", "closed"}]
    BY DEF TypeOK
  <2>2. uv' = uv \/ uv' = [uv EXCEPT ![s] = Closed(@)]
    BY DEF ReturnVerify, Refused
  <2> QED BY <2>1, <2>2 DEF Closed
<1>5. verdict' \in [Ends -> {"none", "accepted", "refused"}]
  <2>1. verdict \in [Ends -> {"none", "accepted", "refused"}]
    BY DEF TypeOK
  <2>2. verdict' = verdict \/ verdict' = [verdict EXCEPT ![s] = "refused"]
    BY DEF ReturnVerify
  <2> QED BY <2>1, <2>2
<1>6. UNCHANGED <<config, bio, enabled, reported, written, got>>
  BY DEF ReturnVerify
<1> QED BY <1>2, <1>3, <1>4, <1>5, <1>6, Zenon DEF TypeOK, config

\* The answer about the name or the session.
LEMMA ReturnHandshake_Type ==
    ASSUME TypeOK, NEW s \in Ends, NEW v, ReturnHandshake(s, v) PROVE TypeOK'
<1>1. bio[s] \in Seq(Chunk)
  BY DEF TypeOK
<1>2. bio' \in [Ends -> Seq(Chunk)] /\ got' \in [Ends -> Nat] /\ frame' \in [Ends -> Frames]
  <2>1. CASE DataLoop(s, bio[s])
    BY <1>1, <2>1, DataLoop_Type
  <2>2. CASE ~DataLoop(s, bio[s])
    BY <2>2, Zenon DEF TypeOK, ReturnHandshake, CallUser, Frames
  <2> QED BY <2>1, <2>2
<1>3. /\ uv' \in [Ends -> {"fresh", "open", "closing", "closed"}]
      /\ verdict' \in [Ends -> {"none", "accepted", "refused"}]
  BY Zenon DEF TypeOK, ReturnHandshake, Refused, Closed
<1> QED BY <1>2, <1>3, Zenon DEF TypeOK, ReturnHandshake, config

\* Other callbacks end.
LEMMA ReturnOther_Type == ASSUME TypeOK, NEW s \in Ends, ReturnOther(s) PROVE TypeOK'
BY DEF TypeOK, ReturnOther, config, history, CallUser, AfterError, Closed, Frames

\* The script writes.
LEMMA write_Type ==
    ASSUME TypeOK, NEW s \in Ends, NEW n \in Sizes, NEW k \in 0..2, write(s, n, k) PROVE TypeOK'
<1>1. n \in Nat \ {0} /\ MaxWrites \in Nat
  BY BoundAssumption
<1>2. wire \in [Ends -> Seq(Chunk)] /\ Chunks("data", n) \in Seq(Chunk)
  BY <1>1, OneMessage DEF TypeOK
<1>3. /\ wire' \in [Ends -> Seq(Chunk)] /\ due' \in [Ends -> Seq(Chunk)]
      /\ out' \in [Ends -> Seq(Chunk)]
  <2>1. write_bio_to_socket(s, Chunks("data", n), k, wire) /\ k \in Nat
    BY DEF write
  <2> QED BY <1>2, <2>1, WriteBio, Zenon
<1>4. written' \in [Ends -> 0..MaxWrites]
  BY <1>1 DEF TypeOK, write
<1> QED BY <1>3, <1>4, Zenon DEF TypeOK, write, config

\* The script closes.
LEMMA close_Type == ASSUME TypeOK, NEW s \in Ends, close(s) PROVE TypeOK'
BY DEF TypeOK, close, config, history, Closed

\* The socket takes a request.
LEMMA Transmit_Type == ASSUME TypeOK, NEW s \in Ends, Transmit(s) PROVE TypeOK'
<1>1. /\ Head(out[s]) \in Chunk /\ Tail(out[s]) \in Seq(Chunk)
      /\ Append(wire[s], Head(out[s])) \in Seq(Chunk) /\ Append(due[s], Head(out[s])) \in Seq(Chunk)
  BY HeadTailProperties, AppendProperties DEF TypeOK, Transmit
<1>2. /\ wire' \in [Ends -> Seq(Chunk)] /\ due' \in [Ends -> Seq(Chunk)]
      /\ out' \in [Ends -> Seq(Chunk)]
  BY <1>1, Zenon DEF TypeOK, Transmit
<1> QED BY <1>2, Zenon DEF TypeOK, Transmit, config, history

\* A request is reported or cancelled.
LEMMA write_cb_Type == ASSUME TypeOK, NEW s \in Ends, write_cb(s) PROVE TypeOK'
<1>1. \A q \in Seq(Chunk) : q # <<>> => Head(q) \in Chunk /\ Tail(q) \in Seq(Chunk)
  BY HeadTailProperties
<1>2. due[s] \in Seq(Chunk) /\ out[s] \in Seq(Chunk)
  BY DEF TypeOK
<1>3. due' \in [Ends -> Seq(Chunk)] /\ out' \in [Ends -> Seq(Chunk)]
  BY <1>1, <1>2, Zenon DEF TypeOK, write_cb
<1>4. PICK c \in Chunk : Report(s, c)
  BY <1>1, <1>2 DEF write_cb
<1>5. reported' \in [Ends -> Chunk \cup {Nothing}]
  BY <1>4, Zenon DEF TypeOK, Report
<1>6. frame' \in [Ends -> Frames]
  BY <1>4, Zenon DEF TypeOK, Report, CallUser, Frames
<1> QED BY <1>3, <1>5, <1>6, Zenon DEF TypeOK, write_cb, config, history

\* The close ends.
LEMMA tcp_close_cb_Type == ASSUME TypeOK, NEW s \in Ends, tcp_close_cb(s) PROVE TypeOK'
BY DEF TypeOK, tcp_close_cb, config, history

\* read_cb in all its cases.
LEMMA read_cb_Type == ASSUME TypeOK, NEW s \in Ends, read_cb(s) PROVE TypeOK'
BY ReadData_Type, ReadPart_Type, ReadFlight_Type, ReadUntrusted_Type, ReadFails_Type, ReadEnd_Type
DEF read_cb

\* Every step of either end.
LEMMA Next_Type == ASSUME TypeOK, [Next]_vars PROVE TypeOK'
<1>1. ASSUME NEW s \in Ends, LoopStep(s) PROVE TypeOK'
  BY <1>1, Start_Type, read_cb_Type, Transmit_Type, write_cb_Type, tcp_close_cb_Type DEF LoopStep
<1>2. ASSUME NEW s \in Ends, Return(s) PROVE TypeOK'
  BY <1>2, ReturnVerify_Type, ReturnHandshake_Type, ReturnOther_Type DEF Return
<1>3. ASSUME NEW s \in Ends, ScriptStep(s) PROVE TypeOK'
  BY <1>3, write_Type, close_Type DEF ScriptStep
<1>4. CASE UNCHANGED vars
  BY <1>4 DEF TypeOK, vars, config, history
<1> QED BY <1>1, <1>2, <1>3, <1>4 DEF Next

-----------------------------------------------------------------------------
(* The verdict *)

\* A session begins, unjudged and unused.
LEMMA Start_Judged ==
    ASSUME TypeOK, Judged, NEW s \in Ends, Start(s) PROVE Judged'
BY DEF TypeOK, Judged, Start, history, Started, CallUser, Frames

\* Data is read only on an open session that is through the handshake and in no
\* callback: the handshake callback has accepted it.
LEMMA ReadData_Judged ==
    ASSUME TypeOK, Judged, NEW s \in Ends, NEW n, ReadData(s, n) PROVE Judged'
BY DEF TypeOK, Judged, ReadData, history, Reading, Serving, DataLoop, CallUser, Frames

\* Half a message changes nothing.
LEMMA ReadPart_Judged ==
    ASSUME TypeOK, Judged, NEW s \in Ends, NEW n, ReadPart(s, n) PROVE Judged'
BY DEF TypeOK, Judged, ReadPart, history, Frames

\* The end of the handshake asks the handshake callback; without one it refuses
\* and closes.
LEMMA ReadFlight_Judged ==
    ASSUME TypeOK, Judged, NEW s \in Ends, NEW n, NEW k, ReadFlight(s, n, k) PROVE Judged'
BY DEF TypeOK, Judged, ReadFlight, history, Reading, Serving, CallHandshake, CallUser,
   Refused, Closed, Frames

\* A chain that does not verify is a question to the handshake callback too.
LEMMA ReadUntrusted_Judged ==
    ASSUME TypeOK, Judged, NEW s \in Ends, NEW n, ReadUntrusted(s, n) PROVE Judged'
BY DEF TypeOK, Judged, ReadUntrusted, history, Reading, Serving, CallHandshake, CallUser,
   Refused, Closed, Frames

\* A handshake that fails was not judged.
LEMMA ReadFails_Judged ==
    ASSUME TypeOK, Judged, NEW s \in Ends, NEW n, NEW k, ReadFails(s, n, k) PROVE Judged'
BY DEF TypeOK, Judged, ReadFails, history, Reading, Serving, Closed, Frames

\* The end of the connection.
LEMMA ReadEnd_Judged ==
    ASSUME TypeOK, Judged, NEW s \in Ends, ReadEnd(s) PROVE Judged'
<1>1. UNCHANGED <<got, enabled, verdict, hs>>
  BY DEF ReadEnd, history
<1>2. ASSUME NEW r \in Ends
      PROVE  /\ frame'[r] = frame[r] \/ (frame[r] = "none" /\ frame'[r] = "error")
             /\ uv'[r] = uv[r] \/ (uv[r] = "open" /\ uv'[r] = "closing")
  <2>1. /\ frame \in [Ends -> Frames] /\ frame[s] = "none" /\ uv[s] = "open"
        /\ uv \in [Ends -> {"fresh", "open", "closing", "closed"}]
    BY DEF TypeOK, ReadEnd, Reading, Serving
  <2>2. frame' = frame \/ frame' = [frame EXCEPT ![s] = "error"]
    BY DEF ReadEnd, CallUser
  <2>3. uv' = uv \/ uv' = [uv EXCEPT ![s] = Closed(@)]
    BY DEF ReadEnd, AfterError
  <2> QED BY <2>1, <2>2, <2>3 DEF Closed
<1> QED BY <1>1, <1>2 DEF TypeOK, Judged

\* The answer about the chain refuses and closes, or lets the handshake go on.
LEMMA ReturnVerify_Judged ==
    ASSUME TypeOK, Judged, NEW s \in Ends, NEW v, NEW k, ReturnVerify(s, v, k) PROVE Judged'
<1>1. frame[s] = "verify" /\ hs[s] = "hello" /\ verdict[s] = "none" /\ UNCHANGED <<got, enabled>>
  BY DEF Judged, ReturnVerify
<1>2. frame'[s] = "none" /\ (\/ hs'[s] = "finish" /\ uv'[s] = uv[s] /\ verdict'[s] = "none"
                             \/ hs'[s] = "failed" /\ verdict'[s] = "refused"
                                /\ uv'[s] = Closed(uv[s]))
  BY <1>1 DEF TypeOK, ReturnVerify, CallUser, Refused
<1>3. uv[s] \in {"open", "closing", "closed"}
  BY <1>1 DEF TypeOK, Judged
<1>4. ASSUME NEW r \in Ends, r # s
      PROVE  frame'[r] = frame[r] /\ hs'[r] = hs[r] /\ uv'[r] = uv[r] /\ verdict'[r] = verdict[r]
  BY <1>4 DEF TypeOK, ReturnVerify, CallUser
<1> QED BY <1>1, <1>2, <1>3, <1>4 DEF TypeOK, Judged, Closed

\* The last answer accepts, and only then does the loop of read_cb hand over data.
LEMMA ReturnHandshake_Judged ==
    ASSUME TypeOK, Judged, NEW s \in Ends, NEW v, ReturnHandshake(s, v) PROVE Judged'
<1>1. hs[s] = "done" /\ verdict[s] = "none" /\ uv[s] \in {"open", "closing", "closed"}
      /\ UNCHANGED <<hs, enabled>>
  BY DEF TypeOK, Judged, ReturnHandshake
<1>2. \/ /\ frame'[s] = "none" /\ uv'[s] = Closed(uv[s]) /\ verdict'[s] = "refused" /\ got'[s] = got[s]
      \/ /\ frame'[s] = "finish" /\ uv'[s] = uv[s] /\ verdict'[s] = "none" /\ got'[s] = got[s]
      \/ /\ frame'[s] \in {"none", "read", "readMore"} /\ uv'[s] = uv[s] /\ verdict'[s] = "accepted"
  BY <1>1 DEF TypeOK, ReturnHandshake, DataLoop, CallUser, Refused
<1>3. ASSUME NEW r \in Ends, r # s
      PROVE  /\ frame'[r] = frame[r] /\ uv'[r] = uv[r] /\ verdict'[r] = verdict[r] /\ got'[r] = got[r]
  BY <1>3 DEF TypeOK, ReturnHandshake, DataLoop, CallUser
<1> QED BY <1>1, <1>2, <1>3 DEF TypeOK, Judged, Closed

\* Other callbacks judge nothing.
LEMMA ReturnOther_Judged ==
    ASSUME TypeOK, Judged, NEW s \in Ends, ReturnOther(s) PROVE Judged'
BY DEF TypeOK, Judged, ReturnOther, history, CallUser, AfterError, Closed, Frames

\* write queues chunks.
LEMMA write_Judged ==
    ASSUME TypeOK, Judged, NEW s \in Ends, NEW n, NEW k, write(s, n, k) PROVE Judged'
BY DEF TypeOK, Judged, write, history, Frames

\* close only closes.
LEMMA close_Judged ==
    ASSUME TypeOK, Judged, NEW s \in Ends, close(s) PROVE Judged'
BY DEF TypeOK, Judged, close, history, Closed, Frames

\* The socket takes a chunk.
LEMMA Transmit_Judged ==
    ASSUME TypeOK, Judged, NEW s \in Ends, Transmit(s) PROVE Judged'
BY DEF TypeOK, Judged, Transmit, history, Frames

\* A write is reported only if write callbacks are enabled, which reading data does.
LEMMA write_cb_Judged ==
    ASSUME TypeOK, Judged, NEW s \in Ends, write_cb(s) PROVE Judged'
<1>1. UNCHANGED <<got, enabled, verdict, hs, uv>>
  BY DEF write_cb, history
<1>2. ASSUME NEW r \in Ends
      PROVE  frame'[r] = frame[r] \/ (frame[r] = "none" /\ frame'[r] = "write" /\ enabled[r])
  <2>1. frame \in [Ends -> Frames] /\ frame[s] = "none"
    BY DEF TypeOK, write_cb
  <2>2. \E c : Report(s, c)
    BY Zenon DEF write_cb
  <2>3. frame' = frame \/ (enabled[s] /\ frame' = [frame EXCEPT ![s] = "write"])
    BY <2>2 DEF Report, CallUser
  <2> QED BY <2>1, <2>3
<1> QED BY <1>1, <1>2 DEF TypeOK, Judged

\* A closed handle stays closed.
LEMMA tcp_close_cb_Judged ==
    ASSUME TypeOK, Judged, NEW s \in Ends, tcp_close_cb(s) PROVE Judged'
BY DEF TypeOK, Judged, tcp_close_cb, history, Frames

\* read_cb in all its cases.
LEMMA read_cb_Judged == ASSUME TypeOK, Judged, NEW s \in Ends, read_cb(s) PROVE Judged'
BY ReadData_Judged, ReadPart_Judged, ReadFlight_Judged, ReadUntrusted_Judged, ReadFails_Judged,
   ReadEnd_Judged
DEF read_cb

\* Every step of either end.
LEMMA Next_Judged == ASSUME TypeOK, Judged, [Next]_vars PROVE Judged'
<1>1. ASSUME NEW s \in Ends, LoopStep(s) PROVE Judged'
  BY <1>1, Start_Judged, read_cb_Judged, Transmit_Judged, write_cb_Judged, tcp_close_cb_Judged
  DEF LoopStep
<1>2. ASSUME NEW s \in Ends, Return(s) PROVE Judged'
  BY <1>2, ReturnVerify_Judged, ReturnHandshake_Judged, ReturnOther_Judged DEF Return
<1>3. ASSUME NEW s \in Ends, ScriptStep(s) PROVE Judged'
  BY <1>3, write_Judged, close_Judged DEF ScriptStep
<1>4. CASE UNCHANGED vars
  BY <1>4 DEF TypeOK, Judged, vars, history
<1> QED BY <1>1, <1>2, <1>3, <1>4 DEF Next

-----------------------------------------------------------------------------
(* What is on its way *)

\* What is said of the queues; and that a step takes no message from r without
\* handing it over, or the opposite.
Flow == NothingInvented /\ NothingLostWhileUp /\ Orderly
Spare(r) ==
    got[r] + Messages(Inbound(r)) + written'[Peer(r)]
       >= got'[r] + Messages(Inbound(r))' + written[Peer(r)]
Even(r) ==
    got[r] + Messages(Inbound(r)) + written'[Peer(r)]
       = got'[r] + Messages(Inbound(r))' + written[Peer(r)]

LEMMA Counts ==
    ASSUME TypeOK, TypeOK', NothingInvented, NothingLostWhileUp, Up' => Up, UNCHANGED cb,
           \A r \in Ends : Spare(r), Up' => \A r \in Ends : "read" \in cb[r] => Even(r)
    PROVE  NothingInvented' /\ NothingLostWhileUp'
<1>1. \A r \in Ends : /\ got[r] \in Nat /\ written[Peer(r)] \in Nat /\ Messages(Inbound(r)) \in Nat
                      /\ got'[r] \in Nat /\ written'[Peer(r)] \in Nat
                      /\ Messages(Inbound(r))' \in Nat
  <2>1. \A r \in Ends : Messages(Inbound(r)) \in Nat
    BY Flowing
  <2>2. ASSUME NEW r \in Ends PROVE Messages(Inbound(r))' \in Nat
    <3>1. bio'[r] \in Seq(Chunk) /\ wire'[Peer(r)] \in Seq(Chunk) /\ out'[Peer(r)] \in Seq(Chunk)
      BY Peers DEF TypeOK
    <3>2. bio'[r] \o (wire'[Peer(r)] \o out'[Peer(r)]) \in Seq(Chunk)
      BY <3>1, ConcatProperties
    <3>3. Inbound(r)' = bio'[r] \o (wire'[Peer(r)] \o out'[Peer(r)])
      BY DEF Inbound, Outbound
    <3> QED BY <3>2, <3>3, MessagesCount, Zenon
  <2> QED BY <2>1, <2>2, Peers DEF TypeOK
<1>2. NothingInvented'
  BY <1>1 DEF NothingInvented, Spare
<1>3. NothingLostWhileUp'
  <2>1. ASSUME Up', NEW s \in Ends, "read" \in cb'[s]
        PROVE  written'[Peer(s)] = got'[s] + Messages(Inbound(s))'
    <3>1. Up /\ "read" \in cb[s]
      BY <2>1
    <3>2. Even(s) /\ written[Peer(s)] = got[s] + Messages(Inbound(s))
      BY <2>1, <3>1 DEF NothingLostWhileUp
    <3> QED BY <1>1, <3>2 DEF Even
  <2> QED BY <2>1 DEF NothingLostWhileUp
<1> QED BY <1>2, <1>3

\* Nothing moves on the way, and nobody's turn comes or goes.
LEMMA Standstill ==
    ASSUME IInv, TypeOK', Up' => Up, UNCHANGED <<cb, written, got>>,
           \A r \in Ends : Inbound(r)' = Inbound(r),
           Up' => Progress' /\ \A r \in Ends : /\ Awaited(r)' = Awaited(r)
                                               /\ hs'[r] = "done" <=> hs[r] = "done"
    PROVE  Flow'
<1>1. NothingInvented' /\ NothingLostWhileUp'
  BY DEF IInv, NothingInvented, NothingLostWhileUp
<1>2. ASSUME Up' PROVE \A s \in Ends : InTurn(s)'
  <2>1. \A s \in Ends : InTurn(s)
    BY <1>2 DEF IInv, Orderly
  <2>2. \A s \in Ends : (hs'[Peer(s)] = "done") = (hs[Peer(s)] = "done")
    BY <1>2, Peers, Zenon
  <2>3. \A s \in Ends : Awaited(s)' = Awaited(s) /\ Inbound(s)' = Inbound(s)
    BY <1>2
  <2> QED BY <2>1, <2>2, <2>3, Zenon DEF InTurn
<1> QED BY <1>1, <1>2 DEF Flow, Orderly

LEMMA Still ==
    ASSUME IInv, TypeOK', Up' => Up, UNCHANGED <<cb, hs, written, got>>,
           \A r \in Ends : Inbound(r)' = Inbound(r),
           Up' => \A r \in Ends : frame'[r] = "verify" <=> frame[r] = "verify"
    PROVE  Flow'
<1>1. ASSUME Up' PROVE Progress'
  BY <1>1 DEF IInv, Orderly, Progress, Ends
<1>2. ASSUME Up' PROVE \A r \in Ends : Awaited(r)' = Awaited(r)
  BY <1>2 DEF Awaited, Ends
<1> QED BY <1>1, <1>2, Standstill

\* The queues keep still.
LEMMA NothingMoves ==
    ASSUME UNCHANGED <<bio, wire, out>> PROVE \A r \in Ends : Inbound(r)' = Inbound(r)
BY DEF Inbound, Outbound

\* An end that begins to close is not up any more.
LEMMA Closing ==
    ASSUME TypeOK, NEW s \in Ends, uv[s] # "fresh", uv' = [uv EXCEPT ![s] = Closed(@)]
    PROVE  ~Up'
BY DEF TypeOK, Closed, Up

\* What an end has sent and queued grows by cs.
LEMMA Adds ==
    ASSUME TypeOK, TypeOK', NEW s \in Ends, NEW cs \in Seq(Chunk),
           wire'[s] \o out'[s] = Outbound(s) \o cs, bio'[Peer(s)] = bio[Peer(s)]
    PROVE  /\ Inbound(Peer(s))' = Inbound(Peer(s)) \o cs
           /\ Messages(Inbound(Peer(s)))' = Messages(Inbound(Peer(s))) + Messages(cs)
<1>1. /\ bio[Peer(s)] \in Seq(Chunk) /\ Outbound(s) \in Seq(Chunk)
      /\ Inbound(Peer(s)) \in Seq(Chunk)
  BY Flowing, Peers
<1>2. Inbound(Peer(s)) = bio[Peer(s)] \o Outbound(s)
  BY Peers, Zenon DEF Inbound
<1>3. Inbound(Peer(s))' = bio[Peer(s)] \o (Outbound(s) \o cs)
  BY Peers, Zenon DEF Inbound, Outbound
<1>4. (bio[Peer(s)] \o Outbound(s)) \o cs = bio[Peer(s)] \o (Outbound(s) \o cs)
  BY <1>1, Associative, Zenon
<1>5. Inbound(Peer(s))' = Inbound(Peer(s)) \o cs
  BY <1>2, <1>3, <1>4, Zenon
<1>6. Messages(Inbound(Peer(s)) \o cs) = Messages(Inbound(Peer(s))) + Messages(cs)
  BY <1>1, MessagesConcat, Zenon
<1> QED BY <1>5, <1>6, Zenon

\* An end takes n chunks from the wire and the other's direction keeps still.
LEMMA Takes_In ==
    ASSUME TypeOK, NEW s \in Ends, NEW n \in 1..Len(wire[Peer(s)]),
           wire' = Consumed(s, n), out' = out, bio'[Peer(s)] = bio[Peer(s)]
    PROVE  /\ Inbound(s)' = bio'[s] \o (Consumed(s, n)[Peer(s)] \o out[Peer(s)])
           /\ Inbound(Peer(s))' = Inbound(Peer(s))
<1>1. wire'[s] = wire[s]
  BY Consume, Zenon
<1> QED BY <1>1, Peers, Zenon DEF Inbound, Outbound

\* Half a message goes from the wire to the BIO.
LEMMA ReadPart_Flow ==
    ASSUME IInv, TypeOK', NEW s \in Ends, NEW n \in 1..Len(wire[Peer(s)]), ReadPart(s, n)
    PROVE  Flow'
<1>1. TypeOK /\ wire' = Consumed(s, n) /\ bio' = [bio EXCEPT ![s] = Incoming(s, n)]
      /\ UNCHANGED <<cb, hs, uv, out, frame, written, got>>
  BY DEF IInv, ReadPart, config, history
<1>2. bio'[Peer(s)] = bio[Peer(s)] /\ bio'[s] = Incoming(s, n)
  BY <1>1, Peers DEF TypeOK
<1>3. Inbound(s)' = Inbound(s) /\ Inbound(Peer(s))' = Inbound(Peer(s))
  <2>1. /\ Inbound(s)' = bio'[s] \o (Consumed(s, n)[Peer(s)] \o out[Peer(s)])
        /\ Inbound(Peer(s))' = Inbound(Peer(s))
    BY <1>1, <1>2, Takes_In, Zenon
  <2>2. Inbound(s) = Incoming(s, n) \o (Consumed(s, n)[Peer(s)] \o out[Peer(s)])
    BY <1>1, Consume, Zenon
  <2> QED BY <1>2, <2>1, <2>2, Zenon
<1>4. \A r \in Ends : Inbound(r)' = Inbound(r)
  BY <1>3, Peers, Zenon
<1>5. Up' => Up
  BY <1>1 DEF Up
<1> QED BY <1>1, <1>4, <1>5, Still

\* A request leaves the queue for the wire.
LEMMA Transmit_Flow ==
    ASSUME IInv, TypeOK', NEW s \in Ends, Transmit(s) PROVE Flow'
<1> DEFINE h == Head(out[s])  t == Tail(out[s])
<1>1. TypeOK /\ out[s] # <<>> /\ UNCHANGED <<cb, hs, uv, bio, frame, written, got>>
      /\ wire' = [wire EXCEPT ![s] = Append(@, h)] /\ out' = [out EXCEPT ![s] = t]
  BY DEF IInv, Transmit, config, history
<1>2. /\ wire'[s] = Append(wire[s], h) /\ wire'[Peer(s)] = wire[Peer(s)]
      /\ out'[s] = t /\ out'[Peer(s)] = out[Peer(s)]
  <2>1. /\ Peer(s) \in Ends /\ Peer(s) # s
        /\ wire \in [Ends -> Seq(Chunk)] /\ out \in [Ends -> Seq(Chunk)]
    BY <1>1, Peers DEF TypeOK
  <2> HIDE DEF h, t
  <2> QED BY <1>1, <2>1
<1>3. wire[s] \in Seq(Chunk) /\ out[s] \in Seq(Chunk)
  BY <1>1 DEF TypeOK
<1>4. Append(wire[s], h) \o t = wire[s] \o out[s]
  <2>1. h \in Chunk /\ t \in Seq(Chunk) /\ <<h>> \in Seq(Chunk)
    BY <1>1, <1>3, HeadFirst
  <2>3. out[s] = <<h>> \o t
    BY <1>1, <1>3, HeadFirst
  <2>2. Append(wire[s], h) = wire[s] \o <<h>>
    BY <1>3, <2>1, AppendIsConcat, Zenon
  <2> HIDE DEF h, t
  <2>4. (wire[s] \o <<h>>) \o t = wire[s] \o (<<h>> \o t)
    BY <1>3, <2>1, Associative, Zenon
  <2> QED BY <2>2, <2>3, <2>4, Zenon
<1>5. Outbound(s)' = Outbound(s) /\ Outbound(Peer(s))' = Outbound(Peer(s))
  BY <1>2, <1>4, Zenon DEF Outbound
<1>6. \A r \in Ends : Outbound(r)' = Outbound(r)
  BY <1>5, Peers, Zenon
<1>7. \A r \in Ends : Inbound(r)' = Inbound(r)
  BY <1>1, <1>6, Peers DEF Inbound
<1>8. Up' => Up
  BY <1>1 DEF Up
<1> QED BY <1>1, <1>7, <1>8, Still

\* The end of a connection is read when the other end has closed.
LEMMA ReadEnd_Flow ==
    ASSUME IInv, TypeOK', NEW s \in Ends, ReadEnd(s) PROVE Flow'
<1>1. TypeOK /\ UNCHANGED <<cb, hs, bio, wire, out, written, got>>
  BY DEF IInv, ReadEnd, config, history
<1>2. ~Up'
  <2>1. uv'[Peer(s)] = uv[Peer(s)] /\ uv[Peer(s)] \in {"closing", "closed"}
    BY <1>1, Peers DEF TypeOK, ReadEnd
  <2> QED BY <2>1, Peers DEF Up
<1> QED BY <1>1, <1>2, NothingMoves, Still

\* Other callbacks end.
LEMMA ReturnOther_Flow ==
    ASSUME IInv, TypeOK', NEW s \in Ends, ReturnOther(s) PROVE Flow'
<1>1. TypeOK /\ UNCHANGED <<cb, hs, bio, wire, out, written, got>>
  BY DEF IInv, ReturnOther, config, history
<1>2. Up' => Up
  BY DEF Up, IInv, TypeOK, ReturnOther, AfterError, Closed
<1>3. \A r \in Ends : frame'[r] = "verify" <=> frame[r] = "verify"
  BY DEF IInv, TypeOK, ReturnOther, CallUser
<1> QED BY <1>1, <1>2, <1>3, NothingMoves, Still

\* The script closes.
LEMMA close_Flow ==
    ASSUME IInv, TypeOK', NEW s \in Ends, close(s) PROVE Flow'
<1>1. TypeOK /\ UNCHANGED <<cb, hs, bio, wire, out, frame, written, got>>
  BY DEF IInv, close, config, history
<1>2. ~Up'
  BY <1>1, Closing, Zenon DEF close
<1> QED BY <1>1, <1>2, NothingMoves, Still

\* The close ends.
LEMMA tcp_close_cb_Flow ==
    ASSUME IInv, TypeOK', NEW s \in Ends, tcp_close_cb(s) PROVE Flow'
<1>1. TypeOK /\ UNCHANGED <<cb, hs, bio, wire, out, frame, written, got>>
  BY DEF IInv, tcp_close_cb, config, history
<1>2. ~Up'
  BY <1>1 DEF TypeOK, tcp_close_cb, Up
<1> QED BY <1>1, <1>2, NothingMoves, Still

\* A message that is awaited is one, no data, and not nothing.
LEMMA AwaitedIs ==
    ASSUME NEW s \in Ends
    PROVE  \/ Awaited(s) = <<>>
           \/ /\ Awaited(s) \in Seq(Chunk) /\ Len(Awaited(s)) > 0 /\ Messages(Awaited(s)) = 0
              /\ \A i \in 1..Len(Awaited(s)) : Awaited(s)[i].last <=> i = Len(Awaited(s))
<1>1. ASSUME NEW m \in Flights, NEW n \in Nat \ {0}
      PROVE  LET e == Chunks(m, n)
             IN  /\ e \in Seq(Chunk) /\ Len(e) > 0 /\ Messages(e) = 0
                 /\ \A i \in 1..Len(e) : e[i].last <=> i = Len(e)
  <2>1. Chunks(m, n) \in Seq(Chunk) /\ Len(Chunks(m, n)) = n /\ Messages(Chunks(m, n)) = 0
    BY ChunksType, NoMessage
  <2>2. \A i \in 1..n : Chunks(m, n)[i].last <=> i = n
    BY ChunksAre
  <2> QED BY <2>1, <2>2
<1>2. \/ Awaited(s) = <<>>
      \/ \E m \in Flights : \E n \in Nat \ {0} : Awaited(s) = Chunks(m, n)
  <2>1. /\ 1 \in Nat \ {0} /\ 2 \in Nat \ {0} /\ "ClientHello" \in Flights
        /\ "ClientFinish" \in Flights /\ "ServerHello" \in Flights /\ "ServerFinish" \in Flights
    BY DEF Flights
  <2> QED BY <2>1, Zenon DEF Awaited
<1>3. CASE Awaited(s) = <<>>
  BY <1>3
<1>4. ASSUME NEW m \in Flights, NEW n \in Nat \ {0}, Awaited(s) = Chunks(m, n)
      PROVE  /\ Awaited(s) \in Seq(Chunk) /\ Len(Awaited(s)) > 0 /\ Messages(Awaited(s)) = 0
             /\ \A i \in 1..Len(Awaited(s)) : Awaited(s)[i].last <=> i = Len(Awaited(s))
  BY <1>1, <1>4, Zenon
<1> QED BY <1>2, <1>3, <1>4, Zenon

\* While both ends are up, a handshake message that comes is the one awaited:
\* there are four of them.  Reading it takes no data.
LEMMA Arrives ==
    ASSUME IInv, Up, NEW s \in Ends, NEW b \in Seq(Chunk), NEW r \in Seq(Chunk),
           Inbound(s) = b \o r, Arrived(b), hs[s] \in {"hello", "finish"}
    PROVE  /\ \/ s = "server" /\ hs["client"] = "hello" /\ hs["server"] = "hello"
              \/ s = "server" /\ hs["client"] = "finish" /\ hs["server"] = "finish"
              \/ s = "client" /\ hs["client"] = "hello" /\ hs["server"] = "finish"
              \/ s = "client" /\ hs["client"] = "finish" /\ hs["server"] = "done"
           /\ Follows(After(b) \o r, <<>>, hs[Peer(s)] = "done")
           /\ Messages(After(b) \o r) = Messages(Inbound(s))
<1> DEFINE t == (hs[Peer(s)] = "done")
<1>1. Progress /\ InTurn(s)
  BY DEF IInv, Orderly
<1>2. Follows(b \o r, Awaited(s), t) /\ t \in BOOLEAN
  BY <1>1, Zenon DEF InTurn
<1> HIDE DEF t
<1>3. Awaited(s) # <<>>
  <2>1. SUFFICES ASSUME Awaited(s) = <<>> PROVE FALSE
    OBVIOUS
  <2>2. ~t
    BY <1>1, <2>1 DEF Awaited, Progress, Chunks, Ends, Peer, t
  <2>3. b \o r \in Seq(Chunk)
    BY ConcatProperties
  <2>4. b \o r = <<>>
    BY <1>2, <2>1, <2>2, <2>3, FollowsEmpty, Zenon
  <2>5. b = <<>>
    BY <2>4, ConcatEqualIffEmpty
  <2> QED BY <2>5 DEF Arrived
<1>4. \/ s = "server" /\ hs["client"] = "hello" /\ hs["server"] = "hello"
      \/ s = "server" /\ hs["client"] = "finish" /\ hs["server"] = "finish"
      \/ s = "client" /\ hs["client"] = "hello" /\ hs["server"] = "finish"
      \/ s = "client" /\ hs["client"] = "finish" /\ hs["server"] = "done"
  <2>1. s = "server" \/ s = "client"
    BY DEF Ends
  <2> QED BY <1>3, <2>1, Zenon DEF Awaited
<1>5. /\ Awaited(s) \in Seq(Chunk) /\ Len(Awaited(s)) > 0 /\ Messages(Awaited(s)) = 0
      /\ \A i \in 1..Len(Awaited(s)) : Awaited(s)[i].last <=> i = Len(Awaited(s))
  BY <1>3, AwaitedIs
<1>6. Follows(After(b) \o r, <<>>, t) /\ Messages(After(b) \o r) = Messages(b \o r)
  BY <1>2, <1>5, FollowsAfter
<1> QED BY <1>4, <1>6 DEF t

\* An end is closing: the counts alone matter.
LEMMA Fewer ==
    ASSUME IInv, TypeOK', UNCHANGED cb, ~Up', \A r \in Ends : Spare(r) PROVE Flow'
BY Counts DEF IInv, Flow, Orderly

\* The loop of read_cb hands over every whole message that is in the BIO.
LEMMA DataLoop_Flow ==
    ASSUME TypeOK, NEW s \in Ends, NEW b \in Seq(Chunk), NEW r \in Seq(Chunk),
           Inbound(s) = b \o r, DataLoop(s, b), Inbound(s)' = bio'[s] \o r, written' = written
    PROVE  /\ got' = [got EXCEPT ![s] = @ + IF "read" \in cb[s] THEN Messages(b) ELSE 0]
           /\ frame[s] # "verify" => \A e \in Ends : frame'[e] = "verify" <=> frame[e] = "verify"
           /\ Spare(s) /\ ("read" \in cb[s] => Even(s))
           /\ \A t \in BOOLEAN : Follows(Inbound(s), <<>>, t) => Follows(Inbound(s)', <<>>, t)
<1>1. bio'[s] = Partial(b)
  BY DEF TypeOK, DataLoop
<1>2. /\ Partial(b) \in Seq(Chunk) /\ Messages(Partial(b)) = 0
      /\ \E a \in Seq(Chunk) : b = a \o Partial(b)
  BY PartialIs, Zenon
<1>3. Messages(b) \in Nat /\ Messages(r) \in Nat
  BY MessagesCount
<1>4. Messages(Inbound(s)) = Messages(b) + Messages(r) /\ Messages(Inbound(s))' = Messages(r)
  <2>1. Messages(Partial(b) \o r) = 0 + Messages(r)
    BY <1>2, MessagesConcat
  <2>2. Messages(b \o r) = Messages(b) + Messages(r)
    BY MessagesConcat
  <2>3. Messages(Inbound(s)') = Messages(Partial(b) \o r)
    BY <1>1
  <2> QED BY <1>3, <2>1, <2>2, <2>3
<1>5. got \in [Ends -> Nat] /\ got[s] \in Nat /\ written[Peer(s)] \in Nat
  BY Peers DEF TypeOK
<1>6. got' = [got EXCEPT ![s] = @ + IF "read" \in cb[s] THEN Messages(b) ELSE 0]
  <2>1. CASE "read" \in cb[s]
    BY <2>1 DEF DataLoop
  <2>2. CASE "read" \notin cb[s]
    <3>1. got' = got
      BY <2>2 DEF DataLoop
    <3> QED BY <1>5, <2>2, <3>1
  <2> QED BY <2>1, <2>2
<1>7. Spare(s) /\ ("read" \in cb[s] => Even(s))
  BY <1>3, <1>4, <1>5, <1>6 DEF Spare, Even
<1>8. \A t \in BOOLEAN : Follows(Inbound(s), <<>>, t) => Follows(Inbound(s)', <<>>, t)
  <2>1. PICK a \in Seq(Chunk) : b = a \o Partial(b)
    BY <1>2, Zenon
  <2>2. Partial(b) \o r \in Seq(Chunk)
    BY <1>2, ConcatProperties
  <2>3. (a \o Partial(b)) \o r = a \o (Partial(b) \o r)
    BY <1>2, Associative, ZenonT(30)
  <2>4. Inbound(s) = a \o (Partial(b) \o r) /\ Inbound(s)' = Partial(b) \o r
    BY <1>1, <2>1, <2>3, Zenon
  <2>5. ASSUME NEW t \in BOOLEAN, Follows(Inbound(s), <<>>, t)
        PROVE  Follows(Inbound(s)', <<>>, t)
    <3>1. Follows(a \o (Partial(b) \o r), <<>>, t)
      BY <2>4, <2>5, Zenon
    <3>2. \A q \in Seq(Chunk) : Follows(a \o q, <<>>, t) => Follows(q, <<>>, t)
      BY FollowsRest
    <3>3. Follows(Partial(b) \o r, <<>>, t)
      BY <2>2, <3>1, <3>2, Zenon
    <3> QED BY <2>4, <3>3, Zenon
  <2> QED BY <2>5
<1>9. frame[s] # "verify" => \A e \in Ends : frame'[e] = "verify" <=> frame[e] = "verify"
  BY Zenon DEF TypeOK, DataLoop, CallUser
<1> QED BY <1>6, <1>7, <1>8, <1>9

\* A direction in which nothing happens.
LEMMA Untouched ==
    ASSUME NEW r \in Ends, Inbound(r)' = Inbound(r), got'[r] = got[r],
           written'[Peer(r)] = written[Peer(r)], TypeOK
    PROVE  Spare(r) /\ Even(r)
<1>1. got[r] \in Nat /\ written[Peer(r)] \in Nat /\ Messages(Inbound(r)) \in Nat
  BY Flowing, Numbers, Zenon
<1>2. Messages(Inbound(r))' = Messages(Inbound(r))
  OBVIOUS
<1> QED BY <1>1, <1>2 DEF Spare, Even

\* An end that is through the handshake awaits only data.
LEMMA DataLoop_Turns ==
    ASSUME IInv, TypeOK', NEW s \in Ends, NEW b \in Seq(Chunk), NEW r \in Seq(Chunk),
           Inbound(s) = b \o r, DataLoop(s, b), Inbound(s)' = bio'[s] \o r,
           Inbound(Peer(s))' = Inbound(Peer(s)), UNCHANGED <<cb, hs, uv, written>>,
           hs[s] = "done", frame[s] # "verify"
    PROVE  Flow'
<1>1. /\ got' = [got EXCEPT ![s] = @ + IF "read" \in cb[s] THEN Messages(b) ELSE 0]
      /\ \A e \in Ends : frame'[e] = "verify" <=> frame[e] = "verify"
      /\ Spare(s) /\ ("read" \in cb[s] => Even(s))
      /\ \A t \in BOOLEAN : Follows(Inbound(s), <<>>, t) => Follows(Inbound(s)', <<>>, t)
  BY DataLoop_Flow, Zenon DEF IInv
<1>2. Spare(Peer(s)) /\ Even(Peer(s))
  <2>1. got'[Peer(s)] = got[Peer(s)]
    BY <1>1, Peers DEF IInv, TypeOK
  <2> QED BY <2>1, Untouched, Peers DEF IInv
<1>3. Up' => Up
  BY DEF Up
<1>4. NothingInvented' /\ NothingLostWhileUp'
  <2>1. \A e \in Ends : Spare(e) /\ ("read" \in cb[e] => Even(e))
    BY <1>1, <1>2, Peers, Zenon
  <2> QED BY <1>3, <2>1, Counts DEF IInv
<1>5. ASSUME Up' PROVE Progress' /\ InTurn(s)' /\ InTurn(Peer(s))'
  <2>1. Progress /\ InTurn(s) /\ InTurn(Peer(s))
    BY <1>3, <1>5, Peers DEF IInv, Orderly
  <2>2. Progress'
    BY <1>1, <2>1 DEF Progress, Ends
  <2>3. Awaited(s) = <<>> /\ Awaited(s)' = <<>> /\ Awaited(Peer(s))' = Awaited(Peer(s))
    BY <1>1 DEF Awaited, Ends, Peer
  <2>4. InTurn(Peer(s))'
    BY <2>1, <2>3, Zenon DEF InTurn
  <2>5. (hs[Peer(s)] = "done") \in BOOLEAN
    OBVIOUS
  <2>6. InTurn(s)'
    BY <1>1, <2>1, <2>3, <2>5, Zenon DEF InTurn
  <2> QED BY <2>2, <2>4, <2>6
<1> QED BY <1>4, <1>5, Peers, Zenon DEF Flow, Orderly

\* Data is read.
LEMMA ReadData_Flow ==
    ASSUME IInv, TypeOK', NEW s \in Ends, NEW n \in 1..Len(wire[Peer(s)]), ReadData(s, n)
    PROVE  Flow'
<1> DEFINE b == Incoming(s, n)  r == Consumed(s, n)[Peer(s)] \o out[Peer(s)]
<1>1. /\ TypeOK /\ wire' = Consumed(s, n) /\ DataLoop(s, b) /\ hs[s] = "done"
      /\ frame[s] # "verify" /\ UNCHANGED <<cb, hs, uv, out, written>>
  BY DEF IInv, ReadData, Reading, Serving, config
<1>2. bio'[Peer(s)] = bio[Peer(s)]
  BY <1>1, Peers DEF TypeOK, DataLoop
<1>3. b \in Seq(Chunk) /\ r \in Seq(Chunk) /\ Inbound(s) = b \o r
  BY <1>1, Consume, Zenon
<1>4. Inbound(s)' = bio'[s] \o r /\ Inbound(Peer(s))' = Inbound(Peer(s))
  BY <1>1, <1>2, Takes_In, Zenon
<1> HIDE DEF b, r
<1> QED BY <1>1, <1>3, <1>4, DataLoop_Turns, Zenon

\* The answer about the name or the session; the last one is followed by the
\* data that came with the end of the handshake.
LEMMA ReturnHandshake_Flow ==
    ASSUME IInv, TypeOK', NEW s \in Ends, NEW v, ReturnHandshake(s, v) PROVE Flow'
<1>1. /\ TypeOK /\ UNCHANGED <<cb, hs, wire, out, written>>
      /\ frame[s] \in {"mismatch", "finish"}
  BY DEF IInv, ReturnHandshake, config
<1>2. hs[s] = "done" /\ uv[s] # "fresh"
  BY <1>1 DEF IInv, Judged
<1>3. CASE ~v
  <2>1. UNCHANGED <<bio, got>> /\ uv' = [uv EXCEPT ![s] = Closed(@)]
    BY <1>3 DEF ReturnHandshake, Refused
  <2>2. ~Up'
    BY <1>1, <1>2, <2>1, Closing, Zenon
  <2> QED BY <1>1, <2>1, <2>2, NothingMoves, Still
<1>4. CASE v /\ frame[s] = "mismatch"
  <2>1. UNCHANGED <<bio, got, uv>> /\ CallUser(s, "finish")
    BY <1>4 DEF ReturnHandshake
  <2>2. Up' => Up
    BY <2>1 DEF Up
  <2>3. \A r \in Ends : frame'[r] = "verify" <=> frame[r] = "verify"
    BY <1>1, <2>1 DEF TypeOK, CallUser
  <2> QED BY <1>1, <2>1, <2>2, <2>3, NothingMoves, Still
<1>5. CASE v /\ frame[s] = "finish"
  <2>1. DataLoop(s, bio[s]) /\ UNCHANGED uv
    BY <1>5 DEF ReturnHandshake
  <2>2. bio'[Peer(s)] = bio[Peer(s)]
    BY <1>1, <2>1, Peers DEF TypeOK, DataLoop
  <2>3. bio[s] \in Seq(Chunk) /\ Outbound(Peer(s)) \in Seq(Chunk)
    BY <1>1, Flowing, Peers
  <2>4. /\ Inbound(s) = bio[s] \o Outbound(Peer(s))
        /\ Inbound(s)' = bio'[s] \o Outbound(Peer(s))
        /\ Inbound(Peer(s))' = Inbound(Peer(s))
    BY <1>1, <2>2, Peers DEF Inbound, Outbound
  <2> QED BY <1>1, <1>2, <2>1, <2>3, <2>4, DataLoop_Turns, Zenon
<1> QED BY <1>1, <1>3, <1>4, <1>5

\* The script writes one message.
LEMMA write_Flow ==
    ASSUME IInv, TypeOK', NEW s \in Ends, NEW n \in Sizes, NEW k \in 0..2, write(s, n, k)
    PROVE  Flow'
<1> DEFINE p == Peer(s)  cs == Chunks("data", n)
<1>1. /\ TypeOK /\ write_bio_to_socket(s, cs, k, wire) /\ uv[s] = "open" /\ hs[s] = "done"
      /\ UNCHANGED <<cb, hs, uv, bio, frame, got>>
      /\ written' = [written EXCEPT ![s] = @ + 1]
  BY DEF IInv, write, config
<1>2. n \in Nat \ {0} /\ p \in Ends /\ p # s /\ Peer(p) = s
  BY BoundAssumption, Peers
<1>3. cs \in Seq(Chunk) /\ Messages(cs) = 1 /\ AllData(cs)
  <2>1. n \in Nat /\ "data" \in Flights \cup {"alert", "data"}
    BY <1>2
  <2>2. Len(cs) = n
    BY <2>1, ChunksType, Zenon
  <2>3. \A i \in 1..n : cs[i].msg = "data"
    BY <2>1, ChunksAre
  <2> QED BY <1>2, <2>2, <2>3, OneMessage DEF AllData
<1> HIDE DEF cs, p
<1>4. k \in Nat /\ wire \in [Ends -> Seq(Chunk)]
  BY <1>1 DEF TypeOK
<1>5. /\ wire'[p] = wire[p] /\ out'[p] = out[p]
      /\ wire'[s] \o out'[s] = Outbound(s) \o cs
  BY <1>1, <1>3, <1>4, WriteBio, Zenon DEF Outbound, p
<1>6. /\ Inbound(p)' = Inbound(p) \o cs
      /\ Messages(Inbound(p))' = Messages(Inbound(p)) + Messages(cs)
  BY <1>1, <1>3, <1>5, Adds, Zenon DEF p
<1>7. Inbound(s)' = Inbound(s)
  BY <1>1, <1>2, <1>5 DEF Inbound, Outbound, p
<1>8. Spare(s) /\ Even(s)
  <2>1. written'[Peer(s)] = written[Peer(s)]
    BY <1>1, <1>2 DEF TypeOK, p
  <2> QED BY <1>1, <1>7, <2>1, Untouched
<1>9. Spare(p) /\ Even(p)
  <2>1. written'[s] = written[s] + 1 /\ written[s] \in Nat /\ got[p] \in Nat
    BY <1>1, <1>2 DEF TypeOK
  <2>2. Messages(Inbound(p)) \in Nat
    BY <1>1, <1>2, Flowing
  <2>3. /\ written'[Peer(p)] = written[Peer(p)] + 1 /\ got'[p] = got[p]
        /\ written[Peer(p)] \in Nat
    BY <1>1, <1>2, <2>1
  <2>4. Messages(Inbound(p))' = Messages(Inbound(p)) + 1
    BY <1>3, <1>6
  <2> QED BY <2>1, <2>2, <2>3, <2>4 DEF Spare, Even
<1>10. Up' => Up
  BY <1>1 DEF Up
<1>11. \A r \in Ends : r = s \/ r = p
  BY Peers DEF p
<1>12. NothingInvented' /\ NothingLostWhileUp'
  <2>1. \A r \in Ends : Spare(r) /\ Even(r)
    BY <1>8, <1>9, <1>11, Zenon
  <2> QED BY <1>1, <1>10, <2>1, Counts DEF IInv
<1>13. ASSUME Up' PROVE Progress' /\ InTurn(s)' /\ InTurn(p)'
  <2>1. Progress /\ InTurn(s) /\ InTurn(p)
    BY <1>2, <1>10, <1>13 DEF IInv, Orderly
  <2>2. Progress' /\ \A r \in Ends : Awaited(r)' = Awaited(r)
    BY <1>1, <2>1 DEF Progress, Awaited
  <2>3. InTurn(s)'
    BY <1>1, <1>7, <2>1, <2>2, Zenon DEF InTurn
  <2>4. Follows(Inbound(p), Awaited(p), TRUE)
    <3>1. (hs[Peer(p)] = "done") = TRUE
      BY <1>1, <1>2
    <3> QED BY <2>1, <3>1, Zenon DEF InTurn
  <2>5. Inbound(p) \in Seq(Chunk) /\ Awaited(p) \in Seq(Chunk)
    BY <1>1, <1>2, Flowing, AwaitedIs, EmptySeq, Zenon
  <2>6. Follows(Inbound(p)', Awaited(p)', TRUE)
    <3>1. Follows(Inbound(p) \o cs, Awaited(p), TRUE)
      BY <1>3, <2>4, <2>5, FollowsData, Zenon
    <3> QED BY <1>2, <1>6, <2>2, <3>1, Zenon
  <2>7. (hs'[Peer(p)] = "done") = TRUE
    BY <1>1, <1>2
  <2>8. InTurn(p)'
    BY <2>6, <2>7, Zenon DEF InTurn
  <2> QED BY <2>2, <2>3, <2>8
<1> QED BY <1>11, <1>12, <1>13 DEF Flow, Orderly

\* A request is reported, or cancelled by the close.
LEMMA write_cb_Flow ==
    ASSUME IInv, TypeOK', NEW s \in Ends, write_cb(s) PROVE Flow'
<1>1. TypeOK /\ frame[s] = "none" /\ UNCHANGED <<cb, hs, uv, bio, wire, written, got>>
  BY DEF IInv, write_cb, config, history
<1>2. CASE out' = out
  <2>1. \A r \in Ends : frame'[r] = "verify" <=> frame[r] = "verify"
    <3>1. frame \in [Ends -> Frames] /\ frame[s] # "verify"
      BY <1>1 DEF TypeOK
    <3>2. frame' = frame \/ frame' = [frame EXCEPT ![s] = "write"]
      BY DEF write_cb, Report, CallUser
    <3> QED BY <3>1, <3>2
  <2>2. Up' => Up
    BY <1>1 DEF Up
  <2> QED BY <1>1, <1>2, <2>1, <2>2, NothingMoves, Still
<1>3. CASE out' # out
  <2>1. out[s] # <<>> /\ uv[s] = "closing" /\ out' = [out EXCEPT ![s] = Tail(@)]
    BY <1>3 DEF write_cb
  <2>2. ~Up'
    BY <1>1, <2>1 DEF Up
  <2>3. wire[s] \in Seq(Chunk) /\ out[s] \in Seq(Chunk)
    BY <1>1, Flowing
  <2>4. /\ out'[s] = Tail(out[s]) /\ out'[Peer(s)] = out[Peer(s)] /\ Tail(out[s]) \in Seq(Chunk)
        /\ <<Head(out[s])>> \in Seq(Chunk) /\ out[s] = <<Head(out[s])>> \o Tail(out[s])
    <3>1. Peer(s) \in Ends /\ Peer(s) # s /\ out \in [Ends -> Seq(Chunk)]
      BY <1>1, Peers DEF TypeOK
    <3>2. out'[s] = Tail(out[s]) /\ out'[Peer(s)] = out[Peer(s)]
      BY <2>1, <3>1
    <3> QED BY <2>1, <2>3, <3>2, HeadFirst
  <2>5. Messages(Outbound(s))' <= Messages(Outbound(s)) /\ Messages(Outbound(s))' \in Nat
    <3>1. Messages(out[s]) = Messages(<<Head(out[s])>>) + Messages(Tail(out[s]))
      BY <2>4, MessagesConcat, Zenon
    <3>2. Messages(Outbound(s)) = Messages(wire[s]) + Messages(out[s])
      BY <2>3, MessagesConcat DEF Outbound
    <3>3. Outbound(s)' = wire[s] \o Tail(out[s])
      BY <1>1, <2>4 DEF Outbound
    <3>4. Messages(wire[s] \o Tail(out[s])) = Messages(wire[s]) + Messages(Tail(out[s]))
      BY <2>3, <2>4, MessagesConcat, Zenon
    <3>5. Messages(wire[s]) \in Nat /\ Messages(Tail(out[s])) \in Nat
          /\ Messages(<<Head(out[s])>>) \in Nat
      BY <2>3, <2>4, MessagesCount, Zenon
    <3> QED BY <3>1, <3>2, <3>3, <3>4, <3>5
  <2>6. /\ Messages(Inbound(Peer(s))) = Messages(bio[Peer(s)]) + Messages(Outbound(s))
        /\ Messages(Inbound(Peer(s)))' = Messages(bio[Peer(s)]) + Messages(Outbound(s))'
        /\ Messages(bio[Peer(s)]) \in Nat /\ Messages(Outbound(s)) \in Nat
    <3>1. bio[Peer(s)] \in Seq(Chunk) /\ Outbound(s) \in Seq(Chunk)
      BY <1>1, Flowing, Peers
    <3>2. Inbound(Peer(s)) = bio[Peer(s)] \o Outbound(s)
      BY Peers DEF Inbound
    <3>3. Inbound(Peer(s))' = bio[Peer(s)] \o Outbound(s)'
      BY <1>1, Peers DEF Inbound
    <3>4. Outbound(s)' \in Seq(Chunk)
      <4>1. Outbound(s)' = wire[s] \o Tail(out[s])
        BY <1>1, <2>4 DEF Outbound
      <4> QED BY <2>3, <2>4, <4>1, ConcatProperties
    <3> QED BY <3>1, <3>2, <3>3, <3>4, MessagesConcat, MessagesCount, Zenon
  <2>7. Spare(Peer(s))
    <3>1. got[Peer(s)] \in Nat /\ written[s] \in Nat /\ Peer(Peer(s)) = s
      BY <1>1, Peers DEF TypeOK
    <3> QED BY <1>1, <2>5, <2>6, <3>1 DEF Spare
  <2>8. Inbound(s)' = Inbound(s)
    BY <1>1, <2>4 DEF Inbound, Outbound
  <2>9. Spare(s)
    BY <1>1, <2>8, Untouched
  <2>10. \A r \in Ends : Spare(r)
    BY <2>7, <2>9, Peers, Zenon
  <2> QED BY <1>1, <2>2, <2>10, Fewer
<1> QED BY <1>2, <1>3

\* While nothing is awaited and the peer is not through, nothing is on its way.
LEMMA Quiet ==
    ASSUME TypeOK, NEW e \in Ends, InTurn(e), Awaited(e) = <<>>, hs[Peer(e)] # "done"
    PROVE  Inbound(e) = <<>>
<1>1. Inbound(e) \in Seq(Chunk)
  BY Flowing
<1>2. Follows(Inbound(e), <<>>, FALSE)
  <2>1. (hs[Peer(e)] = "done") = FALSE
    OBVIOUS
  <2> QED BY <2>1, Zenon DEF InTurn
<1> QED BY <1>1, <1>2, FollowsEmpty, Zenon

\* An end reads a handshake message.
LEMMA Reads ==
    ASSUME TypeOK, NEW s \in Ends, NEW n \in 1..Len(wire[Peer(s)]),
           Arrived(Incoming(s, n)), bio' = [bio EXCEPT ![s] = After(Incoming(s, n))],
           wire'[Peer(s)] = Consumed(s, n)[Peer(s)], out'[Peer(s)] = out[Peer(s)]
    PROVE  LET b == Incoming(s, n)  r == Consumed(s, n)[Peer(s)] \o out[Peer(s)]
           IN  /\ b \in Seq(Chunk) /\ r \in Seq(Chunk) /\ Inbound(s) = b \o r
               /\ Inbound(s)' = After(b) \o r
               /\ Messages(Inbound(s))' <= Messages(Inbound(s))
               /\ Messages(Inbound(s))' \in Nat /\ Messages(Inbound(s)) \in Nat
<1> DEFINE b == Incoming(s, n)  r == Consumed(s, n)[Peer(s)] \o out[Peer(s)]
<1>1. b \in Seq(Chunk) /\ r \in Seq(Chunk) /\ Inbound(s) = b \o r
  BY Consume, Zenon
<1>2. Inbound(s)' = After(b) \o r
  BY Zenon DEF TypeOK, Inbound, Outbound
<1> HIDE DEF b, r
<1>3. PICK a \in Seq(Chunk) : After(b) \in Seq(Chunk) /\ b = a \o After(b)
  BY <1>1, AfterIs, Zenon DEF b
<1>4. Messages(b) = Messages(a) + Messages(After(b))
  BY <1>3, MessagesConcat, Zenon
<1>5. Messages(b \o r) = Messages(b) + Messages(r)
  BY <1>1, MessagesConcat, Zenon
<1>6. Messages(After(b) \o r) = Messages(After(b)) + Messages(r)
  BY <1>1, <1>3, MessagesConcat, Zenon
<1>7. Messages(a) \in Nat /\ Messages(After(b)) \in Nat /\ Messages(r) \in Nat
  BY <1>1, <1>3, MessagesCount
<1>8. Messages(Inbound(s))' = Messages(After(b) \o r) /\ Messages(Inbound(s)) = Messages(b \o r)
  BY <1>1, <1>2
<1>9. /\ Messages(Inbound(s))' <= Messages(Inbound(s))
      /\ Messages(Inbound(s))' \in Nat /\ Messages(Inbound(s)) \in Nat
  BY <1>4, <1>5, <1>6, <1>7, <1>8
<1> QED BY <1>1, <1>2, <1>9 DEF b, r

\* A handshake message is read and the answer written: it becomes the other
\* end's turn, with exactly this answer on the way.
LEMMA ReadFlight_Flow ==
    ASSUME IInv, TypeOK', NEW s \in Ends, NEW n \in 1..Len(wire[Peer(s)]), NEW k \in 0..2,
           ReadFlight(s, n, k)
    PROVE  Flow'
<1> DEFINE p == Peer(s)  b == Incoming(s, n)  r == Consumed(s, n)[p] \o out[p]
           next == IF hs[s] = "hello" THEN "finish" ELSE "done"
<1>1. /\ TypeOK /\ write_bio_to_socket(s, Flight(s), k, Consumed(s, n)) /\ k \in Nat
      /\ uv[s] = "open" /\ frame[s] = "none" /\ hs[s] \in {"hello", "finish"} /\ Arrived(b)
      /\ bio' = [bio EXCEPT ![s] = After(b)] /\ hs' = [hs EXCEPT ![s] = next]
      /\ UNCHANGED <<cb, written, got>>
  BY DEF IInv, ReadFlight, Reading, Serving, config
<1>2. p \in Ends /\ p # s /\ Peer(p) = s /\ \A e \in Ends : e = s \/ e = p
  BY Peers
<1>3. Flight(s) \in Seq(Chunk) /\ Messages(Flight(s)) = 0
  BY FlightIs
<1>4. /\ wire'[p] = Consumed(s, n)[p] /\ out'[p] = out[p]
      /\ wire'[s] \o out'[s] = Outbound(s) \o Flight(s)
  <2>1. Consumed(s, n) \in [Ends -> Seq(Chunk)] /\ Consumed(s, n)[s] = wire[s]
    BY <1>1, Consume, Zenon
  <2>2. /\ wire'[p] = Consumed(s, n)[p] /\ out'[p] = out[p]
        /\ wire'[s] \o out'[s] = (Consumed(s, n)[s] \o out[s]) \o Flight(s)
    BY <1>1, <1>3, <2>1, WriteBio, ZenonT(40)
  <2> QED BY <2>1, <2>2 DEF Outbound
<1>5. /\ b \in Seq(Chunk) /\ r \in Seq(Chunk) /\ Inbound(s) = b \o r
      /\ Inbound(s)' = After(b) \o r
      /\ Messages(Inbound(s))' <= Messages(Inbound(s))
      /\ Messages(Inbound(s))' \in Nat /\ Messages(Inbound(s)) \in Nat
  BY <1>1, <1>4, Reads, Zenon
<1> HIDE DEF p, b, r
<1>6. /\ Inbound(p)' = Inbound(p) \o Flight(s) /\ Messages(Inbound(p)) \in Nat
      /\ Messages(Inbound(p))' = Messages(Inbound(p))
  <2>1. bio'[p] = bio[p]
    BY <1>1, <1>2 DEF TypeOK
  <2>2. Messages(Inbound(p)) \in Nat
    BY <1>1, <1>2, Flowing
  <2>3. /\ Inbound(p)' = Inbound(p) \o Flight(s)
        /\ Messages(Inbound(p))' = Messages(Inbound(p)) + Messages(Flight(s))
    BY <1>1, <1>3, <1>4, <2>1, Adds, Zenon DEF p
  <2> QED BY <1>3, <2>2, <2>3
<1>7. \A e \in Ends : got[e] \in Nat /\ written[e] \in Nat
  BY <1>1, Numbers
<1>8. Spare(s) /\ Spare(p) /\ Even(p)
  <2>1. Spare(s)
    BY <1>1, <1>2, <1>5, <1>7 DEF Spare, p
  <2>2. Spare(p) /\ Even(p)
    BY <1>1, <1>2, <1>6, <1>7 DEF Spare, Even
  <2> QED BY <2>1, <2>2
<1>9. ASSUME Up'
      PROVE  Up /\ \A e \in Ends : frame'[e] = "verify" <=> frame[e] = "verify"
  <2>1. CASE hs[s] = "hello"
    BY <1>9, <2>1 DEF ReadFlight, Up
  <2>2. CASE hs[s] # "hello"
    <3>1. PICK name \in {"mismatch", "finish"} : CallHandshake(s, name)
      BY <2>2 DEF ReadFlight
    <3>2. uv' # [uv EXCEPT ![s] = Closed(@)]
      BY <1>1, <1>9, Closing
    <3>3. uv' = uv /\ CallUser(s, name)
      BY <3>1, <3>2 DEF CallHandshake, Refused
    <3>4. Up
      BY <1>9, <3>3 DEF Up
    <3>5. frame' = [frame EXCEPT ![s] = name] /\ frame \in [Ends -> Frames]
      BY <1>1, <3>3 DEF CallUser, TypeOK
    <3>6. \A e \in Ends : frame'[e] = "verify" <=> frame[e] = "verify"
      BY <1>1, <3>5
    <3> QED BY <3>4, <3>6
  <2> QED BY <2>1, <2>2
<1>10. ASSUME Up'
       PROVE  /\ \/ s = "server" /\ hs["client"] = "hello" /\ hs["server"] = "hello"
                 \/ s = "server" /\ hs["client"] = "finish" /\ hs["server"] = "finish"
                 \/ s = "client" /\ hs["client"] = "hello" /\ hs["server"] = "finish"
                 \/ s = "client" /\ hs["client"] = "finish" /\ hs["server"] = "done"
              /\ Follows(After(b) \o r, <<>>, hs[p] = "done")
              /\ Messages(After(b) \o r) = Messages(Inbound(s))
  BY <1>1, <1>5, <1>9, <1>10, Arrives, Zenon DEF p
<1>11. NothingInvented' /\ NothingLostWhileUp'
  <2>1. \A e \in Ends : Spare(e)
    BY <1>2, <1>8, Zenon
  <2>2. ASSUME Up' PROVE \A e \in Ends : Even(e)
    <3>1. Messages(Inbound(s))' = Messages(Inbound(s))
      BY <1>5, <1>10, <2>2
    <3>2. Even(s)
      BY <1>1, <1>5, <3>1 DEF Even
    <3> QED BY <1>2, <1>8, <3>2, Zenon
  <2> QED BY <1>1, <1>9, <2>1, <2>2, Counts DEF IInv
<1>12. ASSUME Up' PROVE Progress' /\ InTurn(s)' /\ InTurn(p)'
  <2>1. Progress /\ InTurn(s) /\ InTurn(p)
    BY <1>2, <1>9, <1>12 DEF IInv, Orderly
  <2>2. /\ hs'["client"] = IF s = "client" THEN next ELSE hs["client"]
        /\ hs'["server"] = IF s = "server" THEN next ELSE hs["server"]
        /\ frame'["client"] = "verify" <=> frame["client"] = "verify"
        /\ frame'["server"] = "verify" <=> frame["server"] = "verify"
    BY <1>1, <1>9, <1>12, Zenon DEF TypeOK, Ends
  <2>3. Progress'
    <3>1. /\ frame'["server"] # "verify"
          /\ frame'["client"] = "verify" => hs'["server"] = "finish"
      <4>1. frame["client"] # "verify" /\ frame["server"] # "verify"
        BY <1>1, <1>10, <1>12, <2>1 DEF Progress, IInv, Judged, Ends
      <4> QED BY <2>2, <4>1
    <3>2. \/ hs'["client"] = "hello" /\ hs'["server"] = "finish"
          \/ hs'["client"] = "finish" /\ hs'["server"] = "done"
          \/ hs'["client"] = "finish" /\ hs'["server"] = "finish"
          \/ hs'["client"] = "done" /\ hs'["server"] = "done"
      BY <1>10, <1>12, <2>2
    <3> QED BY <3>1, <3>2 DEF Progress
  <2>4. Awaited(p) = <<>> /\ hs[s] # "done"
    BY <1>1, <1>10, <1>12, <2>1 DEF Awaited, Progress, p, Peer
  <2>5. Awaited(s)' = <<>>
    BY <1>1, <1>10, <1>12, <2>1, <2>2 DEF Awaited, Progress
  <2>6. Awaited(p)' = Flight(s)
    BY <1>1, <1>10, <1>12, <2>1, <2>2 DEF Awaited, Progress, Flight, p, Peer
  <2>7. Inbound(p) = <<>>
    BY <1>1, <1>2, <2>1, <2>4, Quiet
  <2>8. Inbound(p)' = Flight(s)
    BY <1>3, <1>6, <2>7, ConcatEmptySeq
  <2>9. InTurn(p)'
    <3>1. \A t \in BOOLEAN : Follows(Flight(s), Flight(s), t)
      BY <1>3, FollowsItself
    <3>2. (hs'[Peer(p)] = "done") \in BOOLEAN
      OBVIOUS
    <3>3. Follows(Inbound(p)', Awaited(p)', hs'[Peer(p)] = "done")
      BY <2>6, <2>8, <3>1, <3>2, Zenon
    <3> QED BY <3>3, Zenon DEF InTurn
  <2>10. InTurn(s)'
    <3>1. hs'[p] = hs[p]
      BY <1>1, <1>2 DEF TypeOK
    <3>2. Follows(Inbound(s)', Awaited(s)', hs'[p] = "done")
      BY <1>5, <1>10, <1>12, <2>5, <3>1, Zenon
    <3> QED BY <3>2, Zenon DEF InTurn, p
  <2> QED BY <2>3, <2>9, <2>10
<1> QED BY <1>2, <1>11, <1>12 DEF Flow, Orderly

\* A chain that does not verify: nothing is written before the answer.
LEMMA ReadUntrusted_Flow ==
    ASSUME IInv, TypeOK', NEW s \in Ends, NEW n \in 1..Len(wire[Peer(s)]), ReadUntrusted(s, n)
    PROVE  Flow'
<1> DEFINE p == Peer(s)  b == Incoming(s, n)  r == Consumed(s, n)[p] \o out[p]
<1>1. /\ TypeOK /\ s = "client" /\ uv[s] = "open" /\ frame[s] = "none" /\ hs[s] = "hello"
      /\ Arrived(b) /\ wire' = Consumed(s, n) /\ bio' = [bio EXCEPT ![s] = After(b)]
      /\ hs' = [hs EXCEPT ![s] = IF "handshake" \in cb[s] THEN @ ELSE "failed"]
      /\ CallHandshake(s, "verify") /\ UNCHANGED <<cb, out, written, got>>
  BY DEF IInv, ReadUntrusted, Reading, Serving, config
<1>2. p \in Ends /\ p # s /\ Peer(p) = s /\ \A e \in Ends : e = s \/ e = p
  BY Peers
<1>3. bio'[p] = bio[p]
  BY <1>1, <1>2 DEF TypeOK
<1>4. Inbound(p)' = Inbound(p)
  BY <1>1, <1>3, Takes_In, Zenon
<1>5. /\ b \in Seq(Chunk) /\ r \in Seq(Chunk) /\ Inbound(s) = b \o r
      /\ Inbound(s)' = After(b) \o r
      /\ Messages(Inbound(s))' <= Messages(Inbound(s))
      /\ Messages(Inbound(s))' \in Nat /\ Messages(Inbound(s)) \in Nat
  BY <1>1, Reads, Zenon
<1> HIDE DEF p, b, r
<1>6. \A e \in Ends : got[e] \in Nat /\ written[e] \in Nat
  BY <1>1, Numbers
<1>7. Spare(s)
  BY <1>1, <1>2, <1>5, <1>6 DEF Spare, p
<1>8. Spare(p) /\ Even(p)
  BY <1>1, <1>2, <1>4, Untouched
<1>9. ASSUME Up' PROVE UNCHANGED <<uv, hs>> /\ frame' = [frame EXCEPT !["client"] = "verify"]
  <2>1. uv' # [uv EXCEPT ![s] = Closed(@)]
    BY <1>1, <1>9, Closing
  <2>2. "handshake" \in cb[s] /\ uv' = uv /\ CallUser(s, "verify")
    BY <1>1, <2>1 DEF CallHandshake, Refused
  <2> QED BY <1>1, <2>2 DEF TypeOK, CallUser
<1>10. Up' => Up
  BY <1>9 DEF Up
<1>11. ASSUME Up'
       PROVE  /\ hs["server"] = "finish" /\ Follows(After(b) \o r, <<>>, hs[p] = "done")
              /\ Messages(After(b) \o r) = Messages(Inbound(s))
  BY <1>1, <1>5, <1>10, <1>11, Arrives, Zenon DEF p
<1>12. NothingInvented' /\ NothingLostWhileUp'
  <2>1. \A e \in Ends : Spare(e)
    BY <1>2, <1>7, <1>8, Zenon
  <2>2. ASSUME Up' PROVE \A e \in Ends : Even(e)
    <3>1. Messages(Inbound(s))' = Messages(Inbound(s))
      BY <1>5, <1>11, <2>2
    <3>2. Even(s)
      BY <1>1, <1>5, <3>1 DEF Even
    <3> QED BY <1>2, <1>8, <3>2, Zenon
  <2> QED BY <1>1, <1>10, <2>1, <2>2, Counts DEF IInv
<1>13. ASSUME Up' PROVE Progress' /\ InTurn(s)' /\ InTurn(p)'
  <2>1. Progress /\ InTurn(s) /\ InTurn(p)
    BY <1>2, <1>10, <1>13 DEF IInv, Orderly
  <2>2. frame'["client"] = "verify" /\ frame'["server"] = frame["server"] /\ hs' = hs
    BY <1>1, <1>9, <1>13 DEF TypeOK, Ends
  <2>3. Progress'
    BY <1>11, <1>13, <2>1, <2>2 DEF Progress
  <2>4. Awaited(s)' = <<>>
    BY <1>1, <2>2 DEF Awaited
  <2>5. Awaited(p)' = Awaited(p)
    BY <1>1, <1>2, <2>2 DEF Awaited
  <2>6. InTurn(s)'
    <3>1. Follows(Inbound(s)', Awaited(s)', hs'[p] = "done")
      BY <1>5, <1>11, <1>13, <2>2, <2>4, Zenon
    <3> QED BY <3>1, Zenon DEF InTurn, p
  <2>7. InTurn(p)'
    BY <1>4, <2>1, <2>2, <2>5, Zenon DEF InTurn
  <2> QED BY <2>3, <2>6, <2>7
<1> QED BY <1>2, <1>12, <1>13 DEF Flow, Orderly

\* The handshake fails and the end closes.
LEMMA ReadFails_Flow ==
    ASSUME IInv, TypeOK', NEW s \in Ends, NEW n \in 1..Len(wire[Peer(s)]), NEW k \in 0..2,
           ReadFails(s, n, k)
    PROVE  Flow'
<1> DEFINE p == Peer(s)  b == Incoming(s, n)  r == Consumed(s, n)[p] \o out[p]
<1>1. /\ TypeOK /\ uv[s] = "open" /\ bio' = [bio EXCEPT ![s] = <<>>]
      /\ uv' = [uv EXCEPT ![s] = Closed(@)] /\ UNCHANGED <<cb, written, got>>
  BY DEF IInv, ReadFails, Reading, Serving, config, history
<1>2. p \in Ends /\ p # s /\ Peer(p) = s /\ \A e \in Ends : e = s \/ e = p
  BY Peers
<1>3. PICK cs \in {<<>>, Chunks("alert", 1)} :
         write_bio_to_socket(s, cs, k, Consumed(s, n)) /\ k \in Nat
  BY DEF ReadFails
<1>4. cs \in Seq(Chunk) /\ Messages(cs) = 0
  <2>1. "alert" \in Flights \cup {"alert"} /\ 1 \in Nat
    OBVIOUS
  <2>2. Chunks("alert", 1) \in Seq(Chunk) /\ Messages(Chunks("alert", 1)) = 0
    BY <2>1, NoMessage, Zenon
  <2>3. <<>> \in Seq(Chunk) /\ Messages(<<>>) = 0
    BY Empty
  <2> QED BY <2>2, <2>3, Zenon
<1>5. /\ wire'[p] = Consumed(s, n)[p] /\ out'[p] = out[p]
      /\ wire'[s] \o out'[s] = Outbound(s) \o cs
  <2>1. Consumed(s, n) \in [Ends -> Seq(Chunk)] /\ Consumed(s, n)[s] = wire[s]
    BY <1>1, Consume, Zenon
  <2>2. /\ wire'[p] = Consumed(s, n)[p] /\ out'[p] = out[p]
        /\ wire'[s] \o out'[s] = (Consumed(s, n)[s] \o out[s]) \o cs
    BY <1>1, <1>3, <1>4, <2>1, WriteBio, ZenonT(40)
  <2> QED BY <2>1, <2>2 DEF Outbound
<1>6. b \in Seq(Chunk) /\ r \in Seq(Chunk) /\ Inbound(s) = b \o r
  BY <1>1, Consume, Zenon
<1> HIDE DEF b
<1>7. Inbound(s)' = r
  <2>1. Inbound(s)' = <<>> \o r
    BY <1>1, <1>5, Zenon DEF TypeOK, Inbound, Outbound
  <2> HIDE DEF r
  <2> QED BY <1>6, <2>1, ConcatEmptySeq
<1> HIDE DEF p, r
<1>8. \A e \in Ends : got[e] \in Nat /\ written[e] \in Nat
  BY <1>1, Numbers
<1>9. Spare(s)
  <2>1. Messages(Inbound(s)) = Messages(b) + Messages(r)
    BY <1>6, MessagesConcat, Zenon
  <2>2. Messages(Inbound(s))' = Messages(r)
    BY <1>7
  <2>3. Messages(b) \in Nat /\ Messages(r) \in Nat
    BY <1>6, MessagesCount
  <2> QED BY <1>1, <1>2, <1>8, <2>1, <2>2, <2>3 DEF Spare, p
<1>10. Spare(p)
  <2>1. bio'[p] = bio[p]
    BY <1>1, <1>2 DEF TypeOK
  <2>2. Messages(Inbound(p)) \in Nat
    BY <1>1, <1>2, Flowing
  <2>3. Messages(Inbound(p))' = Messages(Inbound(p)) + Messages(cs)
    BY <1>1, <1>4, <1>5, <2>1, Adds, Zenon DEF p
  <2> QED BY <1>1, <1>2, <1>4, <1>8, <2>2, <2>3 DEF Spare
<1>11. ~Up'
  BY <1>1, Closing, Zenon
<1>12. \A e \in Ends : Spare(e)
  BY <1>2, <1>9, <1>10, Zenon
<1> QED BY <1>1, <1>11, <1>12, Fewer

\* The answer about the chain: the client's finish is written, or it closes.
LEMMA ReturnVerify_Flow ==
    ASSUME IInv, TypeOK', NEW s \in Ends, NEW v, NEW k \in 0..1, ReturnVerify(s, v, k) PROVE Flow'
<1> DEFINE p == Peer(s)
<1>1. /\ TypeOK /\ frame[s] = "verify" /\ hs[s] = "hello" /\ uv[s] # "fresh" /\ k \in Nat
      /\ UNCHANGED <<cb, bio, written, got>>
  BY DEF IInv, Judged, ReturnVerify, config
<1>2. p \in Ends /\ p # s /\ Peer(p) = s /\ \A e \in Ends : e = s \/ e = p
  BY Peers
<1> HIDE DEF p
<1>3. CASE ~v
  <2>1. UNCHANGED <<wire, out>> /\ uv' = [uv EXCEPT ![s] = Closed(@)]
    BY <1>3 DEF ReturnVerify, Refused
  <2>2. ~Up'
    BY <1>1, <2>1, Closing, Zenon
  <2>3. \A e \in Ends : Inbound(e)' = Inbound(e)
    BY <1>1, <2>1, NothingMoves
  <2>4. \A e \in Ends : Spare(e)
    BY <1>1, <2>3, Untouched
  <2> QED BY <1>1, <2>2, <2>4, Fewer
<1>4. CASE v
  <2>1. /\ hs' = [hs EXCEPT ![s] = "finish"] /\ UNCHANGED uv
        /\ write_bio_to_socket(s, Flight(s), k, wire) /\ frame' = [frame EXCEPT ![s] = "none"]
    BY <1>4 DEF ReturnVerify, CallUser
  <2>2. Flight(s) \in Seq(Chunk) /\ Messages(Flight(s)) = 0 /\ wire \in [Ends -> Seq(Chunk)]
    BY <1>1, FlightIs DEF TypeOK
  <2>3. /\ wire'[p] = wire[p] /\ out'[p] = out[p]
        /\ uv[s] = "open" => wire'[s] \o out'[s] = Outbound(s) \o Flight(s)
        /\ uv[s] # "open" => wire'[s] \o out'[s] = Outbound(s)
    BY <1>1, <2>1, <2>2, WriteBio, Zenon DEF Outbound, p
  <2>4. Inbound(s)' = Inbound(s)
    BY <1>1, <2>3 DEF Inbound, Outbound, p
  <2>5. CASE uv[s] # "open"
    <3>1. ~Up'
      BY <1>1, <2>1, <2>5 DEF Up
    <3>2. Inbound(p)' = Inbound(p)
      BY <1>1, <1>2, <2>3, <2>5, Zenon DEF Inbound, Outbound
    <3>3. Spare(s) /\ Spare(p)
      BY <1>1, <1>2, <2>4, <3>2, Untouched
    <3>4. \A e \in Ends : Spare(e)
      BY <1>2, <3>3, Zenon
    <3> QED BY <1>1, <3>1, <3>4, Fewer
  <2>6. CASE uv[s] = "open"
    <3>1. /\ Inbound(p)' = Inbound(p) \o Flight(s)
          /\ Messages(Inbound(p))' = Messages(Inbound(p)) + Messages(Flight(s))
      BY <1>1, <2>2, <2>3, <2>6, Adds, Zenon DEF p
    <3>2. Spare(s) /\ Even(s)
      BY <1>1, <2>4, Untouched
    <3>3. Spare(p) /\ Even(p)
      <4>1. Messages(Inbound(p)) \in Nat /\ got[p] \in Nat /\ written[s] \in Nat
        <5>1. Messages(Inbound(p)) \in Nat
          BY <1>1, <1>2, Flowing
        <5>2. got[p] \in Nat /\ written[s] \in Nat
          BY <1>1, <1>2 DEF TypeOK
        <5> QED BY <5>1, <5>2
      <4> QED BY <1>1, <1>2, <2>2, <3>1, <4>1 DEF Spare, Even
    <3>4. \A e \in Ends : Spare(e) /\ Even(e)
      BY <1>2, <3>2, <3>3, Zenon
    <3>5. Up' => Up
      BY <2>1 DEF Up
    <3>6. NothingInvented' /\ NothingLostWhileUp'
      BY <1>1, <3>4, <3>5, Counts DEF IInv
    <3>7. ASSUME Up' PROVE Progress' /\ InTurn(s)' /\ InTurn(p)'
      <4>1. Progress /\ InTurn(s) /\ InTurn(p)
        BY <1>2, <3>5, <3>7 DEF IInv, Orderly
      <4>2. s = "client" /\ p = "server" /\ hs["server"] = "finish" /\ hs["client"] = "hello"
        BY <1>1, <1>2, <4>1 DEF Progress, Ends
      <4>3. /\ hs'["client"] = "finish" /\ hs'["server"] = "finish"
            /\ frame'["client"] = "none" /\ frame'["server"] = frame["server"]
        BY <1>1, <2>1, <4>2 DEF TypeOK, Ends
      <4>4. Progress'
        BY <4>1, <4>3 DEF Progress
      <4>5. Awaited(s) = <<>> /\ Awaited(s)' = <<>>
        BY <1>1, <4>2, <4>3 DEF Awaited
      <4>6. Awaited(p) = <<>> /\ Awaited(p)' = Flight(s)
        BY <4>2, <4>3 DEF Awaited, Flight
      <4>7. Inbound(p) = <<>>
        BY <1>1, <1>2, <4>1, <4>6, Quiet
      <4>8. Inbound(p)' = Flight(s)
        BY <2>2, <3>1, <4>7, ConcatEmptySeq
      <4>9. InTurn(p)'
        <5>1. \A t \in BOOLEAN : Follows(Flight(s), Flight(s), t)
          BY <2>2, FollowsItself
        <5>2. (hs'[Peer(p)] = "done") \in BOOLEAN
          OBVIOUS
        <5>3. Follows(Inbound(p)', Awaited(p)', hs'[Peer(p)] = "done")
          BY <4>6, <4>8, <5>1, <5>2, Zenon
        <5> QED BY <5>3, Zenon DEF InTurn
      <4>10. InTurn(s)'
        <5>1. hs'[p] = hs[p]
          BY <4>2, <4>3
        <5>2. Follows(Inbound(s)', Awaited(s)', hs'[p] = "done")
          BY <2>4, <4>1, <4>5, <5>1, Zenon DEF InTurn, p
        <5> QED BY <5>2, Zenon DEF InTurn, p
      <4> QED BY <4>4, <4>9, <4>10
    <3> QED BY <1>2, <3>6, <3>7 DEF Flow, Orderly
  <2> QED BY <2>5, <2>6
<1> QED BY <1>3, <1>4

\* A session begins; the client's hello is on its way to the server.
LEMMA Start_Flow ==
    ASSUME IInv, TypeOK', NEW s \in Ends, Start(s) PROVE Flow'
<1>1. /\ TypeOK /\ uv[s] = "fresh" /\ hs[s] = "fresh" /\ frame[s] # "verify"
      /\ uv' = [uv EXCEPT ![s] = "open"] /\ hs' = [hs EXCEPT ![s] = "hello"]
      /\ UNCHANGED <<cb, bio, written, got>>
  BY DEF IInv, Judged, Start, Started, config, history
<1>2. \A e \in Ends : frame'[e] = "verify" <=> frame[e] = "verify"
  BY <1>1 DEF TypeOK, Start, CallUser
<1>3. Up' => Up
  BY <1>1 DEF Up, TypeOK
<1>4. ASSUME Up'
      PROVE  /\ Progress /\ Progress' /\ InTurn("client") /\ InTurn("server")
             /\ hs["client"] \in {"fresh", "hello"} /\ hs["server"] \in {"fresh", "hello"}
             /\ \A e \in Ends : hs'[e] = IF e = s THEN "hello" ELSE hs[e]
  <2>1. Progress /\ InTurn("client") /\ InTurn("server")
    BY <1>3, <1>4 DEF IInv, Orderly, Ends
  <2>2. hs["client"] \in {"fresh", "hello"} /\ hs["server"] \in {"fresh", "hello"}
    BY <1>1, <2>1 DEF Progress, Ends
  <2>3. \A e \in Ends : hs'[e] = IF e = s THEN "hello" ELSE hs[e]
    BY <1>1 DEF TypeOK
  <2>4. /\ hs'["client"] \in {"fresh", "hello"} /\ hs'["server"] \in {"fresh", "hello"}
        /\ frame'["client"] # "verify" /\ frame'["server"] # "verify"
    BY <1>2, <2>1, <2>2, <2>3 DEF Progress, Ends
  <2>5. Progress'
    BY <2>4 DEF Progress
  <2> QED BY <2>1, <2>2, <2>3, <2>5
<1>5. CASE s = "server"
  <2>1. UNCHANGED <<bio, wire, out>>
    BY <1>1, <1>5 DEF Start
  <2>2. ASSUME Up' PROVE \A e \in Ends : /\ Awaited(e)' = Awaited(e)
                                         /\ hs'[e] = "done" <=> hs[e] = "done"
    <3>1. \A e \in Ends : hs'[e] = "done" <=> hs[e] = "done"
      BY <1>1, <1>4, <2>2
    <3>2. hs'["client"] = hs["client"] /\ hs'["server"] = "hello" /\ hs["server"] = "fresh"
      BY <1>1, <1>4, <1>5, <2>2 DEF Ends
    <3>3. \A e \in Ends : Awaited(e)' = Awaited(e)
      BY <3>2 DEF Awaited
    <3> QED BY <3>1, <3>3
  <2> QED BY <1>1, <1>3, <1>4, <2>1, <2>2, NothingMoves, Standstill
<1>6. CASE s = "client"
  <2>1. PICK k \in 0..1 : /\ wire' = [wire EXCEPT ![s] = Chunks("ClientHello", k)]
                          /\ out' = [out EXCEPT ![s] = Chunks("ClientHello", 1 - k)]
    BY <1>6 DEF Start
  <2> DEFINE x == Chunks("ClientHello", k)  y == Chunks("ClientHello", 1 - k)
             h == Chunks("ClientHello", 1)
  <2>2. /\ x \in Seq(Chunk) /\ y \in Seq(Chunk) /\ h \in Seq(Chunk) /\ Messages(h) = 0
        /\ x \o y = h
    <3>1. "ClientHello" \in Flights \cup {"alert"}
      BY DEF Flights
    <3>2. /\ Chunks("ClientHello", 0) \in Seq(Chunk) /\ Len(Chunks("ClientHello", 0)) = 0
          /\ Chunks("ClientHello", 1) \in Seq(Chunk) /\ Messages(Chunks("ClientHello", 1)) = 0
      BY <3>1, NoMessage, ChunksType
    <3>3. Chunks("ClientHello", 0) = <<>>
      BY <3>2, EmptySeq
    <3>4. <<>> \o h = h /\ h \o <<>> = h
      BY <3>2, ConcatEmptySeq
    <3>5. (k = 0 /\ 1 - k = 1) \/ (k = 1 /\ 1 - k = 0)
      OBVIOUS
    <3> QED BY <3>2, <3>3, <3>4, <3>5
  <2>3. /\ wire'["client"] = x /\ out'["client"] = y
        /\ wire'["server"] = wire["server"] /\ out'["server"] = out["server"]
    BY <1>1, <1>6, <2>1 DEF TypeOK, Ends
  <2> HIDE DEF x, y, h
  <2>4. Inbound("client")' = Inbound("client") /\ Inbound("server")' = bio["server"] \o h
    BY <1>1, <2>2, <2>3, Zenon DEF Inbound, Outbound, Peer
  <2>5. /\ Messages(Inbound("server"))' = Messages(bio["server"])
        /\ Messages(Inbound("server")) = Messages(bio["server"]) + Messages(Outbound("client"))
        /\ Messages(bio["server"]) \in Nat /\ Messages(Outbound("client")) \in Nat
        /\ bio["server"] \in Seq(Chunk) /\ Outbound("client") \in Seq(Chunk)
    <3>1. "server" \in Ends /\ "client" \in Ends /\ Peer("server") = "client"
      BY DEF Ends, Peer
    <3>2. /\ Messages(Inbound("server")) = Messages(bio["server"]) + Messages(Outbound("client"))
          /\ Messages(bio["server"]) \in Nat /\ Messages(Outbound("client")) \in Nat
          /\ bio["server"] \in Seq(Chunk) /\ Outbound("client") \in Seq(Chunk)
      BY <1>1, <3>1, Flowing
    <3>3. Messages(bio["server"] \o h) = Messages(bio["server"]) + Messages(h)
      BY <2>2, <3>2, MessagesConcat
    <3>4. Messages(Inbound("server"))' = Messages(bio["server"] \o h)
      BY <2>4, Zenon
    <3>5. Messages(bio["server"]) + Messages(h) = Messages(bio["server"])
      BY <2>2, <3>2
    <3> QED BY <3>2, <3>3, <3>4, <3>5, Zenon
  <2>6. Spare("client") /\ Even("client")
    BY <1>1, <2>4, Untouched DEF Ends
  <2>7. Spare("server")
    <3>1. got["server"] \in Nat /\ written[Peer("server")] \in Nat
      BY <1>1 DEF TypeOK, Ends, Peer
    <3> QED BY <1>1, <2>5, <3>1 DEF Spare
  <2>8. ASSUME Up'
        PROVE  /\ Inbound("server") = <<>> /\ Inbound("server")' = h /\ Awaited("server")' = h
               /\ Awaited("client") = <<>> /\ Awaited("client")' = <<>>
    <3>1. hs["client"] = "fresh" /\ hs'["client"] = "hello" /\ hs'["server"] = hs["server"]
      BY <1>1, <1>4, <1>6, <2>8 DEF Ends
    <3>2. Awaited("server") = <<>> /\ Awaited("client") = <<>>
      BY <1>4, <2>8, <3>1 DEF Awaited
    <3>3. Awaited("server")' = h /\ Awaited("client")' = <<>>
      BY <1>4, <2>8, <3>1 DEF Awaited, h
    <3>4. Inbound("server") = <<>>
      <4>1. "server" \in Ends /\ hs[Peer("server")] # "done"
        BY <3>1 DEF Ends, Peer
      <4> QED BY <1>1, <1>4, <2>8, <3>2, <4>1, Quiet
    <3>5. bio["server"] = <<>>
      <4>1. Inbound("server") = bio["server"] \o Outbound("client")
        BY DEF Inbound, Peer
      <4> QED BY <2>5, <3>4, <4>1, ConcatEqualIffEmpty
    <3>6. Inbound("server")' = h
      BY <2>2, <2>4, <3>5, ConcatEmptySeq
    <3> QED BY <3>2, <3>3, <3>4, <3>6
  <2>9. NothingInvented' /\ NothingLostWhileUp'
    <3>1. ASSUME Up' PROVE Even("server")
      <4>1. Messages(Inbound("server"))' = 0 /\ Messages(Inbound("server")) = 0
        BY <2>2, <2>8, <3>1, Empty
      <4> QED BY <1>1, <4>1 DEF Even
    <3>2. \A e \in Ends : Spare(e) /\ (Up' => Even(e))
      BY <2>6, <2>7, <3>1 DEF Ends
    <3> QED BY <1>1, <1>3, <3>2, Counts DEF IInv
  <2>10. ASSUME Up' PROVE InTurn("client")' /\ InTurn("server")'
    <3>1. hs'[Peer("client")] = hs[Peer("client")]
      BY <1>4, <1>6, <2>10 DEF Ends, Peer
    <3>2. InTurn("client")'
      BY <1>4, <2>4, <2>8, <2>10, <3>1, Zenon DEF InTurn
    <3>3. \A t \in BOOLEAN : Follows(h, h, t)
      BY <2>2, FollowsItself
    <3>4. (hs'[Peer("server")] = "done") \in BOOLEAN
      OBVIOUS
    <3>5. InTurn("server")'
      BY <2>8, <2>10, <3>3, <3>4, Zenon DEF InTurn
    <3> QED BY <3>2, <3>5
  <2> QED BY <1>4, <2>9, <2>10 DEF Flow, Orderly, Ends
<1> QED BY <1>5, <1>6 DEF Ends

\* read_cb in all its cases.
LEMMA read_cb_Flow == ASSUME IInv, TypeOK', NEW s \in Ends, read_cb(s) PROVE Flow'
BY ReadData_Flow, ReadPart_Flow, ReadFlight_Flow, ReadUntrusted_Flow, ReadFails_Flow, ReadEnd_Flow
DEF read_cb

\* Every step of either end.
LEMMA Next_Flow == ASSUME IInv, TypeOK', [Next]_vars PROVE Flow'
<1>1. ASSUME NEW s \in Ends, LoopStep(s) PROVE Flow'
  BY <1>1, Start_Flow, read_cb_Flow, Transmit_Flow, write_cb_Flow, tcp_close_cb_Flow DEF LoopStep
<1>2. ASSUME NEW s \in Ends, Return(s) PROVE Flow'
  BY <1>2, ReturnVerify_Flow, ReturnHandshake_Flow, ReturnOther_Flow DEF Return
<1>3. ASSUME NEW s \in Ends, ScriptStep(s) PROVE Flow'
  BY <1>3, write_Flow, close_Flow DEF ScriptStep
<1>4. CASE UNCHANGED vars
  <2>1. UNCHANGED <<cb, hs, uv, bio, wire, out, frame, written, got>>
    BY <1>4 DEF vars, config, history
  <2>2. Up' => Up
    BY <2>1 DEF Up
  <2> QED BY <2>1, <2>2, NothingMoves, Still
<1> QED BY <1>1, <1>2, <1>3, <1>4 DEF Next

-----------------------------------------------------------------------------
(* Theorems *)

\* Before either end has begun there is nothing on its way and no verdict.
LEMMA Init_IInv == Init => IInv
<1> SUFFICES ASSUME Init PROVE IInv
  OBVIOUS
<1>1. MaxWrites \in Nat /\ CallbackSets \subseteq SUBSET Callbacks
  BY BoundAssumption
<1>2. <<>> \in Seq(Chunk) /\ Messages(<<>>) = 0
  BY Empty
<1>3. TypeOK
  <2>1. /\ bio \in [Ends -> Seq(Chunk)] /\ out \in [Ends -> Seq(Chunk)]
        /\ due \in [Ends -> Seq(Chunk)] /\ wire \in [Ends -> Seq(Chunk)]
    BY <1>2 DEF Init
  <2>2. cb \in [Ends -> SUBSET Callbacks] /\ trusted \in BOOLEAN /\ named \in BOOLEAN
    BY <1>1, Zenon DEF Init
  <2>3. /\ uv \in [Ends -> {"fresh", "open", "closing", "closed"}]
        /\ hs \in [Ends -> {"fresh", "hello", "finish", "done", "failed"}]
        /\ enabled \in [Ends -> BOOLEAN] /\ frame \in [Ends -> Frames]
        /\ reported \in [Ends -> Chunk \cup {Nothing}] /\ written \in [Ends -> 0..MaxWrites]
        /\ got \in [Ends -> Nat] /\ verdict \in [Ends -> {"none", "accepted", "refused"}]
    BY <1>1 DEF Init, Frames
  <2> QED BY <2>1, <2>2, <2>3 DEF TypeOK
<1>4. Judged
  BY DEF Init, Judged
<1>5. \A s \in Ends : /\ Inbound(s) = <<>> /\ Messages(Inbound(s)) = 0
                      /\ got[s] = 0 /\ written[Peer(s)] = 0
  <2>1. <<>> \o (<<>> \o <<>>) = <<>>
    BY <1>2, ConcatEmptySeq
  <2> QED BY <1>2, <2>1, Peers, Zenon DEF Init, Inbound, Outbound
<1>6. NothingInvented /\ NothingLostWhileUp
  BY <1>5 DEF NothingInvented, NothingLostWhileUp
<1>7. Progress /\ \A s \in Ends : Awaited(s) = <<>> /\ hs[Peer(s)] # "done"
  BY Peers DEF Init, Progress, Awaited, Ends
<1>8. ASSUME NEW s \in Ends PROVE InTurn(s)
  <2>1. Follows(<<>>, <<>>, FALSE)
    BY <1>2, FollowsItself, Zenon
  <2>2. (hs[Peer(s)] = "done") = FALSE
    BY <1>7
  <2> QED BY <1>5, <1>7, <2>1, <2>2, Zenon DEF InTurn
<1> QED BY <1>3, <1>4, <1>6, <1>7, <1>8 DEF IInv, Orderly

\* IInv holds in every reachable state: a session that is through the handshake
\* has been judged or is about to be; the ends take turns in the handshake; and
\* what write has accepted is handed over, in the BIO, on the wire or queued,
\* and never twice (read_cb, write_bio_to_socket, write_cb).
THEOREM SessionInvariance == Spec => []IInv
<1>1. IInv /\ [Next]_vars => IInv'
  <2> SUFFICES ASSUME IInv, [Next]_vars PROVE IInv'
    OBVIOUS
  <2>1. TypeOK'
    BY Next_Type DEF IInv
  <2>2. Judged'
    BY Next_Judged DEF IInv
  <2>3. Flow'
    BY <2>1, Next_Flow
  <2> QED BY <2>1, <2>2, <2>3 DEF IInv, Flow
<1> QED BY <1>1, Init_IInv, PTL DEF Spec

\* While both ends are open no message that write has accepted is lost, however
\* the stream is cut into reads and requests (read_cb's loop over SSL_read).
THEOREM NoMessageLost == Spec => []NothingLost
<1>1. IInv => NothingLost
  <2> SUFFICES ASSUME IInv, NEW s \in Ends, uv[s] = "open", uv[Peer(s)] = "open"
               PROVE  "read" \in cb[s] => written[Peer(s)] = got[s] + Messages(Inbound(s))
    BY DEF NothingLost
  <2>1. Up
    BY Peers DEF Up
  <2> QED BY <2>1 DEF IInv, NothingLostWhileUp
<1> QED BY <1>1, SessionInvariance, PTL

\* The read callback never gets more messages than the other end has written,
\* also when the ends fail or close half way.
THEOREM NoMessageInvented == Spec => [](\A s \in Ends : got[s] <= written[Peer(s)])
<1>1. IInv => \A s \in Ends : got[s] <= written[Peer(s)]
  <2> SUFFICES ASSUME IInv, NEW s \in Ends PROVE got[s] <= written[Peer(s)]
    OBVIOUS
  <2>1. Messages(Inbound(s)) \in Nat
    BY Flowing DEF IInv
  <2>2. got[s] \in Nat /\ written[Peer(s)] \in Nat
    BY Peers DEF IInv, TypeOK
  <2> QED BY <2>1, <2>2 DEF IInv, NothingInvented
<1> QED BY <1>1, SessionInvariance, PTL

\* No read callback, no write callback and no data before the handshake
\* callback has accepted (handleHandshakeCallback); what it has refused is
\* closed and stays closed.
THEOREM NothingBeforeAcceptance == Spec => []AcceptedBeforeUse
<1>1. IInv => AcceptedBeforeUse
  BY DEF IInv, TypeOK, Judged, AcceptedBeforeUse
<1> QED BY <1>1, SessionInvariance, PTL

\* A session is judged once: no later callback turns a refusal into an
\* acceptance or takes an acceptance back.
THEOREM JudgedOnce ==
    Spec => [][\A s \in Ends : verdict[s] # "none" => verdict'[s] = verdict[s]]_vars
<1> DEFINE Kept == \A s \in Ends : verdict[s] # "none" => verdict'[s] = verdict[s]
<1>1. ASSUME TypeOK, Judged, NEW s \in Ends, read_cb(s) PROVE Kept
  <2>1. ASSUME NEW name, CallHandshake(s, name), verdict[s] = "none" PROVE Kept
    BY <1>1, <2>1 DEF TypeOK, CallHandshake
  <2>2. hs[s] \in {"hello", "finish"} => verdict[s] = "none"
    BY <1>1 DEF Judged
  <2>3. verdict' = verdict \/ (hs[s] \in {"hello", "finish"} /\ \E name : CallHandshake(s, name))
    BY <1>1 DEF read_cb, ReadData, ReadPart, ReadFlight, ReadUntrusted, ReadFails, ReadEnd, history
  <2> QED BY <2>1, <2>2, <2>3
<1>2. ASSUME TypeOK, Judged, NEW s \in Ends, Return(s) PROVE Kept
  BY <1>2 DEF TypeOK, Judged, Return, history, ReturnVerify, ReturnHandshake, ReturnOther
<1>3. ASSUME NEW s \in Ends, LoopStep(s), ~read_cb(s) PROVE Kept
  BY <1>3 DEF LoopStep, Start, Transmit, write_cb, tcp_close_cb, history
<1>4. ASSUME NEW s \in Ends, ScriptStep(s) PROVE Kept
  BY <1>4 DEF ScriptStep, write, close, history
<1>5. IInv /\ [Next]_vars => [Kept]_vars
  BY <1>1, <1>2, <1>3, <1>4 DEF IInv, Next, LoopStep
<1> QED BY <1>5, SessionInvariance, PTL DEF Spec
=============================================================================
