------------------------------ MODULE DhtProofs ------------------------------
(***************************************************************************)
(* Proofs about Dht.tla, for every identifier length, bucket size, network *)
(* of nodes and concurrency: the transport's transactions, the shape of    *)
(* the routing table and what a lookup has asked when it ends.             *)
(***************************************************************************)
EXTENDS Dht, SeqFacts

-----------------------------------------------------------------------------
(* Identifiers and distances. *)

\* Two nodes at the same distance from an identifier are the same node.
LEMMA DistanceFacts ==
  ASSUME NEW a \in NodeID, NEW b \in NodeID, NEW t \in NodeID
  PROVE  /\ XOR(a, t) \in NodeID
         /\ XOR(a, t) = XOR(b, t) => a = b
<1>1. \A i \in 1..Bits : a[i] \in {0, 1} /\ b[i] \in {0, 1} /\ t[i] \in {0, 1}
  BY DEF NodeID
<1>2. \A x, y \in {0, 1} : (x + y) % 2 \in {0, 1}
  OBVIOUS
<1>3. XOR(a, t) \in NodeID
  BY <1>1, <1>2 DEF XOR, NodeID
<1>4. ASSUME XOR(a, t) = XOR(b, t) PROVE a = b
  <2>1. \A x, y, z \in {0, 1} : (x + z) % 2 = (y + z) % 2 => x = y
    OBVIOUS
  <2>2. \A i \in 1..Bits : (a[i] + t[i]) % 2 = (b[i] + t[i]) % 2
    BY <1>4 DEF XOR
  <2>3. \A i \in 1..Bits : a[i] = b[i]
    BY <1>1, <2>1, <2>2
  <2>4. a = [i \in 1..Bits |-> a[i]] /\ b = [i \in 1..Bits |-> b[i]]
    BY DEF NodeID
  <2> QED
    BY <2>3, <2>4
<1> QED
  BY <1>3, <1>4

\* compareDist is a strict total order.
LEMMA LessOrder ==
  ASSUME NEW a \in NodeID, NEW b \in NodeID, NEW c \in NodeID
  PROVE  /\ ~Less(a, a)
         /\ Less(a, b) /\ Less(b, c) => Less(a, c)
         /\ a # b => Less(a, b) \/ Less(b, a)
<1>1. /\ Bits \in Nat
      /\ \A i \in 1..Bits : a[i] \in {0, 1} /\ b[i] \in {0, 1} /\ c[i] \in {0, 1}
  BY TableAssumption DEF NodeID
<1>2. ~Less(a, a)
  BY <1>1 DEF Less
<1>3. ASSUME Less(a, b), Less(b, c) PROVE Less(a, c)
  <2>1. PICK i \in 1..Bits : a[i] < b[i] /\ \A j \in 1..(i - 1) : a[j] = b[j]
    BY <1>3 DEF Less
  <2>2. PICK k \in 1..Bits : b[k] < c[k] /\ \A j \in 1..(k - 1) : b[j] = c[j]
    BY <1>3 DEF Less
  <2>3. CASE i < k
    <3>1. a[i] < c[i] /\ \A j \in 1..(i - 1) : a[j] = c[j]
      BY <1>1, <2>1, <2>2, <2>3
    <3> QED
      BY <3>1 DEF Less
  <2>4. CASE k < i
    <3>1. a[k] < c[k] /\ \A j \in 1..(k - 1) : a[j] = c[j]
      BY <1>1, <2>1, <2>2, <2>4
    <3> QED
      BY <3>1 DEF Less
  <2>5. CASE i = k
    BY <1>1, <2>1, <2>2, <2>5
  <2> QED
    BY <1>1, <2>3, <2>4, <2>5
<1>4. ASSUME a # b PROVE Less(a, b) \/ Less(b, a)
  <2> DEFINE D == {i \in 1..Bits : a[i] # b[i]}
  <2>1. D # {} /\ D \in SUBSET Nat
    BY <1>1, <1>4 DEF NodeID
  <2>2. PICK i \in D : \A k \in D : i <= k
    BY <2>1, LeastMember
  <2>3. \A j \in 1..(i - 1) : a[j] = b[j]
    BY <1>1, <2>2
  <2>4. a[i] < b[i] \/ b[i] < a[i]
    BY <1>1, <2>2
  <2> QED
    BY <2>2, <2>3, <2>4 DEF Less
<1> QED
  BY <1>2, <1>3, <1>4

\* So is the order by distance from an identifier.
LEMMA CloserOrder ==
  ASSUME NEW a \in NodeID, NEW b \in NodeID, NEW c \in NodeID, NEW t \in NodeID
  PROVE  /\ ~Closer(a, a, t)
         /\ Closer(a, b, t) /\ Closer(b, c, t) => Closer(a, c, t)
         /\ a # b => Closer(a, b, t) \/ Closer(b, a, t)
<1>1. /\ XOR(a, t) \in NodeID /\ XOR(b, t) \in NodeID /\ XOR(c, t) \in NodeID
      /\ a # b => XOR(a, t) # XOR(b, t)
  BY DistanceFacts
<1> QED
  BY <1>1, LessOrder DEF Closer

\* The number of members of S closer to the target than a.
Rank(S, a, t) == Cardinality({b \in S : Closer(b, a, t)})

\* The number of nodes closer than a, which only shrinks in a smaller set.
LEMMA RankFacts ==
  ASSUME NEW S, IsFiniteSet(S)
  PROVE  \A a, t : /\ Rank(S, a, t) \in Nat
                   /\ \A T \in SUBSET S : Rank(T, a, t) \in Nat /\ Rank(T, a, t) <= Rank(S, a, t)
<1> TAKE a, t
<1> DEFINE U(T) == {b \in T : Closer(b, a, t)}
<1>1. IsFiniteSet(U(S)) /\ Cardinality(U(S)) \in Nat
  BY FS_Subset, FS_CardinalityType
<1>2. ASSUME NEW T \in SUBSET S PROVE Cardinality(U(T)) \in Nat /\ Cardinality(U(T)) <= Cardinality(U(S))
  <2>1. U(T) \in SUBSET U(S)
    OBVIOUS
  <2> HIDE DEF U
  <2> QED
    BY <1>1, <2>1, FS_Subset, FS_CardinalityType
<1> QED
  BY <1>1, <1>2 DEF Rank

\* A node that is farther away has more nodes before it.
LEMMA RankGrows ==
  ASSUME NEW S \in SUBSET NodeID, IsFiniteSet(S), NEW t \in NodeID,
         NEW a \in S, NEW b \in S, Closer(a, b, t)
  PROVE  Rank(S, a, t) < Rank(S, b, t)
<1> DEFINE A == {c \in S : Closer(c, a, t)}
           B == {c \in S : Closer(c, b, t)}
<1>1. A \in SUBSET B /\ a \in B /\ a \notin A
  BY CloserOrder
<1>2. IsFiniteSet(B)
  BY FS_Subset
<1> HIDE DEF A, B
<1>3. Cardinality(A) < Cardinality(B)
  BY <1>1, <1>2, FS_Subset, FS_CardinalityType
<1> QED
  BY <1>3 DEF Rank, A, B

\* The slice of the sorted candidates: at most n nodes, and one if there is any.
LEMMA ClosestBounded ==
  ASSUME NEW S \in SUBSET NodeID, IsFiniteSet(S), NEW t \in NodeID, NEW n \in Nat \ {0}
  PROVE  /\ TakeClosest(S, t, n) \subseteq S
         /\ IsFiniteSet(TakeClosest(S, t, n)) /\ Cardinality(TakeClosest(S, t, n)) <= n
         /\ TakeClosest(S, t, n) = {} => S = {}
<1> DEFINE C == TakeClosest(S, t, n)
           rank == [a \in C |-> Rank(S, a, t)]
<1>1. C = {a \in S : Rank(S, a, t) < n}
  BY DEF TakeClosest, Rank
<1> HIDE DEF C
<1>2. C \subseteq S /\ IsFiniteSet(C)
  BY <1>1, FS_Subset
<1>3. \A a \in S : Rank(S, a, t) \in Nat
  BY RankFacts
<1>4. rank \in [C -> 0..(n - 1)]
  BY <1>1, <1>3
<1>5. \A a, b \in C : rank[a] = rank[b] => a = b
  <2>1. \A a, b \in S : a # b => Rank(S, a, t) # Rank(S, b, t)
    <3> SUFFICES ASSUME NEW a \in S, NEW b \in S, a # b PROVE Rank(S, a, t) # Rank(S, b, t)
      OBVIOUS
    <3>1. Closer(a, b, t) \/ Closer(b, a, t)
      BY CloserOrder
    <3> QED
      BY <1>3, <3>1, RankGrows
  <2> QED
    BY <1>2, <2>1
<1>6. Cardinality(C) <= n
  <2>1. rank \in Injection(C, 0..(n - 1))
    BY <1>4, <1>5 DEF Injection, IsInjective
  <2>2. IsFiniteSet(0..(n - 1)) /\ Cardinality(0..(n - 1)) = n
    BY FS_Interval
  <2> HIDE DEF rank
  <2> QED
    BY <2>1, <2>2, FS_Injection
<1>7. ASSUME C = {}, S # {} PROVE FALSE
  <2> DEFINE R == {Rank(S, a, t) : a \in S}
  <2>1. R \in SUBSET Nat /\ R # {}
    BY <1>3, <1>7
  <2>2. PICK a \in S : \A b \in S : Rank(S, a, t) <= Rank(S, b, t)
    <3>1. PICK m \in R : \A k \in R : m <= k
      <4> HIDE DEF R
      <4> QED
        BY <2>1, LeastMember
    <3> QED
      BY <3>1
  <2>3. {b \in S : Closer(b, a, t)} = {}
    BY <1>3, <2>2, RankGrows
  <2>4. Rank(S, a, t) = 0
    BY <2>3, FS_EmptySet DEF Rank
  <2> QED
    BY <1>1, <1>7, <2>4
<1> QED
  BY <1>2, <1>6, <1>7 DEF C

\* What has been asked stays enough: a member of the slice of S is in the slice
\* of any part of S that holds it.
LEMMA ClosestOfPart ==
  ASSUME NEW S, IsFiniteSet(S), NEW T \in SUBSET S, NEW t, NEW n \in Nat,
         NEW a \in T, a \in TakeClosest(S, t, n)
  PROVE  a \in TakeClosest(T, t, n)
<1>1. Rank(S, a, t) < n
  BY DEF TakeClosest, Rank
<1>2. Rank(S, a, t) \in Nat /\ Rank(T, a, t) \in Nat /\ Rank(T, a, t) <= Rank(S, a, t)
  BY RankFacts
<1>3. Rank(T, a, t) < n
  BY <1>1, <1>2
<1> QED
  BY <1>3 DEF TakeClosest, Rank

-----------------------------------------------------------------------------
(* The routing table. *)

GoodTable(t) == t \in [0..(Bits - 1) -> Seq(Remote)] /\ TableShape(t)

\* What the constants are assumed to be.
LEMMA NodeFacts ==
  /\ Bits \in Nat \ {0} /\ bucketSize \in Nat \ {0} /\ Own \in NodeID /\ Own \notin Remote
  /\ Remote \subseteq NodeID /\ IsFiniteSet(Remote) /\ IsFiniteSet(Remote \cup {Own})
  BY TableAssumption, KrpcAssumption, DhtAssumption, FS_AddElement

\* A node goes to a bucket of the table, and our own identifier to none.
LEMMA BucketFacts ==
  ASSUME NEW id \in NodeID
  PROVE  /\ Bucket(id) \in Int
         /\ Bucket(id) >= 0 => Bucket(id) \in 0..(Bits - 1) /\ id # Own
<1> DEFINE d == XOR(Own, id)
           D == {i \in 1..Bits : d[i] = 1}
<1>1. Bucket(id) = IF D = {} THEN -1 ELSE Bits - Min(D)
  BY DEF Bucket, BucketIndex
<1>2. D \in SUBSET Nat /\ D \subseteq 1..Bits /\ Bits \in Nat
  BY NodeFacts
<1>3. ASSUME id = Own PROVE D = {}
  <2>1. \A i \in 1..Bits : Own[i] \in {0, 1}
    BY NodeFacts DEF NodeID
  <2>2. \A x \in {0, 1} : (x + x) % 2 # 1
    OBVIOUS
  <2>3. \A i \in 1..Bits : d[i] = (Own[i] + Own[i]) % 2
    BY <1>3 DEF XOR
  <2>4. \A i \in 1..Bits : d[i] # 1
    BY <2>1, <2>2, <2>3
  <2> QED
    BY <2>4
<1> HIDE DEF d, D
<1>4. CASE D = {}
  BY <1>1, <1>4
<1>5. CASE D # {}
  <2>1. Min(D) \in D
    BY <1>2, <1>5, MinOfSet
  <2>2. Min(D) \in 1..Bits
    BY <1>2, <2>1
  <2> QED
    BY <1>1, <1>2, <1>3, <1>5, <2>2
<1> QED
  BY <1>4, <1>5

\* A node cut out of its bucket.
LEMMA RemoveFirstFacts ==
  ASSUME NEW S, NEW q \in Seq(S), NEW e, Contains(q, e)
  PROVE  /\ RemoveFirst(q, e) \in Seq(S) /\ Len(RemoveFirst(q, e)) = Len(q) - 1
         /\ Range(RemoveFirst(q, e)) \subseteq Range(q)
         /\ IsInjective(q) => e \notin Range(RemoveFirst(q, e)) /\ IsInjective(RemoveFirst(q, e))
<1> DEFINE I == {i \in 1..Len(q) : q[i] = e}
<1>1. Len(q) \in Nat /\ I # {} /\ I \in SUBSET Nat /\ DOMAIN q = 1..Len(q)
  BY MembersOfSeq DEF Contains
<1>2. PICK i \in 1..Len(q) : q[i] = e /\ RemoveFirst(q, e) = SubSeq(q, 1, i - 1) \o SubSeq(q, i + 1, Len(q))
  <2>1. RemoveFirst(q, e) = RemoveAt(q, Min(I))
    BY <1>1 DEF RemoveFirst, SelectInSeq, Contains
  <2>2. Min(I) \in I
    <3> HIDE DEF I
    <3> QED
      BY <1>1, MinOfSet
  <2> QED
    BY <2>1, <2>2 DEF RemoveAt
<1> DEFINE r == RemoveFirst(q, e)
           a == SubSeq(q, 1, i - 1)
           b == SubSeq(q, i + 1, Len(q))
<1>3. /\ a \in Seq(S) /\ Len(a) = i - 1 /\ \A k \in 1..(i - 1) : a[k] = q[k]
  BY <1>1, SubSeqProperties
<1>4. /\ b \in Seq(S) /\ Len(b) = Len(q) - i
      /\ \A k \in 1..(Len(q) - i) : b[k] = q[i + k]
  <2> DEFINE m == i + 1
             n == Len(q)
  <2>1. m \in Int /\ n \in Int /\ \A j \in m..n : q[j] \in S
    BY <1>1, MembersOfSeq
  <2>2. n - m + 1 = n - i /\ \A k \in 1..(n - i) : m + k - 1 = i + k
    BY <1>1
  <2>3. (m <= n => n - m + 1 = n - i) /\ (~(m <= n) => n - i = 0)
    <3>1. n \in Nat /\ i \in 1..n /\ m = i + 1
      BY <1>1
    <3> HIDE DEF m, n
    <3> QED
      BY <3>1
  <2>4. b = SubSeq(q, m, n)
    OBVIOUS
  <2> HIDE DEF m, n, b
  <2>5. /\ SubSeq(q, m, n) \in Seq(S)
        /\ Len(SubSeq(q, m, n)) = IF m <= n THEN n - m + 1 ELSE 0
        /\ \A k \in 1..(n - m + 1) : SubSeq(q, m, n)[k] = q[m + k - 1]
    BY <2>1, SubSeqProperties
  <2> QED
    BY <2>2, <2>3, <2>4, <2>5 DEF n
<1>5. r = a \o b
  BY <1>2
<1> HIDE DEF r, a, b
<1>6. /\ r \in Seq(S) /\ Len(r) = Len(q) - 1
      /\ \A k \in 1..(Len(q) - 1) : r[k] = IF k < i THEN q[k] ELSE q[k + 1]
  <2>1. /\ r \in Seq(S) /\ Len(r) = Len(a) + Len(b)
        /\ \A k \in 1..Len(r) : r[k] = IF k <= Len(a) THEN a[k] ELSE b[k - Len(a)]
    <3>1. a \in Seq(S) /\ b \in Seq(S)
      BY <1>3, <1>4
    <3>2. /\ a \o b \in Seq(S) /\ Len(a \o b) = Len(a) + Len(b)
          /\ \A k \in 1..(Len(a) + Len(b)) :
               (a \o b)[k] = IF k <= Len(a) THEN a[k] ELSE b[k - Len(a)]
      BY <3>1, ConcatProperties
    <3> QED
      BY <1>5, <3>2
  <2>2. Len(r) = Len(q) - 1
    <3>1. Len(q) \in Nat /\ i \in 1..Len(q) /\ Len(a) = i - 1 /\ Len(b) = Len(q) - i
      BY <1>1, <1>3, <1>4
    <3>2. Len(r) = (i - 1) + (Len(q) - i)
      BY <2>1, <3>1
    <3> QED
      BY <3>1, <3>2
  <2>3. ASSUME NEW k \in 1..(Len(q) - 1) PROVE r[k] = IF k < i THEN q[k] ELSE q[k + 1]
    <3>1. CASE k < i
      <4>1. Len(q) \in Nat /\ i \in 1..Len(q) /\ Len(a) = i - 1
        BY <1>1, <1>3
      <4>2. k \in 1..(i - 1) /\ k \in 1..Len(r) /\ k <= Len(a)
        BY <2>2, <3>1, <4>1
      <4>3. r[k] = a[k] /\ a[k] = q[k]
        BY <1>3, <2>1, <4>2
      <4> QED
        BY <3>1, <4>3
    <3>2. CASE ~(k < i)
      <4>1. k - (i - 1) \in 1..(Len(q) - i) /\ i + (k - (i - 1)) = k + 1
        BY <1>1, <3>2
      <4>2. r[k] = b[k - (i - 1)]
        <5>1. Len(q) \in Nat /\ i \in 1..Len(q) /\ Len(a) = i - 1
          BY <1>1, <1>3
        <5>2. k \in 1..Len(r) /\ ~(k <= Len(a))
          BY <2>2, <3>2, <5>1
        <5> QED
          BY <2>1, <5>1, <5>2
      <4> QED
        BY <1>4, <3>2, <4>1, <4>2
    <3> QED
      BY <3>1, <3>2
  <2> QED
    BY <2>1, <2>2, <2>3
<1>7. Range(r) = {r[k] : k \in 1..Len(r)} /\ Range(q) = {q[k] : k \in 1..Len(q)}
  BY <1>6, MembersOfSeq
<1>8. Range(r) \subseteq Range(q)
  BY <1>1, <1>6, <1>7
<1>9. ASSUME IsInjective(q) PROVE e \notin Range(r) /\ IsInjective(r)
  <2>1. \A j, k \in 1..Len(q) : q[j] = q[k] => j = k
    BY <1>9, InjectiveSeq
  <2>2. e \notin Range(r)
    BY <1>1, <1>2, <1>6, <1>7, <2>1
  <2>3. \A j, k \in 1..Len(r) : r[j] = r[k] => j = k
    BY <1>1, <1>6, <2>1
  <2> QED
    BY <1>6, <2>2, <2>3, InjectiveSeq
<1> QED
  BY <1>6, <1>8, <1>9 DEF r

\* Insert keeps buckets in bounds, free of repetitions and of the own identifier,
\* and every node in the bucket of its distance.
LEMMA InsertKeeps ==
  ASSUME NEW t, GoodTable(t), NEW id \in Remote \cup {Own}
  PROVE  GoodTable(Insert(t, id))
<1> DEFINE i == Bucket(id)
<1>1. i \in Int /\ (i >= 0 => i \in 0..(Bits - 1) /\ id # Own) /\ bucketSize \in Nat
  BY BucketFacts, NodeFacts
<1>2. Insert(t, id) = IF i < 0 THEN t
                      ELSE IF Contains(t[i], id)
                        THEN [t EXCEPT ![i] = Append(RemoveFirst(t[i], id), id)]
                      ELSE IF Len(t[i]) >= bucketSize THEN t
                      ELSE [t EXCEPT ![i] = Append(t[i], id)]
  BY DEF Insert
<1> HIDE DEF i
<1>3. ASSUME i \in 0..(Bits - 1), id # Own, NEW q \in Seq(Remote), Len(q) <= bucketSize, IsInjective(q),
             Range(q) \subseteq Range(t[i]) \cup {id}
      PROVE  GoodTable([t EXCEPT ![i] = q])
  <2> DEFINE u == [t EXCEPT ![i] = q]
  <2>1. /\ u \in [0..(Bits - 1) -> Seq(Remote)] /\ u[i] = q
        /\ \A j \in 0..(Bits - 1) : j # i => u[j] = t[j]
    BY <1>3 DEF GoodTable
  <2> HIDE DEF u
  <2>2. \A m \in Range(q) : m # Own /\ Bucket(m) = i
    BY <1>3 DEF i, GoodTable, TableShape
  <2> QED
    BY <1>3, <2>1, <2>2 DEF GoodTable, TableShape, u
<1>4. CASE i < 0
  BY <1>2, <1>4
<1>5. CASE i >= 0
  <2>1. /\ i \in 0..(Bits - 1) /\ id # Own /\ id \in Remote /\ ~(i < 0)
        /\ t[i] \in Seq(Remote) /\ Len(t[i]) <= bucketSize /\ IsInjective(t[i])
    BY <1>1, <1>5 DEF GoodTable, TableShape
  <2>2. Len(t[i]) \in Nat /\ (Contains(t[i], id) <=> id \in Range(t[i]))
    BY <2>1, MembersOfSeq DEF Contains
  <2>3. CASE Contains(t[i], id)
    <3> DEFINE r == RemoveFirst(t[i], id)
    <3>1. /\ r \in Seq(Remote) /\ Len(r) = Len(t[i]) - 1 /\ Range(r) \subseteq Range(t[i])
          /\ id \notin Range(r) /\ IsInjective(r)
      BY <2>1, <2>3, RemoveFirstFacts
    <3> HIDE DEF r
    <3>2. /\ Append(r, id) \in Seq(Remote) /\ Len(Append(r, id)) = Len(r) + 1
          /\ IsInjective(Append(r, id)) /\ Range(Append(r, id)) \subseteq Range(t[i]) \cup {id}
      BY <2>1, <3>1, AppendFacts
    <3>3. Len(Append(r, id)) <= bucketSize
      BY <1>1, <2>1, <2>2, <3>1, <3>2
    <3>4. GoodTable([t EXCEPT ![i] = Append(r, id)])
      BY <1>3, <2>1, <3>2, <3>3
    <3> QED
      BY <1>2, <2>1, <2>3, <3>4 DEF r
  <2>4. CASE ~Contains(t[i], id) /\ Len(t[i]) >= bucketSize
    BY <1>2, <2>1, <2>4
  <2>5. CASE ~Contains(t[i], id) /\ ~(Len(t[i]) >= bucketSize)
    <3>1. /\ Append(t[i], id) \in Seq(Remote) /\ Len(Append(t[i], id)) = Len(t[i]) + 1
          /\ IsInjective(Append(t[i], id)) /\ Range(Append(t[i], id)) \subseteq Range(t[i]) \cup {id}
      BY <2>1, <2>2, <2>5, AppendFacts
    <3>2. Len(Append(t[i], id)) <= bucketSize
      BY <1>1, <2>2, <2>5, <3>1
    <3>3. GoodTable([t EXCEPT ![i] = Append(t[i], id)])
      BY <1>3, <2>1, <3>1, <3>2
    <3> QED
      BY <1>2, <2>1, <2>5, <3>3
  <2> QED
    BY <2>3, <2>4, <2>5
<1> QED
  BY <1>1, <1>4, <1>5

\* The loop over the nodes of a reply keeps what each insertion keeps.
LEMMA InsertNewKeeps ==
  ASSUME NEW t, GoodTable(t), NEW known, NEW ids \in Seq(Remote \cup {Own})
  PROVE  GoodTable(InsertNew(t, known, ids))
<1> DEFINE N == Len(ids)
           Old(k) == ids[k] \in known \cup {ids[j] : j \in 1..(k - 1)}
           Fill(g, k) == IF k = 0 THEN t
                         ELSE IF Old(k) THEN g[k - 1] ELSE Insert(g[k - 1], ids[k])
           f == CHOOSE g : g = [k \in 0..N |-> Fill(g, k)]
<1>1. InsertNew(t, known, ids) = f[N]
  BY DEF InsertNew
<1>2. N \in Nat /\ \A k \in 1..N : ids[k] \in Remote \cup {Own}
  BY MembersOfSeq
<1> HIDE DEF Old, N, f
<1>3. \A m \in 0..N : \E g : g = [k \in 0..m |-> Fill(g, k)]
  <2> DEFINE Bad == {m \in 0..N : ~\E g : g = [k \in 0..m |-> Fill(g, k)]}
  <2> SUFFICES ASSUME Bad # {} PROVE FALSE
    OBVIOUS
  <2>1. PICK m \in Bad : \A j \in Bad : m <= j
    <3>1. Bad \in SUBSET Nat
      BY <1>2
    <3> HIDE DEF Bad
    <3> QED
      BY <3>1, LeastMember
  <2>2. m \in 0..N /\ ~\E g : g = [k \in 0..m |-> Fill(g, k)]
    BY <2>1
  <2>3. CASE m = 0
    <3> DEFINE g == [k \in 0..0 |-> t]
    <3>1. g = [k \in 0..0 |-> Fill(g, k)]
      OBVIOUS
    <3> QED
      BY <2>2, <2>3, <3>1
  <2>4. CASE m # 0
    <3>1. m - 1 \in 0..N /\ m - 1 \notin Bad
      <4> HIDE DEF Bad
      <4> QED
        BY <1>2, <2>1, <2>2, <2>4
    <3>2. PICK g : g = [k \in 0..(m - 1) |-> Fill(g, k)]
      BY <3>1
    <3> DEFINE h == [k \in 0..m |-> IF k = m THEN Fill(g, m) ELSE g[k]]
    <3>3. \A k \in 0..m : h[k] = Fill(h, k)
      <4> TAKE k \in 0..m
      <4>1. CASE k = 0
        BY <1>2, <2>2, <2>4, <3>2, <4>1
      <4>2. CASE k # 0
        <5>1. k - 1 \in 0..m /\ k - 1 # m /\ h[k - 1] = g[k - 1]
          BY <1>2, <2>2, <4>2
        <5>2. Fill(h, k) = Fill(g, k)
          BY <4>2, <5>1
        <5>3. h[k] = Fill(g, k)
          BY <1>2, <2>2, <3>2
        <5> QED
          BY <5>2, <5>3
      <4> QED
        BY <4>1, <4>2
    <3>4. h = [k \in 0..m |-> h[k]]
      OBVIOUS
    <3> HIDE DEF h, Fill
    <3>5. h = [k \in 0..m |-> Fill(h, k)]
      BY <3>3, <3>4
    <3> QED
      BY <2>2, <3>5
  <2> QED
    BY <2>3, <2>4
<1>4. f = [k \in 0..N |-> Fill(f, k)]
  <2>1. N \in 0..N
    BY <1>2
  <2> HIDE DEF Fill
  <2>2. \E g : g = [k \in 0..N |-> Fill(g, k)]
    BY <1>3, <2>1
  <2> QED
    BY <2>2 DEF f
<1>5. \A m \in 0..N : GoodTable(f[m])
  <2> DEFINE Bad == {m \in 0..N : ~GoodTable(f[m])}
  <2> SUFFICES ASSUME Bad # {} PROVE FALSE
    OBVIOUS
  <2>1. PICK m \in Bad : \A j \in Bad : m <= j
    <3>1. Bad \in SUBSET Nat
      BY <1>2
    <3> HIDE DEF Bad
    <3> QED
      BY <3>1, LeastMember
  <2>2. m \in 0..N /\ ~GoodTable(f[m]) /\ f[m] = Fill(f, m)
    BY <1>4, <2>1
  <2>3. CASE m = 0
    BY <2>2, <2>3
  <2>4. CASE m # 0
    <3>1. m - 1 \in 0..N /\ m - 1 \notin Bad /\ m \in 1..N
      BY <1>2, <2>1, <2>2, <2>4
    <3>2. GoodTable(f[m - 1])
      BY <3>1
    <3> QED
      BY <1>2, <2>2, <2>4, <3>1, <3>2, InsertKeeps
  <2> QED
    BY <2>3, <2>4
<1> QED
  BY <1>1, <1>2, <1>5

-----------------------------------------------------------------------------
(* The transport. *)

\* How many identifiers ago t was used, when x is the last one.
Back(x, t) == IF t <= x THEN x - t ELSE x + TxnMod - t

\* The nodes of the round whose query has not been written yet.
Unasked == {n \in batch : ~Waiting(n)}

\* An identifier in use is not given out again: only the nodes of this round
\* still to be asked take one, and they are fewer than the identifiers left.
IdsKept ==
  /\ batch \subseteq Remote /\ Cardinality(batch) < TxnMod
  /\ \A n \in Remote :
       Waiting(n) => n \in batch /\ Back(txnN, txn[n]) + Cardinality(Unasked) < TxnMod
  /\ \A m, n \in Remote : Waiting(m) /\ txn[m] = txn[n] => m = n

\* The ages of the queries in progress are told by their identifiers.
AgesKept ==
  \A n \in Remote : age[n] = IF Waiting(n) THEN Back(txnN, txn[n]) ELSE TxnMod

\* So are those of recent replies, and a recent reply under an identifier in use
\* comes from the node that was asked.
NetKept ==
  \A p \in net : p[3] # TxnMod =>
    p[3] = Back(txnN, p[1]) /\ \A n \in Remote : txn[n] = p[1] => p[2] = n

TransportInv ==
  KrpcTypeOK /\ IdsKept /\ AgesKept /\ NetKept /\ PendingIsWaiting /\ ReplyToItsQuery

\* The nodes still to be asked are finitely many, fewer than the identifiers.
LEMMA UnaskedFacts ==
  ASSUME IdsKept
  PROVE  /\ IsFiniteSet(batch) /\ Cardinality(batch) \in Nat
         /\ IsFiniteSet(Unasked) /\ Cardinality(Unasked) \in Nat
         /\ Cardinality(Unasked) < TxnMod /\ TxnMod \in Nat \ {0}
         /\ \A n \in Unasked : Cardinality(Unasked \ {n}) = Cardinality(Unasked) - 1
<1>1. IsFiniteSet(batch) /\ TxnMod \in Nat \ {0}
  BY KrpcAssumption, FS_Subset DEF IdsKept
<1>2. Unasked \in SUBSET batch
  BY DEF Unasked
<1>3. /\ IsFiniteSet(Unasked) /\ Cardinality(Unasked) \in Nat /\ Cardinality(batch) \in Nat
      /\ Cardinality(Unasked) <= Cardinality(batch)
  BY <1>1, <1>2, FS_Subset, FS_CardinalityType
<1>4. \A n \in Unasked : Cardinality(Unasked \ {n}) = Cardinality(Unasked) - 1
  BY <1>3, FS_RemoveElement
<1> QED
  BY <1>1, <1>3, <1>4 DEF IdsKept

\* nextTxnID: the counter wraps to 0.
LEMMA NextId ==
  ASSUME KrpcTypeOK
  PROVE  /\ Fresh = (IF txnN + 1 = TxnMod THEN 0 ELSE txnN + 1)
         /\ Fresh \in 0..(TxnMod - 1) /\ TxnMod \in Nat \ {0} /\ txnN \in 0..(TxnMod - 1)
<1>1. TxnMod \in Nat \ {0} /\ txnN \in 0..(TxnMod - 1)
  BY KrpcAssumption DEF KrpcTypeOK
<1>2. (txnN + 1) % TxnMod = IF txnN + 1 = TxnMod THEN 0 ELSE txnN + 1
  BY <1>1
<1> QED
  BY <1>1, <1>2 DEF Fresh

\* An identifier gets one step older unless it is the next one.
LEMMA OneBack ==
  ASSUME KrpcTypeOK, NEW t \in 0..(TxnMod - 1)
  PROVE  /\ Back(txnN, t) \in 0..(TxnMod - 1) /\ Back(Fresh, Fresh) = 0
         /\ Back(txnN, t) + 1 # TxnMod => t # Fresh /\ Back(Fresh, t) = Back(txnN, t) + 1
<1>1. /\ Fresh = (IF txnN + 1 = TxnMod THEN 0 ELSE txnN + 1)
      /\ TxnMod \in Nat \ {0} /\ txnN \in 0..(TxnMod - 1) /\ Fresh \in 0..(TxnMod - 1)
  BY NextId
<1>2. Back(txnN, t) \in 0..(TxnMod - 1) /\ Back(Fresh, Fresh) = 0
  BY <1>1 DEF Back
<1>3. ASSUME Back(txnN, t) + 1 # TxnMod
      PROVE  t # Fresh /\ Back(Fresh, t) = Back(txnN, t) + 1
  BY <1>1, <1>3 DEF Back
<1> QED
  BY <1>2, <1>3

\* The next identifier is not in use, and the ones in use get one step older.
LEMMA FreshFacts ==
  ASSUME KrpcTypeOK, IdsKept, NEW n \in batch, ~Waiting(n)
  PROVE  /\ n \in Unasked /\ n \in Remote
         /\ \A m \in Remote : Waiting(m) =>
              txn[m] # Fresh /\ Back(Fresh, txn[m]) = Back(txnN, txn[m]) + 1
<1>1. n \in Unasked /\ n \in Remote
  BY DEF Unasked, IdsKept
<1>2. ASSUME NEW m \in Remote, Waiting(m)
      PROVE  txn[m] # Fresh /\ Back(Fresh, txn[m]) = Back(txnN, txn[m]) + 1
  <2> DEFINE U == Cardinality(Unasked)
             t == txn[m]
  <2>1. U \in Nat /\ U # 0 /\ Back(txnN, t) + U < TxnMod
    BY <1>1, <1>2, UnaskedFacts, FS_EmptySet DEF IdsKept
  <2>2. t \in 0..(TxnMod - 1)
    BY <1>2, KrpcAssumption DEF KrpcTypeOK, Waiting
  <2> HIDE DEF U, t
  <2>3. Back(txnN, t) \in Nat /\ Back(txnN, t) + 1 # TxnMod
    <3>1. Back(txnN, t) \in Nat
      BY <2>2, OneBack
    <3> QED
      BY <2>1, <3>1, NextId
  <2>4. t # Fresh /\ Back(Fresh, t) = Back(txnN, t) + 1
    BY <2>2, <2>3, OneBack
  <2> QED
    BY <2>4 DEF t
<1> QED
  BY <1>1, <1>2

\* Ages are ages, and a reply stays the reply of its query.
LEMMA OlderFacts ==
  ASSUME KrpcTypeOK
  PROVE  /\ \A a \in 0..TxnMod : Older(a) \in 0..TxnMod /\ Older(a) # 0
         /\ \A a \in 0..TxnMod : Older(a) = TxnMod <=> a = TxnMod \/ a + 1 = TxnMod
         /\ \A a \in 0..TxnMod : a # TxnMod => Older(a) = a + 1
         /\ \A p \in Reply : OlderReply(p) \in Reply /\ OlderReply(p)[1] = p[1]
                              /\ OlderReply(p)[2] = p[2] /\ OlderReply(p)[3] = Older(p[3])
<1>1. TxnMod \in Nat \ {0}
  BY NextId
<1>2. /\ \A a \in 0..TxnMod : Older(a) \in 0..TxnMod /\ Older(a) # 0
      /\ \A a \in 0..TxnMod : Older(a) = TxnMod <=> a = TxnMod \/ a + 1 = TxnMod
      /\ \A a \in 0..TxnMod : a # TxnMod => Older(a) = a + 1
  BY <1>1 DEF Older
<1>3. ASSUME NEW p \in Reply
      PROVE  OlderReply(p) \in Reply /\ OlderReply(p)[1] = p[1]
             /\ OlderReply(p)[2] = p[2] /\ OlderReply(p)[3] = Older(p[3])
  <2>1. p[1] \in 0..(TxnMod - 1) /\ p[2] \in Remote /\ p[3] \in 0..TxnMod
    BY DEF Reply
  <2> QED
    BY <1>2, <2>1 DEF OlderReply, Reply
<1> QED
  BY <1>2, <1>3

\* A reply gets older together with its query.
LEMMA ReplyAges ==
  ASSUME KrpcTypeOK, NEW p \in Reply, NEW i, NEW n, NEW a,
         p[1] = i, p = <<i, n, a>> \/ p[3] = TxnMod
  PROVE  /\ OlderReply(p)[1] = i
         /\ OlderReply(p) = <<i, n, Older(a)>> \/ OlderReply(p)[3] = TxnMod
<1>1. OlderReply(p)[1] = i /\ OlderReply(p)[3] = Older(p[3])
  BY OlderFacts
<1>2. CASE p = <<i, n, a>>
  BY <1>1, <1>2 DEF OlderReply
<1>3. CASE p[3] = TxnMod
  <2>1. TxnMod \in 0..TxnMod
    BY NextId
  <2>2. Older(TxnMod) = TxnMod
    BY <2>1, OlderFacts
  <2> QED
    BY <1>1, <1>3, <2>2
<1> QED
  BY <1>2, <1>3

\* When the next identifier is taken and no query has it, recent replies stay
\* replies under identifiers of the nodes they come from.
LEMMA NetGetsOlder ==
  ASSUME KrpcTypeOK, NetKept, NEW p \in OlderNet, p[3] # TxnMod
  PROVE  /\ p[3] = Back(Fresh, p[1]) /\ p[1] # Fresh
         /\ \A n \in Remote : txn[n] = p[1] => p[2] = n
<1>1. PICK q \in net : p = OlderReply(q)
  BY DEF OlderNet
<1>2. q \in Reply /\ q[1] \in 0..(TxnMod - 1) /\ q[3] \in 0..TxnMod
  BY DEF KrpcTypeOK, Reply
<1>3. p[1] = q[1] /\ p[2] = q[2] /\ p[3] = Older(q[3])
  BY <1>1, <1>2, OlderFacts
<1>4. q[3] # TxnMod /\ q[3] + 1 # TxnMod /\ p[3] = q[3] + 1
  BY <1>2, <1>3, OlderFacts
<1>5. q[3] = Back(txnN, q[1]) /\ \A n \in Remote : txn[n] = q[1] => q[2] = n
  BY <1>4 DEF NetKept
<1> QED
  BY <1>2, <1>3, <1>4, <1>5, OneBack

\* A query is written: its identifier is one that no one waits for.
LEMMA SendKeeps ==
  ASSUME TransportInv, NEW n \in batch, Send(n), UNCHANGED batch
  PROVE  TransportInv'
<1> DEFINE f == Fresh
<1> USE DEF TransportInv
<1>1. /\ ~Waiting(n) /\ txnN' = f /\ txn' = [txn EXCEPT ![n] = f]
      /\ txns' = [t \in DOMAIN txns \cup {f} |-> IF t = f THEN n ELSE txns[t]]
      /\ chan' = OlderChan /\ net' = OlderNet \cup {<<f, n, 0>>}
      /\ age' = [OlderAge EXCEPT ![n] = 0]
  BY DEF Send
<1>2. /\ n \in Unasked /\ n \in Remote
      /\ \A m \in Remote : Waiting(m) => txn[m] # f /\ Back(f, txn[m]) = Back(txnN, txn[m]) + 1
  BY <1>1, FreshFacts
<1>3. f \in 0..(TxnMod - 1) /\ TxnMod \in Nat \ {0} /\ f # TxnMod /\ TxnMod \notin 0..(TxnMod - 1)
  BY NextId
<1>3a. /\ Back(f, f) = 0 /\ \A t \in 0..(TxnMod - 1) : Back(txnN, t) \in 0..(TxnMod - 1)
       /\ \A p \in OlderNet : p[3] # TxnMod =>
            p[3] = Back(f, p[1]) /\ p[1] # f /\ \A m \in Remote : txn[m] = p[1] => p[2] = m
  BY <1>3, OneBack, NetGetsOlder
<1> HIDE DEF f
<1>4. /\ txn \in [Remote -> 0..TxnMod] /\ DOMAIN txns \subseteq 0..(TxnMod - 1)
      /\ Range(txns) \subseteq Remote /\ \A t \in DOMAIN txns : txns[t] \in Remote
      /\ chan \in [Remote -> Reply \cup {NoReply}] /\ age \in [Remote -> 0..TxnMod]
      /\ net \subseteq Reply /\ IsFiniteSet(DOMAIN txns)
  BY DEF KrpcTypeOK, Range
<1>5. \A m \in Remote : /\ txn'[m] = IF m = n THEN f ELSE txn[m]
                        /\ m # n => (Waiting(m)' <=> Waiting(m))
  BY <1>1, <1>2, <1>4 DEF Waiting
<1>5a. \A m \in Remote : /\ chan'[m] = IF chan[m] = NoReply THEN NoReply ELSE OlderReply(chan[m])
                         /\ age'[m] = IF m = n THEN 0 ELSE Older(age[m])
  BY <1>1 DEF OlderChan, OlderAge
<1>5b. chan[n] = NoReply
  <2>1. chan[n] # NoReply => chan[n][1] = TxnMod /\ chan[n] \in Reply
    BY <1>1, <1>2, <1>4 DEF ReplyToItsQuery, Waiting
  <2> QED
    BY <1>3, <2>1 DEF Reply
<1>6. \A m \in Remote : txn[m] # f
  BY <1>2, <1>3 DEF Waiting
<1>7. KrpcTypeOK'
  <2>1. /\ txnN' \in 0..(TxnMod - 1) /\ txn' \in [Remote -> 0..TxnMod]
    BY <1>1, <1>2, <1>3, <1>4
  <2>1a. /\ chan' \in [Remote -> Reply \cup {NoReply}] /\ age' \in [Remote -> 0..TxnMod]
         /\ net' \subseteq Reply
    BY <1>1, <1>2, <1>3, <1>4, OlderFacts DEF OlderChan, OlderAge, OlderNet, Reply
  <2>2. DOMAIN txns' = DOMAIN txns \cup {f}
    BY <1>1
  <2>3. IsFiniteSet(DOMAIN txns') /\ DOMAIN txns' \subseteq 0..(TxnMod - 1)
    BY <1>3, <1>4, <2>2, FS_AddElement
  <2>4. Range(txns') \subseteq Remote
    BY <1>1, <1>2, <1>4 DEF Range
  <2> QED
    BY <2>1, <2>1a, <2>3, <2>4 DEF KrpcTypeOK
<1>8. IdsKept'
  <2>1. Unasked' = Unasked \ {n}
    BY <1>2, <1>3, <1>5 DEF Unasked, Waiting, IdsKept
  <2>2. /\ Cardinality(Unasked') = Cardinality(Unasked) - 1 /\ Cardinality(Unasked) \in Nat
        /\ Cardinality(Unasked) < TxnMod
    BY <1>2, <2>1, UnaskedFacts
  <2>3. ASSUME NEW m \in Remote, Waiting(m)'
        PROVE  m \in batch' /\ Back(txnN', txn'[m]) + Cardinality(Unasked') < TxnMod
    <3>1. CASE m = n
      <4>1. Back(txnN', txn'[m]) = 0
        BY <1>1, <1>3, <1>5, <3>1 DEF Back
      <4> QED
        BY <1>3, <2>2, <3>1, <4>1
    <3>2. CASE m # n
      <4>1. Waiting(m) /\ txn'[m] = txn[m] /\ Back(f, txn[m]) = Back(txnN, txn[m]) + 1
        BY <1>2, <1>5, <2>3, <3>2
      <4>2. Back(txnN, txn[m]) \in Int /\ Back(txnN, txn[m]) + Cardinality(Unasked) < TxnMod
        BY <1>3, <1>4, <4>1, NextId DEF IdsKept, Back
      <4> QED
        BY <1>1, <1>3, <2>2, <4>1, <4>2 DEF IdsKept
    <3> QED
      BY <3>1, <3>2
  <2>4. ASSUME NEW l \in Remote, NEW m \in Remote, Waiting(l)', txn'[l] = txn'[m]
        PROVE  l = m
    BY <1>5, <1>6, <2>4 DEF IdsKept
  <2> QED
    BY <2>3, <2>4 DEF IdsKept
<1>9. NetKept'
  <2> SUFFICES ASSUME NEW p \in net', p[3] # TxnMod
               PROVE  /\ p[3] = Back(txnN', p[1])
                      /\ \A m \in Remote : txn'[m] = p[1] => p[2] = m
    BY DEF NetKept
  <2>1. CASE p = <<f, n, 0>>
    BY <1>1, <1>3a, <1>5, <1>6, <2>1
  <2>2. CASE p # <<f, n, 0>>
    <3>1. p \in OlderNet
      BY <1>1, <2>2
    <3> QED
      BY <1>1, <1>3a, <1>5, <3>1
  <2> QED
    BY <2>1, <2>2
<1>9a. AgesKept'
  <2> SUFFICES ASSUME NEW m \in Remote
               PROVE  age'[m] = IF Waiting(m)' THEN Back(txnN', txn'[m]) ELSE TxnMod
    BY DEF AgesKept
  <2>1. CASE m = n
    BY <1>1, <1>3, <1>3a, <1>5, <1>5a, <2>1 DEF Waiting
  <2>2. CASE m # n /\ Waiting(m)
    <3>1. txn'[m] = txn[m] /\ Waiting(m)' /\ Back(f, txn[m]) = Back(txnN, txn[m]) + 1
      BY <1>2, <1>5, <2>2
    <3>2. age[m] = Back(txnN, txn[m]) /\ txn[m] \in 0..(TxnMod - 1)
      BY <1>3, <1>4, <2>2 DEF AgesKept, Waiting
    <3>3. age[m] # TxnMod
      BY <1>3, <1>3a, <3>2
    <3> QED
      BY <1>1, <1>4, <1>5a, <2>2, <3>1, <3>2, <3>3, OlderFacts
  <2>3. CASE m # n /\ ~Waiting(m)
    <3>1. age[m] = TxnMod /\ Older(TxnMod) = TxnMod /\ ~Waiting(m)'
      BY <1>3, <1>5, <2>3 DEF AgesKept, Older
    <3> QED
      BY <1>5a, <2>3, <3>1
  <2> QED
    BY <2>1, <2>2, <2>3
<1>10. PendingIsWaiting'
  <2> SUFFICES ASSUME NEW t \in DOMAIN txns' PROVE txn'[txns'[t]] = t /\ chan'[txns'[t]] = NoReply
    BY DEF PendingIsWaiting
  <2>1. CASE t = f
    BY <1>1, <1>2, <1>5, <1>5a, <1>5b, <2>1
  <2>2. CASE t # f
    <3>1. t \in DOMAIN txns /\ txns'[t] = txns[t] /\ txns[t] \in Remote
      BY <1>1, <1>4, <2>2
    <3>2. txn[txns[t]] = t /\ chan[txns[t]] = NoReply /\ t # TxnMod
      BY <1>3, <1>4, <3>1 DEF PendingIsWaiting
    <3> QED
      BY <1>1, <1>5, <1>5a, <3>1, <3>2 DEF Waiting
  <2> QED
    BY <2>1, <2>2
<1>11. ReplyToItsQuery'
  <2> SUFFICES ASSUME NEW m \in Remote, chan'[m] # NoReply
               PROVE  /\ chan'[m][1] = txn'[m]
                      /\ chan'[m] = <<txn'[m], m, age'[m]>> \/ chan'[m][3] = TxnMod
    BY DEF ReplyToItsQuery
  <2>1. chan[m] # NoReply /\ m # n /\ chan[m] \in Reply /\ chan'[m] = OlderReply(chan[m])
    BY <1>4, <1>5a, <1>5b
  <2>2. txn'[m] = txn[m] /\ age'[m] = Older(age[m])
    BY <1>5, <1>5a, <2>1
  <2>3. /\ chan[m][1] = txn[m]
        /\ chan[m] = <<txn[m], m, age[m]>> \/ chan[m][3] = TxnMod
    BY <2>1 DEF ReplyToItsQuery
  <2> QED
    BY <2>1, <2>2, <2>3, ReplyAges
<1> QED
  BY <1>7, <1>8, <1>9, <1>9a, <1>10, <1>11

\* A query that cannot be written leaves no pending entry.
LEMMA SendFailsKeeps ==
  ASSUME TransportInv, NEW n \in batch, SendFails(n), batch' = batch \ {n}
  PROVE  TransportInv'
<1> USE DEF TransportInv
<1>1. /\ ~Waiting(n) /\ txnN' = Fresh /\ UNCHANGED <<txns, txn>>
      /\ net' = OlderNet /\ age' = OlderAge /\ chan' = OlderChan
  BY DEF SendFails
<1>2. /\ n \in Unasked /\ n \in Remote
      /\ \A m \in Remote : Waiting(m) => Back(txnN', txn[m]) = Back(txnN, txn[m]) + 1
  BY <1>1, FreshFacts
<1>3. /\ chan \in [Remote -> Reply \cup {NoReply}] /\ age \in [Remote -> 0..TxnMod]
      /\ net \subseteq Reply /\ txn \in [Remote -> 0..TxnMod] /\ TxnMod \in Nat \ {0}
  BY NextId DEF KrpcTypeOK
<1>3a. \A m \in Remote : /\ chan'[m] = IF chan[m] = NoReply THEN NoReply ELSE OlderReply(chan[m])
                         /\ age'[m] = Older(age[m]) /\ (Waiting(m)' <=> Waiting(m))
  BY <1>1 DEF OlderChan, OlderAge, Waiting
<1>5. KrpcTypeOK'
  <2>1. /\ chan' \in [Remote -> Reply \cup {NoReply}] /\ age' \in [Remote -> 0..TxnMod]
        /\ net' \subseteq Reply
    BY <1>1, <1>3, OlderFacts DEF OlderChan, OlderAge, OlderNet
  <2> QED
    BY <1>1, <2>1, NextId DEF KrpcTypeOK
<1>6. NetKept'
  BY <1>1, NetGetsOlder DEF NetKept
<1>7. PendingIsWaiting'
  BY <1>1, <1>3a DEF PendingIsWaiting, KrpcTypeOK, Range
<1>8. AgesKept'
  <2> SUFFICES ASSUME NEW m \in Remote
               PROVE  age'[m] = IF Waiting(m)' THEN Back(txnN', txn'[m]) ELSE TxnMod
    BY DEF AgesKept
  <2>1. CASE Waiting(m)
    <3>1. age[m] = Back(txnN, txn[m]) /\ txn[m] \in 0..(TxnMod - 1)
      BY <1>3, <2>1 DEF AgesKept, Waiting
    <3>2. age[m] # TxnMod /\ age[m] \in 0..TxnMod
      BY <1>3, <3>1, OneBack
    <3> QED
      BY <1>1, <1>2, <1>3a, <2>1, <3>1, <3>2, OlderFacts
  <2>2. CASE ~Waiting(m)
    <3>1. age[m] = TxnMod /\ TxnMod \in 0..TxnMod
      BY <1>3, <2>2 DEF AgesKept
    <3>2. Older(TxnMod) = TxnMod
      BY <3>1, OlderFacts
    <3> QED
      BY <1>3a, <2>2, <3>1, <3>2
  <2> QED
    BY <2>1, <2>2
<1>9. ReplyToItsQuery'
  <2> SUFFICES ASSUME NEW m \in Remote, chan'[m] # NoReply
               PROVE  /\ chan'[m][1] = txn'[m]
                      /\ chan'[m] = <<txn'[m], m, age'[m]>> \/ chan'[m][3] = TxnMod
    BY DEF ReplyToItsQuery
  <2>1. chan[m] # NoReply /\ chan[m] \in Reply /\ chan'[m] = OlderReply(chan[m])
    BY <1>3, <1>3a
  <2>2. txn'[m] = txn[m] /\ age'[m] = Older(age[m])
    BY <1>1, <1>3a
  <2>3. /\ chan[m][1] = txn[m]
        /\ chan[m] = <<txn[m], m, age[m]>> \/ chan[m][3] = TxnMod
    BY <2>1 DEF ReplyToItsQuery
  <2> QED
    BY <2>1, <2>2, <2>3, ReplyAges
<1>4. IdsKept'
  <2>1. Unasked' = Unasked \ {n}
    BY <1>1 DEF Unasked, Waiting
  <2>2. /\ Cardinality(Unasked') = Cardinality(Unasked) - 1 /\ Cardinality(Unasked) \in Nat
        /\ TxnMod \in Nat /\ Cardinality(batch) \in Nat
    BY <1>2, <2>1, UnaskedFacts
  <2>3. Cardinality(batch') \in Nat /\ Cardinality(batch') <= Cardinality(batch)
    BY UnaskedFacts, FS_Subset, FS_CardinalityType
  <2>4. ASSUME NEW m \in Remote, Waiting(m)'
        PROVE  m \in batch' /\ Back(txnN', txn'[m]) + Cardinality(Unasked') < TxnMod
    <3>1. Waiting(m) /\ m # n /\ m \in batch
      BY <1>1, <2>4 DEF Waiting, IdsKept
    <3>2. /\ Back(txnN, txn[m]) + Cardinality(Unasked) < TxnMod
          /\ Back(txnN', txn[m]) = Back(txnN, txn[m]) + 1
      BY <1>2, <3>1 DEF IdsKept
    <3>3. Back(txnN, txn[m]) \in Int
      BY NextId DEF KrpcTypeOK, Back
    <3> QED
      BY <1>1, <2>2, <3>1, <3>2, <3>3
  <2>5. \A l, m \in Remote : Waiting(l)' /\ txn'[l] = txn'[m] => l = m
    BY <1>1 DEF IdsKept, Waiting
  <2>6. batch' \subseteq Remote /\ Cardinality(batch') < TxnMod
    BY <2>2, <2>3 DEF IdsKept
  <2> QED
    BY <2>4, <2>5, <2>6 DEF IdsKept
<1> QED
  BY <1>4, <1>5, <1>6, <1>7, <1>8, <1>9

\* Listen hands a reply to the query it answers, or drops it.
LEMMA ReceiveKeeps ==
  ASSUME TransportInv, NEW p \in net \cup Stray, Receive(p), UNCHANGED batch
  PROVE  TransportInv'
<1> DEFINE m == txns[p[1]]
<1> USE DEF TransportInv
<1>1. /\ p[1] \in DOMAIN txns /\ chan[m] = NoReply /\ chan' = [chan EXCEPT ![m] = p]
      /\ txns' = [t \in DOMAIN txns \ {p[1]} |-> txns[t]]
      /\ UNCHANGED <<txnN, txn, net, age>>
  BY DEF Receive, Restrict
<1>2. /\ txn \in [Remote -> 0..TxnMod] /\ \A t \in DOMAIN txns : txns[t] \in Remote
      /\ chan \in [Remote -> Reply \cup {NoReply}] /\ IsFiniteSet(DOMAIN txns)
      /\ DOMAIN txns \subseteq 0..(TxnMod - 1) /\ TxnMod \in Nat \ {0}
  BY NextId DEF KrpcTypeOK, Range
<1>2a. p \in Reply /\ (p \in net \/ p[3] = TxnMod)
  <2>1. CASE p \in net
    BY <2>1 DEF KrpcTypeOK
  <2>2. CASE p \in Stray
    BY <1>2, <2>2, KrpcAssumption DEF Stray, Reply
  <2> QED
    BY <2>1, <2>2
<1>3. m \in Remote /\ txn[m] = p[1]
  BY <1>1, <1>2 DEF PendingIsWaiting
<1>4. p[1] = txn[m] /\ (p = <<txn[m], m, age[m]>> \/ p[3] = TxnMod)
  <2>1. CASE p[3] # TxnMod
    <3>1. p[3] = Back(txnN, txn[m]) /\ p[2] = m
      BY <1>2a, <1>3, <2>1 DEF NetKept
    <3>2. txn[m] # TxnMod
      BY <1>2, <1>2a, <1>3 DEF Reply
    <3>3. age[m] = Back(txnN, txn[m])
      BY <1>3, <3>2 DEF AgesKept, Waiting
    <3>4. p = <<p[1], p[2], p[3]>>
      BY <1>2a DEF Reply
    <3> QED
      BY <1>3, <3>1, <3>3, <3>4
  <2> QED
    BY <1>3, <2>1
<1> HIDE DEF m
<1>5. \A l \in Remote : chan'[l] = IF l = m THEN p ELSE chan[l]
  BY <1>1, <1>2, <1>3
<1>6. DOMAIN txns' = DOMAIN txns \ {p[1]} /\ \A t \in DOMAIN txns' : txns'[t] = txns[t]
  BY <1>1
<1>7. KrpcTypeOK'
  <2>1. IsFiniteSet(DOMAIN txns') /\ DOMAIN txns' \subseteq 0..(TxnMod - 1)
    BY <1>2, <1>6, FS_Subset
  <2>2. Range(txns') \subseteq Remote
    BY <1>2, <1>6 DEF Range
  <2>3. chan' \in [Remote -> Reply \cup {NoReply}]
    BY <1>1, <1>2, <1>2a
  <2> QED
    BY <1>1, <2>1, <2>2, <2>3 DEF KrpcTypeOK
<1>8. PendingIsWaiting'
  BY <1>1, <1>2, <1>3, <1>5, <1>6 DEF PendingIsWaiting
<1>9. ReplyToItsQuery'
  BY <1>1, <1>4, <1>5 DEF ReplyToItsQuery
<1>10. IdsKept' /\ NetKept' /\ AgesKept'
  <2>1. Unasked' = Unasked /\ \A l \in Remote : Waiting(l)' <=> Waiting(l)
    BY <1>1 DEF Unasked, Waiting
  <2> QED
    BY <1>1, <2>1 DEF IdsKept, NetKept, AgesKept
<1> QED
  BY <1>7, <1>8, <1>9, <1>10

\* A query returns, answered or timed out, and its entry is gone.
LEMMA ReturnKeeps ==
  ASSUME TransportInv, NEW n \in batch, Answered(n) \/ Timeout(n), batch' = batch \ {n}
  PROVE  TransportInv'
<1> USE DEF TransportInv
<1>1. /\ Waiting(n) /\ txn' = [txn EXCEPT ![n] = TxnMod] /\ chan' = [chan EXCEPT ![n] = NoReply]
      /\ txnN' = txnN /\ age' = [age EXCEPT ![n] = TxnMod] /\ n \in Remote
  BY DEF Answered, Timeout, Return, IdsKept
<1>2. net' \subseteq net
  <2>1. PICK kept \in kSubset(Min({MaxLate, Cardinality(Late(age'))}), Late(age')) :
          net' = (net \ Late(age')) \cup kept
    BY DEF Answered, Timeout, Return
  <2>2. kept \subseteq net
    BY <2>1 DEF kSubset, Late
  <2> QED
    BY <2>1, <2>2
<1>3. /\ txn \in [Remote -> 0..TxnMod] /\ \A t \in DOMAIN txns : txns[t] \in Remote
      /\ chan \in [Remote -> Reply \cup {NoReply}] /\ age \in [Remote -> 0..TxnMod]
      /\ net \subseteq Reply /\ IsFiniteSet(DOMAIN txns)
      /\ DOMAIN txns \subseteq 0..(TxnMod - 1) /\ TxnMod \in Nat /\ TxnMod \notin 0..(TxnMod - 1)
  BY NextId DEF KrpcTypeOK, Range
<1>4. \A m \in Remote : /\ txn'[m] = IF m = n THEN TxnMod ELSE txn[m]
                        /\ chan'[m] = IF m = n THEN NoReply ELSE chan[m]
                        /\ age'[m] = IF m = n THEN TxnMod ELSE age[m]
                        /\ Waiting(m)' <=> Waiting(m) /\ m # n
  BY <1>1, <1>3 DEF Waiting
<1>5. /\ DOMAIN txns' \subseteq DOMAIN txns
      /\ \A t \in DOMAIN txns' : txns'[t] = txns[t] /\ txns[t] # n
  <2>1. CASE Answered(n)
    BY <2>1 DEF Answered, PendingIsWaiting
  <2>2. CASE Timeout(n)
    BY <2>2 DEF Timeout, Restrict, PendingIsWaiting
  <2> QED
    BY <2>1, <2>2
<1>6. KrpcTypeOK'
  <2>1. IsFiniteSet(DOMAIN txns') /\ DOMAIN txns' \subseteq 0..(TxnMod - 1)
    BY <1>3, <1>5, FS_Subset
  <2>2. Range(txns') \subseteq Remote
    BY <1>3, <1>5 DEF Range
  <2>3. /\ chan' \in [Remote -> Reply \cup {NoReply}] /\ age' \in [Remote -> 0..TxnMod]
        /\ txn' \in [Remote -> 0..TxnMod] /\ net' \subseteq Reply
    BY <1>1, <1>2, <1>3
  <2> QED
    BY <1>1, <2>1, <2>2, <2>3 DEF KrpcTypeOK
<1>7. PendingIsWaiting'
  BY <1>3, <1>4, <1>5 DEF PendingIsWaiting
<1>8. ReplyToItsQuery'
  BY <1>4 DEF ReplyToItsQuery
<1>9. NetKept' /\ AgesKept'
  <2>1. ASSUME NEW p \in net', p[3] # TxnMod
        PROVE  /\ p[3] = Back(txnN', p[1])
               /\ \A m \in Remote : txn'[m] = p[1] => p[2] = m
    <3>1. p \in net /\ p[1] # TxnMod
      BY <1>2, <1>3, <2>1 DEF Reply
    <3> QED
      BY <1>1, <1>4, <2>1, <3>1 DEF NetKept
  <2>2. AgesKept'
    BY <1>1, <1>3, <1>4 DEF AgesKept, Waiting
  <2> QED
    BY <2>1, <2>2 DEF NetKept
<1>10. IdsKept'
  <2>1. Unasked' = Unasked
    BY <1>1, <1>4 DEF Unasked, IdsKept
  <2>2. Cardinality(batch') \in Nat /\ Cardinality(batch') < TxnMod /\ batch' \subseteq Remote
    <3>1. Cardinality(batch') \in Nat /\ Cardinality(batch') <= Cardinality(batch)
          /\ Cardinality(batch) \in Nat
      BY UnaskedFacts, FS_Subset, FS_CardinalityType
    <3> QED
      BY <1>3, <3>1 DEF IdsKept
  <2>3. \A m \in Remote :
          Waiting(m)' => m \in batch' /\ Back(txnN', txn'[m]) + Cardinality(Unasked') < TxnMod
    BY <1>1, <1>4, <2>1 DEF IdsKept
  <2>4. \A l, m \in Remote : Waiting(l)' /\ txn'[l] = txn'[m] => l = m
    BY <1>4 DEF IdsKept, Waiting
  <2> QED
    BY <2>2, <2>3, <2>4 DEF IdsKept
<1> QED
  BY <1>6, <1>7, <1>8, <1>9, <1>10

\* The transport rests while the caller works, and a new round begins when
\* every query of the last one has returned.
LEMMA RoundKeeps ==
  ASSUME TransportInv, UNCHANGED krpcVars,
         \/ batch' = batch
         \/ batch = {} /\ batch' \subseteq Remote /\ Cardinality(batch') < TxnMod
  PROVE  TransportInv'
<1>1. UNCHANGED <<txnN, txns, txn, chan, net, age>>
  BY DEF krpcVars
<1>2. KrpcTypeOK' /\ AgesKept' /\ NetKept' /\ PendingIsWaiting' /\ ReplyToItsQuery'
  BY <1>1
  DEF TransportInv, KrpcTypeOK, AgesKept, NetKept, PendingIsWaiting, ReplyToItsQuery, Waiting
<1>3. \A n \in Remote : Waiting(n)' <=> Waiting(n)
  BY <1>1 DEF Waiting
<1>4. CASE batch' = batch
  <2>1. Unasked' = Unasked
    BY <1>1, <1>4 DEF Unasked, Waiting
  <2> QED
    BY <1>1, <1>2, <1>3, <1>4, <2>1 DEF TransportInv, IdsKept
<1>5. CASE batch = {} /\ batch' \subseteq Remote /\ Cardinality(batch') < TxnMod
  <2>1. \A n \in Remote : ~Waiting(n)
    BY <1>5 DEF TransportInv, IdsKept
  <2>2. IdsKept'
    BY <1>3, <1>5, <2>1 DEF IdsKept
  <2> QED
    BY <1>2, <2>2 DEF TransportInv
<1> QED
  BY <1>4, <1>5

-----------------------------------------------------------------------------
(* Lookups and the operations on them. *)

\* The closest nodes heard of have all been asked.
AllAsked == TakeClosest(shortlist, target, alpha) \subseteq queried

\* The types, and why a lookup may stop: the nodes a round asks are the closest
\* unasked ones, so as long as it brings no new node none of them is missed.
LookupInv ==
  /\ GoodTable(table) /\ tokens \subseteq Remote /\ closest \subseteq Remote
  /\ phase \in {"bootstrap", "find", "get", "announce", "idle", "failed"}
  /\ shortlist \cup queried \subseteq Remote \cup {Own}
  /\ target \in NodeID /\ added \in BOOLEAN
  /\ stale \subseteq 0..(Bits - 1) /\ ops \in 0..MaxOps
  /\ phase \in {"find", "get"} => Own \in queried
  /\ phase = "announce" => shortlist = {}
  /\ phase = "idle" => AllAsked
  /\ phase \in {"find", "get"} /\ ~added => AllAsked

DhtInv == TransportInv /\ LookupInv

\* The closest nodes of the table are other nodes.
LEMMA ClosestNodes ==
  ASSUME NEW t, GoodTable(t)
  PROVE  \A id, n : Closest(t, id, n) \subseteq Remote
<1>1. \A i \in DOMAIN t : Range(t[i]) \subseteq Remote
  BY MembersOfSeq DEF GoodTable
<1> QED
  BY <1>1 DEF Closest, TakeClosest, Members

\* A random identifier of a bucket is an identifier.
LEMMA RandomId ==
  ASSUME NEW i, NEW random \in NodeID
  PROVE  randomIDInBucket(i, random) \in NodeID
<1> DEFINE d == XOR(Own, random)
           dist == [k \in 1..Bits |-> IF k < Bits - i THEN 0
                                      ELSE IF k = Bits - i THEN 1 ELSE d[k]]
<1>1. Own \in NodeID /\ d \in NodeID
  BY NodeFacts, DistanceFacts
<1> HIDE DEF d
<1>2. dist \in NodeID
  BY <1>1 DEF NodeID
<1> HIDE DEF dist
<1>3. XOR(Own, dist) \in NodeID
  BY <1>1, <1>2, DistanceFacts
<1> QED
  BY <1>3 DEF randomIDInBucket, dist, d

\* The nodes the next round asks.
LEMMA CandidateFacts ==
  ASSUME LookupInv
  PROVE  /\ Candidates \subseteq shortlist \ queried
         /\ Cardinality(Candidates) <= alpha /\ IsFiniteSet(Candidates)
         /\ Cardinality(Candidates) \in Nat
         /\ Candidates = {} => shortlist \subseteq queried
<1> DEFINE S == shortlist \ queried
<1>1. S \in SUBSET NodeID /\ IsFiniteSet(S) /\ target \in NodeID /\ alpha \in Nat \ {0}
  BY NodeFacts, DhtAssumption, FS_Subset DEF LookupInv
<1> HIDE DEF S
<1>2. /\ TakeClosest(S, target, alpha) \subseteq S
      /\ IsFiniteSet(TakeClosest(S, target, alpha))
      /\ Cardinality(TakeClosest(S, target, alpha)) <= alpha
      /\ TakeClosest(S, target, alpha) = {} => S = {}
  BY <1>1, ClosestBounded
<1>3. Cardinality(TakeClosest(S, target, alpha)) \in Nat
  BY <1>2, FS_CardinalityType
<1> QED
  BY <1>2, <1>3 DEF Candidates, S

\* Once the candidates have been asked, so have the closest nodes heard of.
LEMMA RoundAsks ==
  ASSUME LookupInv
  PROVE  TakeClosest(shortlist, target, alpha) \subseteq queried \cup Candidates
<1>1. IsFiniteSet(shortlist) /\ alpha \in Nat
  BY NodeFacts, DhtAssumption, FS_Subset DEF LookupInv
<1>2. ASSUME NEW a \in TakeClosest(shortlist, target, alpha), a \notin queried PROVE a \in Candidates
  <2>1. a \in shortlist \ queried
    BY <1>2 DEF TakeClosest
  <2> QED
    BY <1>1, <2>1, ClosestOfPart DEF Candidates
<1> QED
  BY <1>2

\* A lookup starts from the closest nodes of the table, which all are to be asked.
LEMMA StartKeeps ==
  ASSUME LookupInv, NEW kind \in {"find", "get"}, NEW id \in NodeID, StartLookup(kind, id),
         UNCHANGED <<table, tokens, closest>>, stale' \subseteq stale, ops' \in 0..MaxOps
  PROVE  LookupInv'
<1>1. /\ phase' = kind /\ target' = id /\ shortlist' = Closest(table, id, alpha)
      /\ queried' = {Own} /\ added' = TRUE
  BY DEF StartLookup
<1>2. shortlist' \subseteq Remote
  BY <1>1, ClosestNodes DEF LookupInv
<1> QED
  BY <1>1, <1>2 DEF LookupInv

\* The nodes of an answer join the shortlist and the table.
LEMMA HeardKeeps ==
  ASSUME LookupInv, phase \in {"find", "get"}, NEW n \in Remote,
         NEW nodes \in Seq(Remote \cup {Own}), Heard(n, nodes),
         UNCHANGED <<phase, target, queried, stale, closest, ops>>, tokens' \subseteq Remote
  PROVE  LookupInv'
<1>1. /\ table' = InsertNew(Insert(table, n), shortlist, nodes)
      /\ shortlist' = shortlist \cup Range(nodes)
      /\ added' = (added \/ ~(Range(nodes) \subseteq shortlist))
  BY DEF Heard
<1>2. GoodTable(table')
  BY <1>1, InsertKeeps, InsertNewKeeps DEF LookupInv
<1>3. Range(nodes) \subseteq Remote \cup {Own}
  BY MembersOfSeq
<1>4. added' \in BOOLEAN /\ (~added' => ~added /\ shortlist' = shortlist)
  BY <1>1 DEF LookupInv
<1>5. ~added' => AllAsked'
  BY <1>4 DEF LookupInv, AllAsked
<1> QED
  BY <1>1, <1>2, <1>3, <1>4, <1>5 DEF LookupInv

\* A step that leaves the lookup alone.
LEMMA LookupSame ==
  ASSUME LookupInv, UNCHANGED <<table, tokens, phase, lookupVars, stale, closest, ops>>
  PROVE  LookupInv'
  BY DEF LookupInv, lookupVars, AllAsked

\* The query to a node.
LEMMA QueryKeeps ==
  ASSUME DhtInv, NEW n \in Remote, QueryStep(n) PROVE DhtInv'
<1> USE DEF DhtInv
<1>1. CASE Ask(n)
  <2>1. n \in batch /\ Send(n) /\ batch' = batch
        /\ UNCHANGED <<table, tokens, phase, lookupVars, stale, closest, ops>>
    BY <1>1 DEF Ask, dhtVars
  <2> QED
    BY <2>1, SendKeeps, LookupSame
<1>2. CASE QueryFails(n)
  <2>1. n \in batch /\ (SendFails(n) \/ Answered(n) \/ Timeout(n)) /\ batch' = batch \ {n}
        /\ UNCHANGED <<table, tokens, phase, lookupVars, stale, closest, ops>>
    BY <1>2 DEF QueryFails
  <2> QED
    BY <2>1, SendFailsKeeps, ReturnKeeps, LookupSame
<1>3. CASE AnnounceAnswered(n)
  <2>1. n \in batch /\ Answered(n) /\ batch' = batch \ {n}
        /\ UNCHANGED <<table, tokens, phase, lookupVars, stale, closest, ops>>
    BY <1>3 DEF AnnounceAnswered
  <2> QED
    BY <2>1, ReturnKeeps, LookupSame
<1>4. CASE PingAnswered(n)
  <2>1. /\ phase = "bootstrap" /\ n \in batch /\ Answered(n) /\ batch' = batch \ {n}
        /\ table' = Insert(table, n)
        /\ UNCHANGED <<tokens, phase, lookupVars, stale, closest, ops>>
    BY <1>4 DEF PingAnswered
  <2>2. GoodTable(table')
    BY <2>1, InsertKeeps DEF LookupInv
  <2>3. LookupInv'
    BY <2>1, <2>2 DEF LookupInv, lookupVars
  <2> QED
    BY <2>1, <2>3, ReturnKeeps
<1>5. CASE FindNodeAnswered(n) \/ GetPeersAnswered(n)
  <2>1. /\ phase \in {"find", "get"} /\ n \in batch /\ Answered(n) /\ batch' = batch \ {n}
        /\ tokens' \subseteq tokens \cup {n}
        /\ UNCHANGED <<phase, target, queried, stale, closest, ops>>
    BY <1>5 DEF FindNodeAnswered, GetPeersAnswered
  <2>2. \E nodes \in {Knows[chan[n][2]], <<>>} : Heard(n, nodes)
    BY <1>5 DEF FindNodeAnswered, GetPeersAnswered
  <2>3. chan[n][2] \in Remote
    <3>1. chan[n] \in Reply
      BY <2>1 DEF Answered, TransportInv, KrpcTypeOK
    <3> QED
      BY <3>1 DEF Reply
  <2>4. Knows[chan[n][2]] \in Seq(Remote \cup {Own}) /\ <<>> \in Seq(Remote \cup {Own})
    BY <2>3, DhtAssumption
  <2>5. LookupInv'
    BY <2>1, <2>2, <2>4, HeardKeeps DEF LookupInv
  <2> QED
    BY <2>1, <2>5, ReturnKeeps
<1> QED
  BY <1>1, <1>2, <1>3, <1>4, <1>5 DEF QueryStep

\* The steps between queries: rounds, the ends of lookups, and what starts them.
LEMMA ControlKeeps ==
  ASSUME DhtInv, Control \/ GetPeers \/ refreshBuckets \/ AnnouncePeer PROVE DhtInv'
<1> USE DEF DhtInv
<1>0. /\ alpha \in Nat \ {0} /\ TxnMod \in Nat /\ alpha < TxnMod /\ InfoHash \in NodeID
      /\ MaxOps \in Nat /\ Own \in NodeID
  BY DhtAssumption, KrpcAssumption, NodeFacts
<1>1. CASE NextRound
  <2>1. /\ phase \in {"find", "get"} /\ batch = {} /\ batch' = Candidates
        /\ queried' = queried \cup Candidates /\ added' = FALSE
        /\ UNCHANGED <<krpcVars, table, tokens, phase, target, shortlist, stale, closest, ops>>
    BY <1>1 DEF NextRound
  <2>2. /\ Candidates \subseteq shortlist \ queried /\ Cardinality(Candidates) <= alpha
        /\ Cardinality(Candidates) \in Nat
    BY CandidateFacts
  <2>3. Candidates \subseteq Remote
    BY <2>1, <2>2 DEF LookupInv
  <2>4. Cardinality(batch') < TxnMod
    BY <1>0, <2>1, <2>2
  <2>5. AllAsked'
    BY <2>1, RoundAsks DEF AllAsked
  <2>6. LookupInv'
    BY <2>1, <2>3, <2>5 DEF LookupInv
  <2> QED
    BY <2>1, <2>3, <2>4, <2>6, RoundKeeps
<1>2. CASE LookupEnds
  <2>1. /\ phase \in {"find", "get"} /\ (~added \/ Candidates = {}) /\ phase' = "idle"
        /\ UNCHANGED <<krpcVars, table, tokens, lookupVars, batch, stale, closest, ops>>
    BY <1>2 DEF LookupEnds
  <2>2. AllAsked
    BY <2>1, CandidateFacts DEF LookupInv, AllAsked, TakeClosest
  <2>3. LookupInv'
    BY <2>1, <2>2 DEF LookupInv, lookupVars, AllAsked
  <2> QED
    BY <2>1, <2>3, RoundKeeps
<1>3. CASE BootstrapEnds
  <2>1. UNCHANGED <<krpcVars, table, tokens, batch, stale, closest, ops>>
    BY <1>3 DEF BootstrapEnds
  <2>2. CASE phase' = "failed" /\ UNCHANGED lookupVars
    BY <2>1, <2>2, RoundKeeps DEF LookupInv, lookupVars
  <2>3. CASE StartLookup("find", Own)
    BY <1>0, <2>1, <2>3, RoundKeeps, StartKeeps DEF LookupInv
  <2> QED
    BY <1>3, <2>2, <2>3 DEF BootstrapEnds
<1>4. CASE RefreshNext
  <2>1. /\ UNCHANGED <<krpcVars, table, tokens, batch, closest, ops>> /\ stale' \subseteq stale
        /\ \E random \in NodeID : StartLookup("find", randomIDInBucket(Min(stale), random))
    BY <1>4 DEF RefreshNext
  <2>2. \E id \in NodeID : StartLookup("find", id)
    BY <2>1, RandomId
  <2> QED
    BY <2>1, <2>2, RoundKeeps, StartKeeps DEF LookupInv
<1>5. CASE AnnounceNext
  <2> DEFINE C == TakeClosest(closest, InfoHash, 1)
  <2>1. /\ batch = {} /\ batch' = C \cap tokens /\ closest' = closest \ C
        /\ UNCHANGED <<krpcVars, table, tokens, phase, lookupVars, stale, ops>>
    BY <1>5 DEF AnnounceNext
  <2>2. closest \in SUBSET NodeID /\ IsFiniteSet(closest)
    BY NodeFacts, FS_Subset DEF LookupInv
  <2>3. C \subseteq closest /\ IsFiniteSet(C) /\ Cardinality(C) <= 1
    BY <1>0, <2>2, ClosestBounded
  <2> HIDE DEF C
  <2>4. Cardinality(batch') \in Nat /\ Cardinality(batch') <= 1
    BY <2>1, <2>3, FS_Subset, FS_CardinalityType
  <2>5. Cardinality(batch') < TxnMod /\ batch' \subseteq Remote
    BY <1>0, <2>1, <2>3, <2>4 DEF LookupInv
  <2>6. LookupInv'
    BY <2>1 DEF LookupInv, lookupVars, AllAsked
  <2> QED
    BY <2>1, <2>5, <2>6, RoundKeeps
<1>6. CASE AnnounceEnds
  <2>1. /\ phase = "announce" /\ phase' = "idle"
        /\ UNCHANGED <<krpcVars, table, tokens, lookupVars, batch, stale, closest, ops>>
    BY <1>6 DEF AnnounceEnds
  <2>2. AllAsked
    BY <2>1 DEF LookupInv, AllAsked, TakeClosest
  <2>3. LookupInv'
    BY <2>1, <2>2 DEF LookupInv, lookupVars, AllAsked
  <2> QED
    BY <2>1, <2>3, RoundKeeps
<1>7. CASE GetPeers
  <2>1. /\ ops' \in 0..MaxOps /\ StartLookup("get", InfoHash)
        /\ UNCHANGED <<krpcVars, table, tokens, batch, stale, closest>>
    BY <1>0, <1>7 DEF GetPeers, Begin, LookupInv
  <2> QED
    BY <1>0, <2>1, RoundKeeps, StartKeeps
<1>8. CASE refreshBuckets
  <2>1. /\ ops' \in 0..MaxOps /\ stale' \subseteq 0..(Bits - 1)
        /\ UNCHANGED <<krpcVars, table, tokens, phase, lookupVars, batch, closest>>
    BY <1>0, <1>8 DEF refreshBuckets, Begin, LookupInv, GoodTable
  <2> QED
    BY <2>1, RoundKeeps DEF LookupInv, lookupVars, AllAsked
<1>9. CASE AnnouncePeer
  <2>1. /\ ops' \in 0..MaxOps /\ phase' = "announce" /\ closest' = Closest(table, InfoHash, bucketSize)
        /\ target' = InfoHash /\ shortlist' = {} /\ queried' = {} /\ added' = FALSE
        /\ UNCHANGED <<krpcVars, table, tokens, batch, stale>>
    BY <1>0, <1>9 DEF AnnouncePeer, Begin, LookupInv
  <2>2. closest' \subseteq Remote
    BY <2>1, ClosestNodes DEF LookupInv
  <2> QED
    BY <1>0, <2>1, <2>2, RoundKeeps DEF LookupInv
<1> QED
  BY <1>1, <1>2, <1>3, <1>4, <1>5, <1>6, <1>7, <1>8, <1>9 DEF Control

\* Every step keeps the invariant.
LEMMA DhtStep == ASSUME DhtInv, [Next]_vars PROVE DhtInv'
<1>1. CASE Listen
  <2>1. /\ \E p \in net \cup Stray : Receive(p)
        /\ batch' = batch /\ UNCHANGED <<table, tokens, phase, lookupVars, stale, closest, ops>>
    BY <1>1 DEF Listen, dhtVars
  <2> QED
    BY <2>1, ReceiveKeeps, LookupSame DEF DhtInv
<1>2. CASE UNCHANGED vars
  <2>1. /\ UNCHANGED krpcVars /\ batch' = batch
        /\ UNCHANGED <<table, tokens, phase, lookupVars, stale, closest, ops>>
    BY <1>2 DEF vars, dhtVars
  <2> QED
    BY <2>1, RoundKeeps, LookupSame DEF DhtInv
<1> QED
  BY <1>1, <1>2, QueryKeeps, ControlKeeps DEF Next

\* It holds before the first operation.
LEMMA DhtStart == ASSUME Init PROVE DhtInv
<1>0. /\ TxnMod \in Nat \ {0} /\ Cardinality(BootNodes) < TxnMod /\ BootNodes \subseteq Remote
      /\ Own \in NodeID /\ Bits \in Nat \ {0} /\ bucketSize \in Nat \ {0} /\ MaxOps \in Nat
  BY DhtAssumption, KrpcAssumption, NodeFacts
<1>1. /\ txnN = 0 /\ txns = <<>> /\ txn = [n \in Remote |-> TxnMod]
      /\ chan = [n \in Remote |-> NoReply] /\ net = {} /\ batch = BootNodes
      /\ age = [n \in Remote |-> TxnMod]
  BY DEF Init, KrpcInit
<1>2. DOMAIN txns = {} /\ Range(txns) = {} /\ IsFiniteSet({})
  BY <1>1, EmptyFacts, FS_EmptySet
<1>3. \A n \in Remote : ~Waiting(n) /\ txn[n] = TxnMod
  BY <1>1 DEF Waiting
<1>4. KrpcTypeOK /\ AgesKept /\ NetKept /\ PendingIsWaiting
  BY <1>0, <1>1, <1>2, <1>3 DEF KrpcTypeOK, AgesKept, NetKept, PendingIsWaiting
<1>5. ReplyToItsQuery
  BY <1>1 DEF ReplyToItsQuery
<1>6. IdsKept
  BY <1>0, <1>1, <1>3 DEF IdsKept
<1>7. GoodTable(NewRoutingTable)
  <2>1. \A i \in 0..(Bits - 1) : NewRoutingTable[i] = <<>>
    BY DEF NewRoutingTable
  <2>2. NewRoutingTable \in [0..(Bits - 1) -> Seq(Remote)]
    BY DEF NewRoutingTable
  <2>3. Len(<<>>) <= bucketSize
    BY <1>0
  <2> QED
    BY <2>1, <2>2, <2>3, EmptyFacts DEF GoodTable, TableShape
<1>8. LookupInv
  <2>1. /\ table = NewRoutingTable /\ tokens = {} /\ phase = "bootstrap" /\ target = Own
        /\ shortlist = {} /\ queried = {Own} /\ added = FALSE /\ stale = {} /\ closest = {}
        /\ ops = 0
    BY DEF Init
  <2>2. GoodTable(table) /\ ops \in 0..MaxOps
    BY <1>0, <1>7, <2>1
  <2> QED
    BY <1>0, <2>1, <2>2 DEF LookupInv
<1> QED
  BY <1>4, <1>5, <1>6, <1>8 DEF DhtInv, TransportInv

\* The types of the client and the shape of its routing table: buckets within
\* their size, each node once and in its bucket, never ourselves, whatever
\* nodes the replies name and however often.
THEOREM TypeCorrect == Spec => []TypeOK
<1>1. ASSUME DhtInv PROVE TypeOK
  BY <1>1 DEF DhtInv, TransportInv, IdsKept, LookupInv, GoodTable, TypeOK
<1> QED
  BY <1>1, DhtStart, DhtStep, PTL DEF Spec

\* Every registered transaction belongs to a query that still waits with an
\* empty channel, for any number of identifiers greater than the concurrency of
\* a lookup: the 2^16 of the code suffice however long it runs.
THEOREM NoTransactionLeaks == Spec => []PendingIsWaiting
<1>1. ASSUME DhtInv PROVE PendingIsWaiting
  BY <1>1 DEF DhtInv, TransportInv
<1> QED
  BY <1>1, DhtStart, DhtStep, PTL DEF Spec

\* The reply a query gets bears its identifier, and is that of the node it asked,
\* to this very query, or one that is older than all identifiers in use or that
\* nobody asked for: for any number of late, repeated, reordered and unasked
\* replies, and whoever sends them.
THEOREM OwnReplies == Spec => []ReplyToItsQuery
<1>1. ASSUME DhtInv PROVE ReplyToItsQuery
  BY <1>1 DEF DhtInv, TransportInv
<1> QED
  BY <1>1, DhtStart, DhtStep, PTL DEF Spec

\* When a lookup ends, the alpha closest nodes it has heard of have been asked.
THEOREM LookupsAskClosest == Spec => []ClosestAsked
<1>1. ASSUME DhtInv PROVE ClosestAsked
  BY <1>1 DEF DhtInv, LookupInv, AllAsked, ClosestAsked
<1> QED
  BY <1>1, DhtStart, DhtStep, PTL DEF Spec
=============================================================================
