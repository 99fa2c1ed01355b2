------------------------------- MODULE SeqFacts -------------------------------
(***************************************************************************)
(* What the proofs keep needing about the queues and channels of the       *)
(* program: their members, and what sending, receiving and joining them    *)
(* does.                                                                   *)
(***************************************************************************)
EXTENDS Naturals, Integers, Sequences, FiniteSets, SequencesExt, FiniteSetsExt,
        SequenceTheorems, FiniteSetTheorems, WellFoundedInduction, TLAPS

\* Every set of natural numbers has a least member: what stands in for
\* induction in these proofs (there is no least counterexample).
LEMMA LeastMember ==
  ASSUME NEW T \in SUBSET Nat, T # {}
  PROVE  \E m \in T : \A k \in T : m <= k
<1>1. PICK m \in T : \A k \in T : ~(<<k, m>> \in OpToRel(<, Nat))
  BY NatLessThanWellFounded, WFMin
<1>2. \A k \in T : ~(k < m)
  BY <1>1 DEF OpToRel
<1> QED
  BY <1>2

\* The least member of a set of natural numbers.
LEMMA MinOfSet ==
  ASSUME NEW T \in SUBSET Nat, T # {}
  PROVE  Min(T) \in T /\ \A k \in T : Min(T) <= k
  BY LeastMember DEF Min

\* What holds at 0 and is handed on from each number to the next holds up to
\* the bound: induction over the numbers of an interval.
LEMMA UpTo ==
  ASSUME NEW N \in Nat, NEW T \in SUBSET (0..N), 0 \in T,
         \A k \in 1..N : k - 1 \in T => k \in T
  PROVE  T = 0..N
<1> DEFINE Bad == (0..N) \ T
<1> SUFFICES ASSUME Bad # {} PROVE FALSE
  OBVIOUS
<1>1. Bad \in SUBSET Nat
  OBVIOUS
<1>2. PICK m \in Bad : \A k \in Bad : m <= k
  <2> HIDE DEF Bad
  <2> QED
    BY <1>1, LeastMember
<1>3. m \in 1..N
  BY <1>2
<1>4. m - 1 \in T
  BY <1>2, <1>3
<1> QED
  BY <1>2, <1>3, <1>4

\* The same from the bound down to 0.
LEMMA DownTo ==
  ASSUME NEW N \in Nat, NEW T \in SUBSET (0..N), N \in T,
         \A k \in 1..N : k \in T => k - 1 \in T
  PROVE  T = 0..N
<1> DEFINE U == {k \in 0..N : N - k \in T}
<1>1. 0 \in U
  OBVIOUS
<1>2. \A k \in 1..N : k - 1 \in U => k \in U
  <2> TAKE k \in 1..N
  <2> HAVE k - 1 \in U
  <2>1. N - (k - 1) \in T /\ N - (k - 1) \in 1..N
    OBVIOUS
  <2>2. (N - (k - 1)) - 1 \in T
    BY <2>1
  <2>3. (N - (k - 1)) - 1 = N - k
    OBVIOUS
  <2> QED
    BY <2>2, <2>3
<1>3. U = 0..N
  <2>1. U \in SUBSET (0..N)
    OBVIOUS
  <2> HIDE DEF U
  <2> QED
    BY <1>1, <1>2, <2>1, UpTo
<1>4. \A k \in 0..N : k \in T
  <2> TAKE k \in 0..N
  <2>1. N - k \in U
    BY <1>3
  <2>2. N - (N - k) = k
    OBVIOUS
  <2> QED
    BY <2>1, <2>2
<1> QED
  BY <1>4

\* g goes from base by the steps F, N times.
Iteration(g, N, V, base, F) ==
  /\ g \in [0..N -> V]
  /\ g[0] = base /\ \A k \in 1..N : g[k] = F[<<g[k - 1], k>>]

\* A recursive definition whose values stay in a set defines a function.
LEMMA Iterates ==
  ASSUME NEW N \in Nat, NEW V, NEW base \in V, NEW F \in [V \X (1..N) -> V]
  PROVE  \E g : Iteration(g, N, V, base, F)
<1> DEFINE Good(m, g) == g[0] = base /\ \A k \in 1..m : g[k] = F[<<g[k - 1], k>>]
           T == {m \in 0..N : \E g \in [0..m -> V] : Good(m, g)}
<1>1. 0 \in T
  <2> DEFINE g == [k \in 0..0 |-> base]
  <2>1. g \in [0..0 -> V] /\ Good(0, g)
    OBVIOUS
  <2>2. 0 \in 0..N
    OBVIOUS
  <2> HIDE DEF g, Good
  <2> QED
    BY <2>1, <2>2
<1>2. \A m \in 1..N : m - 1 \in T => m \in T
  <2> TAKE m \in 1..N
  <2> HAVE m - 1 \in T
  <2>1. PICK g \in [0..(m - 1) -> V] : Good(m - 1, g)
    OBVIOUS
  <2> DEFINE h == [k \in 0..m |-> IF k = m THEN F[<<g[m - 1], m>>] ELSE g[k]]
  <2>2. g[m - 1] \in V /\ <<g[m - 1], m>> \in V \X (1..N)
    BY <2>1
  <2>3. F[<<g[m - 1], m>>] \in V
    BY <2>2
  <2>4. h \in [0..m -> V]
    BY <2>1, <2>3
  <2>5. h[0] = base
    BY <2>1
  <2>6. \A k \in 1..m : h[k] = F[<<h[k - 1], k>>]
    <3> TAKE k \in 1..m
    <3>1. k - 1 \in 0..m /\ k - 1 # m /\ h[k - 1] = g[k - 1]
      OBVIOUS
    <3>2. CASE k = m
      BY <3>1, <3>2
    <3>3. CASE k # m
      <4>1. k \in 1..(m - 1) /\ h[k] = g[k]
        BY <3>3
      <4> QED
        BY <2>1, <3>1, <4>1
    <3> QED
      BY <3>2, <3>3
  <2>7. Good(m, h)
    BY <2>5, <2>6
  <2> HIDE DEF h, Good
  <2> QED
    BY <2>4, <2>7
<1>3. T = 0..N
  <2>1. T \in SUBSET (0..N)
    OBVIOUS
  <2> HIDE DEF T
  <2> QED
    BY <1>1, <1>2, <2>1, UpTo
<1>4. N \in T
  <2>1. N \in 0..N
    OBVIOUS
  <2> HIDE DEF T
  <2> QED
    BY <1>3, <2>1
<1>5. \E g \in [0..N -> V] : Good(N, g)
  <2> HIDE DEF Good
  <2> QED
    BY <1>4
<1> QED
  BY <1>5 DEF Iteration

\* Min and Max of two numbers.
LEMMA MinMaxOfTwo ==
  ASSUME NEW m \in Int, NEW n \in Int
  PROVE  /\ Min({m, n}) = IF m <= n THEN m ELSE n
         /\ Max({m, n}) = IF m >= n THEN m ELSE n
<1> DEFINE lo == IF m <= n THEN m ELSE n
           hi == IF m >= n THEN m ELSE n
<1>1. /\ lo \in {m, n} /\ \A y \in {m, n} : lo <= y
      /\ hi \in {m, n} /\ \A y \in {m, n} : hi >= y
  OBVIOUS
<1>2. \A x \in {m, n} : (\A y \in {m, n} : x <= y) => x = lo
  OBVIOUS
<1>3. \A x \in {m, n} : (\A y \in {m, n} : x >= y) => x = hi
  OBVIOUS
<1> HIDE DEF lo, hi
<1>4. Min({m, n}) = lo
  BY <1>1, <1>2 DEF Min
<1>5. Max({m, n}) = hi
  BY <1>1, <1>3 DEF Max
<1> QED
  BY <1>4, <1>5 DEF lo, hi

\* The members of a sequence.
LEMMA MembersOfSeq ==
  ASSUME NEW S, NEW q \in Seq(S)
  PROVE  /\ Len(q) \in Nat /\ DOMAIN q = 1..Len(q)
         /\ Range(q) = {q[k] : k \in 1..Len(q)}
         /\ \A k \in 1..Len(q) : q[k] \in S
         /\ Range(q) \subseteq S
<1>1. Len(q) \in Nat /\ DOMAIN q = 1..Len(q) /\ q \in [1..Len(q) -> S]
  BY LenProperties
<1>2. Range(q) = {q[k] : k \in 1..Len(q)}
  BY <1>1 DEF Range
<1>3. \A k \in 1..Len(q) : q[k] \in S
  BY <1>1
<1>4. Range(q) \subseteq S
  BY <1>2, <1>3
<1> QED
  BY <1>1, <1>2, <1>3, <1>4

\* No two positions hold the same member.
LEMMA InjectiveSeq ==
  ASSUME NEW S, NEW q \in Seq(S)
  PROVE  IsInjective(q) <=> \A j, k \in 1..Len(q) : q[j] = q[k] => j = k
  BY MembersOfSeq DEF IsInjective

\* The empty sequence.
LEMMA EmptyFacts == Range(<<>>) = {} /\ IsInjective(<<>>)
<1>1. DOMAIN <<>> = {}
  OBVIOUS
<1> QED
  BY <1>1 DEF Range, IsInjective

\* A member that is appended.
LEMMA AppendFacts ==
  ASSUME NEW S, NEW q \in Seq(S), NEW a \in S
  PROVE  /\ Append(q, a) \in Seq(S) /\ Len(Append(q, a)) = Len(q) + 1
         /\ Range(Append(q, a)) = Range(q) \cup {a}
         /\ IsInjective(q) /\ a \notin Range(q) => IsInjective(Append(q, a))
<1> DEFINE p == Append(q, a)
<1>1. /\ p \in Seq(S) /\ Len(p) = Len(q) + 1
      /\ \A k \in 1..Len(q) : p[k] = q[k]
      /\ p[Len(q) + 1] = a
  BY AppendProperties
<1> HIDE DEF p
<1>2. /\ Len(q) \in Nat /\ Range(q) = {q[k] : k \in 1..Len(q)}
      /\ Range(p) = {p[k] : k \in 1..(Len(q) + 1)}
  BY <1>1, MembersOfSeq
<1>3. Range(p) = Range(q) \cup {a}
  <2>1. Len(q) + 1 \in 1..(Len(q) + 1)
    BY <1>2
  <2>2. \A k \in 1..(Len(q) + 1) : k \in 1..Len(q) \/ k = Len(q) + 1
    BY <1>2
  <2>3. \A k \in 1..Len(q) : k \in 1..(Len(q) + 1)
    BY <1>2
  <2> QED
    BY <1>1, <1>2, <2>1, <2>2, <2>3
<1>4. ASSUME IsInjective(q), a \notin Range(q)
      PROVE  IsInjective(p)
  <2>1. \A j, k \in 1..Len(q) : q[j] = q[k] => j = k
    BY <1>4, InjectiveSeq
  <2>2. \A j, k \in 1..(Len(q) + 1) : p[j] = p[k] => j = k
    BY <1>1, <1>2, <1>4, <2>1
  <2> QED
    BY <1>1, <2>2, InjectiveSeq
<1> QED
  BY <1>1, <1>3, <1>4 DEF p

\* A report that is read leaves the others.
LEMMA TailFacts ==
  ASSUME NEW S, NEW q \in Seq(S), q # <<>>, IsInjective(q)
  PROVE  /\ Head(q) \in Range(q) /\ Tail(q) \in Seq(S)
         /\ Len(Tail(q)) = Len(q) - 1
         /\ Range(Tail(q)) = Range(q) \ {Head(q)} /\ IsInjective(Tail(q))
<1> DEFINE t == Tail(q)
<1>1. /\ Head(q) = q[1] /\ t \in Seq(S) /\ Len(t) = Len(q) - 1
      /\ \A k \in 1..Len(t) : t[k] = q[k + 1]
      /\ Len(q) \in Nat \ {0}
  BY HeadTailProperties, EmptySeq, LenProperties
<1> HIDE DEF t
<1>2. \A j, k \in 1..Len(q) : q[j] = q[k] => j = k
  BY InjectiveSeq
<1>3. /\ Range(q) = {q[k] : k \in 1..Len(q)}
      /\ Range(t) = {t[k] : k \in 1..Len(t)}
  BY <1>1, MembersOfSeq
<1>4. IsInjective(t)
  <2>1. \A j, k \in 1..Len(t) : t[j] = t[k] => j = k
    BY <1>1, <1>2
  <2> QED
    BY <1>1, <2>1, InjectiveSeq
<1>5. Range(t) = Range(q) \ {Head(q)}
  <2>1. \A k \in 1..Len(t) : k + 1 \in 1..Len(q) /\ q[k + 1] # q[1]
    BY <1>1, <1>2
  <2>2. \A k \in 1..Len(q) : k # 1 => k - 1 \in 1..Len(t) /\ t[k - 1] = q[k]
    BY <1>1
  <2>3. Range(t) \subseteq Range(q) \ {Head(q)}
    BY <1>1, <1>3, <2>1
  <2>4. ASSUME NEW a \in Range(q) \ {Head(q)} PROVE a \in Range(t)
    <3>1. PICK k \in 1..Len(q) : a = q[k]
      BY <1>3
    <3>2. k # 1
      BY <1>1, <3>1
    <3> QED
      BY <1>3, <2>2, <3>1, <3>2
  <2> QED
    BY <2>3, <2>4
<1>6. Head(q) \in Range(q)
  BY <1>1, <1>3
<1> QED
  BY <1>1, <1>4, <1>5, <1>6 DEF t

\* Receiving from a channel that may hold a value twice.
LEMMA HeadTailFacts ==
  ASSUME NEW S, NEW q \in Seq(S), q # <<>>
  PROVE  /\ Head(q) \in S /\ Tail(q) \in Seq(S) /\ Len(Tail(q)) = Len(q) - 1
         /\ Range(q) = {Head(q)} \cup Range(Tail(q))
<1> DEFINE t == Tail(q)
<1>1. /\ Head(q) = q[1] /\ Head(q) \in S /\ t \in Seq(S) /\ Len(t) = Len(q) - 1
      /\ \A k \in 1..Len(t) : t[k] = q[k + 1]
      /\ Len(q) \in Nat \ {0}
  BY HeadTailProperties, EmptySeq, LenProperties
<1> HIDE DEF t
<1>2. /\ Range(q) = {q[k] : k \in 1..Len(q)}
      /\ Range(t) = {t[k] : k \in 1..Len(t)}
  BY <1>1, MembersOfSeq
<1>3. \A k \in 1..Len(t) : k + 1 \in 1..Len(q)
  BY <1>1
<1>4. \A k \in 1..Len(q) : k # 1 => k - 1 \in 1..Len(t) /\ t[k - 1] = q[k]
  BY <1>1
<1>5. Range(t) \subseteq Range(q) /\ Head(q) \in Range(q)
  BY <1>1, <1>2, <1>3
<1>6. ASSUME NEW a \in Range(q), a # Head(q) PROVE a \in Range(t)
  <2>1. PICK k \in 1..Len(q) : a = q[k]
    BY <1>2
  <2>2. k # 1
    BY <1>1, <1>6, <2>1
  <2> QED
    BY <1>2, <1>4, <2>1, <2>2
<1> QED
  BY <1>1, <1>5, <1>6 DEF t

\* What is received from one queue and appended to another keeps its place in
\* the two taken together.
LEMMA MoveFacts ==
  ASSUME NEW S, NEW p \in Seq(S), NEW q \in Seq(S), q # <<>>
  PROVE  Append(p, Head(q)) \o Tail(q) = p \o q
<1>1. Head(q) \in S /\ Tail(q) \in Seq(S) /\ <<Head(q)>> \in Seq(S)
  BY HeadTailProperties
<1>2. Append(p, Head(q)) = p \o <<Head(q)>>
  BY <1>1, AppendIsConcat
<1>3. q = <<Head(q)>> \o Tail(q)
  <2> DEFINE r == <<Head(q)>> \o Tail(q)
  <2>1. /\ r \in Seq(S) /\ Len(r) = 1 + Len(Tail(q))
        /\ \A i \in 1..(1 + Len(Tail(q))) :
             r[i] = IF i <= 1 THEN <<Head(q)>>[i] ELSE Tail(q)[i - 1]
    BY <1>1, ConcatProperties
  <2>2. /\ Len(q) \in Nat \ {0} /\ Len(Tail(q)) = Len(q) - 1 /\ Head(q) = q[1]
        /\ \A i \in 1..Len(Tail(q)) : Tail(q)[i] = q[i + 1]
    BY HeadTailProperties, EmptySeq
  <2> HIDE DEF r
  <2>3. Len(r) = Len(q) /\ \A i \in 1..Len(q) : q[i] = r[i]
    BY <2>1, <2>2
  <2>4. q = r
    BY <2>1, <2>3, SeqEqual
  <2> QED
    BY <2>4 DEF r
<1> QED
  BY <1>1, <1>2, <1>3, ConcatAssociative

\* Appending to the second of two queues appends to both together.
LEMMA ConcatAppend ==
  ASSUME NEW S, NEW p \in Seq(S), NEW q \in Seq(S), NEW a \in S
  PROVE  p \o Append(q, a) = Append(p \o q, a)
<1>1. /\ Append(q, a) = q \o <<a>> /\ <<a>> \in Seq(S) /\ p \o q \in Seq(S)
  BY AppendIsConcat, ConcatProperties
<1>2. Append(p \o q, a) = (p \o q) \o <<a>>
  BY <1>1, AppendIsConcat
<1> QED
  BY <1>1, <1>2, ConcatAssociative

\* A function on 1..m is a sequence of its values.
LEMMA FunctionIsSeq ==
  ASSUME NEW m \in Nat, NEW h, h = [i \in 1..m |-> h[i]]
  PROVE  h \in Seq({h[i] : i \in 1..m}) /\ DOMAIN h = 1..m /\ Len(h) = m
<1> DEFINE S == {h[i] : i \in 1..m}
<1>1. DOMAIN h = 1..m /\ \A i \in 1..m : h[i] \in S
  OBVIOUS
<1> HIDE DEF S
<1>2. h \in [1..m -> S]
  BY <1>1
<1>3. h \in Seq(S)
  BY <1>2
<1>4. Len(h) = m
  BY <1>1, <1>3, LenProperties
<1> QED
  BY <1>1, <1>3, <1>4 DEF S

-----------------------------------------------------------------------------
(* Parts of a sequence, and multiples. *)

\* What a part of a sequence holds.
LEMMA SliceFacts ==
  ASSUME NEW S, NEW s \in Seq(S), NEW a \in Nat, NEW b \in Nat, a <= b, b <= Len(s)
  PROVE  /\ SubSeq(s, a + 1, b) \in Seq(S) /\ Len(SubSeq(s, a + 1, b)) = b - a
         /\ \A k \in 1..(b - a) : SubSeq(s, a + 1, b)[k] = s[a + k]
<1> DEFINE t == SubSeq(s, a + 1, b)
<1>1. Len(s) \in Nat /\ \A k \in 1..Len(s) : s[k] \in S
  BY MembersOfSeq
<1>2. a + 1 \in Int /\ b \in Int /\ \A k \in (a + 1)..b : s[k] \in S
  BY <1>1
<1>3. /\ t \in Seq(S) /\ Len(t) = IF a + 1 <= b THEN b - (a + 1) + 1 ELSE 0
      /\ \A k \in 1..(b - (a + 1) + 1) : t[k] = s[a + 1 + k - 1]
  BY <1>2, SubSeqProperties
<1> HIDE DEF t
<1>4. Len(t) = b - a /\ b - (a + 1) + 1 = b - a
  BY <1>3
<1>5. \A k \in 1..(b - a) : t[k] = s[a + k]
  <2> TAKE k \in 1..(b - a)
  <2>1. a + 1 + k - 1 = a + k
    OBVIOUS
  <2> QED
    BY <1>3, <1>4, <2>1
<1> QED
  BY <1>3, <1>4, <1>5 DEF t

\* What the beginning of a sequence holds.
LEMMA PrefixFacts ==
  ASSUME NEW S, NEW s \in Seq(S), NEW n \in Nat, n <= Len(s)
  PROVE  /\ SubSeq(s, 1, n) \in Seq(S) /\ Len(SubSeq(s, 1, n)) = n
         /\ \A k \in 1..n : SubSeq(s, 1, n)[k] = s[k]
<1> DEFINE t == SubSeq(s, 0 + 1, n)
<1>1. 0 \in Nat /\ 0 <= n /\ n - 0 = n /\ \A k \in 1..n : 0 + k = k
  OBVIOUS
<1>2. t \in Seq(S) /\ Len(t) = n - 0 /\ \A k \in 1..(n - 0) : t[k] = s[0 + k]
  BY <1>1, SliceFacts
<1>3. SubSeq(s, 1, n) = t
  OBVIOUS
<1> HIDE DEF t
<1> QED
  BY <1>1, <1>2, <1>3

\* Two parts that follow each other.
LEMMA SliceJoin ==
  ASSUME NEW S, NEW s \in Seq(S), NEW a \in Nat, NEW b \in Nat, NEW c \in Nat,
         a <= b, b <= c, c <= Len(s)
  PROVE  SubSeq(s, a + 1, b) \o SubSeq(s, b + 1, c) = SubSeq(s, a + 1, c)
<1>1. Len(s) \in Nat
  BY LenProperties
<1>2. a + 1 \in 1..(Len(s) + 1) /\ b \in (a + 1 - 1)..Len(s) /\ c \in b..Len(s)
  BY <1>1
<1> QED
  BY <1>2, ConcatAdjacentSubSeq

\* A part of a part.
LEMMA SliceOfSlice ==
  ASSUME NEW S, NEW s \in Seq(S), NEW a \in Nat, NEW b \in Nat, NEW c \in Nat, NEW e \in Nat,
         a <= b, b <= Len(s), c <= e, e <= b - a
  PROVE  SubSeq(SubSeq(s, a + 1, b), c + 1, e) = SubSeq(s, (a + c) + 1, a + e)
<1> DEFINE t == SubSeq(s, a + 1, b)
           u == SubSeq(t, c + 1, e)
           v == SubSeq(s, (a + c) + 1, a + e)
<1>1. Len(s) \in Nat
  BY LenProperties
<1>2. t \in Seq(S) /\ Len(t) = b - a /\ \A k \in 1..(b - a) : t[k] = s[a + k]
  BY SliceFacts
<1> HIDE DEF t
<1>3. u \in Seq(S) /\ Len(u) = e - c /\ \A k \in 1..(e - c) : u[k] = t[c + k]
  BY <1>2, SliceFacts
<1>4. a + c \in Nat /\ a + e \in Nat /\ a + c <= a + e /\ a + e <= Len(s)
      /\ (a + e) - (a + c) = e - c
  BY <1>1
<1>5. v \in Seq(S) /\ Len(v) = e - c /\ \A k \in 1..(e - c) : v[k] = s[(a + c) + k]
  BY <1>4, SliceFacts
<1> HIDE DEF u, v
<1>6. \A k \in 1..(e - c) : u[k] = v[k]
  <2> TAKE k \in 1..(e - c)
  <2>1. c + k \in 1..(b - a) /\ a + (c + k) = (a + c) + k
    OBVIOUS
  <2> QED
    BY <1>2, <1>3, <1>5, <2>1
<1>7. u = v
  BY <1>3, <1>5, <1>6, SeqEqual
<1> QED
  BY <1>7 DEF t, u, v

\* Larger numbers have larger multiples.
LEMMA TimesMonotone ==
  ASSUME NEW a \in Nat, NEW b \in Nat, NEW d \in Nat, a <= b
  PROVE  a * d \in Nat /\ b * d \in Nat /\ a * d <= b * d
<1>1. PICK c \in Nat : b = a + c
  <2>1. b - a \in Nat /\ b = a + (b - a)
    OBVIOUS
  <2> QED
    BY <2>1
<1>2. b * d = a * d + c * d /\ c * d \in Nat /\ a * d \in Nat
  BY <1>1
<1> QED
  BY <1>2

\* A quotient.
LEMMA DivFacts ==
  ASSUME NEW n \in Nat, NEW d \in Nat \ {0}
  PROVE  /\ n \div d \in Nat /\ (n \div d) * d \in Nat
         /\ (n \div d) * d <= n /\ n < (n \div d) * d + d
  OBVIOUS
=============================================================================
