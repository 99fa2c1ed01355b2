------------------------------ MODULE PoolProofs ------------------------------
(***************************************************************************)
(* Proofs about PeerPool.tla, for every list of peers, number of slots and *)
(* limit of retries and strikes.                                           *)
(***************************************************************************)
EXTENDS PeerPool, SeqFacts

-----------------------------------------------------------------------------
(* The queue of untried peers. *)

\* Popping splits a queue: nobody is lost, and nobody is both popped and kept.
\* As long as anyone remains, as many are popped as were asked for.
LEMMA PopFacts ==
  ASSUME NEW S, NEW q \in Seq(S), IsInjective(q), NEW n \in Nat
  PROVE  /\ Rest(q, n) \in Seq(S) /\ IsInjective(Rest(q, n))
         /\ Popped(q, n) \cup Range(Rest(q, n)) = Range(q)
         /\ Popped(q, n) \cap Range(Rest(q, n)) = {}
         /\ IsFiniteSet(Popped(q, n))
         /\ Rest(q, n) # <<>> => Cardinality(Popped(q, n)) = n
<1> DEFINE m == IF n <= Len(q) THEN n ELSE Len(q)
           r == Rest(q, n)
<1>1. Len(q) \in Nat /\ m \in 0..Len(q)
  BY MembersOfSeq
<1>2. Popped(q, n) = {q[k] : k \in 1..m}
  BY <1>1, MinMaxOfTwo DEF Popped
<1>3. /\ r \in Seq(S) /\ Len(r) = Len(q) - m
      /\ \A k \in 1..Len(r) : r[k] = q[k + m]
  <2>1. \A i \in (n + 1)..Len(q) : q[i] \in S
    BY <1>1, ElementOfSeq
  <2>2. /\ r \in Seq(S)
        /\ Len(r) = IF n + 1 <= Len(q) THEN Len(q) - (n + 1) + 1 ELSE 0
        /\ \A i \in 1..(Len(q) - (n + 1) + 1) : r[i] = q[(n + 1) + i - 1]
    BY <1>1, <2>1, SubSeqProperties DEF Rest
  <2> QED
    BY <1>1, <2>2
<1>4. \A j, k \in 1..Len(q) : q[j] = q[k] => j = k
  BY InjectiveSeq
<1>5. Range(q) = {q[k] : k \in 1..Len(q)} /\ Range(r) = {r[k] : k \in 1..Len(r)}
  BY <1>3, MembersOfSeq
<1> HIDE DEF m, r
<1>6. IsInjective(r)
  <2>1. ASSUME NEW j \in 1..Len(r), NEW k \in 1..Len(r), r[j] = r[k] PROVE j = k
    <3>1. j + m \in 1..Len(q) /\ k + m \in 1..Len(q)
      BY <1>1, <1>3
    <3>2. q[j + m] = q[k + m]
      BY <1>3, <2>1
    <3>3. j + m = k + m
      BY <1>4, <3>1, <3>2
    <3> QED
      BY <1>1, <3>3
  <2> QED
    BY <1>3, <2>1, InjectiveSeq
<1>7. Popped(q, n) \cap Range(r) = {}
  <2>1. \A j \in 1..m, k \in 1..Len(r) : q[j] # r[k]
    BY <1>1, <1>3, <1>4
  <2> QED
    BY <1>2, <1>5, <2>1
<1>8. Popped(q, n) \cup Range(r) = Range(q)
  <2>1. \A k \in 1..Len(q) : k \in 1..m \/ (k - m \in 1..Len(r) /\ r[k - m] = q[k])
    BY <1>1, <1>3
  <2>2. Popped(q, n) \cup Range(r) \subseteq Range(q)
    <3>1. \A k \in 1..m : k \in 1..Len(q)
      BY <1>1
    <3>2. \A k \in 1..Len(r) : k + m \in 1..Len(q)
      BY <1>1, <1>3
    <3> QED
      BY <1>2, <1>3, <1>5, <3>1, <3>2
  <2> QED
    BY <1>2, <1>5, <2>1, <2>2
<1>9. IsFiniteSet(Popped(q, n)) /\ Cardinality(Popped(q, n)) = m
  <2> DEFINE f == [k \in 1..m |-> q[k]]
  <2>1. f \in Bijection(1..m, Popped(q, n))
    <3>1. f \in [1..m -> Popped(q, n)] /\ \A t \in Popped(q, n) : \E k \in 1..m : f[k] = t
      BY <1>2
    <3>2. \A j, k \in 1..m : f[j] = f[k] => j = k
      BY <1>1, <1>4
    <3> QED
      BY <3>1, <3>2 DEF Bijection, Injection, Surjection, IsInjective
  <2>2. IsFiniteSet(1..m) /\ Cardinality(1..m) = m
    BY <1>1, FS_Interval
  <2> QED
    BY <2>1, <2>2, FS_Bijection DEF ExistsBijection
<1>10. r # <<>> => m = n
  <2>1. r # <<>> => Len(r) \in Nat \ {0}
    BY <1>3, EmptySeq
  <2> QED
    BY <1>1, <1>3, <2>1 DEF m
<1> QED
  BY <1>3, <1>6, <1>7, <1>8, <1>9, <1>10 DEF r

-----------------------------------------------------------------------------
(* The invariant. *)

\* Before StartInitial nothing has happened.
NotStarted ==
  ppc = "start" =>
    /\ untried = Rest(PeerList, MaxSlots) /\ active = {} /\ doneCh = <<>>
    /\ \A a \in Addr : strikes[a] = 0 /\ wpc[a] = "none"

\* A peer that holds a slot or a place in the queue has a strike left.
StrikeLeft == \A a \in active \cup Range(untried) : strikes[a] < MaxStrikes

\* A worker that goes on has a fruitless session left.
RetryLeft == \A a \in Addr : wpc[a] \in {"check", "session"} => retries[a] < MaxRetries

\* The peers that hold a slot, wait for one, or have struck out; IsInjective and
\* Running are left to the next two.
PeersPlaced ==
  ppc # "start" =>
    /\ active \cap Range(untried) = {}
    /\ \A a \in Addr \ (active \cup Range(untried)) : strikes[a] = MaxStrikes

\* Nobody is queued twice, and no exit is reported twice.
QueuesInjective == IsInjective(untried) /\ IsInjective(doneCh)

\* A live worker owns a slot; a slot without a live worker has its exit report.
ReportsOwed ==
  /\ \A a \in Addr : Running(a) => a \in active
  /\ \A a \in Addr : a \in Range(doneCh) <=> a \in active /\ ~Running(a)

\* A productive worker has no strike while it holds its slot.  With a single
\* permitted strike the first exit drops any peer; the code permits three.
NoStrike ==
  MaxStrikes > 1 =>
    \A a \in Addr : got[a] = "piece" =>
      (a \in active /\ strikes[a] = 0) \/ a \in Range(untried)

PoolInv ==
  /\ NoStrike /\ TypeOK /\ NotStarted /\ StrikeLeft /\ RetryLeft
  /\ PeersPlaced /\ QueuesInjective /\ ReportsOwed /\ SlotsFilled

\* The addresses of a finite list.
LEMMA AddrFinite == IsFiniteSet(Addr)
<1>1. Addr = {PeerList[k] : k \in 1..Len(PeerList)} /\ Len(PeerList) \in Nat
  BY PoolAssumption, MembersOfSeq DEF Addr
<1> DEFINE f == [k \in 1..Len(PeerList) |-> PeerList[k]]
<1>2. f \in Surjection(1..Len(PeerList), Addr)
  BY <1>1 DEF Surjection
<1>3. IsFiniteSet(1..Len(PeerList))
  BY <1>1, FS_Interval
<1> QED
  BY <1>2, <1>3, FS_Surjection

\* Filling slots from a queue: the peers of the queue get a slot or stay queued,
\* nobody both, and only when the queue is empty a slot may stay free.
LEMMA Refill ==
  ASSUME NEW queue \in Seq(Addr), IsInjective(queue), NEW n \in Nat,
         NEW kept \in SUBSET Addr, kept \cap Range(queue) = {}, NEW C,
         untried' = Rest(queue, n), StartWorkers(Popped(queue, n), kept, C)
  PROVE  /\ untried' \in Seq(Addr) /\ IsInjective(untried')
         /\ active' = kept \cup Popped(queue, n) /\ Popped(queue, n) \subseteq Range(queue)
         /\ active' \subseteq Addr /\ active' \cap Range(untried') = {}
         /\ active' \cup Range(untried') = kept \cup Range(queue)
         /\ untried' # <<>> => Cardinality(active') = Cardinality(kept) + n
<1> DEFINE S == Popped(queue, n)
<1>1. /\ untried' \in Seq(Addr) /\ IsInjective(untried')
      /\ S \cup Range(untried') = Range(queue) /\ S \cap Range(untried') = {}
      /\ IsFiniteSet(S) /\ (untried' # <<>> => Cardinality(S) = n)
  BY PopFacts
<1>2. active' = kept \cup S
  BY DEF StartWorkers
<1>3. Range(queue) \subseteq Addr
  BY MembersOfSeq
<1> HIDE DEF S
<1>4. untried' # <<>> => Cardinality(active') = Cardinality(kept) + n
  <2>1. kept \cap S = {} /\ IsFiniteSet(kept)
    BY <1>1, AddrFinite, FS_Subset
  <2>2. Cardinality(kept \cup S) = Cardinality(kept) + Cardinality(S) - 0
    BY <1>1, <2>1, FS_Union, FS_EmptySet
  <2>3. Cardinality(kept) \in Nat /\ Cardinality(S) \in Nat
    BY <1>1, <2>1, FS_CardinalityType
  <2> QED
    BY <1>1, <1>2, <2>2, <2>3
<1>5. /\ active' \subseteq Addr /\ active' \cap Range(untried') = {}
      /\ active' \cup Range(untried') = kept \cup Range(queue) /\ S \subseteq Range(queue)
  BY <1>1, <1>2, <1>3
<1> QED
  BY <1>1, <1>2, <1>4, <1>5 DEF S

\* startWorker leaves the other workers alone.
LEMMA Started ==
  ASSUME TypeOK, NEW S \in SUBSET Addr, NEW kept, NEW C, StartWorkers(S, kept, C)
  PROVE  /\ wpc' \in [Addr -> {"none", "check", "session", "backoff", "report", "exited"}]
         /\ retries' \in [Addr -> 0..MaxRetries]
         /\ cancelled' \in [Addr -> BOOLEAN] /\ graced' \in [Addr -> BOOLEAN]
         /\ got' \in [Addr -> {"nothing", "bytes", "piece"}]
         /\ \A a \in Addr : a \in S =>
              wpc'[a] = "check" /\ retries'[a] = 0 /\ got'[a] = "nothing"
         /\ \A a \in Addr : a \notin S =>
              wpc'[a] = wpc[a] /\ retries'[a] = retries[a] /\ got'[a] = got[a]
<1>1. 0 \in 0..MaxRetries
  BY PoolAssumption
<1>2. /\ wpc' = [a \in Addr |-> IF a \in S THEN "check" ELSE wpc[a]]
      /\ retries' = [a \in Addr |-> IF a \in S THEN 0 ELSE retries[a]]
      /\ got' = [a \in Addr |-> IF a \in S THEN "nothing" ELSE got[a]]
  BY DEF StartWorkers
<1>3. /\ graced' = [a \in Addr |-> IF a \in S THEN FALSE ELSE graced[a]]
      /\ cancelled' = [a \in Addr |-> IF a \in S THEN FALSE ELSE cancelled[a] \/ a \in C]
  BY DEF StartWorkers
<1>4. cancelled' \in [Addr -> BOOLEAN] /\ graced' \in [Addr -> BOOLEAN]
  BY <1>3 DEF TypeOK
<1> QED
  BY <1>1, <1>2, <1>4 DEF TypeOK

\* The first state satisfies the invariant.
LEMMA PoolInitInv == Init => PoolInv
<1> SUFFICES ASSUME Init PROVE PoolInv
  OBVIOUS
<1> USE PoolAssumption
<1>1. untried = Rest(PeerList, MaxSlots) /\ MaxSlots \in Nat
  BY DEF Init, Rest
<1>2. untried \in Seq(Addr) /\ IsInjective(untried) /\ Range(untried) \subseteq Addr
  BY <1>1, PopFacts, MembersOfSeq
<1>3. /\ <<>> \in Seq(Addr) /\ Len(<<>>) = 0 /\ Range(<<>>) = {} /\ IsInjective(<<>>)
  <2>1. <<>> \in Seq(Addr) /\ Len(<<>>) = 0
    BY EmptySeq
  <2> QED
    BY <2>1, EmptyFacts
<1>4. /\ active = {} /\ doneCh = <<>> /\ ppc = "start"
      /\ \A a \in Addr : strikes[a] = 0 /\ wpc[a] = "none" /\ retries[a] = 0
  BY DEF Init
<1>5. TypeOK
  <2>1. /\ ctxDone \in BOOLEAN /\ cancelled \in [Addr -> BOOLEAN] /\ graced \in [Addr -> BOOLEAN]
    BY DEF Init
  <2> QED
    BY <1>2, <1>3, <2>1 DEF Init, TypeOK
<1>6. NotStarted /\ StrikeLeft /\ RetryLeft
  BY <1>1, <1>2, <1>4 DEF NotStarted, StrikeLeft, RetryLeft
<1>7. PeersPlaced /\ QueuesInjective /\ SlotsFilled
  BY <1>2, <1>3, <1>4 DEF PeersPlaced, QueuesInjective, SlotsFilled
<1>8. ReportsOwed
  BY <1>3, <1>4 DEF ReportsOwed, Running
<1>9. NoStrike
  BY DEF Init, NoStrike
<1> QED
  BY <1>5, <1>6, <1>7, <1>8, <1>9 DEF PoolInv

\* The manager starts the first workers.
LEMMA StartInitialInv ==
  ASSUME PoolInv, StartInitial
  PROVE  PoolInv'
<1> USE PoolAssumption
<1> DEFINE S == Popped(PeerList, MaxSlots)
<1>1. /\ ppc = "start" /\ ppc' = "select" /\ untried' = untried /\ strikes' = strikes
      /\ doneCh' = doneCh /\ StartWorkers(S, {}, {})
  BY DEF StartInitial
<1>2. ctxDone' = ctxDone
  BY DEF StartInitial
<1>3. /\ untried = Rest(PeerList, MaxSlots) /\ doneCh = <<>>
      /\ \A a \in Addr : strikes[a] = 0 /\ wpc[a] = "none"
  BY <1>1 DEF PoolInv, NotStarted
<1>4. /\ untried' \in Seq(Addr) /\ IsInjective(untried') /\ active' = S
      /\ S \subseteq Range(PeerList) /\ active' \cap Range(untried') = {}
      /\ active' \cup Range(untried') = Range(PeerList)
      /\ untried' # <<>> => Cardinality(active') = Cardinality({}) + MaxSlots
  <2>1. untried' = Rest(PeerList, MaxSlots) /\ MaxSlots \in Nat
    BY <1>1, <1>3
  <2>2. ASSUME NEW K \in SUBSET Addr, K = {}, StartWorkers(S, K, {})
        PROVE  /\ untried' \in Seq(Addr) /\ IsInjective(untried') /\ active' = K \cup S
               /\ S \subseteq Range(PeerList) /\ active' \cap Range(untried') = {}
               /\ active' \cup Range(untried') = K \cup Range(PeerList)
               /\ untried' # <<>> => Cardinality(active') = Cardinality(K) + MaxSlots
    <3>1. K \cap Range(PeerList) = {}
      BY <2>2
    <3> QED
      BY <2>1, <2>2, <3>1, Refill
  <2>3. PICK K \in SUBSET Addr : K = {} /\ StartWorkers(S, K, {})
    BY <1>1
  <2> HIDE DEF S
  <2> QED
    BY <2>2, <2>3
<1>5. Range(PeerList) = Addr /\ S \in SUBSET Addr
  BY <1>4 DEF Addr
<1> HIDE DEF S
<1>6. TypeOK
  BY DEF PoolInv
<1>7. /\ wpc' \in [Addr -> {"none", "check", "session", "backoff", "report", "exited"}]
      /\ retries' \in [Addr -> 0..MaxRetries]
      /\ cancelled' \in [Addr -> BOOLEAN] /\ graced' \in [Addr -> BOOLEAN]
      /\ got' \in [Addr -> {"nothing", "bytes", "piece"}]
      /\ \A a \in Addr : a \in S =>
            wpc'[a] = "check" /\ retries'[a] = 0 /\ got'[a] = "nothing"
      /\ \A a \in Addr : a \notin S =>
            wpc'[a] = wpc[a] /\ retries'[a] = retries[a] /\ got'[a] = got[a]
  BY <1>1, <1>5, <1>6, Started
<1>8. TypeOK'
  <2>1. ctxDone' \in BOOLEAN
    BY <1>2, <1>6 DEF TypeOK
  <2> QED
    BY <1>1, <1>4, <1>5, <1>6, <1>7, <2>1 DEF TypeOK
<1>9. NotStarted' /\ StrikeLeft' /\ RetryLeft'
  <2>1. NotStarted' /\ StrikeLeft'
    BY <1>1, <1>3, <1>4, <1>5 DEF NotStarted, StrikeLeft
  <2>2. RetryLeft'
    <3>1. 0 < MaxRetries
      OBVIOUS
    <3> QED
      BY <1>3, <1>7, <3>1 DEF RetryLeft
  <2> QED
    BY <2>1, <2>2
<1>10. PeersPlaced' /\ QueuesInjective'
  BY <1>1, <1>4, <1>5 DEF PeersPlaced, QueuesInjective, PoolInv
<1>11. ReportsOwed'
  <2>1. Range(doneCh) = {}
    BY <1>3, EmptyFacts
  <2> QED
    BY <1>1, <1>3, <1>4, <1>7, <2>1 DEF ReportsOwed, Running
<1>12. SlotsFilled'
  BY <1>1, <1>4, FS_EmptySet DEF SlotsFilled
<1>13. NoStrike'
  <2>1. \A a \in Addr : got'[a] = "piece" => got[a] = "piece"
    BY <1>7
  <2>2. active = {}
    BY <1>1 DEF PoolInv, NotStarted
  <2> QED
    BY <1>1, <2>1, <2>2 DEF PoolInv, NoStrike
<1> QED
  BY <1>8, <1>9, <1>10, <1>11, <1>12, <1>13 DEF PoolInv

\* A tick: dead and slow workers are cancelled and replaced.
LEMMA EvaluateInv ==
  ASSUME PoolInv, evaluate
  PROVE  PoolInv'
<1> USE PoolAssumption
<1>1. /\ ppc = "select" /\ ppc' = ppc /\ strikes' = strikes /\ doneCh' = doneCh
  BY DEF evaluate
<1>2. ctxDone' = ctxDone
  BY DEF evaluate
<1>3. TypeOK /\ active \cap Range(untried) = {} /\ IsInjective(untried)
  BY <1>1 DEF PoolInv, PeersPlaced, QueuesInjective
<1>4. PICK toCancel \in SUBSET active :
        LET n == Cardinality(toCancel)
        IN  untried' = Rest(untried, n) /\ StartWorkers(Popped(untried, n), active, toCancel)
  <2> DEFINE past == {a \in active : graced[a]}
             dead == {a \in past : got[a] = "nothing"}
             live == past \ dead
             spare == Len(untried) - Cardinality(dead)
             budget == IF spare > 0
                         THEN Min({rotateCount, spare, Cardinality(live)}) ELSE 0
  <2>1. PICK slowest \in kSubset(budget, live) :
          LET toCancel == dead \cup slowest
              n == Cardinality(toCancel)
          IN  untried' = Rest(untried, n) /\ StartWorkers(Popped(untried, n), active, toCancel)
    BY DEF evaluate
  <2>2. dead \cup slowest \in SUBSET active
    BY DEF kSubset
  <2> HIDE DEF dead, live, budget
  <2> WITNESS dead \cup slowest \in SUBSET active
  <2> QED
    BY <2>1
<1> DEFINE n == Cardinality(toCancel)
           S == Popped(untried, n)
<1>5. n \in Nat
  BY <1>3, AddrFinite, FS_Subset, FS_CardinalityType DEF TypeOK
<1>6. untried' = Rest(untried, n) /\ StartWorkers(S, active, toCancel)
  BY <1>4
<1> HIDE DEF n
<1>7. /\ untried' \in Seq(Addr) /\ IsInjective(untried') /\ active' = active \cup S
      /\ S \subseteq Range(untried) /\ active' \subseteq Addr
      /\ active' \cap Range(untried') = {}
      /\ active' \cup Range(untried') = active \cup Range(untried)
      /\ untried' # <<>> => Cardinality(active') = Cardinality(active) + n
  BY <1>3, <1>5, <1>6, Refill, ZenonT(30) DEF TypeOK
<1>8. S \in SUBSET Addr /\ S \cap active = {}
  BY <1>3, <1>7
<1> HIDE DEF S
<1>9. /\ wpc' \in [Addr -> {"none", "check", "session", "backoff", "report", "exited"}]
      /\ retries' \in [Addr -> 0..MaxRetries]
      /\ cancelled' \in [Addr -> BOOLEAN] /\ graced' \in [Addr -> BOOLEAN]
      /\ got' \in [Addr -> {"nothing", "bytes", "piece"}]
      /\ \A a \in Addr : a \in S =>
            wpc'[a] = "check" /\ retries'[a] = 0 /\ got'[a] = "nothing"
      /\ \A a \in Addr : a \notin S =>
            wpc'[a] = wpc[a] /\ retries'[a] = retries[a] /\ got'[a] = got[a]
  BY <1>3, <1>6, <1>8, Started
<1>10. TypeOK'
  <2>1. ctxDone' \in BOOLEAN
    BY <1>2, <1>3 DEF TypeOK
  <2> QED
    BY <1>1, <1>3, <1>7, <1>9, <2>1 DEF TypeOK
<1>11. NotStarted' /\ StrikeLeft' /\ RetryLeft'
  <2>1. NotStarted' /\ StrikeLeft'
    BY <1>1, <1>7 DEF PoolInv, NotStarted, StrikeLeft
  <2>2. RetryLeft'
    <3> SUFFICES ASSUME NEW a \in Addr, wpc'[a] \in {"check", "session"}
                 PROVE  retries'[a] < MaxRetries
      BY DEF RetryLeft
    <3>1. CASE a \in S
      BY <1>9, <3>1
    <3>2. CASE a \notin S
      BY <1>9, <3>2 DEF PoolInv, RetryLeft
    <3> QED
      BY <3>1, <3>2
  <2> QED
    BY <2>1, <2>2
<1>12. PeersPlaced' /\ QueuesInjective'
  BY <1>1, <1>7 DEF PeersPlaced, QueuesInjective, PoolInv
<1>13. ReportsOwed'
  BY <1>1, <1>7, <1>8, <1>9 DEF PoolInv, ReportsOwed, Running
<1>14. SlotsFilled'
  <2>1. ASSUME untried' # <<>> PROVE untried # <<>>
    <3>1. ASSUME untried = <<>> PROVE FALSE
      <4>1. Len(untried) = 0 /\ n + 1 > Len(untried)
        BY <1>5, <3>1, EmptySeq
      <4> QED
        BY <1>5, <1>6, <2>1, <4>1, SubSeqEmpty DEF Rest
    <3> QED
      BY <3>1
  <2>2. Cardinality(active) \in Nat
    BY <1>3, AddrFinite, FS_Subset, FS_CardinalityType DEF TypeOK
  <2> QED
    BY <1>1, <1>5, <1>7, <2>1, <2>2 DEF PoolInv, SlotsFilled
<1>15. NoStrike'
  <2>1. \A a \in Addr : got'[a] = "piece" => got[a] = "piece" /\ a \notin S
    BY <1>9
  <2> QED
    BY <1>1, <1>3, <1>7, <1>8, <2>1 DEF PoolInv, NoStrike
<1> QED
  BY <1>10, <1>11, <1>12, <1>13, <1>14, <1>15 DEF PoolInv

\* An exit report: the peer is recycled or dropped, and free slots are filled.
LEMMA WorkerExitInv ==
  ASSUME PoolInv, handleWorkerExit
  PROVE  PoolInv'
<1> USE PoolAssumption
<1> DEFINE addr  == Head(doneCh)
           kept  == active \ {addr}
           queue == IF addr \in active /\ strikes[addr] + 1 < MaxStrikes
                      THEN Append(untried, addr) ELSE untried
           n     == Max({0, MaxSlots - Cardinality(kept)})
           S     == Popped(queue, n)
<1>1. /\ ppc = "select" /\ ppc' = ppc /\ doneCh # <<>> /\ doneCh' = Tail(doneCh)
      /\ strikes' = IF addr \in active THEN [strikes EXCEPT ![addr] = strikes[addr] + 1]
                    ELSE strikes
      /\ untried' = Rest(queue, n) /\ StartWorkers(S, kept, {})
  BY DEF handleWorkerExit, WorkerExit
<1>2. ctxDone' = ctxDone
  BY DEF handleWorkerExit, WorkerExit
<1>3. /\ TypeOK /\ active \cap Range(untried) = {} /\ IsInjective(untried)
      /\ IsInjective(doneCh) /\ StrikeLeft /\ ReportsOwed /\ RetryLeft
      /\ \A a \in Addr \ (active \cup Range(untried)) : strikes[a] = MaxStrikes
  BY <1>1 DEF PoolInv, PeersPlaced, QueuesInjective
<1>4. /\ addr \in Range(doneCh) /\ Tail(doneCh) \in Seq(Addr)
      /\ Len(Tail(doneCh)) = Len(doneCh) - 1
      /\ Range(Tail(doneCh)) = Range(doneCh) \ {addr} /\ IsInjective(Tail(doneCh))
  BY <1>1, <1>3, TailFacts DEF TypeOK
<1>5. addr \in active /\ addr \in Addr /\ ~Running(addr)
  <2>1. addr \in Addr
    BY <1>3, <1>4, MembersOfSeq DEF TypeOK
  <2> QED
    BY <1>3, <1>4, <2>1 DEF ReportsOwed
<1>6. strikes[addr] \in Nat /\ strikes[addr] < MaxStrikes /\ MaxStrikes \in Nat
  BY <1>3, <1>5 DEF TypeOK, StrikeLeft
<1>7. /\ strikes' \in [Addr -> 0..MaxStrikes] /\ strikes'[addr] = strikes[addr] + 1
      /\ \A a \in Addr : a # addr => strikes'[a] = strikes[a]
  BY <1>1, <1>3, <1>5, <1>6 DEF TypeOK
<1> HIDE DEF addr
<1>8. /\ queue \in Seq(Addr) /\ IsInjective(queue) /\ kept \cap Range(queue) = {}
      /\ kept \cup Range(queue) =
           (active \cup Range(untried)) \ {a \in {addr} : strikes[a] + 1 = MaxStrikes}
  <2>1. untried \in Seq(Addr) /\ addr \notin Range(untried)
    BY <1>3, <1>5 DEF TypeOK
  <2>2. CASE strikes[addr] + 1 < MaxStrikes
    <3>1. queue = Append(untried, addr) /\ strikes[addr] + 1 # MaxStrikes
      BY <1>5, <1>6, <2>2
    <3>2. queue \in Seq(Addr) /\ IsInjective(queue) /\ Range(queue) = Range(untried) \cup {addr}
      BY <1>3, <1>5, <2>1, <3>1, AppendFacts
    <3> HIDE DEF queue
    <3> QED
      BY <1>3, <1>5, <2>1, <3>1, <3>2
  <2>3. CASE ~(strikes[addr] + 1 < MaxStrikes)
    <3>1. queue = untried /\ strikes[addr] + 1 = MaxStrikes
      BY <1>5, <1>6, <2>3
    <3> HIDE DEF queue
    <3> QED
      BY <1>3, <1>5, <2>1, <3>1
  <2> QED
    BY <2>2, <2>3
<1> HIDE DEF queue
<1>9. IsFiniteSet(kept) /\ Cardinality(kept) \in Nat /\ kept \in SUBSET Addr
  BY <1>3, AddrFinite, FS_Subset, FS_CardinalityType DEF TypeOK
<1> HIDE DEF kept
<1>10. n \in Nat /\ Cardinality(kept) + n >= MaxSlots
  <2> DEFINE d == MaxSlots - Cardinality(kept)
  <2>1. n = IF 0 >= d THEN 0 ELSE d
    <3>1. d \in Int /\ n = Max({0, d})
      BY <1>9
    <3> HIDE DEF d, n
    <3>2. \A y, z \in Int : Max({y, z}) = IF y >= z THEN y ELSE z
      BY MinMaxOfTwo
    <3>3. Max({0, d}) = IF 0 >= d THEN 0 ELSE d
      BY <3>1, <3>2
    <3> QED
      BY <3>1, <3>3
  <2> QED
    BY <1>9, <2>1
<1> HIDE DEF n
<1>11. /\ untried' \in Seq(Addr) /\ IsInjective(untried') /\ active' = kept \cup S
       /\ S \subseteq Range(queue) /\ active' \subseteq Addr
       /\ active' \cap Range(untried') = {}
       /\ active' \cup Range(untried') = kept \cup Range(queue)
       /\ untried' # <<>> => Cardinality(active') = Cardinality(kept) + n
  BY <1>1, <1>8, <1>9, <1>10, Refill, SMTT(30)
<1>12. S \in SUBSET Addr /\ S \cap kept = {}
  BY <1>8, <1>11
<1> HIDE DEF S
<1>13. /\ wpc' \in [Addr -> {"none", "check", "session", "backoff", "report", "exited"}]
       /\ retries' \in [Addr -> 0..MaxRetries]
       /\ cancelled' \in [Addr -> BOOLEAN] /\ graced' \in [Addr -> BOOLEAN]
       /\ got' \in [Addr -> {"nothing", "bytes", "piece"}]
       /\ \A a \in Addr : a \in S =>
             wpc'[a] = "check" /\ retries'[a] = 0 /\ got'[a] = "nothing"
       /\ \A a \in Addr : a \notin S =>
            wpc'[a] = wpc[a] /\ retries'[a] = retries[a] /\ got'[a] = got[a]
  BY <1>1, <1>3, <1>12, Started
<1>14. TypeOK'
  <2>1. ctxDone' \in BOOLEAN
    BY <1>2, <1>3 DEF TypeOK
  <2>2. doneCh' \in Seq(Addr) /\ Len(doneCh') <= MaxSlots
    <3>1. Len(doneCh) \in Nat /\ Len(doneCh) <= MaxSlots
      BY <1>3, LenProperties DEF TypeOK
    <3> QED
      BY <1>1, <1>4, <3>1
  <2> QED
    BY <1>1, <1>3, <1>7, <1>11, <1>13, <2>1, <2>2 DEF TypeOK
<1>15. NotStarted' /\ StrikeLeft'
  <2>1. \A a \in active \cup Range(untried) : strikes[a] < MaxStrikes /\ a \in Addr
    BY <1>3, MembersOfSeq DEF StrikeLeft, TypeOK
  <2>2. ASSUME NEW a \in active' \cup Range(untried') PROVE strikes'[a] < MaxStrikes
    <3>1. a \in active \cup Range(untried) /\ (a = addr => strikes[a] + 1 # MaxStrikes)
      BY <1>8, <1>11
    <3> QED
      BY <1>6, <1>7, <2>1, <3>1
  <2> QED
    BY <1>1, <2>2 DEF NotStarted, StrikeLeft
<1>16. RetryLeft'
  <2> SUFFICES ASSUME NEW a \in Addr, wpc'[a] \in {"check", "session"}
               PROVE  retries'[a] < MaxRetries
    BY DEF RetryLeft
  <2>1. CASE a \in S
    BY <1>13, <2>1
  <2>2. CASE a \notin S
    BY <1>13, <2>2 DEF PoolInv, RetryLeft
  <2> QED
    BY <2>1, <2>2
<1>17. PeersPlaced'
  <2>1. ASSUME NEW a \in Addr \ (active' \cup Range(untried')) PROVE strikes'[a] = MaxStrikes
    <3>1. CASE a = addr
      BY <1>5, <1>6, <1>7, <1>8, <1>11, <2>1, <3>1
    <3>2. CASE a # addr
      BY <1>3, <1>7, <1>8, <1>11, <2>1, <3>2
    <3> QED
      BY <3>1, <3>2
  <2> QED
    BY <1>11, <2>1 DEF PeersPlaced
<1>18. QueuesInjective'
  BY <1>1, <1>4, <1>11 DEF QueuesInjective
<1>19. ReportsOwed'
  <2>1. ASSUME NEW a \in Addr
        PROVE  /\ Running(a)' => a \in active'
               /\ a \in Range(doneCh') <=> a \in active' /\ ~Running(a)'
    <3>1. CASE a \in S
      <4>1. Running(a)' /\ a \in active' /\ a \notin kept
        BY <1>11, <1>12, <1>13, <3>1 DEF Running
      <4>2. a \notin Range(doneCh')
        BY <1>1, <1>3, <1>4, <4>1 DEF kept, ReportsOwed
      <4> QED
        BY <4>1, <4>2
    <3>2. CASE a \notin S
      <4>1. Running(a)' <=> Running(a)
        BY <1>13, <3>2 DEF Running
      <4>2. a \in active' <=> a \in active /\ a # addr
        BY <1>11, <3>2 DEF kept
      <4>3. a \in Range(doneCh') <=> a \in Range(doneCh) /\ a # addr
        BY <1>1, <1>4
      <4> QED
        BY <1>3, <1>5, <4>1, <4>2, <4>3 DEF ReportsOwed
    <3> QED
      BY <3>1, <3>2
  <2> QED
    BY <2>1 DEF ReportsOwed
<1>20. SlotsFilled'
  BY <1>10, <1>11 DEF SlotsFilled
<1>21. NoStrike'
  <2> SUFFICES ASSUME MaxStrikes > 1, NEW a \in Addr, got'[a] = "piece"
               PROVE  (a \in active' /\ strikes'[a] = 0) \/ a \in Range(untried')
    BY DEF NoStrike
  <2>1. got[a] = "piece" /\ a \notin S
    BY <1>13
  <2>2. (a \in active /\ strikes[a] = 0) \/ a \in Range(untried)
    BY <2>1 DEF PoolInv, NoStrike
  <2>3. CASE a = addr
    <3>1. strikes[a] + 1 # MaxStrikes
      BY <1>3, <1>5, <1>6, <2>2, <2>3
    <3> QED
      BY <1>5, <1>8, <1>11, <2>1, <2>3, <3>1 DEF kept
  <2>4. CASE a # addr
    <3>1. a \in active => a \in active'
      BY <1>11, <2>4 DEF kept
    <3>2. a \in Range(untried) => a \in Range(untried')
      BY <1>3, <1>8, <1>11, <2>1, <2>4 DEF kept
    <3>3. strikes'[a] = strikes[a]
      BY <1>7, <2>4
    <3> QED
      BY <2>2, <3>1, <3>2, <3>3
  <2> QED
    BY <2>3, <2>4
<1> QED
  BY <1>14, <1>15, <1>16, <1>17, <1>18, <1>19, <1>20, <1>21 DEF PoolInv

\* What a worker of a does with its own state keeps everything but ReportsOwed
\* as long as it resets strikes only, and goes on only with a retry left.
LEMMA WorkerKeeps ==
  ASSUME PoolInv, NEW a \in Addr,
         untried' = untried, active' = active, ppc' = ppc, ctxDone' = ctxDone,
         doneCh' = doneCh,
         cancelled' \in [Addr -> BOOLEAN], graced' \in [Addr -> BOOLEAN],
         NEW g \in {"nothing", "bytes", "piece"}, got' = [got EXCEPT ![a] = g],
         g = "piece" => got[a] = "piece" \/ strikes' = [strikes EXCEPT ![a] = 0],
         NEW v \in {"check", "session", "backoff", "report"}, NEW r \in 0..MaxRetries,
         Running(a), v \in {"check", "session"} => r < MaxRetries,
         wpc' = [wpc EXCEPT ![a] = v], retries' = [retries EXCEPT ![a] = r],
         \/ strikes' = strikes
         \/ strikes' = [strikes EXCEPT ![a] = 0]
  PROVE  PoolInv'
<1> USE PoolAssumption
<1>1. TypeOK /\ a \in active /\ ppc # "start"
  BY DEF PoolInv, ReportsOwed, NotStarted, Running
<1>2. ctxDone' \in BOOLEAN
  BY <1>1 DEF TypeOK
<1>3. /\ strikes' \in [Addr -> 0..MaxStrikes]
      /\ \A b \in Addr : strikes'[b] = strikes[b] \/ (b = a /\ strikes'[b] = 0)
  <2>1. strikes \in [Addr -> 0..MaxStrikes] /\ 0 \in 0..MaxStrikes
    BY <1>1 DEF TypeOK
  <2>2. CASE strikes' = strikes
    BY <2>1, <2>2
  <2>3. CASE strikes' = [strikes EXCEPT ![a] = 0]
    BY <2>1, <2>3
  <2> QED
    BY <2>2, <2>3
<1>4. TypeOK'
  BY <1>1, <1>2, <1>3 DEF TypeOK
<1>5. StrikeLeft'
  BY <1>1, <1>3, MembersOfSeq DEF StrikeLeft, PoolInv, TypeOK
<1>6. RetryLeft'
  BY <1>1 DEF RetryLeft, PoolInv, TypeOK
<1>7. NotStarted' /\ SlotsFilled' /\ QueuesInjective'
  BY <1>1 DEF NotStarted, SlotsFilled, QueuesInjective, PoolInv
<1>8. PeersPlaced'
  BY <1>1, <1>3 DEF PeersPlaced, PoolInv
<1>9. ReportsOwed'
  <2>1. \A b \in Addr : Running(b)' <=> Running(b)
    BY <1>1 DEF Running, TypeOK
  <2> QED
    BY <2>1 DEF ReportsOwed, PoolInv
<1>10. NoStrike'
  <2>1. \A b \in Addr : got'[b] = "piece" => got[b] = "piece" \/ (b = a /\ strikes'[a] = 0)
    BY <1>1 DEF TypeOK
  <2> QED
    BY <1>1, <1>3, <2>1 DEF NoStrike, PoolInv
<1> QED
  BY <1>4, <1>5, <1>6, <1>7, <1>8, <1>9, <1>10 DEF PoolInv

\* The exit report takes a place in the channel.
LEMMA ReportInv ==
  ASSUME PoolInv, NEW a \in Addr, Report(a)
  PROVE  PoolInv'
<1> USE PoolAssumption
<1>1. /\ untried' = untried /\ active' = active /\ ppc' = ppc /\ retries' = retries
      /\ doneCh' = Append(doneCh, a) /\ Len(doneCh) < MaxSlots /\ strikes' = strikes
      /\ wpc[a] = "report" /\ wpc' = [wpc EXCEPT ![a] = "exited"] /\ got' = got
  BY DEF Report
<1>2. ctxDone' = ctxDone /\ cancelled' = cancelled /\ graced' = graced
  BY DEF Report
<1>3. TypeOK /\ Running(a) /\ a \in active /\ a \notin Range(doneCh) /\ ppc # "start"
  BY <1>1 DEF PoolInv, ReportsOwed, NotStarted, Running
<1>4. /\ doneCh' \in Seq(Addr) /\ Len(doneCh') = Len(doneCh) + 1
      /\ Range(doneCh') = Range(doneCh) \cup {a} /\ IsInjective(doneCh')
  BY <1>1, <1>3, AppendFacts DEF TypeOK, PoolInv, QueuesInjective
<1>5. TypeOK'
  <2>1. ctxDone' \in BOOLEAN /\ cancelled' \in [Addr -> BOOLEAN] /\ graced' \in [Addr -> BOOLEAN]
    BY <1>2, <1>3 DEF TypeOK
  <2>2. Len(doneCh') <= MaxSlots
    <3>1. Len(doneCh) \in Nat
      BY <1>3, LenProperties DEF TypeOK
    <3> QED
      BY <1>1, <1>4, <3>1
  <2> QED
    BY <1>1, <1>3, <1>4, <2>1, <2>2 DEF TypeOK
<1>6. StrikeLeft' /\ PeersPlaced' /\ SlotsFilled' /\ QueuesInjective' /\ NotStarted'
  BY <1>1, <1>3, <1>4
     DEF PoolInv, StrikeLeft, PeersPlaced, SlotsFilled, QueuesInjective, NotStarted
<1>7. RetryLeft'
  BY <1>1, <1>3 DEF PoolInv, RetryLeft, TypeOK
<1>8. ReportsOwed'
  <2>1. /\ ~Running(a)' /\ \A b \in Addr : b # a => (Running(b)' <=> Running(b))
    BY <1>1, <1>3 DEF Running, TypeOK
  <2> QED
    BY <1>1, <1>3, <1>4, <2>1 DEF PoolInv, ReportsOwed
<1>9. NoStrike'
  BY <1>1 DEF NoStrike, PoolInv
<1> QED
  BY <1>5, <1>6, <1>7, <1>8, <1>9 DEF PoolInv

\* Every step of a worker keeps the invariant.
LEMMA WorkerStepInv ==
  ASSUME PoolInv, NEW a \in Addr, WorkerStep(a) \/ BlockReceived(a)
  PROVE  PoolInv'
<1> USE PoolAssumption
<1>1. TypeOK /\ RetryLeft
  BY DEF PoolInv
<1>2. /\ cancelled \in [Addr -> BOOLEAN] /\ graced \in [Addr -> BOOLEAN]
      /\ got \in [Addr -> {"nothing", "bytes", "piece"}]
      /\ wpc \in [Addr -> {"none", "check", "session", "backoff", "report", "exited"}]
      /\ retries \in [Addr -> 0..MaxRetries] /\ retries[a] \in 0..MaxRetries
  BY <1>1 DEF TypeOK
<1>3. /\ retries = [retries EXCEPT ![a] = retries[a]] /\ wpc = [wpc EXCEPT ![a] = wpc[a]]
      /\ got = [got EXCEPT ![a] = got[a]] /\ got[a] \in {"nothing", "bytes", "piece"}
  BY <1>2
<1>4. CASE CheckCtx(a)
  <2>1. PICK v \in {"report", "session"} : wpc' = [wpc EXCEPT ![a] = v]
    BY <1>4 DEF CheckCtx
  <2>2. Running(a) /\ retries[a] < MaxRetries
    BY <1>1, <1>4 DEF CheckCtx, Running, RetryLeft
  <2>3. cancelled' = cancelled /\ graced' = graced /\ ctxDone' = ctxDone
    BY <1>4 DEF CheckCtx
  <2>4. /\ untried' = untried /\ active' = active /\ ppc' = ppc /\ doneCh' = doneCh
        /\ got' = got /\ retries' = retries /\ strikes' = strikes
    BY <1>4 DEF CheckCtx
  <2> QED
    BY <1>2, <1>3, <2>1, <2>2, <2>3, <2>4, WorkerKeeps
<1>5. CASE BlockReceived(a)
  <2>1. Running(a) /\ wpc[a] = "session" /\ retries[a] < MaxRetries
    BY <1>1, <1>5 DEF BlockReceived, Running, RetryLeft
  <2>2. cancelled' = cancelled /\ graced' = graced /\ ctxDone' = ctxDone
    BY <1>5 DEF BlockReceived
  <2>3. /\ untried' = untried /\ active' = active /\ ppc' = ppc /\ doneCh' = doneCh
        /\ wpc' = wpc /\ retries' = retries /\ strikes' = strikes
        /\ got' = [got EXCEPT ![a] = "bytes"]
    BY <1>5 DEF BlockReceived
  <2> QED
    BY <1>2, <1>3, <2>1, <2>2, <2>3, WorkerKeeps
<1>6. CASE ProductiveSession(a)
  <2>1. Running(a)
    BY <1>6 DEF ProductiveSession, Running
  <2>2. cancelled' = cancelled /\ graced' = graced /\ ctxDone' = ctxDone
    BY <1>6 DEF ProductiveSession
  <2>3. /\ untried' = untried /\ active' = active /\ ppc' = ppc /\ doneCh' = doneCh
        /\ wpc' = [wpc EXCEPT ![a] = "backoff"] /\ retries' = [retries EXCEPT ![a] = 0]
        /\ strikes' = [strikes EXCEPT ![a] = 0] /\ got' = [got EXCEPT ![a] = "piece"]
    BY <1>6 DEF ProductiveSession
  <2>4. 0 \in 0..MaxRetries
    OBVIOUS
  <2> QED
    BY <1>2, <2>1, <2>2, <2>3, <2>4, WorkerKeeps
<1>7. CASE FruitlessSession(a)
  <2>1. Running(a) /\ retries[a] < MaxRetries
    BY <1>1, <1>7 DEF FruitlessSession, Running, RetryLeft
  <2>2. cancelled' = cancelled /\ graced' = graced /\ ctxDone' = ctxDone
    BY <1>7 DEF FruitlessSession
  <2>3. /\ untried' = untried /\ active' = active /\ ppc' = ppc /\ doneCh' = doneCh
        /\ wpc' = [wpc EXCEPT ![a] = "backoff"]
        /\ retries' = [retries EXCEPT ![a] = retries[a] + 1]
        /\ strikes' = strikes /\ got' = got
    BY <1>7 DEF FruitlessSession
  <2>4. retries[a] + 1 \in 0..MaxRetries
    BY <1>2, <2>1
  <2> QED
    BY <1>2, <1>3, <2>1, <2>2, <2>3, <2>4, WorkerKeeps
<1>8. CASE BackOff(a)
  <2>1. PICK v \in {"check", "report"} :
          wpc' = [wpc EXCEPT ![a] = v] /\ (v = "check" => retries[a] < MaxRetries)
    BY <1>8 DEF BackOff
  <2>2. Running(a)
    BY <1>8 DEF BackOff, Running
  <2>3. cancelled' = cancelled /\ graced' = graced /\ ctxDone' = ctxDone
    BY <1>8 DEF BackOff
  <2>4. /\ untried' = untried /\ active' = active /\ ppc' = ppc /\ doneCh' = doneCh
        /\ got' = got /\ retries' = retries /\ strikes' = strikes
    BY <1>8 DEF BackOff
  <2> QED
    BY <1>2, <1>3, <2>1, <2>2, <2>3, <2>4, WorkerKeeps
<1> QED
  BY <1>4, <1>5, <1>6, <1>7, <1>8, ReportInv DEF WorkerStep

\* Every step of the pool keeps the invariant.
LEMMA PoolStepInv ==
  ASSUME PoolInv, [Next]_vars
  PROVE  PoolInv'
<1>1. ASSUME untried' = untried, active' = active, strikes' = strikes, doneCh' = doneCh,
             wpc' = wpc, retries' = retries, got' = got, cancelled' = cancelled,
             ppc' = ppc \/ (ppc \in {"select", "wait"} /\ ppc' \in {"wait", "returned"}),
             ctxDone' \in BOOLEAN, graced' \in [Addr -> BOOLEAN]
      PROVE  PoolInv'
  <2>1. TypeOK'
    BY <1>1 DEF PoolInv, TypeOK
  <2>2. NotStarted' /\ StrikeLeft' /\ RetryLeft' /\ PeersPlaced' /\ QueuesInjective'
    BY <1>1 DEF PoolInv, NotStarted, StrikeLeft, RetryLeft, PeersPlaced, QueuesInjective
  <2>3. ReportsOwed' /\ SlotsFilled'
    BY <1>1 DEF PoolInv, ReportsOwed, SlotsFilled, Running
  <2>4. NoStrike'
    BY <1>1 DEF PoolInv, NoStrike
  <2> QED
    BY <2>1, <2>2, <2>3, <2>4 DEF PoolInv
<1>2. ctxDone \in BOOLEAN /\ graced \in [Addr -> BOOLEAN]
  BY DEF PoolInv, TypeOK
<1>3. CASE NoticeCancel
  BY <1>1, <1>2, <1>3 DEF NoticeCancel, workerVars
<1>4. CASE WaitDone
  BY <1>1, <1>2, <1>4 DEF WaitDone, workerVars
<1>5. CASE Cancel
  <2>1. ctxDone' \in BOOLEAN
    BY <1>5 DEF Cancel
  <2> QED
    BY <1>1, <1>2, <1>5, <2>1 DEF Cancel, workerVars
<1>6. CASE Stopped \/ UNCHANGED vars
  BY <1>1, <1>2, <1>6 DEF Stopped, vars, workerVars
<1>7. ASSUME NEW a \in Addr, GraceOver(a) PROVE PoolInv'
  <2>1. graced' \in [Addr -> BOOLEAN]
    BY <1>2, <1>7 DEF GraceOver
  <2> QED
    BY <1>1, <1>2, <1>7, <2>1 DEF GraceOver
<1> QED
  BY <1>3, <1>4, <1>5, <1>6, <1>7, StartInitialInv, WorkerExitInv, EvaluateInv, WorkerStepInv
     DEF Next

\* The variables of the pool keep their types: counters stay within their limits
\* and doneCh within its capacity.
THEOREM TypeCorrect == Spec => []TypeOK
<1>1. PoolInv => TypeOK
  BY DEF PoolInv
<1> QED
  BY <1>1, PoolInitInv, PoolStepInv, PTL DEF Spec

\* No peer is lost or started twice, for every list of peers and every order of
\* exits, ticks and recycling.
THEOREM PeersAccountedFor == Spec => []EachPeerOnce
<1>1. PoolInv => EachPeerOnce
  BY DEF PoolInv, EachPeerOnce, PeersPlaced, QueuesInjective, ReportsOwed
<1> QED
  BY <1>1, PoolInitInv, PoolStepInv, PTL DEF Spec

\* While a peer is queued, every slot is taken.
THEOREM NoIdleSlot == Spec => []SlotsFilled
<1>1. PoolInv => SlotsFilled
  BY DEF PoolInv
<1> QED
  BY <1>1, PoolInitInv, PoolStepInv, PTL DEF Spec

\* A peer whose last worker completed a piece is never dropped, provided that a
\* peer may exit more than once (handleWorkerExit: three times).
THEOREM ProductiveRecycled ==
  ASSUME MaxStrikes > 1
  PROVE  Spec => []ProductivePeersStay
<1>1. PoolInv => ProductivePeersStay
  BY DEF PoolInv, NoStrike, ProductivePeersStay
<1> QED
  BY <1>1, PoolInitInv, PoolStepInv, PTL DEF Spec
=============================================================================
