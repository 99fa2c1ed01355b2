----------------------------- MODULE SeederProofs -----------------------------
(***************************************************************************)
(* Proofs about Seeder.tla, for any number of connections, slots and       *)
(* blocks.                                                                 *)
(***************************************************************************)
EXTENDS Seeder, FiniteSetTheorems, TLAPS

-----------------------------------------------------------------------------
(* The type invariant. *)

\* A handler that reads a piece from disk has not used up its blocks.
ServeBelow == \A a \in Addr : hpc[a] = "serve" => uc[a].sent < MaxBlocks

UploadConn == [interested : BOOLEAN, choked : BOOLEAN, sent : 0..MaxBlocks]

\* A connection that does not exist has the type of one.
LEMMA IdleIsConn == Idle \in UploadConn
  BY SeederAssumption DEF Idle, UploadConn

\* A handler that returns takes its connection out of the table and out of the
\* choker's hands.
LEMMA LeaveKeepsType ==
  ASSUME TypeOK, ServeBelow, NEW a \in Addr, Leave(a),
         UNCHANGED <<run, optimistic, overlapped>>
  PROVE  TypeOK' /\ ServeBelow'
  BY IdleIsConn, SeederAssumption DEF TypeOK, ServeBelow, Leave, Idle, UploadConn

\* A handler that goes on keeps its connection in the table.
LEMMA NextMessageKeepsType ==
  ASSUME TypeOK, ServeBelow, NEW a \in Addr, NEW u \in UploadConn, NextMessage(a, u),
         UNCHANGED <<run, optimistic, overlapped>>
  PROVE  TypeOK' /\ ServeBelow'
<1>1. CASE run = "cancelled" /\ Leave(a)
  BY <1>1, LeaveKeepsType
<1>2. CASE run # "cancelled" /\ ~Leave(a)
  BY <1>2, SMTT(30) DEF NextMessage, TypeOK, ServeBelow, UploadConn
<1> QED
  BY <1>1, <1>2, LeaveKeepsType DEF NextMessage

\* The steps of a connection's handler keep the types.
LEMMA HandlerKeepsType ==
  ASSUME TypeOK, ServeBelow, NEW a \in Addr, HandlerStep(a)
  PROVE  TypeOK' /\ ServeBelow'
<1>0. uc[a] \in UploadConn
  BY DEF TypeOK, UploadConn
<1>1. CASE HandshakeFails(a)
  BY <1>1 DEF HandshakeFails, chokerVars, TypeOK, ServeBelow
<1>2. CASE Register(a)
  BY <1>2, IdleIsConn, NextMessageKeepsType DEF Register
<1>3. CASE ReadInterest(a)
  <2>1. [uc[a] EXCEPT !.interested = ~@] \in UploadConn
    BY <1>0 DEF UploadConn
  <2> QED
    BY <1>3, <2>1, NextMessageKeepsType DEF ReadInterest
<1>4. CASE ReadNothing(a)
  BY <1>4, <1>0, NextMessageKeepsType DEF ReadNothing
<1>5. CASE ReadRequest(a)
  BY <1>5 DEF ReadRequest, chokerVars, TypeOK, ServeBelow
<1>6. CASE WriteBlock(a)
  <2>1. uc[a].sent < MaxBlocks
    BY <1>6 DEF WriteBlock, ServeBelow
  <2>2. [uc[a] EXCEPT !.sent = @ + 1] \in UploadConn
    BY <1>0, <2>1, SeederAssumption DEF UploadConn
  <2> QED
    BY <1>6, <2>2, NextMessageKeepsType DEF WriteBlock
<1>7. CASE ConnFails(a)
  BY <1>7, LeaveKeepsType DEF ConnFails
<1> QED
  BY <1>1, <1>2, <1>3, <1>4, <1>5, <1>6, <1>7 DEF HandlerStep

\* The choker's decisions concern connections of the table only.
LEMMA DecideKeepsType ==
  ASSUME TypeOK, ServeBelow, NEW top \in SUBSET conns,
         NEW opt \in Addr \cup {NoAddr}, Decide(top, opt),
         UNCHANGED <<run, conns, hpc, uc, overlapped>>
  PROVE  TypeOK' /\ ServeBelow'
  BY DEF Decide, TypeOK, ServeBelow

\* The connections ranked first are some of those ranked, n at most.
LEMMA TopNIsSmall ==
  ASSUME NEW S, IsFiniteSet(S), NEW n \in Nat, NEW T \in TopN(S, n)
  PROVE  T \subseteq S /\ IsFiniteSet(T) /\ Cardinality(T) <= n
<1>1. Cardinality(S) \in Nat
  BY FS_CardinalityType
<1>2. Min({n, Cardinality(S)}) \in {n, Cardinality(S)} /\ Min({n, Cardinality(S)}) <= n
  <2> DEFINE m == IF n <= Cardinality(S) THEN n ELSE Cardinality(S)
  <2>1. m \in {n, Cardinality(S)} /\ \A y \in {n, Cardinality(S)} : m <= y
    BY <1>1
  <2> HIDE DEF m
  <2>2. \E x \in {n, Cardinality(S)} : \A y \in {n, Cardinality(S)} : x <= y
    BY <2>1
  <2> QED
    BY <2>2 DEF Min
<1>3. T \subseteq S /\ Cardinality(T) = Min({n, Cardinality(S)})
  BY DEF TopN, kSubset
<1> QED
  BY <1>2, <1>3, FS_Subset

\* Every step keeps the types.
LEMMA StepKeepsType ==
  ASSUME TypeOK, ServeBelow, [Next]_vars
  PROVE  TypeOK' /\ ServeBelow'
<1> USE SeederAssumption
<1>0. IsFiniteSet(Interested) /\ Interested \subseteq conns /\ UploadSlots \in Nat
  <2>1. Interested \subseteq Addr
    BY DEF Interested, TypeOK
  <2> QED
    BY <2>1, FS_Subset DEF Interested
<1>1. CASE Cancel
  BY <1>1 DEF Cancel, chokerVars, TypeOK, ServeBelow
<1>2. CASE AcceptFails
  BY <1>2, IdleIsConn DEF AcceptFails, TypeOK, ServeBelow, UploadConn
<1>3. CASE Evaluate
  <2>1. PICK top \in TopN(Interested, UploadSlots) : Decide(top, optimistic)
    BY <1>3 DEF Evaluate
  <2>2. top \subseteq conns
    BY <1>0, TopNIsSmall
  <2>3. optimistic \in Addr \cup {NoAddr}
    BY DEF TypeOK
  <2> QED
    BY <1>3, <2>1, <2>2, <2>3, DecideKeepsType DEF Evaluate
<1>4. ASSUME NEW a \in Addr, Accept(a)
      PROVE  TypeOK' /\ ServeBelow'
  BY <1>4 DEF Accept, chokerVars, TypeOK, ServeBelow
<1>5. ASSUME NEW a \in Addr, Rotate(a)
      PROVE  TypeOK' /\ ServeBelow'
  <2>1. PICK top \in TopN(Interested, UploadSlots) : Decide(top, a)
    BY <1>5 DEF Rotate
  <2>2. top \subseteq conns
    BY <1>0, TopNIsSmall
  <2> QED
    BY <1>5, <2>1, <2>2, DecideKeepsType DEF Rotate
<1>6. ASSUME NEW a \in Addr, Apply(a)
      PROVE  TypeOK' /\ ServeBelow'
  BY <1>6, ZenonT(30) DEF Apply, TypeOK, ServeBelow
<1>7. CASE UNCHANGED vars
  BY <1>7 DEF vars, chokerVars, TypeOK, ServeBelow
<1> QED
  BY <1>1, <1>2, <1>3, <1>4, <1>5, <1>6, <1>7, HandlerKeepsType DEF Next

\* They hold in the initial states.
LEMMA InitHasType == Init => TypeOK /\ ServeBelow
  BY IdleIsConn, SeederAssumption DEF Init, TypeOK, ServeBelow, UploadConn

\* The inductive form of type correctness.
LEMMA TypeInductive == Spec => [](TypeOK /\ ServeBelow)
  BY InitHasType, StepKeepsType, PTL DEF Spec

\* Every variable keeps its type, and a connection is in the table, and so in
\* the choker's hands, exactly while its handler serves it.
THEOREM TypeCorrect == Spec => []TypeOK
  BY TypeInductive, PTL

-----------------------------------------------------------------------------
(* The connection limit. *)

\* The connections that have a handler, registered or not.
Handled == {a \in Addr : hpc[a] # "none"}

\* LimitHolds is not inductive: a handshake that succeeds adds to the table
\* without a check.  What the accept loop bounds is the number of handlers.
HandlersLimited == ~overlapped => Cardinality(Handled) <= MaxConns

\* Finitely many connections are handled.
LEMMA HandledFinite == IsFiniteSet(Handled) /\ IsFiniteSet(Handled')
<1>1. Handled \subseteq Addr /\ Handled' \subseteq Addr
  BY DEF Handled
<1> QED
  BY <1>1, FS_Subset, SeederAssumption

\* Only Accept starts a handler.
LEMMA HandledShrinks ==
  ASSUME TypeOK, HandlersLimited, Handled' \subseteq Handled, overlapped' = overlapped
  PROVE  HandlersLimited'
<1>1. Cardinality(Handled') <= Cardinality(Handled)
  BY HandledFinite, FS_Subset
<1>2. Cardinality(Handled) \in Nat /\ Cardinality(Handled') \in Nat
  BY HandledFinite, FS_CardinalityType
<1> QED
  BY <1>1, <1>2, SeederAssumption DEF HandlersLimited

\* Without another handshake in progress the handlers are the registered ones,
\* which the accept loop has just counted.
LEMMA AcceptKeepsLimit ==
  ASSUME TypeOK, HandlersLimited, NEW a \in Addr, Accept(a)
  PROVE  HandlersLimited'
<1>1. CASE Cardinality(conns) >= MaxConns
  <2>1. hpc' = hpc /\ overlapped' = overlapped
    BY <1>1 DEF Accept, TypeOK
  <2> QED
    BY <2>1, HandledShrinks DEF Handled
<1>2. CASE ~(Cardinality(conns) >= MaxConns) /\ Handshaking # {}
  <2>1. hpc'[a] = "handshake"
    BY <1>2 DEF Accept, TypeOK
  <2> QED
    BY <1>2, <2>1 DEF Accept, HandlersLimited
<1>3. CASE ~(Cardinality(conns) >= MaxConns) /\ Handshaking = {}
  <2>1. Handled = conns
    BY <1>3 DEF Handled, Handshaking, TypeOK
  <2>2. Handled' = Handled \cup {a} /\ a \notin Handled
    BY <1>3 DEF Accept, Handled, TypeOK
  <2>3. Cardinality(Handled') = Cardinality(conns) + 1
    BY <2>1, <2>2, HandledFinite, FS_AddElement
  <2>4. Cardinality(conns) \in Nat
    BY <2>1, HandledFinite, FS_CardinalityType
  <2> QED
    BY <1>3, <2>3, <2>4, SeederAssumption DEF HandlersLimited
<1> QED
  BY <1>1, <1>2, <1>3

\* Every step keeps the handlers within the limit.
LEMMA StepKeepsLimit ==
  ASSUME TypeOK, HandlersLimited, [Next]_vars
  PROVE  HandlersLimited'
<1>1. CASE UNCHANGED <<hpc, overlapped>>
  BY <1>1, HandledShrinks DEF Handled
<1>2. ASSUME NEW a \in Addr, HandlerStep(a)
      PROVE  Handled' \subseteq Handled /\ overlapped' = overlapped
  BY <1>2 DEF HandlerStep, HandshakeFails, Register, WriteBlock, ReadInterest,
       ReadNothing, ReadRequest, ConnFails, NextMessage, Leave, Handled, TypeOK
<1>3. CASE AcceptFails
  BY <1>3, HandledShrinks DEF AcceptFails, Handled
<1>4. CASE Cancel \/ Evaluate \/ \E a \in Addr : Rotate(a) \/ Apply(a)
  BY <1>1, <1>4 DEF Cancel, Evaluate, Rotate, Apply
<1>5. CASE UNCHANGED vars
  BY <1>1, <1>5 DEF vars
<1> QED
  BY <1>2, <1>3, <1>4, <1>5, HandledShrinks, AcceptKeepsLimit DEF Next

\* At the start there is no handler.
LEMMA InitLimited == Init => HandlersLimited
<1> SUFFICES ASSUME Init PROVE HandlersLimited
  OBVIOUS
<1>1. Handled = {}
  BY DEF Init, Handled
<1> QED
  BY <1>1, FS_EmptySet, SeederAssumption DEF HandlersLimited

\* The limit on handlers is the one the property speaks of.
LEMMA LimitedEnough ==
  ASSUME TypeOK, HandlersLimited
  PROVE  LimitHolds
<1>1. conns \subseteq Handled
  BY DEF TypeOK, Handled
<1>2. Cardinality(conns) <= Cardinality(Handled)
  BY <1>1, HandledFinite, FS_Subset
<1>3. Cardinality(conns) \in Nat /\ Cardinality(Handled) \in Nat
  BY <1>1, HandledFinite, FS_Subset, FS_CardinalityType
<1> QED
  BY <1>2, <1>3, SeederAssumption DEF LimitHolds, HandlersLimited

\* Config.MaxConns bounds the table, whatever connections come and go, as long
\* as no two handshakes overlap.
THEOREM ConnectionLimit == Spec => []LimitHolds
<1>1. Spec => []HandlersLimited
  BY TypeInductive, InitLimited, StepKeepsLimit, PTL DEF Spec
<1> QED
  BY <1>1, TypeInductive, LimitedEnough, PTL

-----------------------------------------------------------------------------
(* The upload slots. *)

\* The connections that are unchoked for good or will be in this evaluation:
\* those the choker has treated, or that have come since its snapshot, and those
\* it is going to unchoke.
Slotted == {a \in conns \ todo : ~uc[a].choked} \cup unchokeSet

\* SlotsBounded speaks of the moments between evaluations; while decisions are
\* applied the bound is on Slotted.
SlottedBounded == Cardinality(Slotted) <= UploadSlots + 1

\* Finitely many connections hold a slot.
LEMMA SlottedFinite ==
  ASSUME TypeOK
  PROVE  IsFiniteSet(Slotted) /\ Cardinality(Slotted) \in Nat
<1>1. Slotted \subseteq Addr
  BY DEF Slotted, TypeOK
<1> QED
  BY <1>1, FS_Subset, FS_CardinalityType, SeederAssumption

\* Giving up slots keeps their number bounded.
LEMMA SlottedShrinks ==
  ASSUME TypeOK, TypeOK', SlottedBounded, Slotted' \subseteq Slotted
  PROVE  SlottedBounded'
<1>1. Cardinality(Slotted') <= Cardinality(Slotted)
  BY SlottedFinite, FS_Subset
<1>2. Cardinality(Slotted') \in Nat
  <2>1. IsFiniteSet(Slotted')
    BY SlottedFinite, FS_Subset
  <2> QED
    BY <2>1, FS_CardinalityType
<1> QED
  BY <1>1, <1>2, SlottedFinite, SeederAssumption DEF SlottedBounded

\* A decision gives out the regular slots and the optimistic one.
LEMMA DecideKeepsSlots ==
  ASSUME TypeOK, NEW top \in TopN(Interested, UploadSlots), NEW opt, Decide(top, opt),
         UNCHANGED <<conns, uc>>
  PROVE  SlottedBounded'
<1>1. IsFiniteSet(Interested) /\ UploadSlots \in Nat
  <2>1. Interested \subseteq Addr
    BY DEF Interested, TypeOK
  <2> QED
    BY <2>1, FS_Subset, SeederAssumption
<1>2. IsFiniteSet(top) /\ Cardinality(top) <= UploadSlots /\ Cardinality(top) \in Nat
  BY <1>1, TopNIsSmall, FS_CardinalityType
<1>3. IsFiniteSet(top \cup {opt}) /\ Cardinality(top \cup {opt}) <= UploadSlots + 1
  <2>1. /\ IsFiniteSet(top \cup {opt})
        /\ Cardinality(top \cup {opt}) = IF opt \in top THEN Cardinality(top)
                                         ELSE Cardinality(top) + 1
    BY <1>2, FS_AddElement
  <2> QED
    BY <1>1, <1>2, <2>1
<1>4. Slotted' \subseteq top \cup {opt}
  BY DEF Decide, Slotted
<1>5. IsFiniteSet(Slotted') /\ Cardinality(Slotted') <= Cardinality(top \cup {opt})
  BY <1>3, <1>4, FS_Subset
<1>6. Cardinality(Slotted') \in Nat /\ Cardinality(top \cup {opt}) \in Nat
  BY <1>3, <1>5, FS_CardinalityType
<1> QED
  BY <1>1, <1>3, <1>5, <1>6 DEF SlottedBounded

\* A new connection is choked, and a handler does not touch the flag.
LEMMA HandlerKeepsSlots ==
  ASSUME TypeOK, NEW a \in Addr, HandlerStep(a)
  PROVE  Slotted' \subseteq Slotted
<1> USE DEF Slotted
<1>1. ASSUME Leave(a)
      PROVE  Slotted' \subseteq Slotted
  BY <1>1 DEF Leave, TypeOK
<1>2. ASSUME NEW u, NextMessage(a, u), u.choked = FALSE => a \in conns /\ ~uc[a].choked,
             u.choked \in BOOLEAN
      PROVE  Slotted' \subseteq Slotted
  <2>1. CASE Leave(a)
    BY <1>1, <2>1
  <2>2. CASE ~Leave(a)
    BY <1>2, <2>2 DEF NextMessage, TypeOK
  <2> QED
    BY <2>1, <2>2
<1>3. CASE HandshakeFails(a) \/ ReadRequest(a)
  BY <1>3 DEF HandshakeFails, ReadRequest, chokerVars
<1>4. CASE Register(a)
  BY <1>2, <1>4 DEF Register, Idle
<1>5. CASE ReadInterest(a) \/ ReadNothing(a) \/ WriteBlock(a)
  <2>1. a \in conns
    BY <1>5 DEF ReadInterest, ReadNothing, WriteBlock, TypeOK
  <2>2. uc[a] \in UploadConn
    BY DEF TypeOK, UploadConn
  <2>3. PICK u : NextMessage(a, u) /\ u.choked = uc[a].choked
    BY <1>5, <2>2 DEF ReadInterest, ReadNothing, WriteBlock, UploadConn
  <2>4. uc[a].choked \in BOOLEAN
    BY <2>2 DEF UploadConn
  <2> QED
    BY <1>2, <2>1, <2>3, <2>4
<1>6. CASE ConnFails(a)
  BY <1>1, <1>6 DEF ConnFails
<1> QED
  BY <1>3, <1>4, <1>5, <1>6 DEF HandlerStep

\* Every step keeps the number of slots bounded.
LEMMA StepKeepsSlots ==
  ASSUME TypeOK, ServeBelow, SlottedBounded, [Next]_vars
  PROVE  SlottedBounded'
<1>0. TypeOK'
  BY StepKeepsType
<1>1. CASE Slotted' \subseteq Slotted
  BY <1>0, <1>1, SlottedShrinks
<1>2. CASE Cancel \/ (\E a \in Addr : Accept(a)) \/ UNCHANGED vars
  BY <1>1, <1>2 DEF Cancel, Accept, vars, chokerVars, Slotted
<1>3. CASE AcceptFails
  BY <1>1, <1>3 DEF AcceptFails, Slotted
<1>4. CASE Evaluate
  BY <1>4, DecideKeepsSlots DEF Evaluate
<1>5. ASSUME NEW a \in Addr, Rotate(a)
      PROVE  SlottedBounded'
  BY <1>5, DecideKeepsSlots DEF Rotate
<1>6. ASSUME NEW a \in Addr, Apply(a)
      PROVE  SlottedBounded'
  <2>1. /\ todo' = todo \ {a} /\ unchokeSet' = unchokeSet \ {a} /\ conns' = conns
        /\ a \in todo /\ conns \subseteq Addr
    BY <1>6 DEF Apply, TypeOK
  <2>2. \A b \in Addr : b # a => uc'[b] = uc[b]
    BY <1>6 DEF Apply, TypeOK
  <2>3. a \notin unchokeSet => uc'[a].choked
    <3>1. uc'[a].choked = (a \notin unchokeSet)
      BY <1>6 DEF Apply, TypeOK
    <3> QED
      BY <3>1, Zenon
  <2>4. Slotted' \subseteq Slotted
    BY <2>1, <2>2, <2>3 DEF Slotted
  <2> QED
    BY <1>1, <2>4
<1> QED
  BY <1>1, <1>2, <1>3, <1>4, <1>5, <1>6, HandlerKeepsSlots DEF Next

\* At the start no connection holds a slot.
LEMMA InitSlotted == Init => SlottedBounded
<1> SUFFICES ASSUME Init PROVE SlottedBounded
  OBVIOUS
<1>1. Slotted = {}
  BY DEF Init, Slotted
<1> QED
  BY <1>1, FS_EmptySet, SeederAssumption DEF SlottedBounded

\* The bound on slots is the one the property speaks of.
LEMMA SlottedEnough ==
  ASSUME TypeOK, SlottedBounded
  PROVE  SlotsBounded
<1> SUFFICES ASSUME todo = {}
             PROVE  Cardinality({a \in conns : ~uc[a].choked}) <= UploadSlots + 1
  BY DEF SlotsBounded
<1>1. {a \in conns : ~uc[a].choked} = Slotted
  BY DEF Slotted, TypeOK
<1> QED
  BY <1>1 DEF SlottedBounded

\* Between two evaluations at most UploadSlots connections and one optimistic
\* connection are unchoked, although the choker decides from a snapshot and
\* connections come, go and change while it applies its decisions.
THEOREM UploadSlotsBounded == Spec => []SlotsBounded
<1>1. Spec => []SlottedBounded
  BY TypeInductive, InitSlotted, StepKeepsSlots, PTL DEF Spec
<1> QED
  BY <1>1, TypeInductive, SlottedEnough, PTL
=============================================================================
