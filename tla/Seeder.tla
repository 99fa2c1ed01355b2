-------------------------------- MODULE Seeder --------------------------------
(***************************************************************************)
(* The seeder of seed/: the accept loop of Run, one handler goroutine per  *)
(* connection (handleConn and messageLoop), and the choker goroutine that  *)
(* ranks the registered connections on each tick and applies its decisions *)
(* one connection at a time.                                               *)
(*                                                                         *)
(* The choker and the handlers share uploadConn.interested, choked and the *)
(* connection's buffered writer without a lock.  An address stands for one *)
(* TCP connection; which peer uses it does not matter.                     *)
(***************************************************************************)
EXTENDS Naturals, FiniteSets, FiniteSetsExt

CONSTANTS
  Addr,         \* remote addresses, one per connection
  NoAddr,       \* the empty string of Choker.optimistic
  MaxConns,     \* Config.MaxConns
  UploadSlots,  \* Config.UploadSlots
  MaxBlocks     \* bound: blocks served to one connection

ASSUME SeederAssumption ==
  /\ IsFiniteSet(Addr) /\ NoAddr \notin Addr
  /\ {MaxConns, UploadSlots} \subseteq Nat \ {0} /\ MaxBlocks \in Nat

VARIABLES
  run,         \* Run is "running", its context was "cancelled", or it "failed"
  conns,       \* the addresses in Seeder.conns
  hpc,         \* hpc[a]: where the handler of a stands
  uc,          \* uc[a]: its uploadConn; sent counts blocks instead of bytes
  todo,        \* choker: connections of the snapshot it has yet to treat
  unchokeSet,  \* choker: addresses to unchoke in this evaluation
  optimistic,  \* Choker.optimistic
  overlapped   \* history: two handlers were between accept and registration

chokerVars == <<todo, unchokeSet, optimistic>>
vars == <<run, chokerVars, conns, hpc, uc, overlapped>>

Idle == [interested |-> FALSE, choked |-> TRUE, sent |-> 0]

Init ==
  /\ run = "running"
  /\ conns = {}
  /\ hpc = [a \in Addr |-> "none"]
  /\ uc = [a \in Addr |-> Idle]
  /\ todo = {} /\ unchokeSet = {} /\ optimistic = NoAddr
  /\ overlapped = FALSE

Handshaking == {a \in Addr : hpc[a] = "handshake"}

-----------------------------------------------------------------------------
(* Run. *)

\* Mutant: the limit lets one connection too many in.
AcceptLoose(a) ==
  /\ run = "running" /\ hpc[a] = "none"
  /\ hpc' = [hpc EXCEPT ![a] =
               IF Cardinality(conns) > MaxConns THEN "none" ELSE "handshake"]
  /\ overlapped' = (overlapped \/ (hpc'[a] = "handshake" /\ Handshaking # {}))
  /\ UNCHANGED <<run, chokerVars, conns, uc>>

\* A connection arrives: closed at once when the table is full, handed to a
\* new handler otherwise.  The handler registers it only after the handshake.
Accept(a) ==
  /\ run = "running" /\ hpc[a] = "none"
  /\ hpc' = [hpc EXCEPT ![a] =
               IF Cardinality(conns) >= MaxConns THEN "none" ELSE "handshake"]
  /\ overlapped' = (overlapped \/ (hpc'[a] = "handshake" /\ Handshaking # {}))
  /\ UNCHANGED <<run, chokerVars, conns, uc>>

\* The context is cancelled: the listener is closed and Run returns nil.  It waits
\* neither for the handlers nor for the choker.
Cancel ==
  /\ run = "running"
  /\ run' = "cancelled"
  /\ UNCHANGED <<chokerVars, conns, hpc, uc, overlapped>>

\* Accept fails for a reason of its own: Run returns the error and runSeed exits
\* the process, with every connection.
AcceptFails ==
  /\ run = "running"
  /\ run' = "failed"
  /\ conns' = {}
  /\ hpc' = [a \in Addr |-> "none"]
  /\ uc' = [a \in Addr |-> Idle]
  /\ todo' = {} /\ unchokeSet' = {} /\ optimistic' = NoAddr
  /\ UNCHANGED overlapped

-----------------------------------------------------------------------------
(* handleConn and messageLoop. *)

\* Mutant: the deferred delete is missing.
LeaveRegistered(a) ==
  /\ hpc' = [hpc EXCEPT ![a] = "none"]
  /\ uc' = [uc EXCEPT ![a] = Idle]
  /\ UNCHANGED <<conns, todo, unchokeSet>>

\* The handler returns: the deferred delete from s.conns, then Close.  What the
\* choker still does to a connection of its snapshot that has gone is lost.
Leave(a) ==
  /\ hpc' = [hpc EXCEPT ![a] = "none"]
  /\ uc' = [uc EXCEPT ![a] = Idle]
  /\ conns' = conns \ {a}
  /\ todo' = todo \ {a} /\ unchokeSet' = unchokeSet \ {a}

\* Back to the head of messageLoop with uploadConn u: the context is looked at
\* between two messages only.
NextMessage(a, u) ==
  \/ run = "cancelled" /\ Leave(a)
  \/ /\ run # "cancelled"
     /\ hpc' = [hpc EXCEPT ![a] = "read"]
     /\ uc' = [uc EXCEPT ![a] = u]
     /\ conns' = conns \cup {a}
     /\ UNCHANGED <<todo, unchokeSet>>

\* The handshake fails, passes its deadline or names another torrent, or the
\* bitfield cannot be written.
HandshakeFails(a) ==
  /\ hpc[a] = "handshake"
  /\ hpc' = [hpc EXCEPT ![a] = "none"]
  /\ UNCHANGED <<run, chokerVars, conns, uc, overlapped>>

\* The handshake succeeds, the full bitfield is sent, s.conns[addr] = uc.
Register(a) ==
  /\ hpc[a] = "handshake"
  /\ NextMessage(a, Idle)
  /\ UNCHANGED <<run, optimistic, overlapped>>

\* MsgInterested and MsgNotInterested.
ReadInterest(a) ==
  /\ hpc[a] = "read"
  /\ NextMessage(a, [uc[a] EXCEPT !.interested = ~@])
  /\ UNCHANGED <<run, optimistic, overlapped>>

\* A keep-alive, MsgHave, MsgBitfield, or MsgRequest from a choked peer.
ReadNothing(a) ==
  /\ hpc[a] = "read"
  /\ NextMessage(a, uc[a])
  /\ UNCHANGED <<run, optimistic, overlapped>>

\* MsgRequest from an unchoked peer, in range: the piece is read from disk.
ReadRequest(a) ==
  /\ hpc[a] = "read"
  /\ ~uc[a].choked /\ uc[a].sent < MaxBlocks
  /\ hpc' = [hpc EXCEPT ![a] = "serve"]
  /\ UNCHANGED <<run, chokerVars, conns, uc, overlapped>>

\* The block is written and flushed, and counted.
WriteBlock(a) ==
  /\ hpc[a] = "serve"
  /\ NextMessage(a, [uc[a] EXCEPT !.sent = @ + 1])
  /\ UNCHANGED <<run, optimistic, overlapped>>

\* The connection ends, or a request is malformed, out of range or unreadable.
ConnFails(a) ==
  /\ hpc[a] \in {"read", "serve"}
  /\ Leave(a)
  /\ UNCHANGED <<run, optimistic, overlapped>>

-----------------------------------------------------------------------------
(* The choker. *)

Interested == {a \in conns : uc[a].interested}

\* The sets of n members of S that a sort by descending uploadBytes may put
\* first; ties fall either way.
TopN(S, n) ==
  {T \in kSubset(Min({n, Cardinality(S)}), S) :
     \A a \in T, b \in S \ T : uc[a].sent >= uc[b].sent}

\* The snapshot of getConns and the part of the unchoke set it contains.
Decide(top, opt) ==
  /\ todo' = conns
  /\ optimistic' = opt
  /\ unchokeSet' = (top \cup {opt}) \cap conns

\* evalTick: the optimistic peer keeps its slot, even if it has gone.
Evaluate ==
  /\ run = "running" /\ todo = {}
  /\ \E top \in TopN(Interested, UploadSlots) : Decide(top, optimistic)
  /\ UNCHANGED <<run, conns, hpc, uc, overlapped>>

\* Mutant: the optimistic slot goes to one of the peers that already have one.
RotateTop(a) ==
  /\ run = "running" /\ todo = {}
  /\ \E top \in TopN(Interested, UploadSlots) : a \in top /\ Decide(top, a)
  /\ UNCHANGED <<run, conns, hpc, uc, overlapped>>

\* optimisticTick, when there are more interested peers than slots: a random
\* one of the others, here a, gets the optimistic slot.
Rotate(a) ==
  /\ run = "running" /\ todo = {}
  /\ \E top \in TopN(Interested, UploadSlots) :
       /\ a \in Interested \ top
       /\ Decide(top, a)
  /\ UNCHANGED <<run, conns, hpc, uc, overlapped>>

\* Mutant: a peer that lost its slot is not choked.
ApplyKeeps(a) ==
  /\ a \in todo
  /\ todo' = todo \ {a} /\ unchokeSet' = unchokeSet \ {a}
  /\ IF a \in unchokeSet /\ uc[a].choked
       THEN uc' = [uc EXCEPT ![a].choked = FALSE]
       ELSE uc' = uc
  /\ UNCHANGED <<run, optimistic, conns, hpc, overlapped>>

\* The loop over the snapshot: one connection's turn.  Its handler may be writing
\* a block to the same buffer, which can garble the stream: the peer then drops
\* the connection, which is a ConnFails.
Apply(a) ==
  /\ a \in todo
  /\ todo' = todo \ {a} /\ unchokeSet' = unchokeSet \ {a}
  /\ uc' = [uc EXCEPT ![a].choked = a \notin unchokeSet]
  /\ UNCHANGED <<run, optimistic, conns, hpc, overlapped>>

-----------------------------------------------------------------------------
HandlerStep(a) ==
  \/ HandshakeFails(a) \/ Register(a) \/ WriteBlock(a) \/ ReadInterest(a)
  \/ ReadNothing(a) \/ ReadRequest(a) \/ ConnFails(a)

Next ==
  \/ Cancel \/ AcceptFails \/ Evaluate
  \/ \E a \in Addr : Accept(a) \/ HandlerStep(a) \/ Rotate(a) \/ Apply(a)

Spec == Init /\ [][Next]_vars

\* Tickers fire, the choker gets through its snapshot (the peers do read what is
\* sent to them), and a random choice made again and again takes everyone.
Fairness ==
  /\ WF_vars(Evaluate) /\ WF_vars(\E a \in Addr : Apply(a))
  /\ \A a \in Addr : SF_vars(Rotate(a))

FairSpec == Spec /\ Fairness

-----------------------------------------------------------------------------
\* The types of the variables, and that a connection is in the table, and so in
\* the choker's hands, exactly while its handler serves it.
TypeOK ==
  /\ run \in {"running", "failed", "cancelled"} /\ overlapped \in BOOLEAN
  /\ hpc \in [Addr -> {"none", "handshake", "read", "serve"}]
  /\ uc \in [Addr -> [interested : BOOLEAN, choked : BOOLEAN, sent : 0..MaxBlocks]]
  /\ conns = {a \in Addr : hpc[a] \in {"read", "serve"}}
  /\ unchokeSet \subseteq todo /\ todo \subseteq conns
  /\ optimistic \in Addr \cup {NoAddr}

\* Config.MaxConns, "max simultaneous connections", is checked by the accept
\* loop and counted by the handlers: it can be exceeded only by handshakes that
\* ran at the same time.
LimitHolds == ~overlapped => Cardinality(conns) <= MaxConns

\* Between two evaluations at most UploadSlots regular peers and one optimistic
\* peer are unchoked, however connections come, go and change their interest
\* while decisions are being applied.
SlotsBounded ==
  todo = {} => Cardinality({a \in conns : ~uc[a].choked}) <= UploadSlots + 1

\* "This gives new peers a chance to prove themselves": a connection that stays
\* registered and interested is unchoked sooner or later, whatever the others do.
InterestedGetsUnchoked ==
  \A a \in Addr :
    [](a \in conns /\ uc[a].interested
         => <>(\/ run # "running" \/ a \notin conns
              \/ ~uc[a].interested \/ ~uc[a].choked))
=============================================================================
