---------------------------------- MODULE Dht ----------------------------------
(***************************************************************************)
(* The DHT client of dht/node.go on top of the transport and the routing   *)
(* table: Bootstrap, the iterative lookups behind FindNode and GetPeers,   *)
(* AnnouncePeer with the tokens they collected, and the bucket refresh of  *)
(* Maintain.  A lookup proceeds in rounds of up to alpha concurrent        *)
(* queries; the collector treats the answers one at a time.                *)
(*                                                                         *)
(* The caller runs one operation after the other.  The peer addresses that *)
(* GetPeers gathers do not influence its control and are left out.         *)
(***************************************************************************)
EXTENDS RoutingTable, Krpc

CONSTANTS
  BootNodes,  \* the nodes behind the bootstrap addresses
  InfoHash,   \* target of GetPeers and AnnouncePeer
  Knows,      \* Knows[n]: the closer nodes that n sends
  alpha,      \* concurrency of a lookup
  MaxOps      \* bound: operations after Bootstrap

ASSUME DhtAssumption ==
  /\ Remote \subseteq NodeID \ {Own} /\ BootNodes \subseteq Remote
  /\ InfoHash \in NodeID /\ Knows \in [Remote -> Seq(Remote \cup {Own})]
  /\ alpha \in Nat \ {0} /\ MaxOps \in Nat
  /\ TxnMod > alpha /\ TxnMod > Cardinality(BootNodes)

VARIABLES
  table,      \* DHT.Table
  tokens,     \* nodes DHT.tokens has a token of
  phase,      \* the operation in progress; "idle" between two of them
  target,     \* lookup: its target
  shortlist,  \* lookup: nodes heard of
  queried,    \* lookup: nodes asked, and ourselves
  added,      \* lookup: the round has found a new node
  batch,      \* nodes whose query of this round has not returned
  stale,      \* refreshBuckets: buckets still to refresh
  closest,    \* AnnouncePeer: nodes still to announce to
  ops         \* operations begun after Bootstrap

lookupVars == <<target, shortlist, queried, added>>
dhtVars == <<table, tokens, phase, lookupVars, batch, stale, closest, ops>>
vars == <<dhtVars, krpcVars>>

Init ==
  /\ KrpcInit
  /\ table = NewRoutingTable
  /\ tokens = {}
  /\ phase = "bootstrap" /\ batch = BootNodes
  /\ target = Own /\ shortlist = {} /\ queried = {Own} /\ added = FALSE
  /\ stale = {} /\ closest = {} /\ ops = 0

-----------------------------------------------------------------------------
(* Queries. *)

Ask(n) == n \in batch /\ Send(n) /\ UNCHANGED dhtVars

\* The write fails, the timer fires or, except in AnnouncePeer, which takes any
\* reply for an acceptance, the reply is an error or lacks what it must have.
QueryFails(n) ==
  /\ n \in batch
  /\ SendFails(n) \/ Timeout(n) \/ (phase # "announce" /\ Answered(n))
  /\ batch' = batch \ {n}
  /\ UNCHANGED <<table, tokens, phase, lookupVars, stale, closest, ops>>

\* Ping: the node is inserted.
PingAnswered(n) ==
  /\ phase = "bootstrap" /\ n \in batch
  /\ Answered(n)
  /\ table' = Insert(table, n)
  /\ batch' = batch \ {n}
  /\ UNCHANGED <<tokens, phase, lookupVars, stale, closest, ops>>

\* The collector takes an answer of n: n itself and the nodes not heard of yet
\* go to the table, the latter to the shortlist too.
Heard(n, nodes) ==
  /\ table' = InsertNew(Insert(table, n), shortlist, nodes)
  /\ shortlist' = shortlist \cup Range(nodes)
  /\ added' = (added \/ ~(Range(nodes) \subseteq shortlist))

\* find_node needs nodes in the reply.
FindNodeAnswered(n) ==
  /\ phase = "find" /\ n \in batch
  /\ Answered(n)
  /\ Knows[chan[n][2]] # <<>> /\ Heard(n, Knows[chan[n][2]])
  /\ batch' = batch \ {n}
  /\ UNCHANGED <<tokens, phase, target, queried, stale, closest, ops>>

\* get_peers: nodes, peers and a token are all optional.
GetPeersAnswered(n) ==
  /\ phase = "get" /\ n \in batch
  /\ Answered(n)
  /\ \E nodes \in {Knows[chan[n][2]], <<>>} : Heard(n, nodes)
  /\ tokens' \in {tokens, tokens \cup {n}}
  /\ batch' = batch \ {n}
  /\ UNCHANGED <<phase, target, queried, stale, closest, ops>>

-----------------------------------------------------------------------------
(* Lookups. *)

\* Mutant: the farthest candidates are asked first.
CandidatesFarthest ==
  {a \in shortlist \ queried :
     Cardinality({b \in shortlist \ queried : Closer(a, b, target)}) < alpha}

\* Up to alpha nodes of the shortlist that have not been asked, closest first.
Candidates == TakeClosest(shortlist \ queried, target, alpha)

\* Seeds from the table; the first round follows as if they had just been added.
StartLookup(kind, id) ==
  /\ phase' = kind
  /\ target' = id
  /\ shortlist' = Closest(table, id, alpha)
  /\ queried' = {Own}
  /\ added' = TRUE

NextRound ==
  /\ phase \in {"find", "get"} /\ batch = {} /\ added /\ Candidates # {}
  /\ batch' = Candidates
  /\ queried' = queried \cup batch'
  /\ added' = FALSE
  /\ UNCHANGED <<krpcVars, table, tokens, phase, target, shortlist, stale,
                 closest, ops>>

\* Nobody is left to ask, or the round brought no new node.
LookupEnds ==
  /\ phase \in {"find", "get"} /\ batch = {}
  /\ ~added \/ Candidates = {}
  /\ phase' = "idle"
  /\ UNCHANGED <<krpcVars, table, tokens, lookupVars, batch, stale, closest, ops>>

-----------------------------------------------------------------------------
(* The operations. *)

\* All bootstrap nodes have answered or not; the table tells whether one has.
BootstrapEnds ==
  /\ phase = "bootstrap" /\ batch = {}
  /\ \/ /\ Members(table) = {}
        /\ phase' = "failed"
        /\ UNCHANGED lookupVars
     \/ Members(table) # {} /\ StartLookup("find", Own)
  /\ UNCHANGED <<krpcVars, table, tokens, batch, stale, closest, ops>>

\* The caller may begin another operation.
Begin == phase = "idle" /\ stale = {} /\ ops < MaxOps /\ ops' = ops + 1

GetPeers ==
  /\ Begin
  /\ StartLookup("get", InfoHash)
  /\ UNCHANGED <<krpcVars, table, tokens, batch, stale, closest>>

\* A tick of Maintain: the non-empty buckets are refreshed in turn.
refreshBuckets ==
  /\ Begin
  /\ stale' = {i \in DOMAIN table : table[i] # <<>>}
  /\ UNCHANGED <<krpcVars, table, tokens, phase, lookupVars, batch, closest>>

RefreshNext ==
  /\ phase = "idle" /\ stale # {}
  /\ stale' = stale \ {Min(stale)}
  /\ \E random \in NodeID :
       StartLookup("find", randomIDInBucket(Min(stale), random))
  /\ UNCHANGED <<krpcVars, table, tokens, batch, closest, ops>>

AnnouncePeer ==
  /\ Begin
  /\ phase' = "announce"
  /\ closest' = Closest(table, InfoHash, bucketSize)
  /\ target' = InfoHash /\ shortlist' = {} /\ queried' = {} /\ added' = FALSE
  /\ UNCHANGED <<krpcVars, table, tokens, batch, stale>>

\* The next closest node is asked if it has given a token, skipped otherwise.
AnnounceNext ==
  /\ phase = "announce" /\ batch = {} /\ closest # {}
  /\ batch' = TakeClosest(closest, InfoHash, 1) \cap tokens
  /\ closest' = closest \ TakeClosest(closest, InfoHash, 1)
  /\ UNCHANGED <<krpcVars, table, tokens, phase, lookupVars, stale, ops>>

AnnounceAnswered(n) ==
  /\ phase = "announce" /\ n \in batch
  /\ Answered(n)
  /\ batch' = batch \ {n}
  /\ UNCHANGED <<table, tokens, phase, lookupVars, stale, closest, ops>>

AnnounceEnds ==
  /\ phase = "announce" /\ batch = {} /\ closest = {}
  /\ phase' = "idle"
  /\ UNCHANGED <<krpcVars, table, tokens, lookupVars, batch, stale, closest, ops>>

-----------------------------------------------------------------------------
Listen == (\E p \in net \cup Stray : Receive(p)) /\ UNCHANGED dhtVars

QueryStep(n) ==
  \/ Ask(n) \/ QueryFails(n) \/ PingAnswered(n) \/ FindNodeAnswered(n)
  \/ GetPeersAnswered(n) \/ AnnounceAnswered(n)

Control ==
  \/ NextRound \/ LookupEnds \/ BootstrapEnds \/ RefreshNext \/ AnnounceNext
  \/ AnnounceEnds

Next ==
  \/ Listen \/ Control \/ GetPeers \/ refreshBuckets \/ AnnouncePeer
  \/ \E n \in Remote : QueryStep(n)

Spec == Init /\ [][Next]_vars

\* Goroutines are scheduled and timers fire; no reply need ever arrive.
Fairness ==
  /\ WF_vars(Control)
  /\ \A n \in Remote : WF_vars(QueryStep(n))

FairSpec == Spec /\ Fairness

-----------------------------------------------------------------------------
\* The types of the variables and the shape of the routing table: buckets within
\* their size, each node once, in the right bucket, never ourselves.
TypeOK ==
  /\ KrpcTypeOK
  /\ table \in [0..(Bits - 1) -> Seq(Remote)] /\ TableShape(table)
  /\ tokens \subseteq Remote
  /\ phase \in {"bootstrap", "find", "get", "announce", "idle", "failed"}
  /\ shortlist \cup queried \subseteq Remote \cup {Own}
  /\ target \in NodeID /\ added \in BOOLEAN
  /\ batch \subseteq Remote /\ closest \subseteq Remote
  /\ stale \subseteq 0..(Bits - 1) /\ ops \in 0..MaxOps

\* "Returns the closest nodes found across the network": when a lookup ends, the
\* alpha closest nodes it has heard of have all been asked, so no answer of
\* theirs could have been missed by stopping early.
ClosestAsked ==
  phase = "idle" => TakeClosest(shortlist, target, alpha) \subseteq queried

\* Every operation comes to its end, whatever replies are lost: lookups ask a
\* node once and every Send has a timer.
OperationsEnd == []<>(phase \in {"idle", "failed"} /\ stale = {})
=============================================================================
