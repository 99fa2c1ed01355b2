--------------------------------- MODULE Krpc ---------------------------------
(***************************************************************************)
(* The transport of dht/krpc.go: Send registers a transaction, writes one  *)
(* datagram and waits for an answer or its timer; Listen hands every reply *)
(* to the transaction it names, if that is still registered.               *)
(*                                                                         *)
(* The network loses, delays and duplicates replies: the reply of a query  *)
(* that was sent may come at any time, more than once, or never.  At most  *)
(* MaxLate replies to queries that have returned are kept.  Nodes also     *)
(* reply when they were not asked, with any identifier.                    *)
(***************************************************************************)
EXTENDS Naturals, FiniteSets, FiniteSetsExt, Functions

CONSTANTS
  Remote,   \* the nodes that can be asked; at most one query each at a time
  NoReply,  \* an empty response channel
  TxnMod,   \* number of transaction identifiers (2^16 in the code)
  MaxLate,  \* bound: late replies on the network
  Strangers   \* bound: nodes whose replies come when nobody waits for them

ASSUME KrpcAssumption ==
  /\ IsFiniteSet(Remote) /\ NoReply \notin Remote
  /\ TxnMod \in Nat \ {0}
  /\ MaxLate \in Nat
  /\ Strangers \subseteq Remote

VARIABLES
  txnN,  \* Transport.txnN
  txns,  \* Transport.txns: transaction id -> the query whose channel it holds
  txn,   \* txn[n]: id of the query to n in progress; TxnMod: there is none
  chan,  \* chan[n]: its response channel: empty, or a reply
  net,   \* replies that may still arrive: <<id, node, age of the query>>
  age    \* history: age[n], of the query to n in progress; TxnMod: there is none

krpcVars == <<txnN, txns, txn, chan, net, age>>

KrpcInit ==
  /\ txnN = 0
  /\ txns = <<>>
  /\ txn = [n \in Remote |-> TxnMod] /\ age = [n \in Remote |-> TxnMod]
  /\ chan = [n \in Remote |-> NoReply]
  /\ net = {}

Waiting(n) == txn[n] # TxnMod

\* The age of a query is the number of ids taken after its own, up to TxnMod.  A
\* reply that nobody has asked for is like one of that age.
Reply == (0..(TxnMod - 1)) \X Remote \X (0..TxnMod)
Stray == (0..(TxnMod - 1)) \X Strangers \X {TxnMod}
Older(a) == IF a < TxnMod THEN a + 1 ELSE a
OlderReply(p) == <<p[1], p[2], Older(p[3])>>

\* Replies on the network to queries that have returned, given the ages of others.
Late(ages) == {p \in net : p[3] \notin Range(ages) \ {TxnMod}}

\* When an id is taken, all queries and replies get older.
OlderNet == {OlderReply(p) : p \in net}
OlderAge == [n \in Remote |-> Older(age[n])]
OlderChan == [n \in Remote |-> IF chan[n] = NoReply THEN NoReply ELSE OlderReply(chan[n])]

\* Mutant: txnN is not advanced.
FreshSame == txnN
\* The next transaction id.
Fresh == (txnN + 1) % TxnMod

\* Send: register the transaction and write the query.  Replies to earlier queries
\* that had the same id may still be under way.
Send(n) ==
  /\ ~Waiting(n)
  /\ txnN' = Fresh
  /\ txn' = [txn EXCEPT ![n] = txnN']
  /\ txns' = [t \in DOMAIN txns \cup {txnN'} |-> IF t = txnN' THEN n ELSE txns[t]]
  /\ net' = OlderNet \cup {<<txnN', n, 0>>}
  /\ age' = [OlderAge EXCEPT ![n] = 0]
  /\ chan' = OlderChan

\* Send: WriteToUDP fails, the transaction is deleted again.
SendFails(n) ==
  /\ ~Waiting(n)
  /\ txnN' = Fresh
  /\ net' = OlderNet /\ age' = OlderAge /\ chan' = OlderChan
  /\ UNCHANGED <<txns, txn>>

\* Listen: a reply whose id is registered goes to that query's channel, whoever
\* sent it and whenever; any other is dropped, which changes nothing.  The packet
\* may come again.
Receive(p) ==
  /\ p \in net \cup Stray /\ p[1] \in DOMAIN txns
  /\ chan[txns[p[1]]] = NoReply    \* the channel holds one message
  /\ chan' = [chan EXCEPT ![txns[p[1]]] = p]
  /\ txns' = Restrict(txns, DOMAIN txns \ {p[1]})
  /\ UNCHANGED <<txnN, txn, net, age>>

\* The query to n returns; at most MaxLate replies that come too late are kept.
Return(n) ==
  /\ txn' = [txn EXCEPT ![n] = TxnMod] /\ age' = [age EXCEPT ![n] = TxnMod]
  /\ chan' = [chan EXCEPT ![n] = NoReply]
  /\ LET late == Late(age')
     IN  \E kept \in kSubset(Min({MaxLate, Cardinality(late)}), late) :
           net' = (net \ late) \cup kept

\* Send returns the reply in the channel.
Answered(n) ==
  /\ Waiting(n) /\ chan[n] # NoReply
  /\ Return(n)
  /\ UNCHANGED <<txnN, txns>>

\* Mutant: the transaction stays registered after the timeout.
TimeoutKeeps(n) ==
  /\ Waiting(n)
  /\ Return(n)
  /\ UNCHANGED <<txnN, txns>>

\* Mutant: there is no timer, only the channel.
TimeoutNever(n) ==
  /\ Waiting(n) /\ chan[n] # NoReply
  /\ txns' = Restrict(txns, DOMAIN txns \ {txn[n]})
  /\ Return(n)
  /\ UNCHANGED txnN

\* The timer wins the select, even against a reply that is in the channel.
Timeout(n) ==
  /\ Waiting(n)
  /\ txns' = Restrict(txns, DOMAIN txns \ {txn[n]})
  /\ Return(n)
  /\ UNCHANGED txnN

-----------------------------------------------------------------------------
KrpcTypeOK ==
  /\ txnN \in 0..(TxnMod - 1)
  /\ IsFiniteSet(DOMAIN txns)
  /\ DOMAIN txns \subseteq 0..(TxnMod - 1) /\ Range(txns) \subseteq Remote
  /\ txn \in [Remote -> 0..TxnMod] /\ age \in [Remote -> 0..TxnMod]
  /\ chan \in [Remote -> Reply \cup {NoReply}] /\ net \subseteq Reply

\* Every registered transaction belongs to a query that still waits with an
\* empty channel: Listen, the only receiver, never blocks on its send, and no
\* path out of Send leaves a transaction behind.
PendingIsWaiting ==
  \A t \in DOMAIN txns : txn[txns[t]] = t /\ chan[txns[t]] = NoReply

\* The reply that a query gets is that of the node it asked, to this very query,
\* although several queries are under way and replies are late, reordered and
\* repeated, unless it answers a query at least TxnMod calls of Send ago or none
\* at all: Listen looks at nothing but the identifier, which is the query's own.
ReplyToItsQuery ==
  \A n \in Remote : chan[n] # NoReply =>
    /\ chan[n][1] = txn[n]
    /\ chan[n] = <<txn[n], n, age[n]>> \/ chan[n][3] = TxnMod
=============================================================================
