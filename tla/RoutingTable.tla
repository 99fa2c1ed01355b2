----------------------------- MODULE RoutingTable -----------------------------
(***************************************************************************)
(* dht/table.go: node identifiers under the XOR metric and a routing table *)
(* of k-buckets.  An identifier is a tuple of Bits bits, most significant  *)
(* first (160 in the code).  Nodes stand for their identifiers.            *)
(***************************************************************************)
EXTENDS Integers, Sequences, FiniteSets, FiniteSetsExt, SequencesExt

CONSTANTS
  Bits,        \* length of a NodeID
  Own,         \* RoutingTable.own
  bucketSize   \* k

NodeID == [1..Bits -> {0, 1}]

ASSUME TableAssumption ==
  /\ Bits \in Nat \ {0} /\ bucketSize \in Nat \ {0}
  /\ Own \in NodeID

XOR(a, b) == [i \in 1..Bits |-> (a[i] + b[i]) % 2]

\* The position of the highest set bit, -1 for a distance of zero.
BucketIndex(distance) ==
  LET set == {i \in 1..Bits : distance[i] = 1}
  IN  IF set = {} THEN -1 ELSE Bits - Min(set)

Bucket(id) == BucketIndex(XOR(Own, id))

\* compareDist(a, b) < 0: the first bit that differs is set in b.
Less(a, b) ==
  \E i \in 1..Bits : a[i] < b[i] /\ \A j \in 1..(i - 1) : a[j] = b[j]

Closer(a, b, target) == Less(XOR(a, target), XOR(b, target))

\* The n members of S closest to the target: sortByDistance and a slice.
TakeClosest(S, target, n) ==
  {a \in S : Cardinality({b \in S : Closer(b, a, target)}) < n}

NewRoutingTable == [i \in 0..(Bits - 1) |-> <<>>]

\* Mutant: a node already in its bucket is appended once more.
InsertTwice(table, id) ==
  LET i == Bucket(id)
  IN  IF i < 0 \/ Len(table[i]) >= bucketSize THEN table
      ELSE [table EXCEPT ![i] = Append(@, id)]

\* A known node moves to the end of its bucket, a new one needs room there.
Insert(table, id) ==
  LET i == Bucket(id)
  IN  IF i < 0 THEN table
      ELSE IF Contains(table[i], id)
        THEN [table EXCEPT ![i] = Append(RemoveFirst(@, id), id)]
      ELSE IF Len(table[i]) >= bucketSize THEN table
      ELSE [table EXCEPT ![i] = Append(@, id)]

\* The nodes of a reply in turn: those not known, from a lookup or from earlier
\* in the same reply, are inserted.
InsertNew(table, known, ids) ==
  LET filled[k \in 0..Len(ids)] ==
        IF k = 0 THEN table
        ELSE IF ids[k] \in known \cup {ids[j] : j \in 1..(k - 1)} THEN filled[k - 1]
        ELSE Insert(filled[k - 1], ids[k])
  IN  filled[Len(ids)]

Members(table) == UNION {Range(table[i]) : i \in DOMAIN table}

Closest(table, target, n) == TakeClosest(Members(table), target, n)

\* randomIDInBucket: a random identifier, its distance cut to the bucket's range.
randomIDInBucket(i, random) ==
  LET d == XOR(Own, random)
      dist == [k \in 1..Bits |-> IF k < Bits - i THEN 0
                                 ELSE IF k = Bits - i THEN 1 ELSE d[k]]
  IN  XOR(Own, dist)

-----------------------------------------------------------------------------
\* The table's shape: buckets within their size, each node once, in the bucket
\* of its distance, and never the table's owner.
TableShape(table) ==
  \A i \in 0..(Bits - 1) :
    /\ Len(table[i]) <= bucketSize
    /\ IsInjective(table[i])
    /\ \A id \in Range(table[i]) : id # Own /\ Bucket(id) = i
=============================================================================
