------------------------------- MODULE ItemStore -------------------------------
(***************************************************************************)
(* dht/store.go: the BEP 44 store.  Writers update one mutable item by     *)
(* Get, then PutMutable of any value under the next sequence number or     *)
(* under the one they read, with or without cas; immutable items are put   *)
(* and Prune runs meanwhile.  Signatures and sizes are right: a put that   *)
(* fails these tests changes nothing.                                      *)
(***************************************************************************)
EXTENDS Naturals

CONSTANTS
  Writers, Values,
  MaxSeq     \* bound: sequence numbers used

ASSUME StoreAssumption == MaxSeq \in Nat

NoItem == [seq |-> 0, val |-> 0]
NoAck == [put |-> NoItem, base |-> NoItem, before |-> NoItem, after |-> NoItem]

VARIABLES
  item,    \* the mutable item, or NoItem
  fixed,   \* values stored as immutable items
  aged,    \* what is older than maxAge: "mutable" and values of fixed
  base,    \* base[w]: the item w has read
  based,   \* based[w]: w has read and not put yet
  pruned,  \* history: the mutable item has been pruned
  ack      \* history: the last put with cas that returned nil: what was put, on
           \* what it was based, and the item before and after

storeVars == <<item, fixed, aged, base, based, pruned, ack>>

StoreInit ==
  /\ item = NoItem /\ fixed = {} /\ aged = {} /\ pruned = FALSE /\ ack = NoAck
  /\ base = [w \in Writers |-> NoItem] /\ based = [w \in Writers |-> FALSE]

Get(w) ==
  /\ base' = [base EXCEPT ![w] = item] /\ based' = [based EXCEPT ![w] = TRUE]
  /\ UNCHANGED <<item, fixed, aged, pruned, ack>>

\* The value's hash is its target.
PutImmutable(v) ==
  /\ fixed' = fixed \cup {v} /\ aged' = aged \ {v}
  /\ UNCHANGED <<item, base, based, pruned, ack>>

\* Mutant: cas is not looked at.
ConflictSeqOnly(seq, cas) == item # NoItem /\ seq < item.seq

\* cas is a set: the number expected, or nothing.
Conflict(seq, cas) ==
  item # NoItem /\ ((\E c \in cas : c # item.seq) \/ seq < item.seq)

\* The stored number is refreshed, without a look at the value.
PutMutable(new, cas) ==
  IF item # NoItem /\ new.seq = item.seq
    THEN aged' = aged \ {"mutable"} /\ UNCHANGED item
    ELSE item' = new /\ aged' = aged \ {"mutable"}

\* A writer puts a value under the next number, or under the one it read: the
\* same value to publish the item again, or another one.
Put(w) ==
  /\ based[w] /\ base[w].seq < MaxSeq
  /\ based' = [based EXCEPT ![w] = FALSE]
  /\ \E new \in [seq : {base[w].seq, base[w].seq + 1} \ {0}, val : Values],
        cas \in {{}, {base[w].seq}} :
       /\ cas # {} => base[w] # NoItem
       /\ IF Conflict(new.seq, cas)
            THEN UNCHANGED <<item, aged, ack>>
            ELSE /\ PutMutable(new, cas)
                 /\ ack' = IF cas = {} THEN ack ELSE
                      [put |-> new, base |-> base[w], before |-> item, after |-> item']
  /\ UNCHANGED <<fixed, base, pruned>>

Age ==
  /\ aged' = fixed \cup (IF item = NoItem THEN {} ELSE {"mutable"})
  /\ UNCHANGED <<item, fixed, base, based, pruned, ack>>

Prune ==
  /\ item' = IF "mutable" \in aged THEN NoItem ELSE item
  /\ fixed' = fixed \ aged /\ aged' = {}
  /\ pruned' = (pruned \/ item' # item)
  /\ UNCHANGED <<base, based, ack>>

StoreNext ==
  \/ \E w \in Writers : Get(w) \/ Put(w)
  \/ \E v \in Values : PutImmutable(v)
  \/ Age \/ Prune

StoreSpec == StoreInit /\ [][StoreNext]_storeVars

-----------------------------------------------------------------------------
\* A writer that puts with cas and is told nil has acted on the very item it had
\* read: under a higher number its own has replaced it, so no update is
\* overwritten unseen; under the same number that item stays, whatever value was
\* put (the code does not test that it is the "same value").  Once the item has
\* been pruned another one may bear the number that was read, and only the
\* number stored is certain.
NoLostUpdate ==
  /\ ack.after.seq = ack.put.seq
  /\ \/ pruned
     \/ /\ ack.before = ack.base
        /\ ack.after = IF ack.put.seq > ack.base.seq THEN ack.put ELSE ack.before
=============================================================================
