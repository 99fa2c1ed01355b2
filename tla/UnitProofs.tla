------------------------------ MODULE UnitProofs ------------------------------
(***************************************************************************)
(* Proofs about the parts of the repository that run on their own: the     *)
(* peer-exchange deltas, the DHT item store, peer discovery, the progress  *)
(* display, the tracker tiers, Merkle proofs, the hashing and verifying of *)
(* files and the rate limiter, each under its own specification.           *)
(***************************************************************************)
EXTENDS Pex, ItemStore, Discovery, Progress, Tiers, Merkle, TorrentData, Throttle, SeqFacts

-----------------------------------------------------------------------------
(* Peer exchange: the receiver's view follows the sender's snapshot, for any *)
(* peers, any caps and any number of messages. *)

\* What a cap leaves of a list is part of the list.
LEMMA CappedIsPart ==
  ASSUME NEW S, NEW limit, NEW T \in Capped(S, limit)
  PROVE  T \subseteq S
  BY DEF Capped, kSubset

\* A peer on which view and snapshot come to differ was in the delta and not
\* in the message, or they differed on it before and the message left it out.
LEMMA DiffKeepsView ==
  ASSUME ViewFollows, Diff
  PROVE  ViewFollows'
<1> DEFINE new == current \ lastSent
           gone == lastSent \ current
<1>1. PICK a4 \in Capped(new \cap Known4, MaxAdded),
           a6 \in Capped(new \cap Known6, MaxAdded),
           d4 \in Capped(gone \cap Known4, MaxDropped),
           d6 \in Capped(gone \cap Known6, MaxDropped) :
        /\ view' = (view \cup a4 \cup a6) \ (d4 \cup d6)
        /\ cutOff' = (cutOff \cup new \cup gone) \ (a4 \cup a6 \cup d4 \cup d6)
  BY DEF Diff
<1>2. a4 \cup a6 \subseteq new /\ d4 \cup d6 \subseteq gone
  BY CappedIsPart
<1>3. lastSent' = current
  BY DEF Diff, Snapshot
<1>4. (view \ lastSent) \cup (lastSent \ view) \subseteq cutOff
  BY DEF ViewFollows
<1>5. (view' \ lastSent') \cup (lastSent' \ view') \subseteq cutOff'
  BY <1>1, <1>2, <1>3, <1>4
<1> QED
  BY <1>5 DEF ViewFollows

\* The receiver of peer-exchange messages believes in exactly the peers of the
\* sender's last snapshot, except for those a cap of DiffTracker.Diff cut off.
THEOREM ViewFollowsSnapshot == PexSpec => []ViewFollows
<1>1. PexInit => ViewFollows
  BY DEF PexInit, ViewFollows
<1>2. ASSUME ViewFollows, [PexNext]_pexVars
      PROVE  ViewFollows'
  <2>1. CASE Diff
    BY <1>2, <2>1, DiffKeepsView
  <2>2. ASSUME NEW p \in Known4 \cup Known6, AddPexPeer(p) \/ RemovePexPeer(p)
        PROVE  ViewFollows'
    BY <1>2, <2>2 DEF AddPexPeer, RemovePexPeer, ViewFollows
  <2>3. CASE UNCHANGED pexVars
    BY <1>2, <2>3 DEF pexVars, ViewFollows
  <2> QED
    BY <1>2, <2>1, <2>2, <2>3 DEF PexNext
<1> QED
  BY <1>1, <1>2, PTL DEF PexSpec

-----------------------------------------------------------------------------
(* The item store. *)

Items == {NoItem} \cup [seq : Nat \ {0}, val : Values]

StoreTypeOK ==
  /\ item \in Items /\ base \in [Writers -> Items]
  /\ ack \in [put : Items, base : Items, before : Items, after : Items]

\* Until an item is pruned, numbers only grow and a number names one item: what
\* a writer has read is the item stored if it has the same number.
SeqNamesItem ==
  \A w \in Writers : base[w].seq <= item.seq /\ (base[w].seq = item.seq => base[w] = item)

StoreInv == StoreTypeOK /\ (pruned \/ SeqNamesItem) /\ NoLostUpdate

\* Only the absent item has the number 0.
LEMMA ItemFacts ==
  /\ NoItem \in Items /\ NoItem.seq = 0
  /\ \A x \in Items : x.seq \in Nat /\ (x.seq = 0 => x = NoItem)
  BY DEF Items, NoItem

\* The empty store satisfies the invariant.
LEMMA StoreInitInv == StoreInit => StoreInv
<1> SUFFICES ASSUME StoreInit PROVE StoreInv
  OBVIOUS
<1>1. /\ item = NoItem /\ ack = NoAck /\ base = [w \in Writers |-> NoItem]
  BY DEF StoreInit
<1>2. StoreTypeOK
  BY <1>1, ItemFacts DEF StoreTypeOK, NoAck
<1>3. SeqNamesItem
  BY <1>1, ItemFacts DEF SeqNamesItem
<1>4. NoLostUpdate
  BY <1>1 DEF NoLostUpdate, NoAck
<1> QED
  BY <1>2, <1>3, <1>4 DEF StoreInv

\* What a put that is not refused does to the item.
LEMMA PutFacts ==
  ASSUME StoreTypeOK, NEW new \in Items, NEW cas, new # NoItem,
         ~Conflict(new.seq, cas), PutMutable(new, cas)
  PROVE  /\ item' \in Items /\ item'.seq = new.seq
         /\ \A c \in cas : item = NoItem \/ c = item.seq
         /\ \/ item' = item
            \/ item' = new /\ item.seq < new.seq
<1>1. new.seq \in Nat \ {0} /\ item.seq \in Nat
  BY ItemFacts DEF StoreTypeOK
<1>2. CASE item = NoItem
  BY <1>1, <1>2, ItemFacts DEF PutMutable
<1>3. CASE item # NoItem
  <2>1. ~(new.seq < item.seq) /\ \A c \in cas : c = item.seq
    BY <1>3 DEF Conflict
  <2> QED
    BY <1>1, <1>3, <2>1 DEF PutMutable, StoreTypeOK
<1> QED
  BY <1>2, <1>3

\* A writer's put, refused or not.
LEMMA PutKeeps ==
  ASSUME StoreInv, NEW w \in Writers, Put(w)
  PROVE  StoreInv'
<1>1. base' = base /\ base[w] \in Items /\ StoreTypeOK /\ item \in Items
  BY DEF Put, StoreInv, StoreTypeOK
<1>2. pruned' = pruned
  BY DEF Put
<1>3. PICK new \in [seq : {base[w].seq, base[w].seq + 1} \ {0}, val : Values],
           cas \in {{}, {base[w].seq}} :
        /\ cas # {} => base[w] # NoItem
        /\ IF Conflict(new.seq, cas)
             THEN UNCHANGED <<item, aged, ack>>
             ELSE /\ PutMutable(new, cas)
                  /\ ack' = IF cas = {} THEN ack ELSE
                       [put |-> new, base |-> base[w], before |-> item, after |-> item']
  BY DEF Put
<1>4. /\ new \in Items /\ new # NoItem
      /\ new.seq = base[w].seq \/ new.seq = base[w].seq + 1
  <2>1. base[w].seq \in Nat
    BY <1>1, ItemFacts
  <2>2. new.seq \in Nat \ {0} /\ new \in [seq : Nat \ {0}, val : Values]
    BY <1>3, <2>1
  <2> QED
    BY <1>3, <2>2, ItemFacts DEF Items
<1>5. CASE Conflict(new.seq, cas)
  <2>1. item' = item /\ ack' = ack
    BY <1>3, <1>5
  <2>2. StoreTypeOK' /\ NoLostUpdate'
    BY <1>1, <1>2, <2>1 DEF StoreInv, StoreTypeOK, NoLostUpdate
  <2>3. SeqNamesItem => SeqNamesItem'
    BY <1>1, <2>1 DEF SeqNamesItem
  <2> QED
    BY <1>2, <2>2, <2>3, Zenon DEF StoreInv
<1>6. CASE ~Conflict(new.seq, cas)
  <2>1. PutMutable(new, cas)
    BY <1>3, <1>6
  <2>2. /\ item' \in Items /\ item'.seq = new.seq
        /\ \A c \in cas : item = NoItem \/ c = item.seq
        /\ item' = item \/ (item' = new /\ item.seq < new.seq)
    BY <1>1, <1>4, <1>6, <2>1, PutFacts
  <2>3. SeqNamesItem => SeqNamesItem'
    <3>1. CASE item' = item
      BY <1>1, <3>1 DEF SeqNamesItem
    <3>2. CASE item.seq < item'.seq
      <4>1. \A x \in Writers : base[x].seq \in Nat /\ item.seq \in Nat /\ item'.seq \in Nat
        BY <1>1, <2>2, ItemFacts DEF StoreTypeOK
      <4> QED
        BY <1>1, <3>2, <4>1 DEF SeqNamesItem
    <3> QED
      BY <2>2, <3>1, <3>2
  <2>4. CASE cas = {}
    <3>1. ack' = ack
      BY <1>3, <1>6, <2>4
    <3>2. StoreTypeOK' /\ NoLostUpdate'
      BY <1>1, <1>2, <2>2, <3>1 DEF StoreInv, StoreTypeOK, NoLostUpdate
    <3> QED
      BY <1>2, <2>3, <3>2, Zenon DEF StoreInv
  <2>5. CASE cas # {}
    <3>1. /\ ack' = [put |-> new, base |-> base[w], before |-> item, after |-> item']
          /\ base[w] # NoItem /\ (item = NoItem \/ base[w].seq = item.seq)
      BY <1>3, <1>6, <2>2, <2>5
    <3>2. StoreTypeOK'
      BY <1>1, <1>4, <2>2, <3>1 DEF StoreTypeOK
    <3>3. SeqNamesItem =>
            /\ item = base[w]
            /\ item' = IF new.seq > base[w].seq THEN new ELSE item
      <4> SUFFICES ASSUME SeqNamesItem
                   PROVE  /\ item = base[w]
                          /\ item' = IF new.seq > base[w].seq THEN new ELSE item
        OBVIOUS
      <4>1. /\ base[w].seq \in Nat \ {0} /\ base[w].seq <= item.seq
            /\ base[w].seq = item.seq => base[w] = item
        BY <1>1, <3>1, ItemFacts DEF SeqNamesItem
      <4>2. item = base[w]
        BY <3>1, <4>1, ItemFacts
      <4> QED
        BY <1>4, <2>2, <4>1, <4>2
    <3>4. ack'.after.seq = ack'.put.seq
      BY <2>2, <3>1
    <3>5. SeqNamesItem =>
            /\ ack'.before = ack'.base
            /\ ack'.after = IF ack'.put.seq > ack'.base.seq THEN ack'.put ELSE ack'.before
      BY <3>1, <3>3
    <3>6. NoLostUpdate'
      BY <1>2, <3>4, <3>5, Zenon DEF NoLostUpdate, StoreInv
    <3> QED
      BY <1>2, <2>3, <3>2, <3>6, Zenon DEF StoreInv
  <2> QED
    BY <2>4, <2>5
<1> QED
  BY <1>5, <1>6

\* Every step of the store keeps its invariant.
LEMMA StoreStepInv ==
  ASSUME StoreInv, [StoreNext]_storeVars
  PROVE  StoreInv'
<1>1. ASSUME NEW w \in Writers, Get(w) PROVE StoreInv'
  <2>1. item' = item /\ ack' = ack /\ base' = [base EXCEPT ![w] = item]
    BY <1>1 DEF Get
  <2>2. pruned' = pruned
    BY <1>1 DEF Get
  <2>3. StoreTypeOK' /\ NoLostUpdate'
    BY <2>1, <2>2 DEF StoreInv, StoreTypeOK, NoLostUpdate
  <2>4. SeqNamesItem => SeqNamesItem'
    <3>1. item.seq \in Nat /\ base \in [Writers -> Items]
      BY ItemFacts DEF StoreInv, StoreTypeOK
    <3> QED
      BY <2>1, <3>1 DEF SeqNamesItem
  <2> QED
    BY <2>2, <2>3, <2>4, Zenon DEF StoreInv
<1>2. ASSUME UNCHANGED <<item, base, ack, pruned>> PROVE StoreInv'
  <2>1. item' = item /\ ack' = ack /\ base' = base /\ pruned' = pruned
    BY <1>2
  <2> QED
    BY <2>1, Zenon DEF StoreInv, StoreTypeOK, SeqNamesItem, NoLostUpdate
<1>3. CASE Prune
  <2>1. base' = base /\ ack' = ack /\ item' \in {item, NoItem}
    BY <1>3 DEF Prune
  <2>2. pruned' = (pruned \/ item' # item)
    BY <1>3 DEF Prune
  <2>3. StoreTypeOK'
    BY <2>1, ItemFacts DEF StoreInv, StoreTypeOK
  <2>4. NoLostUpdate'
    BY <2>1, <2>2, Zenon DEF StoreInv, NoLostUpdate
  <2>5. item' = item => (SeqNamesItem => SeqNamesItem')
    BY <2>1 DEF SeqNamesItem
  <2> QED
    BY <2>2, <2>3, <2>4, <2>5, Zenon DEF StoreInv
<1>4. CASE Age \/ \E v \in Values : PutImmutable(v)
  BY <1>2, <1>4 DEF Age, PutImmutable
<1>5. CASE UNCHANGED storeVars
  BY <1>2, <1>5 DEF storeVars
<1> QED
  BY <1>1, <1>3, <1>4, <1>5, PutKeeps DEF StoreNext

\* A put with cas that returns nil acted on the very item that was read: under a
\* higher number its own is stored instead, under the same number that item
\* stays, for any writers, values and numbers, unless Prune removed an item.
THEOREM UpdatesNotLost == StoreSpec => []NoLostUpdate
<1>1. StoreInv => NoLostUpdate
  BY DEF StoreInv
<1> QED
  BY <1>1, StoreInitInv, StoreStepInv, PTL DEF StoreSpec

-----------------------------------------------------------------------------
(* Discovery. *)

\* What the caller has received or will receive.
Received == delivered \o dch

DiscoveryTypeOK ==
  /\ spc \in [Sources -> {"ask", "offer", "send", "done"}]
  /\ offers \in [Sources -> Seq(Findable)]
  /\ dch \in Seq(Findable) /\ delivered \in Seq(Findable)

\* A source has nothing before it is asked, and something while it sends; what it
\* offers and what was sent has been returned by some source.
OffersReturned ==
  /\ \A s \in Sources : spc[s] = "ask" => offers[s] = <<>>
  /\ \A s \in Sources : spc[s] = "send" => offers[s] # <<>>
  /\ Range(Received) \subseteq returned
  /\ \A s \in Sources : Range(offers[s]) \subseteq returned

\* Without Reset every address that was sent, or is being sent, is recorded, and
\* no two sources send the same one.
NoRepeat ==
  /\ IsInjective(Received) /\ Range(Received) \subseteq seen
  /\ \A s \in Sources : spc[s] = "send" =>
       Head(offers[s]) \in seen /\ Head(offers[s]) \notin Range(Received)
  /\ \A s, t \in Sources :
       spc[s] = "send" /\ spc[t] = "send" /\ Head(offers[s]) = Head(offers[t]) => s = t

\* Without a cancellation an address that is recorded is sent or being sent, and
\* one that was returned is sent or still on offer.
NothingDropped ==
  /\ \A x \in seen : x \in Range(Received) \/
                    \E s \in Sources : spc[s] = "send" /\ x = Head(offers[s])
  /\ \A x \in returned : x \in Range(Received) \/ \E s \in Sources : x \in Range(offers[s])
  /\ \A s \in Sources : spc[s] = "done" => offers[s] = <<>>

DiscoveryInv ==
  /\ DiscoveryTypeOK /\ OffersReturned
  /\ wasReset \/ NoRepeat
  /\ dcancel \/ NothingDropped
  /\ dclosed => \A s \in Sources : spc[s] = "done"

\* Before any source is asked.
LEMMA DiscoveryInitInv == DiscoveryInit => DiscoveryInv
<1> SUFFICES ASSUME DiscoveryInit PROVE DiscoveryInv
  OBVIOUS
<1>1. /\ spc = [s \in Sources |-> "ask"] /\ offers = [s \in Sources |-> <<>>]
      /\ seen = {} /\ dch = <<>> /\ delivered = <<>> /\ returned = {} /\ dclosed = FALSE
  BY DEF DiscoveryInit
<1>2. <<>> \in Seq(Findable) /\ Received = <<>>
  BY <1>1, EmptySeq, ConcatEmptySeq DEF Received
<1>3. Range(Received) = {} /\ IsInjective(Received) /\ Range(<<>>) = {}
  BY <1>2, EmptyFacts
<1>4. DiscoveryTypeOK
  BY <1>1, <1>2 DEF DiscoveryTypeOK
<1>5. OffersReturned
  BY <1>1, <1>3 DEF OffersReturned
<1>6. NoRepeat /\ NothingDropped
  BY <1>1, <1>3 DEF NoRepeat, NothingDropped
<1> QED
  BY <1>1, <1>4, <1>5, <1>6 DEF DiscoveryInv

\* A source returns its list.
LEMMA SourceReturnsKeeps ==
  ASSUME DiscoveryInv, NEW s \in Sources, SourceReturns(s)
  PROVE  DiscoveryInv'
<1>1. PICK l \in Found : offers' = [offers EXCEPT ![s] = l] /\ returned' = returned \cup Range(l)
  BY DEF SourceReturns
<1>2. /\ spc[s] = "ask" /\ spc' = [spc EXCEPT ![s] = "offer"] /\ seen' = seen
      /\ dch' = dch /\ delivered' = delivered
  BY DEF SourceReturns
<1>3. dclosed' = dclosed /\ dcancel' = dcancel /\ wasReset' = wasReset
  BY DEF SourceReturns
<1>4. DiscoveryTypeOK /\ OffersReturned /\ Received' = Received /\ offers[s] = <<>>
  BY <1>2 DEF DiscoveryInv, Received, OffersReturned
<1>5. DiscoveryTypeOK'
  BY <1>1, <1>2, <1>4, DiscoveryAssumption DEF DiscoveryTypeOK
<1>6. /\ offers'[s] = l /\ spc'[s] = "offer"
      /\ \A t \in Sources : t # s => offers'[t] = offers[t] /\ spc'[t] = spc[t]
  BY <1>1, <1>2, <1>4 DEF DiscoveryTypeOK
<1>7. OffersReturned'
  BY <1>1, <1>4, <1>6 DEF OffersReturned
<1>8. NoRepeat => NoRepeat'
  BY <1>2, <1>4, <1>6 DEF NoRepeat
<1>9. NothingDropped => NothingDropped'
  <2> SUFFICES ASSUME NothingDropped PROVE NothingDropped'
    OBVIOUS
  <2>1. \A x \in seen' : x \in Range(Received') \/
                      \E t \in Sources : spc'[t] = "send" /\ x = Head(offers'[t])
    BY <1>2, <1>4, <1>6 DEF NothingDropped
  <2>2. ASSUME NEW x \in returned'
        PROVE  x \in Range(Received') \/ \E t \in Sources : x \in Range(offers'[t])
    <3>1. CASE x \in Range(l)
      BY <1>6, <3>1
    <3>2. CASE x \in returned
      <4>1. x \in Range(Received) \/ \E t \in Sources : x \in Range(offers[t])
        BY <3>2 DEF NothingDropped
      <4>2. Range(offers[s]) = {}
        BY <1>4, EmptyFacts
      <4> QED
        BY <1>4, <1>6, <4>1, <4>2
    <3> QED
      BY <1>1, <3>1, <3>2
  <2>3. \A t \in Sources : spc'[t] = "done" => offers'[t] = <<>>
    BY <1>6 DEF NothingDropped
  <2> QED
    BY <2>1, <2>2, <2>3 DEF NothingDropped
<1>10. dclosed => FALSE
  BY <1>2 DEF DiscoveryInv
<1> QED
  BY <1>3, <1>5, <1>7, <1>8, <1>9, <1>10, Zenon DEF DiscoveryInv

\* A source is done with its list, or gives up.
LEMMA SourceEndsKeeps ==
  ASSUME DiscoveryInv, NEW s \in Sources, SourceEnds(s) \/ AbandonSend(s)
  PROVE  DiscoveryInv'
<1>1. /\ spc' = [spc EXCEPT ![s] = "done"] /\ seen' = seen /\ offers' = offers
      /\ dch' = dch /\ delivered' = delivered /\ returned' = returned
  BY DEF SourceEnds, AbandonSend
<1>2. dclosed' = dclosed /\ dcancel' = dcancel /\ wasReset' = wasReset
  BY DEF SourceEnds, AbandonSend
<1>3. DiscoveryTypeOK /\ OffersReturned /\ Received' = Received
  BY <1>1 DEF DiscoveryInv, Received
<1>4. DiscoveryTypeOK' /\ OffersReturned'
  BY <1>1, <1>3 DEF DiscoveryTypeOK, OffersReturned
<1>5. \A t \in Sources : spc'[t] = IF t = s THEN "done" ELSE spc[t]
  BY <1>1, <1>3 DEF DiscoveryTypeOK
<1>6. NoRepeat => NoRepeat'
  BY <1>1, <1>3, <1>5 DEF NoRepeat
<1>7. dcancel \/ (spc[s] # "send" /\ offers[s] = <<>>)
  <2>1. CASE SourceEnds(s)
    BY <1>3, <2>1 DEF SourceEnds, OffersReturned
  <2>2. CASE AbandonSend(s)
    BY <2>2 DEF AbandonSend
  <2> QED
    BY <2>1, <2>2
<1>8. spc[s] # "send" /\ offers[s] = <<>> /\ NothingDropped => NothingDropped'
  BY <1>1, <1>3, <1>5 DEF NothingDropped
<1>9. (\A t \in Sources : spc[t] = "done") => \A t \in Sources : spc'[t] = "done"
  BY <1>5
<1> QED
  BY <1>2, <1>4, <1>6, <1>7, <1>8, <1>9, Zenon DEF DiscoveryInv

\* An address is looked up and, if it is new, recorded.
LEMMA AddIfNewKeeps ==
  ASSUME DiscoveryInv, NEW s \in Sources, addIfNew(s)
  PROVE  DiscoveryInv'
<1> DEFINE h == Head(offers[s])
<1>1. /\ spc[s] = "offer" /\ offers[s] # <<>>
      /\ dch' = dch /\ delivered' = delivered /\ returned' = returned
  BY DEF addIfNew
<1>2. dclosed' = dclosed /\ dcancel' = dcancel /\ wasReset' = wasReset
  BY DEF addIfNew
<1>3. DiscoveryTypeOK /\ OffersReturned /\ Received' = Received /\ ~dclosed
  BY <1>1 DEF DiscoveryInv, Received
<1>4. /\ h \in Findable /\ Tail(offers[s]) \in Seq(Findable)
      /\ Range(offers[s]) = {h} \cup Range(Tail(offers[s]))
  BY <1>1, <1>3, HeadTailFacts DEF DiscoveryTypeOK
<1> HIDE DEF h
<1>5. CASE h \in seen
  <2>1. offers' = [offers EXCEPT ![s] = Tail(offers[s])] /\ seen' = seen /\ spc' = spc
    BY <1>5 DEF addIfNew, h
  <2>2. \A t \in Sources : offers'[t] = IF t = s THEN Tail(offers[s]) ELSE offers[t]
    BY <1>3, <2>1 DEF DiscoveryTypeOK
  <2>3. DiscoveryTypeOK'
    BY <1>1, <1>3, <1>4, <2>1 DEF DiscoveryTypeOK
  <2>4. OffersReturned'
    BY <1>1, <1>3, <1>4, <2>1, <2>2 DEF OffersReturned
  <2>5. NoRepeat => NoRepeat'
    BY <1>1, <1>3, <2>1, <2>2 DEF NoRepeat
  <2>6. NothingDropped => NothingDropped'
    <3> SUFFICES ASSUME NothingDropped PROVE NothingDropped'
      OBVIOUS
    <3>1. \A t \in Sources : spc[t] = "send" => offers'[t] = offers[t] /\ t # s
      BY <1>1, <2>2
    <3>2. \A x \in seen' : x \in Range(Received') \/
                        \E t \in Sources : spc'[t] = "send" /\ x = Head(offers'[t])
      BY <1>3, <2>1, <3>1 DEF NothingDropped
    <3>3. ASSUME NEW x \in returned'
          PROVE  x \in Range(Received') \/ \E t \in Sources : x \in Range(offers'[t])
      <4>1. CASE x = h /\ x \notin Range(Received)
        <5>1. PICK t \in Sources : spc[t] = "send" /\ x = Head(offers[t])
          BY <1>5, <4>1 DEF NothingDropped
        <5>2. offers[t] \in Seq(Findable) /\ offers[t] # <<>>
          BY <1>3, <5>1 DEF DiscoveryTypeOK, OffersReturned
        <5>3. x \in Range(offers[t])
          BY <5>1, <5>2, HeadTailFacts
        <5> QED
          BY <3>1, <5>1, <5>3
      <4>2. CASE x # h
        <5>1. x \in Range(Received) \/ \E t \in Sources : x \in Range(offers[t])
          BY <1>1 DEF NothingDropped
        <5> QED
          BY <1>3, <1>4, <2>2, <4>2, <5>1
      <4> QED
        BY <1>3, <4>1, <4>2
    <3>4. \A t \in Sources : spc'[t] = "done" => offers'[t] = <<>>
      BY <1>1, <2>1, <2>2 DEF NothingDropped
    <3> QED
      BY <3>2, <3>3, <3>4 DEF NothingDropped
  <2> QED
    BY <1>2, <1>3, <2>3, <2>4, <2>5, <2>6, Zenon DEF DiscoveryInv
<1>6. CASE h \notin seen
  <2>1. seen' = seen \cup {h} /\ spc' = [spc EXCEPT ![s] = "send"] /\ offers' = offers
    BY <1>6 DEF addIfNew, h
  <2>2. \A t \in Sources : spc'[t] = IF t = s THEN "send" ELSE spc[t]
    BY <1>3, <2>1 DEF DiscoveryTypeOK
  <2>3. DiscoveryTypeOK' /\ OffersReturned'
    BY <1>1, <1>3, <2>1, <2>2 DEF DiscoveryTypeOK, OffersReturned
  <2>4. NoRepeat => NoRepeat'
    BY <1>3, <1>6, <2>1, <2>2 DEF NoRepeat, h
  <2>5. NothingDropped => NothingDropped'
    BY <1>1, <1>3, <2>1, <2>2 DEF NothingDropped, h
  <2> QED
    BY <1>2, <1>3, <2>3, <2>4, <2>5, Zenon DEF DiscoveryInv
<1> QED
  BY <1>5, <1>6

\* The address goes into the channel.
LEMMA SendPeerKeeps ==
  ASSUME DiscoveryInv, NEW s \in Sources, SendPeer(s)
  PROVE  DiscoveryInv'
<1> DEFINE h == Head(offers[s])
<1>1. /\ spc[s] = "send" /\ spc' = [spc EXCEPT ![s] = "offer"] /\ dch' = Append(dch, h)
      /\ offers' = [offers EXCEPT ![s] = Tail(offers[s])]
      /\ seen' = seen /\ delivered' = delivered /\ returned' = returned
  BY DEF SendPeer
<1>2. dclosed' = dclosed /\ dcancel' = dcancel /\ wasReset' = wasReset
  BY DEF SendPeer
<1>3. DiscoveryTypeOK /\ OffersReturned /\ ~dclosed /\ offers[s] # <<>>
  BY <1>1 DEF DiscoveryInv, OffersReturned
<1>4. /\ h \in Findable /\ Tail(offers[s]) \in Seq(Findable)
      /\ Range(offers[s]) = {h} \cup Range(Tail(offers[s]))
  BY <1>3, HeadTailFacts DEF DiscoveryTypeOK
<1> HIDE DEF h
<1>5. /\ Received \in Seq(Findable) /\ Received' = Append(Received, h)
      /\ dch' \in Seq(Findable)
  BY <1>1, <1>3, <1>4, ConcatAppend, ConcatProperties, AppendProperties
     DEF Received, DiscoveryTypeOK
<1>6. /\ Range(Received') = Range(Received) \cup {h}
      /\ IsInjective(Received) /\ h \notin Range(Received) => IsInjective(Received')
  BY <1>4, <1>5, AppendFacts
<1>7. \A t \in Sources : /\ offers'[t] = IF t = s THEN Tail(offers[s]) ELSE offers[t]
                        /\ spc'[t] = IF t = s THEN "offer" ELSE spc[t]
  BY <1>1, <1>3 DEF DiscoveryTypeOK
<1>8. DiscoveryTypeOK'
  BY <1>1, <1>3, <1>4, <1>5 DEF DiscoveryTypeOK
<1>9. OffersReturned'
  BY <1>1, <1>3, <1>4, <1>6, <1>7 DEF OffersReturned
<1>10. NoRepeat => NoRepeat'
  <2> SUFFICES ASSUME NoRepeat PROVE NoRepeat'
    OBVIOUS
  <2>1. h \in seen /\ h \notin Range(Received)
    BY <1>1 DEF NoRepeat, h
  <2>2. IsInjective(Received') /\ Range(Received') \subseteq seen'
    BY <1>1, <1>6, <2>1 DEF NoRepeat
  <2>3. ASSUME NEW t \in Sources, spc'[t] = "send"
        PROVE  t # s /\ offers'[t] = offers[t] /\ spc[t] = "send" /\ Head(offers[t]) # h
    BY <1>1, <1>7, <2>3 DEF NoRepeat, h
  <2> QED
    BY <1>1, <1>6, <2>2, <2>3 DEF NoRepeat
<1>11. NothingDropped => NothingDropped'
  <2> SUFFICES ASSUME NothingDropped PROVE NothingDropped'
    OBVIOUS
  <2>1. ASSUME NEW x \in seen'
        PROVE  x \in Range(Received') \/
               \E t \in Sources : spc'[t] = "send" /\ x = Head(offers'[t])
    <3>1. x \in Range(Received) \/ \E t \in Sources : spc[t] = "send" /\ x = Head(offers[t])
      BY <1>1 DEF NothingDropped
    <3>2. ASSUME NEW t \in Sources, spc[t] = "send", x = Head(offers[t]), x # h
          PROVE  spc'[t] = "send" /\ x = Head(offers'[t])
      BY <1>7, <3>2 DEF h
    <3> QED
      BY <1>6, <3>1, <3>2
  <2>2. ASSUME NEW x \in returned'
        PROVE  x \in Range(Received') \/ \E t \in Sources : x \in Range(offers'[t])
    <3>1. x \in Range(Received) \/ \E t \in Sources : x \in Range(offers[t])
      BY <1>1 DEF NothingDropped
    <3> QED
      BY <1>4, <1>6, <1>7, <3>1
  <2>3. \A t \in Sources : spc'[t] = "done" => offers'[t] = <<>>
    BY <1>1, <1>7 DEF NothingDropped
  <2> QED
    BY <2>1, <2>2, <2>3 DEF NothingDropped
<1> QED
  BY <1>2, <1>3, <1>8, <1>9, <1>10, <1>11, Zenon DEF DiscoveryInv

\* Every step of Discover and of its caller keeps the invariant.
LEMMA DiscoveryStepInv ==
  ASSUME DiscoveryInv, [DiscoveryNext]_discoveryVars
  PROVE  DiscoveryInv'
<1>1. ASSUME spc' = spc, offers' = offers, returned' = returned, seen' = seen,
             Received' = Received, dch' \in Seq(Findable), delivered' \in Seq(Findable)
      PROVE  /\ DiscoveryTypeOK' /\ OffersReturned'
             /\ (NoRepeat => NoRepeat') /\ (NothingDropped => NothingDropped')
             /\ (\A s \in Sources : spc[s] = "done") => \A s \in Sources : spc'[s] = "done"
  BY <1>1 DEF DiscoveryInv, DiscoveryTypeOK, OffersReturned, NoRepeat, NothingDropped
<1>2. dch \in Seq(Findable) /\ delivered \in Seq(Findable)
  BY DEF DiscoveryInv, DiscoveryTypeOK
<1>3. CASE CloseChannel
  <2>1. /\ spc' = spc /\ offers' = offers /\ returned' = returned /\ seen' = seen
        /\ Received' = Received /\ dch' = dch /\ delivered' = delivered
    BY <1>3 DEF CloseChannel, Received
  <2>2. wasReset' = wasReset /\ dcancel' = dcancel /\ \A s \in Sources : spc[s] = "done"
    BY <1>3 DEF CloseChannel
  <2>3. /\ DiscoveryTypeOK' /\ OffersReturned'
        /\ (NoRepeat => NoRepeat') /\ (NothingDropped => NothingDropped')
        /\ \A s \in Sources : spc'[s] = "done"
    BY <1>1, <1>2, <2>1, <2>2
  <2> QED
    BY <2>2, <2>3, Zenon DEF DiscoveryInv
<1>4. CASE ReceivePeer
  <2>1. /\ spc' = spc /\ offers' = offers /\ returned' = returned /\ seen' = seen
        /\ dch # <<>> /\ delivered' = Append(delivered, Head(dch)) /\ dch' = Tail(dch)
    BY <1>4 DEF ReceivePeer
  <2>2. wasReset' = wasReset /\ dcancel' = dcancel /\ dclosed' = dclosed
    BY <1>4 DEF ReceivePeer
  <2>3. Received' = Received /\ dch' \in Seq(Findable) /\ delivered' \in Seq(Findable)
    BY <1>2, <2>1, MoveFacts, HeadTailFacts, AppendProperties DEF Received
  <2>4. /\ DiscoveryTypeOK' /\ OffersReturned'
        /\ (NoRepeat => NoRepeat') /\ (NothingDropped => NothingDropped')
        /\ (\A s \in Sources : spc[s] = "done") => \A s \in Sources : spc'[s] = "done"
    BY <1>1, <2>1, <2>3
  <2> QED
    BY <2>2, <2>4, Zenon DEF DiscoveryInv
<1>5. CASE CancelDiscover
  <2>1. /\ spc' = spc /\ offers' = offers /\ returned' = returned /\ seen' = seen
        /\ Received' = Received /\ dch' = dch /\ delivered' = delivered
    BY <1>5 DEF CancelDiscover, Received
  <2>2. wasReset' = wasReset /\ dcancel' /\ dclosed' = dclosed
    BY <1>5 DEF CancelDiscover
  <2>3. /\ DiscoveryTypeOK' /\ OffersReturned' /\ (NoRepeat => NoRepeat')
        /\ (\A s \in Sources : spc[s] = "done") => \A s \in Sources : spc'[s] = "done"
    BY <1>1, <1>2, <2>1
  <2> QED
    BY <2>2, <2>3, Zenon DEF DiscoveryInv
<1>6. CASE Reset
  <2>1. /\ spc' = spc /\ offers' = offers /\ returned' = returned /\ seen' = {}
        /\ Received' = Received /\ dch' = dch /\ delivered' = delivered
    BY <1>6 DEF Reset, Received
  <2>2. wasReset' /\ dcancel' = dcancel /\ dclosed' = dclosed
    BY <1>6 DEF Reset
  <2>3. DiscoveryTypeOK' /\ OffersReturned' /\ (NothingDropped => NothingDropped')
    BY <2>1 DEF DiscoveryInv, DiscoveryTypeOK, OffersReturned, NothingDropped
  <2>4. (\A s \in Sources : spc[s] = "done") => \A s \in Sources : spc'[s] = "done"
    BY <2>1
  <2> QED
    BY <2>2, <2>3, <2>4, Zenon DEF DiscoveryInv
<1>7. CASE UNCHANGED discoveryVars
  <2>1. /\ spc' = spc /\ offers' = offers /\ returned' = returned /\ seen' = seen
        /\ Received' = Received /\ dch' = dch /\ delivered' = delivered
    BY <1>7 DEF discoveryVars, Received
  <2>2. wasReset' = wasReset /\ dcancel' = dcancel /\ dclosed' = dclosed
    BY <1>7 DEF discoveryVars
  <2>3. /\ DiscoveryTypeOK' /\ OffersReturned'
        /\ (NoRepeat => NoRepeat') /\ (NothingDropped => NothingDropped')
        /\ (\A s \in Sources : spc[s] = "done") => \A s \in Sources : spc'[s] = "done"
    BY <1>1, <1>2, <2>1
  <2> QED
    BY <2>2, <2>3, Zenon DEF DiscoveryInv
<1> QED
  BY <1>3, <1>4, <1>5, <1>6, <1>7, SourceReturnsKeeps, SourceEndsKeeps, AddIfNewKeeps,
     SendPeerKeeps DEF DiscoveryNext

\* No address is delivered twice unless Reset is called, and none is missing when
\* the channel is closed without a cancellation, for any sources, lists and
\* channel capacity.
THEOREM PeersDelivered == DiscoverySpec => []EachPeerDelivered
<1>1. DiscoveryInv => EachPeerDelivered
  <2> SUFFICES ASSUME DiscoveryInv PROVE EachPeerDelivered
    OBVIOUS
  <2>1. NoRepeat => IsInjective(delivered \o dch)
    BY DEF NoRepeat, Received
  <2>2. NothingDropped /\ (\A s \in Sources : spc[s] = "done") =>
          Range(delivered \o dch) = returned
    <3> SUFFICES ASSUME NothingDropped, \A s \in Sources : spc[s] = "done"
                 PROVE  Range(Received) = returned
      BY DEF Received
    <3>1. \A s \in Sources : Range(offers[s]) = {}
      BY EmptyFacts DEF NothingDropped
    <3> QED
      BY <3>1 DEF NothingDropped, DiscoveryInv, OffersReturned
  <2> QED
    BY <2>1, <2>2, Zenon DEF DiscoveryInv, EachPeerDelivered
<1> QED
  BY <1>1, DiscoveryInitInv, DiscoveryStepInv, PTL DEF DiscoverySpec

-----------------------------------------------------------------------------
(* The progress display. *)

DoneShown == {i \in Shown : display[i] = "done"}

ProgressTypeOK ==
  /\ display \in [Shown -> {"empty", "pending", "active", "done"}]
  /\ piecesDone \in Nat /\ failures \in Nat
  /\ DOMAIN doing = Loaders /\ doing = [w \in Loaders |-> doing[w]]
  /\ resultsCh \in Seq(Shown \X {"ok", "err"})

\* Worker w is at piece i; it has finished it.
Loading(w, i) == doing[w] \in {<<"start", i>>, <<"fetch", i>>}
Loaded(w, i) == doing[w] \in {<<"ok", i>>, <<"report", i, "ok">>}

\* Before the first error result and the first shared piece: no error is under
\* way, a piece is in flight while one worker is at it, and one that is shown as
\* done, in the channel or about to be reported is finished.
Orderly ==
  /\ piecesDone = Cardinality(DoneShown)
  /\ \A w \in Loaders, i \in Shown : doing[w] # <<"err", i>> /\ doing[w] # <<"report", i, "err">>
  /\ \A r \in Range(resultsCh) : r[2] = "ok" /\ r[1] \in finished
  /\ DoneShown \subseteq finished /\ inflight \cap finished = {}
  /\ \A w \in Loaders, i \in Shown : Loading(w, i) => i \in inflight
  /\ \A v, w \in Loaders, i \in Shown : Loading(v, i) /\ Loading(w, i) => v = w
  /\ \A w \in Loaders, i \in Shown : Loaded(w, i) => i \in finished

ProgressInv ==
  /\ ProgressTypeOK /\ piecesDone >= Cardinality(DoneShown)
  /\ failures = 0 /\ ~shared => Orderly

\* A finite number of pieces is shown as done.
LEMMA DoneFinite ==
  ASSUME NEW S \in SUBSET Shown
  PROVE  IsFiniteSet(S) /\ Cardinality(S) \in Nat
  BY ProgressAssumption, FS_Subset, FS_CardinalityType

\* Nothing is shown as done at first.
LEMMA ProgressInitInv == ProgressInit => ProgressInv
<1> SUFFICES ASSUME ProgressInit PROVE ProgressInv
  OBVIOUS
<1>1. /\ display = [i \in Shown |-> "empty"] /\ piecesDone = 0 /\ failures = 0
      /\ doing = [w \in Loaders |-> <<>>] /\ inflight = {} /\ finished = {} /\ resultsCh = <<>>
  BY DEF ProgressInit
<1>2. DoneShown = {} /\ Cardinality(DoneShown) = 0
  BY <1>1, FS_EmptySet DEF DoneShown
<1>3. <<>> \in Seq(Shown \X {"ok", "err"}) /\ Range(<<>>) = {}
  BY EmptySeq, EmptyFacts
<1>4. ProgressTypeOK
  BY <1>1, <1>3 DEF ProgressTypeOK
<1>5. \A w \in Loaders, i \in Shown :
        /\ ~Loading(w, i) /\ ~Loaded(w, i)
        /\ doing[w] # <<"err", i>> /\ doing[w] # <<"report", i, "err">>
  BY <1>1 DEF Loading, Loaded
<1>6. Orderly
  BY <1>1, <1>2, <1>3, <1>5 DEF Orderly
<1> QED
  BY <1>1, <1>2, <1>4, <1>6 DEF ProgressInv

\* A piece that is started or has failed is not shown as done.
LEMMA NotDoneEffect ==
  ASSUME ProgressTypeOK, NEW i \in Shown, PieceStarted(i) \/ PieceFailed(i)
  PROVE  /\ display' \in [Shown -> {"empty", "pending", "active", "done"}]
         /\ piecesDone' = piecesDone /\ DoneShown' = DoneShown \ {i}
         /\ Cardinality(DoneShown') <= Cardinality(DoneShown)
<1>1. PICK v \in {"active", "pending"} : display' = [display EXCEPT ![i] = v]
  BY DEF PieceStarted, PieceFailed
<1>2. piecesDone' = piecesDone
  BY DEF PieceStarted, PieceFailed
<1>3. DoneShown' = DoneShown \ {i}
  BY <1>1 DEF ProgressTypeOK, DoneShown
<1>4. Cardinality(DoneShown') <= Cardinality(DoneShown)
  BY <1>3, DoneFinite, FS_Subset DEF DoneShown
<1> QED
  BY <1>1, <1>2, <1>3, <1>4 DEF ProgressTypeOK

\* A piece is counted when it comes to be shown as done.
LEMMA DoneEffect ==
  ASSUME ProgressTypeOK, NEW i \in Shown, PieceDone(i)
  PROVE  /\ display' \in [Shown -> {"empty", "pending", "active", "done"}]
         /\ DoneShown' = DoneShown \cup {i} /\ piecesDone' \in Nat
         /\ piecesDone' - Cardinality(DoneShown') = piecesDone - Cardinality(DoneShown)
<1>1. IsFiniteSet(DoneShown) /\ Cardinality(DoneShown) \in Nat
  BY DoneFinite DEF DoneShown
<1>2. CASE display[i] = "done"
  <2>1. display' = display /\ piecesDone' = piecesDone
    BY <1>2 DEF PieceDone
  <2>2. DoneShown' = DoneShown \cup {i} /\ DoneShown' = DoneShown
    BY <1>2, <2>1 DEF DoneShown
  <2> QED
    BY <2>1, <2>2 DEF ProgressTypeOK
<1>3. CASE display[i] # "done"
  <2>1. display' = [display EXCEPT ![i] = "done"] /\ piecesDone' = piecesDone + 1
    BY <1>3 DEF PieceDone
  <2>2. DoneShown' = DoneShown \cup {i} /\ i \notin DoneShown
    BY <1>3, <2>1 DEF ProgressTypeOK, DoneShown
  <2>3. Cardinality(DoneShown') = Cardinality(DoneShown) + 1
    BY <1>1, <2>2, FS_AddElement
  <2>4. display' \in [Shown -> {"empty", "pending", "active", "done"}]
    BY <2>1 DEF ProgressTypeOK
  <2>5. piecesDone \in Nat
    BY DEF ProgressTypeOK
  <2> QED
    BY <1>1, <2>1, <2>2, <2>3, <2>4, <2>5
<1> QED
  BY <1>2, <1>3

\* Worker w turns to a step.
LEMMA ProceedFacts ==
  ASSUME ProgressTypeOK, NEW w \in Loaders, NEW step, Proceed(w, step)
  PROVE  /\ DOMAIN doing' = Loaders /\ doing' = [v \in Loaders |-> doing'[v]]
         /\ doing'[w] = step /\ \A v \in Loaders : v # w => doing'[v] = doing[v]
  BY DEF ProgressTypeOK, Proceed

\* The steps before a piece is sent, none of which reports to the display.
LEMMA WorkerProgressKeeps ==
  ASSUME ProgressInv, NEW w \in Loaders, NEW i \in Shown,
         \/ PickShown(w, i) \/ FetchFails(w, i) \/ SessionDies(w, i)
         \/ SkipDuplicate(w, i) \/ FetchSucceeds(w, i)
  PROVE  ProgressInv'
<1>1. /\ display' = display /\ piecesDone' = piecesDone /\ DoneShown' = DoneShown
      /\ resultsCh' = resultsCh
  BY DEF PickShown, FetchFails, SessionDies, SkipDuplicate, FetchSucceeds, DoneShown, pickerVars
<1>2. ProgressTypeOK /\ piecesDone >= Cardinality(DoneShown)
  BY DEF ProgressInv
<1>3. ASSUME NEW step, Proceed(w, step), failures' \in Nat PROVE ProgressTypeOK'
  BY <1>1, <1>2, <1>3, ProceedFacts DEF ProgressTypeOK
<1>4. CASE PickShown(w, i)
  <2>1. /\ Proceed(w, <<"start", i>>) /\ i \notin finished /\ shared' = (shared \/ i \in inflight)
        /\ inflight' = inflight \cup {i} /\ finished' = finished /\ failures' = failures
    BY <1>4 DEF PickShown
  <2>2. ProgressTypeOK'
    BY <1>2, <1>3, <2>1 DEF ProgressTypeOK
  <2>3. /\ doing'[w] = <<"start", i>> /\ \A v \in Loaders : v # w => doing'[v] = doing[v]
    BY <1>2, <2>1, ProceedFacts
  <2>4. \A j \in Shown : (Loading(w, j)' <=> j = i) /\ ~Loaded(w, j)'
    BY <2>3 DEF Loading, Loaded
  <2>5. \A v \in Loaders, j \in Shown : v # w =>
          (Loading(v, j)' <=> Loading(v, j)) /\ (Loaded(v, j)' <=> Loaded(v, j))
    BY <2>3 DEF Loading, Loaded
  <2>6. Orderly /\ i \notin inflight => Orderly'
    <3> SUFFICES ASSUME Orderly, i \notin inflight PROVE Orderly'
      OBVIOUS
    <3>1. \A v \in Loaders, j \in Shown :
            doing'[v] # <<"err", j>> /\ doing'[v] # <<"report", j, "err">>
      BY <2>3 DEF Orderly
    <3>2. \A v \in Loaders, j \in Shown : Loading(v, j)' => j \in inflight'
      BY <2>1, <2>4, <2>5 DEF Orderly
    <3>3. \A v \in Loaders : v # w => ~Loading(v, i)
      BY DEF Orderly
    <3>4. \A u, v \in Loaders, j \in Shown : Loading(u, j)' /\ Loading(v, j)' => u = v
      BY <2>4, <2>5, <3>3 DEF Orderly
    <3>5. \A v \in Loaders, j \in Shown : Loaded(v, j)' => j \in finished'
      BY <2>1, <2>4, <2>5 DEF Orderly
    <3>6. inflight' \cap finished' = {}
      BY <2>1 DEF Orderly
    <3> QED
      BY <1>1, <2>1, <3>1, <3>2, <3>4, <3>5, <3>6 DEF Orderly
  <2> QED
    BY <1>1, <1>2, <2>1, <2>2, <2>6 DEF ProgressInv
<1>5. CASE FetchFails(w, i)
  <2>1. Proceed(w, <<"err", i>>) /\ failures' = failures + 1
    BY <1>5 DEF FetchFails
  <2>2. ProgressTypeOK' /\ failures' # 0
    BY <1>2, <1>3, <2>1 DEF ProgressTypeOK
  <2> QED
    BY <1>1, <1>2, <2>2 DEF ProgressInv
<1>6. CASE SessionDies(w, i) \/ SkipDuplicate(w, i)
  <2>1. /\ Proceed(w, <<>>) /\ doing[w] = <<"fetch", i>> /\ shared' = shared
        /\ inflight' = inflight \/ inflight' = inflight \ {i}
        /\ finished' = finished /\ failures' = failures
    BY <1>6 DEF SessionDies, SkipDuplicate, pickerVars
  <2>2. ProgressTypeOK'
    BY <1>2, <1>3, <2>1 DEF ProgressTypeOK
  <2>3. /\ doing'[w] = <<>> /\ \A v \in Loaders : v # w => doing'[v] = doing[v]
    BY <1>2, <2>1, ProceedFacts
  <2>4. \A v \in Loaders, j \in Shown :
          /\ Loading(v, j)' => Loading(v, j) /\ v # w
          /\ Loaded(v, j)' => Loaded(v, j)
    <3>1. \A j \in Shown : ~Loading(w, j)' /\ ~Loaded(w, j)'
      BY <2>3 DEF Loading, Loaded
    <3>2. \A v \in Loaders, j \in Shown : v # w =>
            (Loading(v, j)' => Loading(v, j)) /\ (Loaded(v, j)' => Loaded(v, j))
      BY <2>3 DEF Loading, Loaded
    <3> QED
      BY <3>1, <3>2
  <2>5. Loading(w, i)
    BY <2>1 DEF Loading
  <2>6. Orderly => Orderly'
    <3> SUFFICES ASSUME Orderly PROVE Orderly'
      OBVIOUS
    <3>1. \A v \in Loaders, j \in Shown :
            doing'[v] # <<"err", j>> /\ doing'[v] # <<"report", j, "err">>
      BY <2>3 DEF Orderly
    <3>2. \A v \in Loaders, j \in Shown : Loading(v, j)' => j \in inflight'
      BY <2>1, <2>4, <2>5 DEF Orderly
    <3>3. \A u, v \in Loaders, j \in Shown : Loading(u, j)' /\ Loading(v, j)' => u = v
      BY <2>4 DEF Orderly
    <3>4. \A v \in Loaders, j \in Shown : Loaded(v, j)' => j \in finished'
      BY <2>1, <2>4 DEF Orderly
    <3>5. inflight' \cap finished' = {}
      BY <2>1 DEF Orderly
    <3> QED
      BY <1>1, <2>1, <3>1, <3>2, <3>3, <3>4, <3>5 DEF Orderly
  <2> QED
    BY <1>1, <1>2, <2>1, <2>2, <2>6 DEF ProgressInv
<1>7. CASE FetchSucceeds(w, i)
  <2>1. /\ Proceed(w, <<"ok", i>>) /\ doing[w] = <<"fetch", i>> /\ shared' = shared
        /\ inflight' = inflight \ {i} /\ finished' = finished \cup {i} /\ failures' = failures
    BY <1>7 DEF FetchSucceeds
  <2>2. ProgressTypeOK'
    BY <1>2, <1>3, <2>1 DEF ProgressTypeOK
  <2>3. /\ doing'[w] = <<"ok", i>> /\ \A v \in Loaders : v # w => doing'[v] = doing[v]
    BY <1>2, <2>1, ProceedFacts
  <2>4. \A v \in Loaders, j \in Shown :
          /\ Loading(v, j)' => Loading(v, j) /\ v # w
          /\ Loaded(v, j)' => Loaded(v, j) \/ j = i
    BY <2>3 DEF Loading, Loaded
  <2>5. Loading(w, i)
    BY <2>1 DEF Loading
  <2>6. Orderly => Orderly'
    <3> SUFFICES ASSUME Orderly PROVE Orderly'
      OBVIOUS
    <3>1. \A v \in Loaders, j \in Shown :
            doing'[v] # <<"err", j>> /\ doing'[v] # <<"report", j, "err">>
      BY <2>3 DEF Orderly
    <3>2. \A v \in Loaders, j \in Shown : Loading(v, j)' => j \in inflight'
      BY <2>1, <2>4, <2>5 DEF Orderly
    <3>3. \A u, v \in Loaders, j \in Shown : Loading(u, j)' /\ Loading(v, j)' => u = v
      BY <2>4 DEF Orderly
    <3>4. \A v \in Loaders, j \in Shown : Loaded(v, j)' => j \in finished'
      BY <2>1, <2>4 DEF Orderly
    <3>5. inflight' \cap finished' = {} /\ DoneShown' \subseteq finished'
      BY <1>1, <2>1 DEF Orderly
    <3>6. \A x \in Range(resultsCh') : x[2] = "ok" /\ x[1] \in finished'
      BY <1>1, <2>1 DEF Orderly
    <3> QED
      BY <1>1, <2>1, <3>1, <3>2, <3>3, <3>4, <3>5, <3>6 DEF Orderly
  <2> QED
    BY <1>1, <1>2, <2>1, <2>2, <2>6 DEF ProgressInv
<1> QED
  BY <1>4, <1>5, <1>6, <1>7

\* A result is sent.
LEMMA SendShownKeeps ==
  ASSUME ProgressInv, NEW w \in Loaders, NEW i \in Shown, NEW r \in {"ok", "err"},
         SendShown(w, i, r)
  PROVE  ProgressInv'
<1>1. ProgressTypeOK /\ piecesDone >= Cardinality(DoneShown)
  BY DEF ProgressInv
<1>2. /\ doing[w] = <<r, i>> /\ Proceed(w, <<"report", i, r>>) /\ shared' = shared
      /\ inflight' = inflight /\ finished' = finished
      /\ resultsCh' = Append(resultsCh, <<i, r>>) /\ failures' = failures
      /\ display' = display /\ piecesDone' = piecesDone /\ DoneShown' = DoneShown
  BY DEF SendShown, pickerVars, DoneShown
<1>3. /\ resultsCh' \in Seq(Shown \X {"ok", "err"})
      /\ Range(resultsCh') = Range(resultsCh) \cup {<<i, r>>}
  <2>1. <<i, r>> \in Shown \X {"ok", "err"} /\ resultsCh \in Seq(Shown \X {"ok", "err"})
    BY <1>1 DEF ProgressTypeOK
  <2> QED
    BY <1>2, <2>1, AppendFacts
<1>4. ProgressTypeOK'
  BY <1>1, <1>2, <1>3, ProceedFacts DEF ProgressTypeOK
<1>5. /\ doing'[w] = <<"report", i, r>> /\ \A v \in Loaders : v # w => doing'[v] = doing[v]
  BY <1>1, <1>2, ProceedFacts
<1>6. Orderly => Orderly'
  <2> SUFFICES ASSUME Orderly PROVE Orderly'
    OBVIOUS
  <2>1. r = "ok"
    BY <1>2 DEF Orderly
  <2>2. Loaded(w, i) /\ i \in finished
    BY <1>2, <2>1 DEF Loaded, Orderly
  <2>3. \A v \in Loaders, j \in Shown :
          doing'[v] # <<"err", j>> /\ doing'[v] # <<"report", j, "err">>
    BY <1>5, <2>1 DEF Orderly
  <2>4. \A v \in Loaders, j \in Shown :
          /\ Loading(v, j)' => Loading(v, j)
          /\ Loaded(v, j)' => Loaded(v, j) \/ j = i
    BY <1>5, <2>1 DEF Loading, Loaded
  <2>5. \A x \in Range(resultsCh') : x[2] = "ok" /\ x[1] \in finished'
    <3>1. <<i, r>>[1] = i /\ <<i, r>>[2] = "ok"
      BY <2>1
    <3>2. \A x \in Range(resultsCh) : x[2] = "ok" /\ x[1] \in finished
      BY DEF Orderly
    <3> QED
      BY <1>2, <1>3, <2>2, <3>1, <3>2
  <2>6. \A v \in Loaders, j \in Shown : Loaded(v, j)' => j \in finished'
    BY <1>2, <2>2, <2>4 DEF Orderly
  <2> QED
    BY <1>2, <2>3, <2>4, <2>5, <2>6 DEF Orderly
<1> QED
  BY <1>1, <1>2, <1>4, <1>6 DEF ProgressInv

\* The display keeps its count under a report, of success or failure, on piece i.
LEMMA ReportKeepsCount ==
  ASSUME ProgressTypeOK, NEW i \in Shown, NEW r \in {"ok", "err"}, Report(i, r),
         piecesDone >= Cardinality(DoneShown)
  PROVE  /\ display' \in [Shown -> {"empty", "pending", "active", "done"}]
         /\ piecesDone' \in Nat /\ piecesDone' >= Cardinality(DoneShown')
         /\ r = "ok" => DoneShown' = DoneShown \cup {i}
         /\ r = "ok" /\ piecesDone = Cardinality(DoneShown) => piecesDone' = Cardinality(DoneShown')
<1>1. piecesDone \in Nat /\ Cardinality(DoneShown) \in Nat /\ Cardinality(DoneShown') \in Nat
  BY DoneFinite DEF ProgressTypeOK, DoneShown
<1>2. CASE r = "ok"
  BY <1>1, <1>2, DoneEffect, SMTT(30) DEF Report
<1>3. CASE r = "err"
  BY <1>1, <1>3, NotDoneEffect DEF Report
<1> QED
  BY <1>2, <1>3

\* Every report of a worker to the display keeps the invariant.
LEMMA ReportsKeep ==
  ASSUME ProgressInv, NEW w \in Loaders, NEW i \in Shown,
         ReportStart(w, i) \/ \E r \in {"ok", "err"} : ReportEnd(w, i, r)
  PROVE  ProgressInv'
<1>1. ProgressTypeOK /\ piecesDone >= Cardinality(DoneShown)
  BY DEF ProgressInv
<1>2. CASE ReportStart(w, i)
  <2>1. /\ doing[w] = <<"start", i>> /\ Proceed(w, <<"fetch", i>>) /\ shared' = shared
        /\ inflight' = inflight /\ finished' = finished /\ resultsCh' = resultsCh
        /\ failures' = failures /\ PieceStarted(i)
    BY <1>2 DEF ReportStart, pickerVars
  <2>2. /\ display' \in [Shown -> {"empty", "pending", "active", "done"}]
        /\ piecesDone' = piecesDone /\ DoneShown' = DoneShown \ {i}
        /\ Cardinality(DoneShown') <= Cardinality(DoneShown)
    BY <1>1, <2>1, NotDoneEffect
  <2>3. /\ doing'[w] = <<"fetch", i>> /\ \A v \in Loaders : v # w => doing'[v] = doing[v]
        /\ DOMAIN doing' = Loaders /\ doing' = [v \in Loaders |-> doing'[v]]
    BY <1>1, <2>1, ProceedFacts
  <2>4. ProgressTypeOK'
    BY <1>1, <2>1, <2>2, <2>3 DEF ProgressTypeOK
  <2>5. piecesDone' >= Cardinality(DoneShown')
    <3>1. piecesDone \in Nat /\ Cardinality(DoneShown) \in Nat /\ Cardinality(DoneShown') \in Nat
      BY <1>1, DoneFinite DEF ProgressTypeOK, DoneShown
    <3> QED
      BY <1>1, <2>2, <3>1
  <2>6. Orderly => Orderly'
    <3> SUFFICES ASSUME Orderly PROVE Orderly'
      OBVIOUS
    <3>1. i \in inflight
      BY <2>1 DEF Orderly, Loading
    <3>2. DoneShown' = DoneShown
      BY <2>2, <3>1 DEF Orderly
    <3>3. \A v \in Loaders, j \in Shown :
            /\ Loading(v, j)' <=> Loading(v, j)
            /\ Loaded(v, j)' => Loaded(v, j)
      BY <2>1, <2>3 DEF Loading, Loaded
    <3>4. \A v \in Loaders, j \in Shown :
            doing'[v] # <<"err", j>> /\ doing'[v] # <<"report", j, "err">>
      BY <2>3 DEF Orderly
    <3> QED
      BY <2>1, <2>2, <3>2, <3>3, <3>4 DEF Orderly
  <2> QED
    BY <2>1, <2>4, <2>5, <2>6 DEF ProgressInv
<1>3. ASSUME NEW r \in {"ok", "err"}, ReportEnd(w, i, r) PROVE ProgressInv'
  <2>1. /\ doing[w] = <<"report", i, r>> /\ Proceed(w, <<>>) /\ shared' = shared
        /\ inflight' = inflight /\ finished' = finished /\ resultsCh' = resultsCh
        /\ failures' = failures /\ Report(i, r)
    BY <1>3 DEF ReportEnd, pickerVars
  <2>2. /\ display' \in [Shown -> {"empty", "pending", "active", "done"}]
        /\ piecesDone' \in Nat /\ piecesDone' >= Cardinality(DoneShown')
        /\ r = "ok" => DoneShown' = DoneShown \cup {i}
        /\ r = "ok" /\ piecesDone = Cardinality(DoneShown) => piecesDone' = Cardinality(DoneShown')
    BY <1>1, <2>1, ReportKeepsCount
  <2>3. /\ doing'[w] = <<>> /\ \A v \in Loaders : v # w => doing'[v] = doing[v]
        /\ DOMAIN doing' = Loaders /\ doing' = [v \in Loaders |-> doing'[v]]
    BY <1>1, <2>1, ProceedFacts
  <2>4. ProgressTypeOK'
    BY <1>1, <2>1, <2>2, <2>3 DEF ProgressTypeOK
  <2>5. Orderly => Orderly'
    <3> SUFFICES ASSUME Orderly PROVE Orderly'
      OBVIOUS
    <3>1. r = "ok"
      BY <2>1 DEF Orderly
    <3>2. Loaded(w, i) /\ i \in finished
      BY <2>1, <3>1 DEF Loaded, Orderly
    <3>3. \A v \in Loaders, j \in Shown :
            (Loading(v, j)' => Loading(v, j)) /\ (Loaded(v, j)' => Loaded(v, j))
      BY <2>3 DEF Loading, Loaded
    <3>4. \A v \in Loaders, j \in Shown :
            doing'[v] # <<"err", j>> /\ doing'[v] # <<"report", j, "err">>
      BY <2>3 DEF Orderly
    <3>5. DoneShown' \subseteq finished' /\ piecesDone' = Cardinality(DoneShown')
      BY <2>1, <2>2, <3>1, <3>2 DEF Orderly
    <3> QED
      BY <2>1, <3>3, <3>4, <3>5 DEF Orderly
  <2> QED
    BY <2>1, <2>2, <2>4, <2>5 DEF ProgressInv
<1> QED
  BY <1>2, <1>3

\* The collector's report, which may come before or after the worker's.
LEMMA CollectKeeps ==
  ASSUME ProgressInv, CollectResult
  PROVE  ProgressInv'
<1> DEFINE x == Head(resultsCh)
<1>1. ProgressTypeOK /\ piecesDone >= Cardinality(DoneShown)
  BY DEF ProgressInv
<1>2. /\ resultsCh # <<>> /\ Report(x[1], x[2]) /\ resultsCh' = Tail(resultsCh)
      /\ doing' = doing /\ inflight' = inflight /\ finished' = finished
      /\ failures' = failures /\ shared' = shared
  BY DEF CollectResult, pickerVars
<1>3. /\ x \in Shown \X {"ok", "err"} /\ Tail(resultsCh) \in Seq(Shown \X {"ok", "err"})
      /\ Range(resultsCh) = {x} \cup Range(Tail(resultsCh))
  BY <1>1, <1>2, HeadTailFacts DEF ProgressTypeOK
<1> HIDE DEF x
<1>4. x[1] \in Shown /\ x[2] \in {"ok", "err"}
  BY <1>3
<1>5. /\ display' \in [Shown -> {"empty", "pending", "active", "done"}]
      /\ piecesDone' \in Nat /\ piecesDone' >= Cardinality(DoneShown')
      /\ x[2] = "ok" => DoneShown' = DoneShown \cup {x[1]}
      /\ x[2] = "ok" /\ piecesDone = Cardinality(DoneShown) =>
           piecesDone' = Cardinality(DoneShown')
  BY <1>1, <1>2, <1>4, ReportKeepsCount
<1>6. ProgressTypeOK'
  BY <1>1, <1>2, <1>3, <1>5 DEF ProgressTypeOK
<1>7. Orderly => Orderly'
  <2> SUFFICES ASSUME Orderly PROVE Orderly'
    OBVIOUS
  <2>1. x[2] = "ok" /\ x[1] \in finished
    BY <1>3 DEF Orderly
  <2>2. \A w \in Loaders, j \in Shown :
          (Loading(w, j)' <=> Loading(w, j)) /\ (Loaded(w, j)' <=> Loaded(w, j))
    BY <1>2 DEF Loading, Loaded
  <2>3. Range(resultsCh') \subseteq Range(resultsCh)
    BY <1>2, <1>3
  <2>4. DoneShown' \subseteq finished' /\ piecesDone' = Cardinality(DoneShown')
    BY <1>2, <1>5, <2>1 DEF Orderly
  <2>5. \A y \in Range(resultsCh') : y[2] = "ok" /\ y[1] \in finished'
    BY <1>2, <2>3 DEF Orderly
  <2> QED
    BY <1>2, <2>2, <2>4, <2>5 DEF Orderly
<1> QED
  BY <1>2, <1>5, <1>6, <1>7 DEF ProgressInv

\* Every step of the display and its callers keeps the invariant.
LEMMA ProgressStepInv ==
  ASSUME ProgressInv, [ProgressNext]_progressVars
  PROVE  ProgressInv'
<1>1. ASSUME display' \in [Shown -> {"empty", "pending", "active", "done"}],
             DoneShown' = DoneShown,
             UNCHANGED <<piecesDone, doing, inflight, finished, shared, resultsCh, failures>>
      PROVE  ProgressInv'
  <2>1. ProgressTypeOK'
    BY <1>1 DEF ProgressInv, ProgressTypeOK
  <2>2. \A w \in Loaders, j \in Shown :
          (Loading(w, j)' <=> Loading(w, j)) /\ (Loaded(w, j)' <=> Loaded(w, j))
    BY <1>1 DEF Loading, Loaded
  <2>3. Orderly => Orderly'
    BY <1>1, <2>2 DEF Orderly
  <2> QED
    BY <1>1, <2>1, <2>3 DEF ProgressInv
<1>2. ASSUME NEW bits \in SUBSET Shown, PeerConnected(bits) PROVE ProgressInv'
  <2>1. /\ display' = [i \in Shown |-> IF i \in bits /\ display[i] = "empty"
                                        THEN "pending" ELSE display[i]]
        /\ UNCHANGED <<piecesDone, doing, inflight, finished, shared, resultsCh, failures>>
    BY <1>2 DEF PeerConnected, pickerVars
  <2>2. display' \in [Shown -> {"empty", "pending", "active", "done"}]
    BY <2>1 DEF ProgressInv, ProgressTypeOK
  <2>3. DoneShown' = DoneShown
    BY <2>1 DEF DoneShown
  <2> QED
    BY <1>1, <2>1, <2>2, <2>3
<1>3. CASE UNCHANGED progressVars \/ \E w \in Loaders : PickNothing(w)
  <2>1. /\ display' = display
        /\ UNCHANGED <<piecesDone, doing, inflight, finished, shared, resultsCh, failures>>
    BY <1>3 DEF progressVars, pickerVars, PickNothing
  <2>2. display' \in [Shown -> {"empty", "pending", "active", "done"}] /\ DoneShown' = DoneShown
    BY <2>1 DEF ProgressInv, ProgressTypeOK, DoneShown
  <2> QED
    BY <1>1, <2>1, <2>2
<1> QED
  BY <1>2, <1>3, CollectKeeps, WorkerProgressKeeps, SendShownKeeps, ReportsKeep DEF ProgressNext

\* The counter on display is the number of pieces shown as done until the first
\* error result or the first piece shared in endgame, however sessions end, and
\* never less, for any number of workers and pieces.
THEOREM PiecesCountedOnce == ProgressSpec => []CountedOnce
<1>1. ProgressInv => CountedOnce
  BY DEF ProgressInv, Orderly, CountedOnce, DoneShown
<1> QED
  BY <1>1, ProgressInitInv, ProgressStepInv, PTL DEF ProgressSpec

-----------------------------------------------------------------------------
(* Tiers: tracker/tiered.go. *)

\* Promotion: the promoted tracker leads, the others keep their order.
LEMMA PromoteFacts ==
  ASSUME NEW S, NEW t \in Seq(S), NEW j \in 1..Len(t)
  PROVE  /\ promote(t, j) \in Seq(S) /\ Len(promote(t, j)) = Len(t)
         /\ \A k \in 1..Len(t) :
              promote(t, j)[k] = IF k = 1 THEN t[j] ELSE IF k <= j THEN t[k - 1] ELSE t[k]
<1>1. /\ Len(t) \in Nat /\ \A k \in 1..Len(t) : t[k] \in S
  BY MembersOfSeq
<1>2. CASE j = 1
  <2>1. promote(t, j) = t
    BY <1>2 DEF promote
  <2> QED
    BY <1>1, <1>2, <2>1
<1>3. CASE j > 1
  <2> DEFINE before == SubSeq(t, 1, j - 1)
             after  == SubSeq(t, j + 1, Len(t))
             rest   == before \o after
             lead   == <<t[j]>>
             p      == lead \o rest
  <2>1. promote(t, j) = p
    <3>1. j > 1 /\ j <= Len(t)
      BY <1>1, <1>3
    <3> QED
      BY <3>1, Zenon DEF promote, RemoveAt
  <2>2. /\ before \in Seq(S) /\ Len(before) = j - 1
        /\ \A k \in 1..(j - 1) : before[k] = t[k]
    <3>1. j - 1 \in Nat /\ j - 1 <= Len(t)
      BY <1>1
    <3> QED
      BY <3>1, PrefixFacts
  <2>3. /\ after \in Seq(S) /\ Len(after) = Len(t) - j
        /\ \A k \in 1..(Len(t) - j) : after[k] = t[j + k]
    <3>1. j \in Nat /\ j <= Len(t) /\ Len(t) <= Len(t)
      BY <1>1
    <3> QED
      BY <1>1, <3>1, SliceFacts
  <2> HIDE DEF before, after
  <2>4. /\ rest \in Seq(S) /\ Len(rest) = Len(before) + Len(after)
        /\ \A k \in 1..(Len(before) + Len(after)) :
             rest[k] = IF k <= Len(before) THEN before[k] ELSE after[k - Len(before)]
    BY <2>2, <2>3, ConcatProperties
  <2> HIDE DEF rest
  <2>5. Len(rest) = Len(t) - 1
        /\ \A k \in 1..(Len(t) - 1) : rest[k] = IF k <= j - 1 THEN t[k] ELSE t[k + 1]
    <3>1. Len(rest) = Len(t) - 1
      BY <1>1, <1>3, <2>2, <2>3, <2>4
    <3>2. ASSUME NEW k \in 1..(Len(t) - 1) PROVE rest[k] = IF k <= j - 1 THEN t[k] ELSE t[k + 1]
      <4>1. k \in 1..(Len(before) + Len(after))
        BY <1>1, <1>3, <2>2, <2>3
      <4>2. rest[k] = IF k <= j - 1 THEN before[k] ELSE after[k - (j - 1)]
        BY <2>2, <2>4, <4>1
      <4>3. CASE k <= j - 1
        BY <1>1, <2>2, <4>2, <4>3
      <4>4. CASE k > j - 1
        <5>1. k - (j - 1) \in 1..(Len(t) - j) /\ j + (k - (j - 1)) = k + 1
          BY <1>1, <4>4
        <5>2. after[k - (j - 1)] = t[k + 1]
          BY <2>3, <5>1
        <5> QED
          BY <4>2, <4>4, <5>2
      <4> QED
        BY <1>1, <4>3, <4>4
    <3> QED
      BY <3>1, <3>2
  <2>6. lead \in Seq(S) /\ Len(lead) = 1 /\ lead[1] = t[j]
    BY <1>1
  <2> HIDE DEF lead
  <2>7. /\ p \in Seq(S) /\ Len(p) = Len(lead) + Len(rest)
        /\ \A k \in 1..(Len(lead) + Len(rest)) :
             p[k] = IF k <= Len(lead) THEN lead[k] ELSE rest[k - Len(lead)]
    <3>1. rest \in Seq(S) /\ lead \in Seq(S)
      BY <2>4, <2>6
    <3> QED
      BY <3>1, ConcatProperties
  <2> HIDE DEF p
  <2>8. ASSUME NEW k \in 1..Len(t)
        PROVE  p[k] = IF k = 1 THEN t[j] ELSE IF k <= j THEN t[k - 1] ELSE t[k]
    <3>1. k \in 1..(Len(lead) + Len(rest))
      BY <1>1, <2>5, <2>6
    <3>2. p[k] = IF k <= 1 THEN lead[k] ELSE rest[k - 1]
      BY <2>6, <2>7, <3>1
    <3>3. CASE k = 1
      BY <2>6, <3>2, <3>3
    <3>4. CASE k # 1
      <4>1. k - 1 \in 1..(Len(t) - 1) /\ ~(k <= 1) /\ (k - 1) + 1 = k
        BY <1>1, <3>4
      <4>2. p[k] = IF k - 1 <= j - 1 THEN t[k - 1] ELSE t[k]
        BY <2>5, <3>2, <4>1
      <4> QED
        BY <3>4, <4>2
    <3> QED
      BY <3>3, <3>4
  <2>9. Len(p) = Len(t)
    BY <1>1, <2>5, <2>6, <2>7
  <2> QED
    BY <2>1, <2>7, <2>8, <2>9
<1> QED
  BY <1>2, <1>3

\* Promotion neither loses nor repeats a tracker.
LEMMA PromoteKeeps ==
  ASSUME NEW S, NEW t \in Seq(S), NEW j \in 1..Len(t), IsInjective(t)
  PROVE  /\ IsInjective(promote(t, j)) /\ Range(promote(t, j)) = Range(t)
<1> DEFINE p == promote(t, j)
           from == [k \in 1..Len(t) |-> IF k = 1 THEN j ELSE IF k <= j THEN k - 1 ELSE k]
           to   == [k \in 1..Len(t) |-> IF k = j THEN 1 ELSE IF k < j THEN k + 1 ELSE k]
<1>1. Len(t) \in Nat /\ \A k, l \in 1..Len(t) : t[k] = t[l] => k = l
  BY MembersOfSeq, InjectiveSeq
<1>2. p \in Seq(S) /\ Len(p) = Len(t) /\ \A k \in 1..Len(t) : p[k] = t[from[k]]
  BY <1>1, PromoteFacts
<1> HIDE DEF p
<1>3. /\ \A k \in 1..Len(t) : from[k] \in 1..Len(t) /\ to[k] \in 1..Len(t) /\ from[to[k]] = k
      /\ \A k, l \in 1..Len(t) : from[k] = from[l] => k = l
  BY <1>1
<1> HIDE DEF from, to
<1>4. IsInjective(p)
  <2>1. ASSUME NEW k \in 1..Len(p), NEW l \in 1..Len(p), p[k] = p[l] PROVE k = l
    <3>1. k \in 1..Len(t) /\ l \in 1..Len(t)
      BY <1>2
    <3>2. t[from[k]] = t[from[l]] /\ from[k] \in 1..Len(t) /\ from[l] \in 1..Len(t)
      BY <1>2, <1>3, <2>1, <3>1
    <3>3. from[k] = from[l]
      BY <1>1, <3>2
    <3> QED
      BY <1>3, <3>1, <3>3
  <2> QED
    BY <1>2, <2>1, InjectiveSeq
<1>5. Range(p) = Range(t)
  <2>1. Range(p) = {p[k] : k \in 1..Len(t)} /\ Range(t) = {t[k] : k \in 1..Len(t)}
    BY <1>2, MembersOfSeq
  <2>2. ASSUME NEW k \in 1..Len(t) PROVE p[k] \in Range(t) /\ t[k] \in Range(p)
    <3>1. p[k] = t[from[k]] /\ from[k] \in 1..Len(t)
      BY <1>2, <1>3
    <3>2. to[k] \in 1..Len(t) /\ p[to[k]] = t[from[to[k]]] /\ from[to[k]] = k
      BY <1>2, <1>3
    <3> QED
      BY <2>1, <3>1, <3>2
  <2> QED
    BY <2>1, <2>2
<1> QED
  BY <1>4, <1>5 DEF p

\* A shuffle neither loses nor repeats a tracker.
LEMMA ShuffleFacts ==
  ASSUME NEW S, NEW t \in Seq(S), IsInjective(t), NEW s \in Shuffles(t)
  PROVE  /\ s \in Seq(S) /\ Len(s) = Len(t) /\ IsInjective(s) /\ Range(s) = Range(t)
<1>1. Len(t) \in Nat /\ DOMAIN t = 1..Len(t) /\ Range(t) = {t[k] : k \in 1..Len(t)}
      /\ \A k \in 1..Len(t) : t[k] \in S
  BY MembersOfSeq
<1>2. PICK p \in Bijection(1..Len(t), 1..Len(t)) : s = [i \in 1..Len(t) |-> t[p[i]]]
  BY <1>1 DEF Shuffles
<1>3. /\ p \in [1..Len(t) -> 1..Len(t)] /\ \A k, l \in 1..Len(t) : p[k] = p[l] => k = l
      /\ \A k \in 1..Len(t) : \E l \in 1..Len(t) : p[l] = k
  BY <1>2 DEF Bijection, Injection, Surjection, IsInjective
<1>4. s \in Seq(S) /\ Len(s) = Len(t)
  BY <1>1, <1>2, <1>3
<1>5. DOMAIN s = 1..Len(t) /\ \A k \in 1..Len(t) : s[k] = t[p[k]] /\ p[k] \in 1..Len(t)
  BY <1>2, <1>3
<1>6. \A k, l \in 1..Len(t) : t[k] = t[l] => k = l
  BY <1>1 DEF IsInjective
<1>7. IsInjective(s)
  <2>1. \A k, l \in 1..Len(t) : s[k] = s[l] => p[k] = p[l]
    BY <1>5, <1>6
  <2>2. \A k, l \in 1..Len(t) : s[k] = s[l] => k = l
    BY <1>3, <2>1
  <2> QED
    BY <1>5, <2>2, Zenon DEF IsInjective
<1>8. Range(s) = {s[k] : k \in 1..Len(t)}
  BY <1>5 DEF Range
<1>9. Range(s) = Range(t)
  BY <1>1, <1>3, <1>5, <1>8
<1> QED
  BY <1>4, <1>7, <1>9

\* The tiers as a caller or the announcer may hold them.
TierShape ==
  {ts \in [1..Len(NonEmpty) -> Seq(Trackers)] :
     \A i \in 1..Len(NonEmpty) : Len(ts[i]) = Len(NonEmpty[i])}

TierTypeOK ==
  /\ tiers = <<>> \/ tiers \in TierShape
  /\ winner \in [DOMAIN tiers -> {<<>>} \cup {<<x>> : x \in Trackers}]
  /\ DOMAIN copied = Callers /\ DOMAIN at = Callers /\ DOMAIN moved = Callers

\* A position an announce may be at.
Position(i, j) == i \in 1..Len(NonEmpty) /\ j \in 1..Len(NonEmpty[i])

\* Where a's announce stands in its copy, which differs from the tiers only in
\* the tiers reordered since.
Walking(a) ==
  at[a] # <<0, 0>> =>
    /\ tiers # <<>> /\ copied[a] \in TierShape
    /\ \E i, j \in Nat : at[a] = <<i, j>> /\ Position(i, j)
    /\ \A i \in 1..Len(NonEmpty) : i \notin moved[a] => copied[a][i] = tiers[i]

TierInv == TierTypeOK /\ TiersKept /\ \A a \in Callers : Walking(a)

\* The tiers the constructor starts from.
LEMMA NonEmptyFacts ==
  /\ Len(NonEmpty) \in Nat /\ DOMAIN NonEmpty = 1..Len(NonEmpty)
  /\ \A i \in 1..Len(NonEmpty) : /\ NonEmpty[i] \in Seq(Trackers) /\ NonEmpty[i] # <<>>
                                 /\ Len(NonEmpty[i]) \in Nat \ {0}
                                 /\ IsInjective(NonEmpty[i])
<1>1. NonEmpty \in Seq(Seq(Trackers) \ {<<>>})
      /\ \A i \in DOMAIN NonEmpty : IsInjective(NonEmpty[i])
  BY TierAssumption
<1>2. /\ Len(NonEmpty) \in Nat /\ DOMAIN NonEmpty = 1..Len(NonEmpty)
      /\ \A i \in 1..Len(NonEmpty) : NonEmpty[i] \in Seq(Trackers) \ {<<>>}
  BY <1>1, MembersOfSeq
<1>3. ASSUME NEW i \in 1..Len(NonEmpty) PROVE Len(NonEmpty[i]) \in Nat \ {0}
  BY <1>2, EmptySeq, LenProperties
<1> QED
  BY <1>1, <1>2, <1>3

\* What a state with tiers holds: their shape, the trackers of each, the last
\* winner in front.
LEMMA TiersBuilt ==
  ASSUME TierInv, tiers # <<>>
  PROVE  /\ tiers \in TierShape /\ DOMAIN tiers = 1..Len(NonEmpty)
         /\ winner \in [1..Len(NonEmpty) -> {<<>>} \cup {<<x>> : x \in Trackers}]
         /\ \A i \in 1..Len(NonEmpty) :
              /\ tiers[i] \in Seq(Trackers) /\ Len(tiers[i]) = Len(NonEmpty[i])
              /\ IsInjective(tiers[i]) /\ Range(tiers[i]) = Range(NonEmpty[i])
              /\ winner[i] # <<>> => Head(tiers[i]) = winner[i][1]
<1>1. tiers \in TierShape
  BY DEF TierInv, TierTypeOK
<1>2. DOMAIN tiers = 1..Len(NonEmpty) /\ \A i \in 1..Len(NonEmpty) :
         tiers[i] \in Seq(Trackers) /\ Len(tiers[i]) = Len(NonEmpty[i])
  BY <1>1 DEF TierShape
<1> QED
  BY <1>1, <1>2 DEF TierInv, TierTypeOK, TiersKept

\* An announce that is walking stands at a position of its copy.
LEMMA WalkingAt ==
  ASSUME TierInv, NEW a \in Callers, at[a] # <<0, 0>>
  PROVE  /\ tiers # <<>> /\ copied[a] \in TierShape
         /\ at[a] = <<at[a][1], at[a][2]>> /\ Position(at[a][1], at[a][2])
         /\ \A i \in 1..Len(NonEmpty) : i \notin moved[a] => copied[a][i] = tiers[i]
<1>1. Walking(a)
  BY DEF TierInv
<1>2. PICK i, j \in Nat : at[a] = <<i, j>> /\ Position(i, j)
  BY <1>1 DEF Walking
<1>3. at[a][1] = i /\ at[a][2] = j
  BY <1>2
<1> QED
  BY <1>1, <1>2, <1>3 DEF Walking

\* The invariant holds for the torrent's own tiers.
LEMMA TierInitInv == ASSUME TierInit PROVE TierInv
<1>1. tiers = <<>> /\ winner = <<>> /\ DOMAIN tiers = {}
  BY DEF TierInit
<1>2. winner \in [DOMAIN tiers -> {<<>>} \cup {<<x>> : x \in Trackers}]
  BY <1>1
<1>3. TierTypeOK
  BY <1>1, <1>2 DEF TierInit, TierTypeOK
<1>4. TiersKept
  BY <1>1 DEF TiersKept
<1>5. \A a \in Callers : Walking(a)
  BY DEF TierInit, Walking
<1> QED
  BY <1>3, <1>4, <1>5 DEF TierInv

\* The constructor shuffles each tier that is not empty.
LEMMA NewTieredAnnouncerKeeps ==
  ASSUME TierInv, NewTieredAnnouncer PROVE TierInv'
<1>1. PICK ts \in [1..Len(NonEmpty) -> UNION {Shuffles(t) : t \in Range(NonEmpty)}] :
        /\ \A i \in DOMAIN ts : ts[i] \in Shuffles(NonEmpty[i])
        /\ tiers' = ts /\ winner' = [i \in DOMAIN ts |-> <<>>]
  BY NonEmptyFacts DEF NewTieredAnnouncer
<1>2. tiers = <<>> /\ UNCHANGED <<copied, at, moved>>
  BY DEF NewTieredAnnouncer
<1>3. DOMAIN tiers' = 1..Len(NonEmpty) /\ tiers' = [i \in 1..Len(NonEmpty) |-> tiers'[i]]
  BY <1>1
<1>4. \A i \in 1..Len(NonEmpty) :
        /\ tiers'[i] \in Seq(Trackers) /\ Len(tiers'[i]) = Len(NonEmpty[i])
        /\ IsInjective(tiers'[i]) /\ Range(tiers'[i]) = Range(NonEmpty[i])
  BY <1>1, <1>3, NonEmptyFacts, ShuffleFacts
<1>5. tiers' \in TierShape
  BY <1>3, <1>4 DEF TierShape
<1>6. winner' = [i \in 1..Len(NonEmpty) |-> <<>>]
  BY <1>1, <1>3
<1>7. TierTypeOK'
  BY <1>2, <1>3, <1>5, <1>6 DEF TierTypeOK, TierInv
<1>8. TiersKept'
  BY <1>3, <1>4, <1>6 DEF TiersKept
<1>9. \A a \in Callers : Walking(a)'
  BY <1>2 DEF TierInv, Walking
<1> QED
  BY <1>7, <1>8, <1>9 DEF TierInv

\* An announce starts with a copy of the tiers.
LEMMA StartAnnounceKeeps ==
  ASSUME TierInv, NEW a \in Callers, StartAnnounce(a) PROVE TierInv'
<1>1. tiers # <<>> /\ UNCHANGED <<tiers, winner>>
      /\ at' = [at EXCEPT ![a] = <<1, 1>>] /\ copied' = [copied EXCEPT ![a] = tiers]
      /\ moved' = [moved EXCEPT ![a] = {}]
  BY DEF StartAnnounce
<1>2. TierTypeOK' /\ TiersKept'
  BY <1>1 DEF TierInv, TierTypeOK, TiersKept
<1>3. Position(1, 1)
  <2>1. tiers \in TierShape /\ DOMAIN tiers = 1..Len(NonEmpty)
    BY <1>1, TiersBuilt
  <2>2. Len(NonEmpty) # 0
    <3>1. SUFFICES ASSUME Len(NonEmpty) = 0 PROVE FALSE
      OBVIOUS
    <3>2. tiers \in [1..0 -> Seq(Trackers)]
      BY <2>1, <3>1 DEF TierShape
    <3>3. tiers = <<>>
      BY <3>2
    <3> QED
      BY <1>1, <3>3
  <2> QED
    BY <2>2, NonEmptyFacts DEF Position
<1>4. ASSUME NEW b \in Callers PROVE Walking(b)'
  <2>1. CASE b = a
    <3>1. at'[b] = <<1, 1>> /\ copied'[b] = tiers
      BY <1>1, <2>1 DEF TierInv, TierTypeOK
    <3>2. tiers \in TierShape
      BY <1>1, TiersBuilt
    <3>3. \E i, j \in Nat : at'[b] = <<i, j>> /\ Position(i, j)
      BY <1>3, <3>1
    <3> QED
      BY <1>1, <3>1, <3>2, <3>3 DEF Walking, Position
  <2>2. CASE b # a
    <3>1. at'[b] = at[b] /\ copied'[b] = copied[b] /\ moved'[b] = moved[b] /\ tiers' = tiers
      BY <1>1, <2>2 DEF TierInv, TierTypeOK
    <3> QED
      BY <3>1 DEF TierInv, Walking, Position
  <2> QED
    BY <2>1, <2>2
<1> QED
  BY <1>2, <1>4 DEF TierInv

\* A tracker that does not answer: the walk goes on in the copy.
LEMMA TrackerFailsKeeps ==
  ASSUME TierInv, NEW a \in Callers, TrackerFails(a) PROVE TierInv'
<1> DEFINE i == at[a][1]
           j == at[a][2]
           next == IF j < Len(copied[a][i]) THEN <<i, j + 1>> ELSE <<i + 1, 1>>
<1>1. at[a] # <<0, 0>> /\ UNCHANGED <<tiers, moved, winner>>
  BY DEF TrackerFails
<1>2. /\ copied[a] \in TierShape /\ at[a] = <<i, j>> /\ Position(i, j)
  BY <1>1, WalkingAt
<1>3. /\ copied[a] \in [1..Len(NonEmpty) -> Seq(Trackers)] /\ Len(NonEmpty) \in Nat
      /\ \A k \in 1..Len(NonEmpty) : Len(copied[a][k]) = Len(NonEmpty[k])
  BY <1>2, NonEmptyFacts DEF TierShape
<1>4. Len(copied[a]) = Len(NonEmpty)
  BY <1>3
<1>5. CASE i = Len(copied[a]) /\ j = Len(copied[a][i])
  <2>1. /\ at' = [at EXCEPT ![a] = <<0, 0>>] /\ copied' = [copied EXCEPT ![a] = <<>>]
    BY <1>5 DEF TrackerFails, ReturnAnnounce
  <2>2. TierTypeOK' /\ TiersKept'
    BY <1>1, <2>1 DEF TierInv, TierTypeOK, TiersKept
  <2>3. ASSUME NEW b \in Callers PROVE Walking(b)'
    BY <1>1, <2>1 DEF TierInv, TierTypeOK, Walking, Position
  <2> QED
    BY <2>2, <2>3 DEF TierInv
<1>6. CASE ~(i = Len(copied[a]) /\ j = Len(copied[a][i]))
  <2>1. at' = [at EXCEPT ![a] = next] /\ UNCHANGED copied
    BY <1>6 DEF TrackerFails
  <2>2. TierTypeOK' /\ TiersKept'
    BY <1>1, <2>1 DEF TierInv, TierTypeOK, TiersKept
  <2>3. \E k, l \in Nat : next = <<k, l>> /\ Position(k, l)
    <3>1. i \in 1..Len(NonEmpty) /\ j \in 1..Len(NonEmpty[i])
          /\ Len(copied[a][i]) = Len(NonEmpty[i]) /\ Len(NonEmpty[i]) \in Nat
      BY <1>2, <1>3, NonEmptyFacts DEF Position
    <3>2. CASE j < Len(NonEmpty[i])
      <4>1. i \in Nat /\ j + 1 \in 1..Len(NonEmpty[i]) /\ j + 1 \in Nat
        <5> DEFINE n == Len(NonEmpty)
                   m == Len(NonEmpty[i])
        <5>1. n \in Nat /\ m \in Nat /\ i \in 1..n /\ j \in 1..m /\ j < m
          BY <1>3, <3>1, <3>2, Zenon
        <5> HIDE DEF n, m
        <5>2. i \in Nat /\ j + 1 \in 1..m /\ j + 1 \in Nat
          BY <5>1
        <5> QED
          BY <5>2, Zenon DEF m
      <4>2. Position(i, j + 1)
        BY <3>1, <4>1 DEF Position
      <4>3. next = <<i, j + 1>>
        BY <3>1, <3>2
      <4> QED
        BY <4>1, <4>2, <4>3
    <3>3. CASE ~(j < Len(NonEmpty[i]))
      <4>1. j = Len(NonEmpty[i]) /\ i + 1 \in 1..Len(NonEmpty)
        <5> DEFINE n == Len(NonEmpty)
                   m == Len(NonEmpty[i])
        <5>1. /\ n \in Nat /\ m \in Nat /\ i \in 1..n /\ j \in 1..m /\ ~(j < m)
              /\ ~(i = n /\ j = m)
          BY <1>3, <1>4, <1>6, <3>1, <3>3, Zenon
        <5> HIDE DEF n, m
        <5>2. j = m /\ i + 1 \in 1..n
          BY <5>1
        <5> QED
          BY <5>2, Zenon DEF n, m
      <4>2. next = <<i + 1, 1>> /\ Position(i + 1, 1) /\ i + 1 \in Nat /\ 1 \in Nat
        BY <3>1, <3>3, <4>1, NonEmptyFacts DEF Position
      <4> QED
        BY <4>2
    <3> QED
      BY <3>2, <3>3
  <2> HIDE DEF next
  <2>4. ASSUME NEW b \in Callers PROVE Walking(b)'
    <3>1. at'[b] = (IF b = a THEN next ELSE at[b]) /\ copied' = copied /\ moved' = moved
          /\ tiers' = tiers
      BY <1>1, <2>1 DEF TierInv, TierTypeOK
    <3>2. at'[b] # <<0, 0>> => at[b] # <<0, 0>> /\ Walking(b)
      BY <1>1, <3>1 DEF TierInv
    <3>3. at'[b] # <<0, 0>> => \E k, l \in Nat : at'[b] = <<k, l>> /\ Position(k, l)
      BY <2>3, <3>1, <3>2 DEF Walking
    <3> QED
      BY <3>1, <3>2, <3>3 DEF Walking, Position
  <2> QED
    BY <2>2, <2>4 DEF TierInv
<1> QED
  BY <1>5, <1>6

\* A tracker that answers is promoted by its position in the copy.
LEMMA TrackerSucceedsKeeps ==
  ASSUME TierInv, NEW a \in Callers, TrackerSucceeds(a) PROVE TierInv'
<1> DEFINE i == at[a][1]
           j == at[a][2]
           new == promote(tiers[i], j)
<1>1. /\ at[a] # <<0, 0>> /\ tiers' = [tiers EXCEPT ![i] = new]
      /\ moved' = [b \in Callers |->
                     IF tiers'[i] # tiers[i] THEN moved[b] \cup {i} ELSE moved[b]]
      /\ winner' = [winner EXCEPT ![i] = IF i \in moved[a] THEN <<>> ELSE <<copied[a][i][j]>>]
      /\ at' = [at EXCEPT ![a] = <<0, 0>>] /\ copied' = [copied EXCEPT ![a] = <<>>]
  BY DEF TrackerSucceeds, ReturnAnnounce
<1>2. /\ tiers # <<>> /\ copied[a] \in TierShape /\ Position(i, j)
      /\ \A k \in 1..Len(NonEmpty) : k \notin moved[a] => copied[a][k] = tiers[k]
  BY <1>1, WalkingAt
<1>3. i \in 1..Len(NonEmpty) /\ j \in 1..Len(NonEmpty[i])
  BY <1>2 DEF Position
<1>4. /\ tiers \in TierShape /\ DOMAIN tiers = 1..Len(NonEmpty)
      /\ winner \in [1..Len(NonEmpty) -> {<<>>} \cup {<<x>> : x \in Trackers}]
      /\ \A k \in 1..Len(NonEmpty) :
           /\ tiers[k] \in Seq(Trackers) /\ Len(tiers[k]) = Len(NonEmpty[k])
           /\ IsInjective(tiers[k]) /\ Range(tiers[k]) = Range(NonEmpty[k])
           /\ winner[k] # <<>> => Head(tiers[k]) = winner[k][1]
  BY <1>2, TiersBuilt
<1>5. /\ new \in Seq(Trackers) /\ Len(new) = Len(NonEmpty[i]) /\ new[1] = tiers[i][j]
  <2>1. tiers[i] \in Seq(Trackers) /\ Len(tiers[i]) = Len(NonEmpty[i]) /\ 1 \in 1..Len(tiers[i])
    BY <1>3, <1>4, NonEmptyFacts
  <2>2. \A t \in Seq(Trackers) : \A l \in 1..Len(t) :
          /\ promote(t, l) \in Seq(Trackers) /\ Len(promote(t, l)) = Len(t)
          /\ 1 \in 1..Len(t) => promote(t, l)[1] = t[l]
    BY PromoteFacts
  <2> QED
    BY <1>3, <2>1, <2>2
<1>6. IsInjective(new) /\ Range(new) = Range(NonEmpty[i])
  BY <1>3, <1>4, PromoteKeeps
<1>7. Head(new) = new[1]
  BY <1>5
<1> HIDE DEF new
<1>8. /\ tiers' = [k \in 1..Len(NonEmpty) |-> IF k = i THEN new ELSE tiers[k]]
      /\ tiers' \in TierShape /\ DOMAIN tiers' = 1..Len(NonEmpty)
  BY <1>1, <1>3, <1>4, <1>5 DEF TierShape
<1>9. i \notin moved[a] => copied[a][i][j] = tiers[i][j] /\ tiers[i][j] \in Trackers
  <2>1. tiers[i] \in Seq(Trackers) /\ j \in 1..Len(tiers[i])
    BY <1>3, <1>4
  <2>2. tiers[i][j] \in Trackers
    BY <2>1, MembersOfSeq
  <2>3. i \notin moved[a] => copied[a][i] = tiers[i]
    BY <1>2, <1>3
  <2> QED
    BY <2>2, <2>3
<1>10. winner' = [k \in 1..Len(NonEmpty) |->
         IF k # i THEN winner[k] ELSE IF i \in moved[a] THEN <<>> ELSE <<copied[a][i][j]>>]
  BY <1>1, <1>4
<1>11. winner' \in [1..Len(NonEmpty) -> {<<>>} \cup {<<x>> : x \in Trackers}]
  BY <1>4, <1>9, <1>10
<1>12. tiers' # <<>>
  BY <1>3, <1>8
<1>13. TierTypeOK'
  BY <1>1, <1>8, <1>11 DEF TierInv, TierTypeOK
<1>14. TiersKept'
  <2>1. ASSUME NEW k \in 1..Len(NonEmpty)
        PROVE  /\ IsInjective(tiers'[k]) /\ Range(tiers'[k]) = Range(NonEmpty[k])
               /\ winner'[k] # <<>> => Head(tiers'[k]) = winner'[k][1]
    <3>1. CASE k # i
      <4>1. tiers'[k] = tiers[k] /\ winner'[k] = winner[k]
        BY <1>8, <1>10, <3>1
      <4> QED
        BY <1>4, <4>1
    <3>2. CASE k = i
      <4>1. tiers'[k] = new
            /\ winner'[k] = IF i \in moved[a] THEN <<>> ELSE <<copied[a][i][j]>>
        BY <1>8, <1>10, <3>2
      <4>2. winner'[k] # <<>> => winner'[k][1] = tiers[i][j]
        BY <1>9, <4>1
      <4> QED
        BY <1>5, <1>6, <1>7, <3>2, <4>1, <4>2
    <3> QED
      BY <3>1, <3>2
  <2> QED
    BY <1>8, <2>1 DEF TiersKept
<1>15. ASSUME NEW b \in Callers PROVE Walking(b)'
  <2>1. SUFFICES ASSUME at'[b] # <<0, 0>> PROVE Walking(b)'
    BY DEF Walking
  <2>2. at'[b] = at[b] /\ copied'[b] = copied[b] /\ at[b] # <<0, 0>>
    BY <1>1, <2>1 DEF TierInv, TierTypeOK
  <2>3. Walking(b)
    BY DEF TierInv
  <2>4. ASSUME NEW k \in 1..Len(NonEmpty), k \notin moved'[b]
        PROVE  copied'[b][k] = tiers'[k]
    <3>1. k \notin moved[b] /\ (k = i => tiers'[i] = tiers[i])
      BY <1>1, <2>4
    <3>2. tiers'[k] = tiers[k]
      BY <1>8, <3>1
    <3> QED
      BY <2>2, <2>3, <3>1, <3>2 DEF Walking
  <2> QED
    BY <1>12, <2>2, <2>3, <2>4 DEF Walking, Position
<1> QED
  BY <1>13, <1>14, <1>15 DEF TierInv

\* However many announces overlap, whatever the announce-list: no tracker is
\* lost or repeated, and the last to answer leads its tier unless the tier was
\* reordered between the copy and the promotion.
THEOREM TierOrderKept == TierSpec => []TiersKept
<1>1. ASSUME TierInv, [TierNext]_tierVars PROVE TierInv'
  <2>1. CASE UNCHANGED tierVars
    <3>1. UNCHANGED <<tiers, copied, at, moved, winner>>
      BY <2>1 DEF tierVars
    <3> QED
      BY <1>1, <3>1 DEF TierInv, TierTypeOK, TiersKept, Walking, Position
  <2> QED
    BY <1>1, <2>1, NewTieredAnnouncerKeeps, StartAnnounceKeeps, TrackerFailsKeeps,
       TrackerSucceedsKeeps DEF TierNext
<1>2. TierInv => TiersKept
  BY DEF TierInv
<1> QED
  BY <1>1, <1>2, TierInitInv, PTL DEF TierSpec

-----------------------------------------------------------------------------
(* Merkle proofs: the loops of torrent/merkle.go as functions of the level, *)
(* and the tree they build over any number of blocks. *)

\* The powers of two up to the d-th.
Doubling(p, d) ==
  /\ p \in [0..d -> Nat \ {0}]
  /\ p[0] = 1 /\ \A k \in 1..d : p[k] = 2 * p[k - 1]

\* The loop of nextPow2 ends, at a power of two that is large enough.
LEMMA NextPow2Facts ==
  ASSUME NEW n \in Nat
  PROVE  \E d \in 0..n : \E p :
           Doubling(p, d) /\ nextPow2(n) = p[d] /\ n <= p[d]
<1> DEFINE V == Nat \ {0}
           F == [x \in V \X (1..n) |-> 2 * x[1]]
           Fill(g, k) == IF k = 0 THEN 1 ELSE 2 * g[k - 1]
           f == CHOOSE g : g = [k \in 0..n |-> Fill(g, k)]
           T == {k \in 0..n : n <= f[k]}
<1>1. nextPow2(n) = f[Min(T)]
  BY DEF nextPow2
<1>2. PICK g : Iteration(g, n, V, 1, F)
  <2>1. F \in [V \X (1..n) -> V] /\ 1 \in V
    OBVIOUS
  <2> HIDE DEF F, V, T, f, Fill
  <2> QED
    BY <2>1, Iterates
<1>3. g \in [0..n -> V] /\ g[0] = 1 /\ \A k \in 1..n : g[k] = F[<<g[k - 1], k>>]
  BY <1>2 DEF Iteration
<1>4. \A k \in 1..n : g[k] = 2 * g[k - 1]
  <2> TAKE k \in 1..n
  <2>1. g[k - 1] \in V /\ <<g[k - 1], k>> \in V \X (1..n)
    BY <1>3
  <2>2. F[<<g[k - 1], k>>] = 2 * g[k - 1]
    BY <2>1
  <2> QED
    BY <1>3, <2>2
<1>5. g = [k \in 0..n |-> Fill(g, k)]
  <2>1. g = [k \in 0..n |-> g[k]]
    BY <1>3
  <2>2. \A k \in 0..n : g[k] = Fill(g, k)
    BY <1>3, <1>4
  <2> HIDE DEF Fill
  <2> QED
    BY <2>1, <2>2
<1>6. f = [k \in 0..n |-> Fill(f, k)]
  <2> HIDE DEF Fill
  <2> QED
    BY <1>5
<1> HIDE DEF f
<1>7. f[0] = 1 /\ \A k \in 1..n : f[k] = 2 * f[k - 1]
  <2>1. \A k \in 0..n : f[k] = Fill(f, k)
    <3> HIDE DEF Fill
    <3> QED
      BY <1>6
  <2> QED
    BY <2>1
<1>8. \A k \in 0..n : f[k] \in Nat /\ k + 1 <= f[k]
  <2> DEFINE U == {k \in 0..n : f[k] \in Nat /\ k + 1 <= f[k]}
  <2>1. 0 \in U
    BY <1>7
  <2>2. \A k \in 1..n : k - 1 \in U => k \in U
    BY <1>7
  <2>3. U \in SUBSET (0..n)
    OBVIOUS
  <2>4. U = 0..n
    <3> HIDE DEF U
    <3> QED
      BY <2>1, <2>2, <2>3, UpTo
  <2> QED
    BY <2>4
<1> DEFINE d == Min(T)
           p == [k \in 0..d |-> f[k]]
<1>9. d \in T
  <2>1. T \in SUBSET Nat /\ n \in T
    BY <1>8
  <2> HIDE DEF T
  <2> QED
    BY <2>1, MinOfSet
<1> HIDE DEF d
<1>10. d \in 0..n /\ n <= f[d]
  BY <1>9
<1>11. Doubling(p, d)
  <2>1. p \in [0..d -> Nat \ {0}]
    BY <1>8, <1>10
  <2>2. p[0] = 1
    BY <1>7, <1>10
  <2>3. \A k \in 1..d : p[k] = 2 * p[k - 1]
    <3> TAKE k \in 1..d
    <3>1. k \in 0..d /\ k - 1 \in 0..d /\ k \in 1..n
      BY <1>10
    <3> QED
      BY <1>7, <3>1
  <2> QED
    BY <2>1, <2>2, <2>3 DEF Doubling
<1>12. p[d] = f[d]
  BY <1>10
<1> HIDE DEF p, T
<1> QED
  BY <1>1, <1>10, <1>11, <1>12 DEF d

\* A file without data counts as one block.
Blocks(n) == IF n = 0 THEN 1 ELSE n
Padded(leaves, b, m) ==
  leaves = [i \in 1..m |-> IF i <= b THEN BlockHash(i) ELSE Zero]

\* The leaf layer: as many hashes as a power of two, the blocks first.
LEMMA LeavesFacts ==
  ASSUME NEW n \in Nat
  PROVE  \E d \in Nat : \E p :
           /\ Doubling(p, d) /\ Blocks(n) \in 1..p[d]
           /\ Padded(MerkleLeaves(n), Blocks(n), p[d])
<1>1. CASE n = 0
  <2> DEFINE p == [k \in 0..0 |-> 1]
  <2>1. Doubling(p, 0) /\ p[0] = 1
    BY DEF Doubling
  <2>2. MerkleLeaves(n) = <<BlockHash(1)>>
    BY <1>1 DEF MerkleLeaves
  <2>3. <<BlockHash(1)>> = [i \in 1..1 |-> IF i <= 1 THEN BlockHash(i) ELSE Zero]
    BY DEF BlockHash
  <2> HIDE DEF p
  <2>4. Blocks(n) = 1 /\ 1 \in 1..1 /\ 0 \in Nat
    BY <1>1 DEF Blocks
  <2>5. MerkleLeaves(n)
          = [i \in 1..p[0] |-> IF i <= Blocks(n) THEN BlockHash(i) ELSE Zero]
    BY <2>1, <2>2, <2>3, <2>4
  <2> QED
    BY <2>1, <2>4, <2>5 DEF Padded
<1>2. CASE n # 0
  <2> PICK d \in 0..n : \E p : Doubling(p, d) /\ nextPow2(n) = p[d] /\ n <= p[d]
    BY NextPow2Facts
  <2>1. PICK p : Doubling(p, d) /\ nextPow2(n) = p[d] /\ n <= p[d]
    OBVIOUS
  <2>2. MerkleLeaves(n) = [i \in 1..p[d] |-> IF i <= n THEN BlockHash(i) ELSE Zero]
    BY <1>2, <2>1 DEF MerkleLeaves
  <2>3. n \in 1..p[d] /\ d \in Nat
    BY <1>2, <2>1 DEF Doubling
  <2> QED
    BY <1>2, <2>1, <2>2, <2>3 DEF Blocks, Padded
<1> QED
  BY <1>1, <1>2

\* Two nodes and their parent.
LEMMA PairFacts ==
  /\ \A u, v, x, y : <<u, v>> = <<x, y>> => u = x /\ v = y
  /\ \A i \in Nat : \/ i % 2 = 0 /\ i = 2 * (i \div 2) /\ Sibling(i) = i + 1
                    \/ i % 2 # 0 /\ i = 2 * (i \div 2) + 1 /\ Sibling(i) = i - 1
<1>1. \A u, v, x, y : <<u, v>> = <<x, y>> => u = x /\ v = y
  OBVIOUS
<1>2. \A i \in Nat : \/ i % 2 = 0 /\ i = 2 * (i \div 2) /\ Sibling(i) = i + 1
                     \/ i % 2 # 0 /\ i = 2 * (i \div 2) + 1 /\ Sibling(i) = i - 1
  BY DEF Sibling
<1> QED
  BY <1>1, <1>2

\* A layer and the one above it; a node that differs from the rest of its layer.
Pairs(high, low, m) == \A j \in 1..m : high[j] = <<low[2 * j - 1], low[2 * j]>>
OnlyOne(low, x, m) == \A j \in 1..m : low[j] = low[x] => j = x

\* A layer of half as many nodes as the one below.
LEMMA HalfLayerFacts ==
  ASSUME NEW m \in Nat, NEW l, DOMAIN l = 1..(2 * m), Len(l) = 2 * m
  PROVE  /\ DOMAIN HalfLayer(l) = 1..m /\ Len(HalfLayer(l)) = m
         /\ Pairs(HalfLayer(l), l, m)
<1>1. (2 * m) \div 2 = m
  OBVIOUS
<1>2. HalfLayer(l) = [i \in 1..m |-> <<l[2 * i - 1], l[2 * i]>>]
  BY <1>1 DEF HalfLayer, hashPair
<1> DEFINE h == [i \in 1..m |-> <<l[2 * i - 1], l[2 * i]>>]
<1>3. h = [i \in 1..m |-> h[i]] /\ \A j \in 1..m : h[j] = <<l[2 * j - 1], l[2 * j]>>
  OBVIOUS
<1>4. HalfLayer(l) = h
  BY <1>2
<1> HIDE DEF h
<1>5. DOMAIN h = 1..m /\ Len(h) = m
  BY <1>3, FunctionIsSeq
<1>6. Pairs(h, l, m)
  BY <1>3 DEF Pairs
<1> QED
  BY <1>4, <1>5, <1>6

\* layer[k] is the layer k levels above the leaves, d is the height.
Tree(layer, d, p, leaves) ==
  /\ layer[0] = leaves
  /\ \A k \in 0..d : DOMAIN layer[k] = 1..p[d - k] /\ Len(layer[k]) = p[d - k]
  /\ \A k \in 1..d : Pairs(layer[k], layer[k - 1], p[d - k])

\* These d + 1 layers as a sequence.
InOrder(layers, layer, d) == layers = [k \in 1..(d + 1) |-> layer[k - 1]]

\* The loop of MerkleLayers ends, with one root: the layers of 2^d leaves
\* halve d times.
LEMMA LayersFacts ==
  ASSUME NEW d \in Nat, NEW p, Doubling(p, d),
         NEW leaves, DOMAIN leaves = 1..p[d], Len(leaves) = p[d]
  PROVE  \E layer : Tree(layer, d, p, leaves) /\ InOrder(MerkleLayers(leaves), layer, d)
<1> DEFINE N == Len(leaves)
           Fill(g, k) == IF k = 0 THEN leaves ELSE HalfLayer(g[k - 1])
           f == CHOOSE g : g = [k \in 0..N |-> Fill(g, k)]
           T == {k \in 0..N : Len(f[k]) <= 1}
<1>1. MerkleLayers(leaves) = [k \in 1..(Min(T) + 1) |-> f[k - 1]]
  BY DEF MerkleLayers
<1>2. /\ \A k \in 0..d : p[k] \in Nat \ {0}
      /\ p[0] = 1 /\ \A k \in 1..d : p[k] = 2 * p[k - 1]
  BY DEF Doubling
<1>3. N \in Nat /\ N = p[d]
  BY <1>2
<1> HIDE DEF N, f, T
<1>4. \A m \in 0..N : \E g : g = [k \in 0..m |-> Fill(g, k)]
  <2> DEFINE Good == {m \in 0..N : \E g : g = [k \in 0..m |-> Fill(g, k)]}
  <2>1. 0 \in Good
    <3> DEFINE g == [k \in 0..0 |-> leaves]
    <3>1. g = [k \in 0..0 |-> Fill(g, k)]
      OBVIOUS
    <3>2. 0 \in 0..N
      BY <1>3
    <3> HIDE DEF g, Fill
    <3> QED
      BY <3>1, <3>2
  <2>2. \A m \in 1..N : m - 1 \in Good => m \in Good
    <3> TAKE m \in 1..N
    <3> HAVE m - 1 \in Good
    <3>1. PICK g : g = [k \in 0..(m - 1) |-> Fill(g, k)]
      OBVIOUS
    <3> DEFINE h == [k \in 0..m |-> IF k = m THEN Fill(g, m) ELSE g[k]]
    <3>2. \A k \in 0..m : h[k] = Fill(h, k)
      <4> TAKE k \in 0..m
      <4>1. CASE k = 0
        BY <1>3, <3>1, <4>1
      <4>2. CASE k # 0
        <5>1. k - 1 \in 0..m /\ k - 1 # m /\ h[k - 1] = g[k - 1]
          BY <1>3, <4>2
        <5>2. Fill(h, k) = Fill(g, k)
          BY <4>2, <5>1
        <5>3. h[k] = Fill(g, k)
          BY <1>3, <3>1
        <5> QED
          BY <5>2, <5>3
      <4> QED
        BY <4>1, <4>2
    <3>3. h = [k \in 0..m |-> h[k]]
      OBVIOUS
    <3>4. m \in 0..N
      BY <1>3
    <3> HIDE DEF h, Fill
    <3>5. h = [k \in 0..m |-> Fill(h, k)]
      BY <3>2, <3>3
    <3> QED
      BY <3>4, <3>5
  <2>3. Good \in SUBSET (0..N)
    OBVIOUS
  <2>4. Good = 0..N
    <3> HIDE DEF Good
    <3> QED
      BY <1>3, <2>1, <2>2, <2>3, UpTo
  <2> HIDE DEF Fill
  <2> QED
    BY <2>4
<1>5. f = [k \in 0..N |-> Fill(f, k)]
  <2>1. N \in 0..N
    BY <1>3
  <2> HIDE DEF Fill
  <2>2. \E g : g = [k \in 0..N |-> Fill(g, k)]
    BY <1>4, <2>1
  <2> QED
    BY <2>2 DEF f
<1>6. f[0] = leaves /\ \A k \in 1..N : f[k] = HalfLayer(f[k - 1])
  <2>1. \A k \in 0..N : f[k] = Fill(f, k)
    <3> HIDE DEF Fill
    <3> QED
      BY <1>5
  <2> QED
    BY <1>3, <2>1
\* The height is within the bound of the recursion.
<1>7. d < N
  <2> DEFINE U == {k \in 0..d : k + 1 <= p[k]}
  <2>1. 0 \in U
    BY <1>2
  <2>2. \A k \in 1..d : k - 1 \in U => k \in U
    BY <1>2
  <2>3. U \in SUBSET (0..d)
    OBVIOUS
  <2>4. U = 0..d
    <3> HIDE DEF U
    <3> QED
      BY <2>1, <2>2, <2>3, UpTo
  <2>5. d \in U
    <3>1. d \in 0..d
      OBVIOUS
    <3> HIDE DEF U
    <3> QED
      BY <2>4, <3>1
  <2>6. d + 1 <= p[d]
    BY <2>5
  <2> QED
    BY <1>2, <1>3, <2>6
<1>8. \A k \in 0..d : DOMAIN f[k] = 1..p[d - k] /\ Len(f[k]) = p[d - k]
  <2> DEFINE U == {k \in 0..d : DOMAIN f[k] = 1..p[d - k] /\ Len(f[k]) = p[d - k]}
  <2>1. 0 \in U
    BY <1>3, <1>6
  <2>2. \A k \in 1..d : k - 1 \in U => k \in U
    <3> TAKE k \in 1..d
    <3> HAVE k - 1 \in U
    <3>1. d - k \in 0..d /\ d - (k - 1) \in 1..d /\ (d - (k - 1)) - 1 = d - k /\ k \in 0..d
      OBVIOUS
    <3>2. p[d - (k - 1)] = 2 * p[d - k] /\ p[d - k] \in Nat
      BY <1>2, <3>1
    <3>3. DOMAIN f[k - 1] = 1..(2 * p[d - k]) /\ Len(f[k - 1]) = 2 * p[d - k]
      BY <3>2
    <3>4. f[k] = HalfLayer(f[k - 1])
      BY <1>3, <1>6, <1>7
    <3>5. DOMAIN f[k] = 1..p[d - k] /\ Len(f[k]) = p[d - k]
      BY <3>2, <3>3, <3>4, HalfLayerFacts
    <3> QED
      BY <3>1, <3>5
  <2>3. U \in SUBSET (0..d)
    OBVIOUS
  <2>4. U = 0..d
    <3> HIDE DEF U
    <3> QED
      BY <2>1, <2>2, <2>3, UpTo
  <2> QED
    BY <2>4
<1>9. \A k \in 1..d : Pairs(f[k], f[k - 1], p[d - k])
  <2> TAKE k \in 1..d
  <2>1. d - k \in 0..d /\ d - (k - 1) \in 1..d /\ (d - (k - 1)) - 1 = d - k /\ k - 1 \in 0..d
    OBVIOUS
  <2>2. p[d - (k - 1)] = 2 * p[d - k] /\ p[d - k] \in Nat
    BY <1>2, <2>1
  <2>3. DOMAIN f[k - 1] = 1..(2 * p[d - k]) /\ Len(f[k - 1]) = 2 * p[d - k]
    BY <1>8, <2>1, <2>2
  <2>4. f[k] = HalfLayer(f[k - 1])
    BY <1>3, <1>6, <1>7
  <2> QED
    BY <2>2, <2>3, <2>4, HalfLayerFacts
\* The layers below the root have more than one node.
<1>10. \A k \in 0..d : k < d => Len(f[k]) > 1
  <2> TAKE k \in 0..d
  <2> HAVE k < d
  <2>1. d - k \in 1..d /\ d - k - 1 \in 0..d
    OBVIOUS
  <2>2. p[d - k] = 2 * p[d - k - 1] /\ p[d - k - 1] \in Nat \ {0}
    BY <1>2, <2>1
  <2>3. Len(f[k]) = p[d - k]
    BY <1>8
  <2> QED
    BY <2>2, <2>3
<1>11. Min(T) = d
  <2>1. d \in T
    <3>1. d \in 0..N /\ d \in 0..d /\ d - d = 0
      BY <1>3, <1>7
    <3>2. Len(f[d]) = p[0]
      BY <1>8, <3>1
    <3>3. Len(f[d]) <= 1
      BY <1>2, <3>2
    <3> QED
      BY <3>1, <3>3 DEF T
  <2>2. T \in SUBSET Nat
    BY <1>3 DEF T
  <2>3. Min(T) \in T /\ Min(T) <= d
    BY <2>1, <2>2, MinOfSet
  <2>4. Min(T) \in 0..d /\ Len(f[Min(T)]) <= 1
    BY <1>3, <2>3 DEF T
  <2>5. CASE Min(T) < d
    <3>1. Len(f[Min(T)]) > 1
      BY <1>10, <2>4, <2>5
    <3>2. Len(f[Min(T)]) = p[d - Min(T)] /\ d - Min(T) \in 0..d
      BY <1>8, <2>4
    <3>3. p[d - Min(T)] \in Nat
      BY <1>2, <3>2
    <3> QED
      BY <2>4, <3>1, <3>2, <3>3
  <2> QED
    BY <2>4, <2>5
<1>12. Tree(f, d, p, leaves)
  BY <1>6, <1>8, <1>9 DEF Tree
<1> QED
  BY <1>1, <1>11, <1>12 DEF InOrder

\* a[k] is the index, k levels up, of the node above leaf i.
Halving(a, i, d) ==
  /\ a \in [0..d -> Nat]
  /\ a[0] = i /\ \A k \in 1..d : a[k] = a[k - 1] \div 2

\* The siblings of these nodes.
Uncles(proof, layer, a, d) ==
  proof = [k \in 1..d |-> layer[k - 1][Sibling(a[k - 1]) + 1]]

\* The proof of a leaf: at each level the sibling of the node above it.
LEMMA ProofFacts ==
  ASSUME NEW d \in Nat, NEW leaves, NEW layer, NEW i \in Nat,
         InOrder(MerkleLayers(leaves), layer, d)
  PROVE  \E a : Halving(a, i, d) /\ Uncles(ProofOf(leaves, i), layer, a, d)
<1> DEFINE layers == MerkleLayers(leaves)
           N == Len(layers)
           F == [x \in Nat \X (1..N) |-> x[1] \div 2]
           Fill(g, k) == IF k = 0 THEN i ELSE g[k - 1] \div 2
           f == CHOOSE g : g = [k \in 0..N |-> Fill(g, k)]
<1>1. ProofOf(leaves, i) = [k \in 1..(N - 1) |-> layers[k][Sibling(f[k - 1]) + 1]]
  BY DEF ProofOf
<1>2. N = d + 1 /\ \A k \in 1..(d + 1) : layers[k] = layer[k - 1]
  <2>1. d + 1 \in Nat /\ layers = [k \in 1..(d + 1) |-> layers[k]]
    BY DEF InOrder
  <2>2. \A k \in 1..(d + 1) : layers[k] = layer[k - 1]
    BY DEF InOrder
  <2> HIDE DEF layers
  <2>3. N = d + 1
    BY <2>1, FunctionIsSeq
  <2> QED
    BY <2>2, <2>3
<1> HIDE DEF layers, N
<1>3. PICK g : Iteration(g, N, Nat, i, F)
  <2>1. F \in [Nat \X (1..N) -> Nat] /\ N \in Nat
    BY <1>2
  <2> HIDE DEF F, f, Fill
  <2> QED
    BY <2>1, Iterates
<1>4. g \in [0..N -> Nat] /\ g[0] = i /\ \A k \in 1..N : g[k] = F[<<g[k - 1], k>>]
  BY <1>3 DEF Iteration
<1>5. \A k \in 1..N : g[k] = g[k - 1] \div 2
  <2> TAKE k \in 1..N
  <2>1. g[k - 1] \in Nat /\ <<g[k - 1], k>> \in Nat \X (1..N)
    <3>1. k - 1 \in 0..N
      BY <1>2
    <3>2. g[k - 1] \in Nat
      BY <1>4, <3>1
    <3> QED
      BY <3>2
  <2>2. F[<<g[k - 1], k>>] = g[k - 1] \div 2
    BY <2>1
  <2> QED
    BY <1>4, <2>2
<1>6. g = [k \in 0..N |-> Fill(g, k)]
  <2>1. g = [k \in 0..N |-> g[k]]
    BY <1>4
  <2>2. \A k \in 0..N : g[k] = Fill(g, k)
    BY <1>2, <1>4, <1>5
  <2> HIDE DEF Fill
  <2> QED
    BY <2>1, <2>2
<1>7. f = [k \in 0..N |-> Fill(f, k)]
  <2> HIDE DEF Fill
  <2> QED
    BY <1>6
<1> HIDE DEF f
<1>8. f[0] = i /\ \A k \in 1..N : f[k] = f[k - 1] \div 2
  <2>1. \A k \in 0..N : f[k] = Fill(f, k)
    <3> HIDE DEF Fill
    <3> QED
      BY <1>7
  <2> QED
    BY <1>2, <2>1
<1>9. \A k \in 0..d : f[k] \in Nat
  <2> DEFINE U == {k \in 0..d : f[k] \in Nat}
  <2>1. 0 \in U
    BY <1>8
  <2>2. \A k \in 1..d : k - 1 \in U => k \in U
    BY <1>2, <1>8
  <2>3. U \in SUBSET (0..d)
    OBVIOUS
  <2>4. U = 0..d
    <3> HIDE DEF U
    <3> QED
      BY <2>1, <2>2, <2>3, UpTo
  <2> QED
    BY <2>4
<1> DEFINE a == [k \in 0..d |-> f[k]]
<1>10. \A k \in 0..d : a[k] = f[k]
  OBVIOUS
<1>11. a \in [0..d -> Nat]
  BY <1>9
<1> HIDE DEF a
<1>12. \A k \in 1..d : k \in 1..N /\ k \in 0..d /\ k - 1 \in 0..d /\ k \in 1..(d + 1)
  BY <1>2
<1>13. Halving(a, i, d)
  <2>1. a[0] = i
    BY <1>8, <1>10
  <2>2. \A k \in 1..d : a[k] = a[k - 1] \div 2
    BY <1>8, <1>10, <1>12
  <2> QED
    BY <1>11, <2>1, <2>2 DEF Halving
<1>14. ProofOf(leaves, i) = [k \in 1..d |-> layer[k - 1][Sibling(a[k - 1]) + 1]]
  <2>1. N - 1 = d
    BY <1>2
  <2>2. \A k \in 1..d : layers[k] = layer[k - 1] /\ f[k - 1] = a[k - 1]
    BY <1>2, <1>10, <1>12
  <2> QED
    BY <1>1, <2>1, <2>2
<1> QED
  BY <1>13, <1>14 DEF Uncles

\* The node above a leaf is within its layer.
LEMMA HalvingBound ==
  ASSUME NEW d \in Nat, NEW p, Doubling(p, d),
         NEW a, NEW i \in Nat, Halving(a, i, d), i < p[d]
  PROVE  \A k \in 0..d : a[k] \in 0..(p[d - k] - 1) /\ p[d - k] \in Nat
<1>1. /\ \A k \in 0..d : p[k] \in Nat \ {0}
      /\ p[0] = 1 /\ \A k \in 1..d : p[k] = 2 * p[k - 1]
  BY DEF Doubling
<1>2. /\ \A k \in 0..d : a[k] \in Nat
      /\ a[0] = i /\ \A k \in 1..d : a[k] = a[k - 1] \div 2
  BY DEF Halving
<1> DEFINE U == {k \in 0..d : a[k] < p[d - k]}
<1>3. 0 \in U
  BY <1>2
<1>4. \A k \in 1..d : k - 1 \in U => k \in U
  <2> TAKE k \in 1..d
  <2> HAVE k - 1 \in U
  <2>1. d - k \in 0..d /\ d - (k - 1) \in 1..d /\ (d - (k - 1)) - 1 = d - k
        /\ k \in 0..d /\ k - 1 \in 0..d
    OBVIOUS
  <2>2. p[d - (k - 1)] = 2 * p[d - k] /\ p[d - k] \in Nat
    BY <1>1, <2>1
  <2>3. a[k - 1] < 2 * p[d - k] /\ a[k - 1] \in Nat
    BY <1>2, <2>1, <2>2
  <2>4. a[k - 1] \div 2 < p[d - k]
    BY <2>2, <2>3
  <2> QED
    BY <1>2, <2>1, <2>4
<1>5. U \in SUBSET (0..d)
  OBVIOUS
<1>6. U = 0..d
  <2> HIDE DEF U
  <2> QED
    BY <1>3, <1>4, <1>5, UpTo
<1> TAKE k \in 0..d
<1>7. a[k] < p[d - k] /\ d - k \in 0..d
  BY <1>6
<1> QED
  BY <1>1, <1>2, <1>7

\* A node above a block is the only one of its layer with its hash: nothing else
\* in the tree, padding included, is hashed from that block.
LEMMA NodeIsUnique ==
  ASSUME NEW d \in Nat, NEW p, Doubling(p, d), NEW n \in 1..p[d],
         NEW leaves, Padded(leaves, n, p[d]), NEW layer, Tree(layer, d, p, leaves),
         NEW i \in 0..(n - 1), NEW a, Halving(a, i, d)
  PROVE  \A k \in 0..d : OnlyOne(layer[k], a[k] + 1, p[d - k])
<1>1. /\ \A k \in 0..d : p[k] \in Nat \ {0}
      /\ p[0] = 1 /\ \A k \in 1..d : p[k] = 2 * p[k - 1]
  BY DEF Doubling
<1>2. /\ \A k \in 0..d : a[k] \in Nat
      /\ a[0] = i /\ \A k \in 1..d : a[k] = a[k - 1] \div 2
  BY DEF Halving
<1>3. /\ layer[0] = leaves
      /\ \A k \in 1..d : \A j \in 1..p[d - k] :
           layer[k][j] = <<layer[k - 1][2 * j - 1], layer[k - 1][2 * j]>>
  BY DEF Tree, Pairs
<1>4. \A k \in 0..d : a[k] \in 0..(p[d - k] - 1) /\ p[d - k] \in Nat
  <2>1. d \in 0..d
    OBVIOUS
  <2>2. i \in Nat /\ i < p[d]
    BY <1>1, <2>1
  <2> QED
    BY <2>2, HalvingBound
<1> DEFINE U == {k \in 0..d : \A j \in 1..p[d - k] :
                   layer[k][j] = layer[k][a[k] + 1] => j = a[k] + 1}
<1>5. 0 \in U
  <2>1. 0 \in 0..d /\ d - 0 = d /\ d \in 0..d /\ p[d] \in Nat
    BY <1>1
  <2>2. \A j \in 1..p[d] : layer[0][j] = layer[0][i + 1] => j = i + 1
    <3> TAKE j \in 1..p[d]
    <3> HAVE layer[0][j] = layer[0][i + 1]
    <3>1. i + 1 \in 1..p[d] /\ i + 1 <= n
      BY <2>1
    <3>2. leaves[i + 1] = <<i + 1>>
      BY <3>1 DEF BlockHash, Padded
    <3>3. leaves[j] = <<j>> \/ leaves[j] = <<0>>
      BY DEF BlockHash, Zero, Padded
    <3>4. leaves[j] = <<i + 1>>
      BY <1>3, <3>2
    <3>5. \A x, y : <<x>> = <<y>> => x = y
      OBVIOUS
    <3>6. j = i + 1 \/ 0 = i + 1
      BY <3>3, <3>4, <3>5
    <3> QED
      BY <3>6
  <2> QED
    BY <1>2, <2>1, <2>2
<1>6. \A k \in 1..d : k - 1 \in U => k \in U
  <2> TAKE k \in 1..d
  <2> HAVE k - 1 \in U
  <2>1. d - k \in 0..d /\ d - (k - 1) \in 1..d /\ (d - (k - 1)) - 1 = d - k
        /\ k \in 0..d /\ k - 1 \in 0..d
    OBVIOUS
  <2>2. p[d - (k - 1)] = 2 * p[d - k] /\ p[d - k] \in Nat
    BY <1>1, <2>1
  <2>3. a[k] = a[k - 1] \div 2 /\ a[k - 1] \in Nat
    BY <1>2, <2>1
  <2>4. a[k] \in 0..(p[d - k] - 1)
    BY <1>4, <2>1
  <2>5. \A j \in 1..(2 * p[d - k]) :
          layer[k - 1][j] = layer[k - 1][a[k - 1] + 1] => j = a[k - 1] + 1
    BY <2>2
  <2>6. ASSUME NEW j \in 1..p[d - k], layer[k][j] = layer[k][a[k] + 1]
        PROVE  j = a[k] + 1
    <3>1. layer[k][j] = <<layer[k - 1][2 * j - 1], layer[k - 1][2 * j]>>
      BY <1>3
    <3>2. a[k] + 1 \in 1..p[d - k]
      BY <2>2, <2>4
    <3>3. layer[k][a[k] + 1]
            = <<layer[k - 1][2 * (a[k] + 1) - 1], layer[k - 1][2 * (a[k] + 1)]>>
      BY <1>3, <3>2
    <3>4. /\ layer[k - 1][2 * j - 1] = layer[k - 1][2 * (a[k] + 1) - 1]
          /\ layer[k - 1][2 * j] = layer[k - 1][2 * (a[k] + 1)]
      <4>1. <<layer[k - 1][2 * j - 1], layer[k - 1][2 * j]>>
              = <<layer[k - 1][2 * (a[k] + 1) - 1], layer[k - 1][2 * (a[k] + 1)]>>
        BY <2>6, <3>1, <3>3, Zenon
      <4> QED
        BY <4>1, PairFacts, Zenon
    <3>5. 2 * j - 1 \in 1..(2 * p[d - k]) /\ 2 * j \in 1..(2 * p[d - k])
      BY <2>2
    <3>6. \/ a[k - 1] + 1 = 2 * (a[k] + 1) - 1
          \/ a[k - 1] + 1 = 2 * (a[k] + 1)
      <4>1. a[k - 1] = 2 * a[k] \/ a[k - 1] = 2 * a[k] + 1
        BY <2>3, PairFacts
      <4> QED
        BY <2>3, <2>4, <4>1
    <3>7. \/ 2 * j - 1 = 2 * (a[k] + 1) - 1
          \/ 2 * j = 2 * (a[k] + 1)
      BY <2>5, <3>4, <3>5, <3>6
    <3> QED
      BY <2>3, <2>4, <3>7
  <2> QED
    BY <2>1, <2>6
<1>7. U \in SUBSET (0..d)
  OBVIOUS
<1>8. U = 0..d
  <2> HIDE DEF U
  <2> QED
    BY <1>5, <1>6, <1>7, UpTo
<1> QED
  BY <1>8 DEF OnlyOne

\* way[k] is the node and the index after k uncles.
Climbing(way, leaf, idx, proof, d) ==
  /\ way[0] = <<leaf, idx>>
  /\ \A k \in 1..d : way[k] = Climb(way[k - 1], proof[k])

\* The loop of VerifyMerkleProof as the nodes and indices it goes through.
LEMMA ClimbFacts ==
  ASSUME NEW d \in Nat, NEW proof, Len(proof) = d, NEW root, NEW leaf, NEW idx
  PROVE  \E way :
           /\ Climbing(way, leaf, idx, proof, d)
           /\ VerifyMerkleProof(root, leaf, idx, proof) <=> way[d][1] = root
<1> DEFINE Fill(g, k) == IF k = 0 THEN <<leaf, idx>> ELSE Climb(g[k - 1], proof[k])
           f == CHOOSE g : g = [k \in 0..d |-> Fill(g, k)]
<1>1. VerifyMerkleProof(root, leaf, idx, proof) <=> f[d][1] = root
  BY DEF VerifyMerkleProof
<1> HIDE DEF f
<1>2. \A m \in 0..d : \E g : g = [k \in 0..m |-> Fill(g, k)]
  <2> DEFINE Good == {m \in 0..d : \E g : g = [k \in 0..m |-> Fill(g, k)]}
  <2>1. 0 \in Good
    <3> DEFINE g == [k \in 0..0 |-> <<leaf, idx>>]
    <3>1. g = [k \in 0..0 |-> Fill(g, k)]
      OBVIOUS
    <3>2. 0 \in 0..d
      OBVIOUS
    <3> HIDE DEF g, Fill
    <3> QED
      BY <3>1, <3>2
  <2>2. \A m \in 1..d : m - 1 \in Good => m \in Good
    <3> TAKE m \in 1..d
    <3> HAVE m - 1 \in Good
    <3>1. PICK g : g = [k \in 0..(m - 1) |-> Fill(g, k)]
      OBVIOUS
    <3> DEFINE h == [k \in 0..m |-> IF k = m THEN Fill(g, m) ELSE g[k]]
    <3>2. \A k \in 0..m : h[k] = Fill(h, k)
      <4> TAKE k \in 0..m
      <4>1. CASE k = 0
        BY <3>1, <4>1
      <4>2. CASE k # 0
        <5>1. k - 1 \in 0..m /\ k - 1 # m /\ h[k - 1] = g[k - 1]
          BY <4>2
        <5>2. Fill(h, k) = Fill(g, k)
          BY <4>2, <5>1
        <5> HIDE DEF Fill
        <5>3. h[k] = Fill(g, k)
          <6>1. CASE k = m
            BY <6>1
          <6>2. CASE k # m
            <7>1. k \in 0..(m - 1) /\ h[k] = g[k]
              BY <6>2
            <7>2. g[k] = Fill(g, k)
              BY <3>1, <7>1
            <7> QED
              BY <7>1, <7>2
          <6> QED
            BY <6>1, <6>2
        <5> QED
          BY <5>2, <5>3
      <4> QED
        BY <4>1, <4>2
    <3>3. h = [k \in 0..m |-> h[k]] /\ m \in 0..d
      OBVIOUS
    <3> HIDE DEF h, Fill
    <3>4. h = [k \in 0..m |-> Fill(h, k)]
      BY <3>2, <3>3
    <3> QED
      BY <3>3, <3>4
  <2>3. Good \in SUBSET (0..d)
    OBVIOUS
  <2>4. Good = 0..d
    <3> HIDE DEF Good
    <3> QED
      BY <2>1, <2>2, <2>3, UpTo
  <2> HIDE DEF Fill
  <2> QED
    BY <2>4
<1>3. f = [k \in 0..d |-> Fill(f, k)]
  <2>1. d \in 0..d
    OBVIOUS
  <2> HIDE DEF Fill
  <2>2. \E g : g = [k \in 0..d |-> Fill(g, k)]
    BY <1>2, <2>1
  <2> QED
    BY <2>2 DEF f
<1>4. f[0] = <<leaf, idx>> /\ \A k \in 1..d : f[k] = Climb(f[k - 1], proof[k])
  <2>1. \A k \in 0..d : f[k] = Fill(f, k)
    <3> HIDE DEF Fill
    <3> QED
      BY <1>3
  <2> QED
    BY <2>1
<1> QED
  BY <1>1, <1>4 DEF Climbing

\* Whether the node with an index is the one above block i, before and after
\* going up with the sibling of that one.
Below(low, a, node, idx) == <<node, idx>> = <<low[a + 1], a>>
AfterClimb(low, high, a, node, idx) ==
  Climb(<<node, idx>>, low[Sibling(a) + 1]) = <<high[(a \div 2) + 1], a \div 2>>

\* Going up with a sibling that was taken from the tree leads from the node above
\* block i to the next one, and leads there from no other node and no other index.
LEMMA ClimbIsExact ==
  ASSUME NEW m \in Nat, NEW low, NEW high, Pairs(high, low, m),
         NEW a \in Nat, a < 2 * m, OnlyOne(low, a + 1, 2 * m),
         NEW node, NEW idx \in Nat
  PROVE  AfterClimb(low, high, a, node, idx) <=> Below(low, a, node, idx)
<1> DEFINE b == a \div 2
           s == low[Sibling(a) + 1]
<1>1. b \in Nat /\ b + 1 \in 1..m
  OBVIOUS
<1>2. high[b + 1] = <<low[2 * b + 1], low[2 * b + 2]>>
  <2>1. 2 * (b + 1) - 1 = 2 * b + 1 /\ 2 * (b + 1) = 2 * b + 2
    BY <1>1
  <2>2. high[b + 1] = <<low[2 * (b + 1) - 1], low[2 * (b + 1)]>>
    BY <1>1 DEF Pairs
  <2> QED
    BY <2>1, <2>2
<1>3. Climb(<<node, idx>>, s)
        = <<IF idx % 2 = 0 THEN <<node, s>> ELSE <<s, node>>, idx \div 2>>
  BY DEF Climb, Above, hashPair
<1>4. \/ a % 2 = 0 /\ a = 2 * b /\ Sibling(a) = a + 1
      \/ a % 2 # 0 /\ a = 2 * b + 1 /\ Sibling(a) = a - 1
  BY PairFacts
<1>5. \/ idx % 2 = 0 /\ idx = 2 * (idx \div 2)
      \/ idx % 2 # 0 /\ idx = 2 * (idx \div 2) + 1
  BY PairFacts
<1>6. low[2 * b + 1] = low[2 * b + 2] => FALSE
  <2>1. 2 * b + 1 \in 1..(2 * m) /\ 2 * b + 2 \in 1..(2 * m)
    BY <1>1
  <2>2. a + 1 = 2 * b + 1 \/ a + 1 = 2 * b + 2
    BY <1>4
  <2> QED
    BY <1>1, <2>1, <2>2 DEF OnlyOne
<1>7. \/ a % 2 = 0 /\ a + 1 = 2 * b + 1 /\ s = low[2 * b + 2]
      \/ a % 2 # 0 /\ a + 1 = 2 * b + 2 /\ s = low[2 * b + 1]
  <2>1. CASE a % 2 = 0
    <3>1. a = 2 * b /\ Sibling(a) + 1 = 2 * b + 2 /\ a + 1 = 2 * b + 1
      BY <1>1, <1>4, <2>1
    <3> QED
      BY <2>1, <3>1
  <2>2. CASE a % 2 # 0
    <3>1. a = 2 * b + 1 /\ Sibling(a) + 1 = 2 * b + 1 /\ a + 1 = 2 * b + 2
      BY <1>1, <1>4, <2>2
    <3> QED
      BY <2>2, <3>1
  <2> QED
    BY <2>1, <2>2
<1> HIDE DEF s, b
<1>8. ASSUME <<node, idx>> = <<low[a + 1], a>>
      PROVE  Climb(<<node, idx>>, s) = <<high[b + 1], b>>
  <2>1. node = low[a + 1] /\ idx = a
    BY <1>8, PairFacts, Zenon
  <2>2. idx \div 2 = b
    BY <2>1 DEF b
  <2>3. (IF idx % 2 = 0 THEN <<node, s>> ELSE <<s, node>>)
          = <<low[2 * b + 1], low[2 * b + 2]>>
    <3>1. CASE a % 2 = 0
      BY <1>7, <2>1, <3>1
    <3>2. CASE a % 2 # 0
      BY <1>7, <2>1, <3>2
    <3> QED
      BY <3>1, <3>2
  <2> QED
    BY <1>2, <1>3, <2>2, <2>3, Zenon
<1>9. ASSUME Climb(<<node, idx>>, s) = <<high[b + 1], b>>
      PROVE  <<node, idx>> = <<low[a + 1], a>>
  <2>1. /\ (IF idx % 2 = 0 THEN <<node, s>> ELSE <<s, node>>)
             = <<low[2 * b + 1], low[2 * b + 2]>>
        /\ idx \div 2 = b
    <3> DEFINE w == IF idx % 2 = 0 THEN <<node, s>> ELSE <<s, node>>
    <3>1. <<w, idx \div 2>> = <<high[b + 1], b>>
      BY <1>3, <1>9
    <3> HIDE DEF w
    <3>2. w = high[b + 1] /\ idx \div 2 = b
      BY <3>1, PairFacts, Zenon
    <3> QED
      BY <1>2, <3>2 DEF w
  <2>2. CASE idx % 2 = 0
    <3>1. node = low[2 * b + 1] /\ s = low[2 * b + 2]
      BY <2>1, <2>2, PairFacts, Zenon
    <3>2. a % 2 = 0 /\ a + 1 = 2 * b + 1
      BY <1>6, <1>7, <3>1, Zenon
    <3>3. idx = a
      BY <1>1, <1>5, <2>1, <2>2, <3>2
    <3> QED
      BY <3>1, <3>2, <3>3
  <2>3. CASE idx % 2 # 0
    <3>1. s = low[2 * b + 1] /\ node = low[2 * b + 2]
      BY <2>1, <2>3, PairFacts, Zenon
    <3>2. a % 2 # 0 /\ a + 1 = 2 * b + 2
      BY <1>6, <1>7, <3>1, Zenon
    <3>3. idx = a
      BY <1>1, <1>5, <2>1, <2>3, <3>2
    <3> QED
      BY <3>1, <3>2, <3>3
  <2> QED
    BY <2>2, <2>3
<1> QED
  BY <1>8, <1>9 DEF s, b, AfterClimb, Below

\* The uncle hashes of a block prove that block at its place and nothing else,
\* for a file of any size.
LEMMA ProofIsExact ==
  ASSUME NEW n \in Nat, NEW i \in 0..(Blocks(n) - 1),
         NEW j \in 0..(Len(MerkleLeaves(n)) - 1), NEW leaf
  PROVE  VerifyMerkleProof(merkleRoot(MerkleLeaves(n)), leaf, j,
                           ProofOf(MerkleLeaves(n), i))
           <=> j = i /\ leaf = MerkleLeaves(n)[i + 1]
<1> DEFINE leaves == MerkleLeaves(n)
           root == merkleRoot(leaves)
           proof == ProofOf(leaves, i)
           b == Blocks(n)
<1> PICK d \in Nat :
      \E p : Doubling(p, d) /\ b \in 1..p[d] /\ Padded(leaves, b, p[d])
  BY LeavesFacts
<1>1. PICK p : Doubling(p, d) /\ b \in 1..p[d] /\ Padded(leaves, b, p[d])
  OBVIOUS
<1> HIDE DEF leaves, b
<1>2. /\ \A k \in 0..d : p[k] \in Nat \ {0}
      /\ p[0] = 1 /\ \A k \in 1..d : p[k] = 2 * p[k - 1]
  BY <1>1 DEF Doubling
<1>3. d \in 0..d /\ p[d] \in Nat
  BY <1>2
<1>4. DOMAIN leaves = 1..p[d] /\ Len(leaves) = p[d]
  <2>1. leaves = [m \in 1..p[d] |-> leaves[m]]
    BY <1>1 DEF Padded
  <2> QED
    BY <1>3, <2>1, FunctionIsSeq
<1>5. PICK layer : Tree(layer, d, p, leaves) /\ InOrder(MerkleLayers(leaves), layer, d)
  BY <1>1, <1>4, LayersFacts
<1>6. i \in 0..(b - 1) /\ b \in Nat /\ i \in Nat /\ i < p[d] /\ j \in Nat /\ j < p[d]
  <2>1. i \in 0..(b - 1) /\ j \in 0..(Len(leaves) - 1)
    BY DEF b, leaves
  <2> QED
    BY <1>1, <1>3, <1>4, <2>1
<1>7. PICK a : Halving(a, i, d) /\ Uncles(proof, layer, a, d)
  BY <1>5, <1>6, ProofFacts
<1> HIDE DEF proof
<1>8. Len(proof) = d /\ \A k \in 1..d : proof[k] = layer[k - 1][Sibling(a[k - 1]) + 1]
  <2>1. proof = [k \in 1..d |-> proof[k]]
    BY <1>7 DEF Uncles
  <2>2. \A k \in 1..d : proof[k] = layer[k - 1][Sibling(a[k - 1]) + 1]
    BY <1>7 DEF Uncles
  <2> QED
    BY <2>1, <2>2, FunctionIsSeq
<1>9. root = layer[d][1]
  <2> DEFINE layers == MerkleLayers(leaves)
  <2>1. d + 1 \in Nat /\ layers = [k \in 1..(d + 1) |-> layers[k]]
    BY <1>5 DEF InOrder
  <2>2. d + 1 \in 1..(d + 1) /\ (d + 1) - 1 = d
    OBVIOUS
  <2>3. layers[d + 1] = layer[d]
    BY <1>5, <2>2 DEF InOrder
  <2> HIDE DEF layers
  <2>4. Len(layers) = d + 1
    BY <2>1, FunctionIsSeq
  <2> QED
    BY <2>3, <2>4 DEF merkleRoot, Last, layers
<1> HIDE DEF root
<1>10. PICK way : /\ Climbing(way, leaf, j, proof, d)
                  /\ VerifyMerkleProof(root, leaf, j, proof) <=> way[d][1] = root
  BY <1>8, ClimbFacts
\* The indices halve, and so end at the root's.
<1> DEFINE J == [k \in 0..d |-> way[k][2]]
<1>11. \A k \in 0..d : way[k] = <<way[k][1], way[k][2]>> /\ way[k][2] \in Nat
  <2> DEFINE U == {k \in 0..d : way[k] = <<way[k][1], way[k][2]>> /\ way[k][2] \in Nat}
  <2>1. 0 \in U
    BY <1>6, <1>10 DEF Climbing
  <2>2. \A k \in 1..d : k - 1 \in U => k \in U
    <3> TAKE k \in 1..d
    <3> HAVE k - 1 \in U
    <3>1. PICK w : way[k] = <<w, way[k - 1][2] \div 2>>
      BY <1>10 DEF Climb, Climbing
    <3>2. way[k - 1][2] \div 2 \in Nat
      OBVIOUS
    <3>3. way[k][1] = w /\ way[k][2] = way[k - 1][2] \div 2
      BY <3>1
    <3> QED
      BY <3>1, <3>2, <3>3
  <2>3. U \in SUBSET (0..d)
    OBVIOUS
  <2>4. U = 0..d
    <3> HIDE DEF U
    <3> QED
      BY <2>1, <2>2, <2>3, UpTo
  <2> QED
    BY <2>4
<1>12. Halving(J, j, d)
  <2>1. J \in [0..d -> Nat]
    BY <1>11
  <2>2. J[0] = j
    BY <1>10 DEF Climbing
  <2>3. \A k \in 1..d : J[k] = J[k - 1] \div 2
    <3> TAKE k \in 1..d
    <3>1. k \in 0..d /\ k - 1 \in 0..d
      OBVIOUS
    <3>2. way[k][2] = way[k - 1][2] \div 2
      BY <1>10 DEF Climb, Climbing
    <3> QED
      BY <3>1, <3>2
  <2> QED
    BY <2>1, <2>2, <2>3 DEF Halving
<1>13. way[d][2] = 0 /\ a[d] = 0
  <2>1. J[d] \in 0..(p[d - d] - 1) /\ a[d] \in 0..(p[d - d] - 1)
    <3> HIDE DEF J
    <3> QED
      BY <1>1, <1>3, <1>6, <1>7, <1>12, HalvingBound
  <2>2. J[d] = way[d][2] /\ d - d = 0
    BY <1>3
  <2> QED
    BY <1>2, <2>1, <2>2
<1>14. \A k \in 0..d : OnlyOne(layer[k], a[k] + 1, p[d - k])
  BY <1>1, <1>5, <1>6, <1>7, NodeIsUnique
<1> DEFINE On(k) == way[k] = <<layer[k][a[k] + 1], a[k]>>
           U == {k \in 0..d : On(k)}
\* A level up and a level down.
<1>15. \A k \in 1..d : On(k) <=> On(k - 1)
  <2> TAKE k \in 1..d
  <2>1. d - k \in 0..d /\ d - (k - 1) \in 1..d /\ (d - (k - 1)) - 1 = d - k
        /\ k \in 0..d /\ k - 1 \in 0..d
    OBVIOUS
  <2> DEFINE m == p[d - k]
             low == layer[k - 1]
             high == layer[k]
             x == a[k - 1]
             node == way[k - 1][1]
             idx == way[k - 1][2]
  <2>2. m \in Nat /\ p[d - (k - 1)] = 2 * m
    BY <1>2, <2>1
  <2>3. Pairs(high, low, m)
    BY <1>5 DEF Tree
  <2>4. x \in Nat /\ x < 2 * m /\ a[k] = x \div 2
    <3>1. \A q \in 0..d : a[q] \in 0..(p[d - q] - 1) /\ p[d - q] \in Nat
      BY <1>1, <1>6, <1>7, HalvingBound
    <3>2. x \in 0..(p[d - (k - 1)] - 1)
      BY <2>1, <3>1
    <3>3. a[k] = x \div 2
      BY <1>7 DEF Halving
    <3> HIDE DEF x, m
    <3> QED
      BY <2>2, <3>2, <3>3
  <2>5. OnlyOne(low, x + 1, 2 * m)
    BY <1>14, <2>1, <2>2
  <2>6. idx \in Nat /\ way[k - 1] = <<node, idx>>
    BY <1>11, <2>1
  <2>7. way[k] = Climb(<<node, idx>>, low[Sibling(x) + 1])
    BY <1>8, <1>10, <2>6 DEF Climbing
  <2> HIDE DEF m, low, high, x, node, idx
  <2>8. AfterClimb(low, high, x, node, idx) <=> Below(low, x, node, idx)
    BY <2>2, <2>3, <2>4, <2>5, <2>6, ClimbIsExact
  <2>9. On(k) <=> AfterClimb(low, high, x, node, idx)
    BY <2>4, <2>7 DEF high, AfterClimb
  <2>10. On(k - 1) <=> Below(low, x, node, idx)
    BY <2>6 DEF low, x, Below
  <2> HIDE DEF On
  <2> QED
    BY <2>8, <2>9, <2>10
<1>16. U \in SUBSET (0..d)
  OBVIOUS
<1>17. VerifyMerkleProof(root, leaf, j, proof) <=> On(d)
  <2>1. way[d] = <<way[d][1], 0>> /\ root = layer[d][a[d] + 1]
    BY <1>3, <1>9, <1>11, <1>13
  <2>2. On(d) <=> <<way[d][1], 0>> = <<root, 0>>
    BY <1>13, <2>1
  <2>3. <<way[d][1], 0>> = <<root, 0>> <=> way[d][1] = root
    BY PairFacts
  <2> QED
    BY <1>10, <2>2, <2>3
<1>18. On(0) <=> j = i /\ leaf = leaves[i + 1]
  <2>1. a[0] = i /\ layer[0] = leaves
    BY <1>5, <1>7 DEF Halving, Tree
  <2>2. On(0) <=> <<leaf, j>> = <<leaves[i + 1], i>>
    BY <1>10, <2>1 DEF Climbing
  <2> QED
    BY <2>2, PairFacts
<1>19. On(0) <=> On(d)
  <2>1. 0 \in 0..d /\ \A k \in 1..d : k \in 0..d /\ k - 1 \in 0..d
    OBVIOUS
  <2> HIDE DEF On
  <2>2. ASSUME On(0) PROVE On(d)
    <3>1. 0 \in U /\ \A k \in 1..d : k - 1 \in U => k \in U
      BY <1>15, <2>1, <2>2
    <3>2. U = 0..d
      <4> HIDE DEF U
      <4> QED
        BY <1>16, <3>1, UpTo
    <3> QED
      BY <1>3, <3>2
  <2>3. ASSUME On(d) PROVE On(0)
    <3>1. d \in U /\ \A k \in 1..d : k \in U => k - 1 \in U
      BY <1>3, <1>15, <2>1, <2>3
    <3>2. U = 0..d
      <4> HIDE DEF U
      <4> QED
        BY <1>16, <3>1, DownTo
    <3> QED
      BY <2>1, <3>2
  <2> QED
    BY <2>2, <2>3
<1> HIDE DEF On
<1>20. VerifyMerkleProof(root, leaf, j, proof) <=> j = i /\ leaf = leaves[i + 1]
  BY <1>17, <1>18, <1>19
<1> QED
  BY <1>20 DEF root, proof, leaves

\* torrent/merkle.go: for any number of blocks, the uncle hashes that the layers
\* give for a block verify that block at its place, and no other block and no
\* other place.
THEOREM ProofsExact == MerkleSpec => []ProofsAreExact
<1> DEFINE Inv == blocks \in 0..(MaxBlocks + 1)
<1>1. MerkleInit => Inv
  BY MerkleAssumption DEF MerkleInit
<1>2. Inv /\ [MerkleNext]_merkleVars => Inv'
  BY MerkleAssumption DEF MerkleNext, BuildTree, merkleVars
<1>3. Inv => ProofsAreExact
  <2> SUFFICES ASSUME Inv, blocks <= MaxBlocks,
                      NEW i \in 0..(Blocks(blocks) - 1),
                      NEW j \in 0..(Len(MerkleLeaves(blocks)) - 1),
                      NEW leaf \in Range(MerkleLeaves(blocks))
               PROVE  VerifyMerkleProof(merkleRoot(MerkleLeaves(blocks)), leaf, j,
                                        ProofOf(MerkleLeaves(blocks), i))
                        <=> j = i /\ leaf = MerkleLeaves(blocks)[i + 1]
    BY DEF ProofsAreExact, Blocks
  <2>1. blocks \in Nat
    BY MerkleAssumption
  <2> QED
    BY <2>1, ProofIsExact
<1> QED
  BY <1>1, <1>2, <1>3, PTL DEF MerkleSpec

-----------------------------------------------------------------------------
(* Torrent files: what is hashed and what is read back. *)

\* Rounding up.
LEMMA CeilFacts ==
  ASSUME NEW q \in Nat, NEW r \in Nat, NEW d \in Nat \ {0}, r < d
  PROVE  Ceil(q * d + r, d) = IF r = 0 THEN q ELSE q + 1
<1> DEFINE n == q * d + r
           c == (n + d - 1) \div d
<1>0. q * d \in Nat
  OBVIOUS
<1>1. c \in Nat /\ c * d \in Nat /\ c * d <= n + d - 1 /\ n + d - 1 < c * d + d
  <2>1. n + d - 1 \in Nat
    BY <1>0
  <2> HIDE DEF n
  <2> QED
    BY <2>1, DivFacts
<1> DEFINE x == IF r = 0 THEN q ELSE q + 1
<1>2. x * d <= n + d - 1 /\ n + d - 1 < x * d + d /\ x \in Nat /\ x * d \in Nat
  <2>1. (q + 1) * d = q * d + d
    OBVIOUS
  <2> QED
    BY <1>0, <2>1
<1> HIDE DEF n, x
<1>3. ASSUME c < x PROVE FALSE
  <2>1. (c + 1) * d <= x * d /\ (c + 1) * d = c * d + d
    <3> HIDE DEF c
    <3> QED
      BY <1>1, <1>2, <1>3, TimesMonotone
  <2> QED
    BY <1>1, <1>2, <2>1 DEF n
<1>4. ASSUME x < c PROVE FALSE
  <2>1. (x + 1) * d <= c * d /\ (x + 1) * d = x * d + d
    <3> HIDE DEF c
    <3> QED
      BY <1>1, <1>2, <1>4, TimesMonotone
  <2> QED
    BY <1>1, <1>2, <2>1 DEF n
<1>5. c = x
  <2> HIDE DEF c
  <2> QED
    BY <1>1, <1>2, <1>3, <1>4
<1> QED
  BY <1>5 DEF Ceil, n, x

\* The files that are kept are a list of files again.
LEMMA KeptFacts ==
  ASSUME NEW C, NEW files \in Seq(C)
  PROVE  KeptFiles(files) \in Seq(C)
<1> DEFINE N == Len(files)
           V == Seq(C)
           Next1(s, k) == IF files[k] = <<>> THEN s ELSE Append(s, files[k])
           F == [x \in V \X (1..N) |-> Next1(x[1], x[2])]
           Fill(g, k) == IF k = 0 THEN <<>> ELSE Next1(g[k - 1], k)
           f == CHOOSE g : g = [k \in 0..N |-> Fill(g, k)]
<1>1. KeptFiles(files) = f[N]
  BY DEF KeptFiles
<1>2. N \in Nat /\ \A k \in 1..N : files[k] \in C
  BY MembersOfSeq
<1>3. <<>> \in V /\ \A s \in V, k \in 1..N : Next1(s, k) \in V
  BY <1>2, AppendProperties
<1> HIDE DEF N, Next1, f
<1>4. PICK g : Iteration(g, N, V, <<>>, F)
  <2>1. F \in [V \X (1..N) -> V] /\ <<>> \in V
    BY <1>3
  <2> HIDE DEF F, V, Fill
  <2> QED
    BY <1>2, <2>1, Iterates
<1>5. g \in [0..N -> V] /\ g[0] = <<>> /\ \A k \in 1..N : g[k] = F[<<g[k - 1], k>>]
  BY <1>4 DEF Iteration
<1>6. \A k \in 1..N : g[k] = Next1(g[k - 1], k)
  <2> TAKE k \in 1..N
  <2>1. g[k - 1] \in V /\ <<g[k - 1], k>> \in V \X (1..N)
    BY <1>2, <1>5
  <2> HIDE DEF V
  <2>2. F[<<g[k - 1], k>>] = Next1(g[k - 1], k)
    BY <2>1
  <2> QED
    BY <1>5, <2>2
<1> HIDE DEF V, F
<1>7. g = [k \in 0..N |-> Fill(g, k)]
  <2>1. g = [k \in 0..N |-> g[k]]
    BY <1>5
  <2>2. \A k \in 0..N : g[k] = Fill(g, k)
    BY <1>2, <1>5, <1>6
  <2> HIDE DEF Fill
  <2> QED
    BY <2>1, <2>2
<1>8. f = [k \in 0..N |-> Fill(f, k)]
  <2> HIDE DEF Fill
  <2> QED
    BY <1>7 DEF f
<1>9. f[0] = <<>> /\ \A k \in 1..N : f[k] = Next1(f[k - 1], k)
  <2>1. \A k \in 0..N : f[k] = Fill(f, k)
    <3> HIDE DEF Fill
    <3> QED
      BY <1>8
  <2>2. f[0] = <<>>
    BY <1>2, <2>1
  <2>3. \A k \in 1..N : f[k] = Next1(f[k - 1], k)
    <3> TAKE k \in 1..N
    <3>1. k \in 0..N /\ k # 0
      BY <1>2
    <3> QED
      BY <2>1, <3>1
  <2> QED
    BY <2>2, <2>3
<1>10. \A k \in 0..N : f[k] \in V
  <2> DEFINE U == {k \in 0..N : f[k] \in V}
  <2>1. 0 \in U
    BY <1>2, <1>3, <1>9
  <2>2. \A k \in 1..N : k - 1 \in U => k \in U
    BY <1>2, <1>3, <1>9
  <2>3. U \in SUBSET (0..N)
    OBVIOUS
  <2>4. U = 0..N
    <3> HIDE DEF U
    <3> QED
      BY <1>2, <2>1, <2>2, <2>3, UpTo
  <2> QED
    BY <2>4
<1> QED
  BY <1>1, <1>2, <1>10 DEF V

\* Each file starts where the one before it ends.
LEMMA OffsetFacts ==
  ASSUME layout \in Seq(Nat)
  PROVE  /\ Offset(1) = 0 /\ \A f \in 1..(Len(layout) + 1) : Offset(f) \in Nat
         /\ \A f \in 1..Len(layout) : Offset(f + 1) = Offset(f) + layout[f]
<1> DEFINE N == Len(layout)
           F == [x \in Nat \X (1..N) |-> x[1] + layout[x[2]]]
           Fill(g, k) == IF k = 0 THEN 0 ELSE g[k - 1] + layout[k]
           f == CHOOSE g : g = [k \in 0..N |-> Fill(g, k)]
<1>1. \A k : Offset(k) = f[k - 1]
  BY DEF Offset
<1>2. N \in Nat /\ \A k \in 1..N : layout[k] \in Nat
  BY MembersOfSeq
<1> HIDE DEF N, f
<1>3. PICK g : Iteration(g, N, Nat, 0, F)
  <2>1. F \in [Nat \X (1..N) -> Nat]
    BY <1>2
  <2> HIDE DEF F, Fill
  <2> QED
    BY <1>2, <2>1, Iterates
<1>4. g \in [0..N -> Nat] /\ g[0] = 0 /\ \A k \in 1..N : g[k] = F[<<g[k - 1], k>>]
  BY <1>3 DEF Iteration
<1>5. \A k \in 1..N : g[k] = g[k - 1] + layout[k]
  <2> TAKE k \in 1..N
  <2>1. g[k - 1] \in Nat /\ <<g[k - 1], k>> \in Nat \X (1..N)
    BY <1>2, <1>4
  <2>2. F[<<g[k - 1], k>>] = g[k - 1] + layout[k]
    BY <2>1
  <2> QED
    BY <1>4, <2>2
<1>6. g = [k \in 0..N |-> Fill(g, k)]
  <2>1. g = [k \in 0..N |-> g[k]]
    BY <1>4
  <2>2. \A k \in 0..N : g[k] = Fill(g, k)
    BY <1>2, <1>4, <1>5
  <2> HIDE DEF Fill
  <2> QED
    BY <2>1, <2>2
<1>7. f = [k \in 0..N |-> Fill(f, k)]
  <2> HIDE DEF Fill
  <2> QED
    BY <1>6 DEF f
<1>8. f[0] = 0 /\ \A k \in 1..N : f[k] = f[k - 1] + layout[k]
  <2>1. \A k \in 0..N : f[k] = Fill(f, k)
    <3> HIDE DEF Fill
    <3> QED
      BY <1>7
  <2> QED
    BY <1>2, <2>1
<1>9. \A k \in 0..N : f[k] \in Nat
  <2> DEFINE U == {k \in 0..N : f[k] \in Nat}
  <2>1. 0 \in U
    BY <1>2, <1>8
  <2>2. \A k \in 1..N : k - 1 \in U => k \in U
    BY <1>2, <1>8
  <2>3. U \in SUBSET (0..N)
    OBVIOUS
  <2>4. U = 0..N
    <3> HIDE DEF U
    <3> QED
      BY <1>2, <2>1, <2>2, <2>3, UpTo
  <2> QED
    BY <2>4
<1>10. Offset(1) = 0
  BY <1>1, <1>8
<1>11. \A k \in 1..(N + 1) : Offset(k) \in Nat
  BY <1>1, <1>2, <1>9
<1>12. \A k \in 1..N : Offset(k + 1) = Offset(k) + layout[k]
  <2> TAKE k \in 1..N
  <2>1. (k + 1) - 1 = k
    BY <1>2
  <2>2. Offset(k + 1) = f[k] /\ Offset(k) = f[k - 1]
    BY <1>1, <2>1
  <2> QED
    BY <1>8, <2>2
<1> QED
  BY <1>10, <1>11, <1>12 DEF N

\* No file ends after the total length.
LEMMA OffsetBound ==
  ASSUME layout \in Seq(Nat)
  PROVE  \A f \in 1..(Len(layout) + 1) : Offset(f) <= TotalLength
<1> DEFINE N == Len(layout)
           U == {k \in 0..N : Offset(k + 1) <= TotalLength}
<1>1. N \in Nat /\ \A k \in 1..N : layout[k] \in Nat
  BY MembersOfSeq
<1>2. /\ \A f \in 1..(N + 1) : Offset(f) \in Nat
      /\ \A f \in 1..N : Offset(f + 1) = Offset(f) + layout[f]
  BY OffsetFacts
<1> HIDE DEF N
<1>3. N \in U
  <2>1. Offset(N + 1) = TotalLength
    BY DEF TotalLength, N
  <2>2. N + 1 \in 1..(N + 1) /\ N \in 0..N
    BY <1>1
  <2> QED
    BY <1>2, <2>1, <2>2
<1>4. \A k \in 1..N : k \in U => k - 1 \in U
  <2> TAKE k \in 1..N
  <2> HAVE k \in U
  <2>1. k \in 1..(N + 1) /\ k + 1 \in 1..(N + 1) /\ (k - 1) + 1 = k /\ k - 1 \in 0..N
    BY <1>1
  <2>2. Offset(k) \in Nat /\ layout[k] \in Nat /\ Offset(k + 1) = Offset(k) + layout[k]
    BY <1>1, <1>2, <2>1
  <2>3. TotalLength \in Nat
    <3>1. N + 1 \in 1..(N + 1)
      BY <1>1
    <3> QED
      BY <1>2, <3>1 DEF TotalLength, N
  <2>4. Offset(k) <= TotalLength
    BY <2>2, <2>3
  <2> QED
    BY <2>1, <2>4
<1>5. U \in SUBSET (0..N)
  OBVIOUS
<1>6. U = 0..N
  <2> HIDE DEF U
  <2> QED
    BY <1>1, <1>3, <1>4, <1>5, DownTo
<1>7. \A f \in 1..(N + 1) : Offset(f) <= TotalLength
  <2> TAKE f \in 1..(N + 1)
  <2>1. f - 1 \in U /\ (f - 1) + 1 = f
    <3>1. f - 1 \in 0..N /\ (f - 1) + 1 = f
      BY <1>1
    <3> QED
      BY <1>6, <3>1
  <2>2. Offset((f - 1) + 1) <= TotalLength
    BY <2>1
  <2> QED
    BY <2>1, <2>2
<1> QED
  BY <1>7 DEF N

\* What the files one after the other hold, byte by byte.
LEMMA JoinedFacts ==
  ASSUME layout \in Seq(Nat), NEW B, NEW files, Len(files) = Len(layout),
         \A f \in 1..Len(layout) : files[f] \in Seq(B) /\ Len(files[f]) = layout[f]
  PROVE  /\ Joined(files) \in Seq(B) /\ Len(Joined(files)) = TotalLength
         /\ \A f \in 1..Len(layout) : \A k \in 1..layout[f] :
              Joined(files)[Offset(f) + k] = files[f][k]
<1> DEFINE N == Len(layout)
           V == Seq(B)
           O(k) == files[k]
           F == [x \in V \X (1..N) |-> x[1] \o O(x[2])]
           Fill(g, k) == IF k = 0 THEN <<>> ELSE g[k - 1] \o O(k)
           f == CHOOSE g : g = [k \in 0..N |-> Fill(g, k)]
<1>1. Joined(files) = f[N]
  BY DEF Joined
<1>2. N \in Nat /\ \A k \in 1..N : layout[k] \in Nat
  BY MembersOfSeq
<1>3. \A k \in 1..N : O(k) \in V /\ Len(O(k)) = layout[k]
  OBVIOUS
<1> HIDE DEF N, f, O
<1>4. <<>> \in V /\ \A s \in V, k \in 1..N : s \o O(k) \in V
  BY <1>3, ConcatProperties
<1>5. PICK g : Iteration(g, N, V, <<>>, F)
  <2>1. F \in [V \X (1..N) -> V]
    BY <1>4
  <2> HIDE DEF F, V, Fill
  <2> QED
    BY <1>2, <1>4, <2>1, Iterates
<1>6. g \in [0..N -> V] /\ g[0] = <<>> /\ \A k \in 1..N : g[k] = F[<<g[k - 1], k>>]
  BY <1>5 DEF Iteration
<1>7. \A k \in 1..N : g[k] = g[k - 1] \o O(k)
  <2> TAKE k \in 1..N
  <2>1. g[k - 1] \in V /\ <<g[k - 1], k>> \in V \X (1..N)
    BY <1>2, <1>6
  <2> HIDE DEF V
  <2>2. F[<<g[k - 1], k>>] = g[k - 1] \o O(k)
    BY <2>1
  <2> QED
    BY <1>6, <2>2
<1> HIDE DEF V, F
<1>8. g = [k \in 0..N |-> Fill(g, k)]
  <2>1. g = [k \in 0..N |-> g[k]]
    BY <1>6
  <2>2. \A k \in 0..N : g[k] = Fill(g, k)
    <3> TAKE k \in 0..N
    <3>1. CASE k = 0
      BY <1>6, <3>1
    <3>2. CASE k # 0
      <4>1. k \in 1..N
        BY <1>2, <3>2
      <4> QED
        BY <1>7, <3>2, <4>1
    <3> QED
      BY <3>1, <3>2
  <2> HIDE DEF Fill
  <2> QED
    BY <2>1, <2>2
<1>9. f = [k \in 0..N |-> Fill(f, k)]
  <2> HIDE DEF Fill
  <2> QED
    BY <1>8 DEF f
<1>10. f[0] = <<>> /\ \A k \in 1..N : f[k] = f[k - 1] \o O(k)
  <2>1. \A k \in 0..N : f[k] = Fill(f, k)
    <3> HIDE DEF Fill
    <3> QED
      BY <1>9
  <2>2. f[0] = <<>>
    BY <1>2, <2>1
  <2>3. \A k \in 1..N : f[k] = f[k - 1] \o O(k)
    <3> TAKE k \in 1..N
    <3>1. k \in 0..N /\ k # 0
      BY <1>2
    <3>2. f[k] = Fill(f, k)
      BY <2>1, <3>1
    <3> QED
      BY <3>1, <3>2
  <2> QED
    BY <2>2, <2>3
<1>11. /\ Offset(1) = 0 /\ \A k \in 1..(N + 1) : Offset(k) \in Nat
       /\ \A k \in 1..N : Offset(k + 1) = Offset(k) + layout[k]
  BY OffsetFacts DEF N
<1> DEFINE Placed(k) == \A h \in 1..k : \A i \in 1..layout[h] :
                          /\ Offset(h) + i \in 1..Offset(k + 1)
                          /\ f[k][Offset(h) + i] = O(h)[i]
           U == {k \in 0..N : f[k] \in V /\ Len(f[k]) = Offset(k + 1) /\ Placed(k)}
<1>12. 0 \in U
  <2>1. Len(<<>>) = 0 /\ 0 \in 0..N /\ 1..0 = {}
    BY <1>2
  <2> QED
    BY <1>4, <1>10, <1>11, <2>1
<1>13. \A k \in 1..N : k - 1 \in U => k \in U
  <2> TAKE k \in 1..N
  <2> HAVE k - 1 \in U
  <2>1. k \in 0..N /\ k \in 1..(N + 1) /\ (k - 1) + 1 = k /\ k \in Nat
    BY <1>2
  <2> DEFINE s == f[k - 1]
             o == O(k)
             l == layout[k]
             p == Offset(k)
  <2>2. s \in V /\ Len(s) = p /\ p \in Nat /\ l \in Nat /\ Offset(k + 1) = p + l
    BY <1>2, <1>11, <2>1
  <2>3. o \in V /\ Len(o) = l
    BY <1>3
  <2>4. f[k] = s \o o
    BY <1>10
  <2>5. \A h \in 1..(k - 1) : \A i \in 1..layout[h] :
          Offset(h) + i \in 1..p /\ s[Offset(h) + i] = O(h)[i]
    BY <2>1
  <2> HIDE DEF s, o, l, p, Placed
  <2>6. /\ s \o o \in V /\ Len(s \o o) = p + l
        /\ \A i \in 1..(p + l) : (s \o o)[i] = IF i <= p THEN s[i] ELSE o[i - p]
    <3>1. s \in Seq(B) /\ o \in Seq(B)
      BY <2>2, <2>3 DEF V
    <3>2. /\ s \o o \in Seq(B) /\ Len(s \o o) = Len(s) + Len(o)
          /\ \A i \in 1..(Len(s) + Len(o)) :
               (s \o o)[i] = IF i <= Len(s) THEN s[i] ELSE o[i - Len(s)]
      BY <3>1, ConcatProperties
    <3> QED
      BY <2>2, <2>3, <3>2 DEF V
  <2>7. ASSUME NEW h \in 1..k, NEW i \in 1..layout[h]
        PROVE  Offset(h) + i \in 1..(p + l) /\ f[k][Offset(h) + i] = O(h)[i]
    <3>1. CASE h = k
      <4>1. i \in 1..l /\ Offset(h) = p
        BY <3>1 DEF l, p
      <4>2. p + i \in 1..(p + l) /\ ~(p + i <= p) /\ (p + i) - p = i
        BY <2>2, <4>1
      <4>3. (s \o o)[p + i] = o[i]
        BY <2>6, <4>2
      <4> QED
        BY <2>4, <3>1, <4>1, <4>2, <4>3 DEF o
    <3>2. CASE h # k
      <4>1. h \in 1..(k - 1)
        BY <2>1, <3>2
      <4>2. Offset(h) + i \in 1..p /\ s[Offset(h) + i] = O(h)[i]
        BY <2>5, <4>1
      <4>3. Offset(h) + i \in 1..(p + l) /\ Offset(h) + i <= p
        BY <2>2, <4>2
      <4>4. (s \o o)[Offset(h) + i] = s[Offset(h) + i]
        BY <2>6, <4>3
      <4> QED
        BY <2>4, <4>2, <4>3, <4>4
    <3> QED
      BY <3>1, <3>2
  <2>8. Placed(k)
    BY <2>2, <2>7 DEF Placed
  <2> QED
    BY <2>1, <2>2, <2>4, <2>6, <2>8
<1>14. U \in SUBSET (0..N)
  OBVIOUS
<1>15. U = 0..N
  <2> HIDE DEF U
  <2> QED
    BY <1>2, <1>12, <1>13, <1>14, UpTo
<1>16. N \in U
  <2>1. N \in 0..N
    BY <1>2
  <2> HIDE DEF U
  <2> QED
    BY <1>15, <2>1
<1>17. f[N] \in V /\ Len(f[N]) = Offset(N + 1) /\ Placed(N)
  <2> HIDE DEF Placed
  <2> QED
    BY <1>16
<1> QED
  BY <1>1, <1>17 DEF N, V, O, TotalLength

\* Every piece starts before the end.
LEMMA CeilBelow ==
  ASSUME NEW n \in Nat, NEW d \in Nat \ {0}
  PROVE  /\ Ceil(n, d) \in Nat /\ n \div d <= Ceil(n, d)
         /\ \A k \in 1..Ceil(n, d) : (k - 1) * d \in Nat /\ (k - 1) * d < n
<1> DEFINE q == n \div d
           r == n - q * d
<1>1. q \in Nat /\ q * d \in Nat /\ q * d <= n /\ n < q * d + d
  BY DivFacts
<1> HIDE DEF q
<1>2. r \in Nat /\ r < d /\ n = q * d + r
  BY <1>1
<1> HIDE DEF r
<1>3. Ceil(n, d) = IF r = 0 THEN q ELSE q + 1
  BY <1>1, <1>2, CeilFacts
<1>4. ASSUME NEW k \in 1..Ceil(n, d)
      PROVE  (k - 1) * d \in Nat /\ (k - 1) * d < n
  <2>1. k - 1 \in Nat /\ k \in Nat
    BY <1>1, <1>3
  <2>2. CASE k <= q
    <3>1. k * d <= q * d /\ k * d \in Nat
      BY <1>1, <2>1, <2>2, TimesMonotone
    <3>2. k * d = (k - 1) * d + d /\ (k - 1) * d \in Nat
      BY <2>1
    <3> QED
      BY <1>1, <3>1, <3>2
  <2>3. CASE ~(k <= q)
    <3>1. k - 1 = q /\ r # 0
      BY <1>1, <1>2, <1>3, <2>3
    <3> QED
      BY <1>1, <1>2, <3>1
  <2> QED
    BY <2>2, <2>3
<1> QED
  BY <1>1, <1>3, <1>4 DEF q

\* The k-th of the full pieces of s.
FullPiece(s, n, k) == SubSeq(s, (k - 1) * n + 1, k * n)

\* The pieces of a sequence.
LEMMA ChunksFacts ==
  ASSUME NEW S, NEW s \in Seq(S), NEW d \in Nat \ {0}
  PROVE  /\ Chunks(s, d) \in Seq(Seq(S)) /\ Len(Chunks(s, d)) = Ceil(Len(s), d)
         /\ DOMAIN Chunks(s, d) = 1..Ceil(Len(s), d)
         /\ \A k \in 1..Ceil(Len(s), d) :
              Chunks(s, d)[k]
                = SubSeq(s, (k - 1) * d + 1, IF k * d < Len(s) THEN k * d ELSE Len(s))
<1> DEFINE c == Chunks(s, d)
           n == Ceil(Len(s), d)
           End(k) == IF k * d < Len(s) THEN k * d ELSE Len(s)
<1>1. Len(s) \in Nat /\ n \in Nat
  BY LenProperties, CeilBelow
<1>2. /\ c = [k \in 1..n |-> c[k]]
      /\ \A k \in 1..n : c[k] = SubSeq(s, (k - 1) * d + 1, End(k))
  BY DEF Chunks
<1> HIDE DEF c
<1>3. \A k \in 1..n : c[k] \in Seq(S)
  <2> TAKE k \in 1..n
  <2>1. (k - 1) * d \in Nat /\ (k - 1) * d < Len(s)
    BY <1>1, CeilBelow
  <2>2. k * d = (k - 1) * d + d /\ k \in Nat /\ k * d \in Nat
    BY <1>1
  <2>3. End(k) \in Nat /\ (k - 1) * d <= End(k) /\ End(k) <= Len(s)
    BY <1>1, <2>1, <2>2
  <2> DEFINE x == (k - 1) * d
             y == End(k)
  <2>4. c[k] = SubSeq(s, x + 1, y)
    BY <1>2
  <2> HIDE DEF x, y
  <2>5. x \in Nat /\ y \in Nat /\ x <= y /\ y <= Len(s)
    BY <2>1, <2>3 DEF x, y
  <2> QED
    BY <2>4, <2>5, SliceFacts
<1> HIDE DEF End, n
<1>4. c \in Seq({c[k] : k \in 1..n}) /\ DOMAIN c = 1..n /\ Len(c) = n
  BY <1>1, <1>2, FunctionIsSeq
<1>5. c \in Seq(Seq(S))
  <2>1. {c[k] : k \in 1..n} \subseteq Seq(S)
    BY <1>3
  <2> QED
    BY <1>4, <2>1, SeqMonotonic
<1> QED
  BY <1>2, <1>4, <1>5 DEF c, End, n

\* hs are the first q full pieces of s.
FullPieces(hs, s, n, q) == hs = [k \in 1..q |-> FullPiece(s, n, k)]

\* t are the m full pieces after those.
Following(t, s, n, q, m) ==
  t = [k \in 1..m |-> t[k]] /\ \A k \in 1..m : t[k] = FullPiece(s, n, q + k)

\* The bytes data of w, from a, where q pieces end, to b, make full pieces and a
\* rest shorter than one.
Stepped(w, d, q, m, a, b, data, full) ==
  /\ Len(data) = m /\ full \in Nat
  /\ full * d \in Nat /\ full * d <= m /\ m < full * d + d
  /\ SubSeq(data, full * d + 1, Len(data)) = SubSeq(w, (a + full * d) + 1, b)
  /\ Following(SubSeq(Chunks(data, d), 1, full), w, d, q, full)

\* The m bytes of w after q pieces of d: where they start and end, what they are
\* and how many full pieces they make.
Taken(w, d, q, m, a, b, data, full) ==
  /\ a = q * d /\ b = a + m /\ b <= Len(w)
  /\ data = SubSeq(w, a + 1, b) /\ full = Len(data) \div d

\* One Read: the bytes that are left over from the last one and the new ones fill
\* up pieces, and the rest is left over again.
LEMMA HashStep ==
  ASSUME NEW S, NEW w \in Seq(S), NEW d \in Nat \ {0}, NEW q \in Nat, NEW m \in Nat,
         NEW a, NEW b, NEW data, NEW full, Taken(w, d, q, m, a, b, data, full)
  PROVE  Stepped(w, d, q, m, a, b, data, full)
<1> DEFINE c == Chunks(data, d)
           t == SubSeq(c, 1, full)
<1>0. data = SubSeq(w, a + 1, b)
  BY DEF Taken
<1>1. /\ a \in Nat /\ b \in Nat /\ a <= b /\ b <= Len(w) /\ b - a = m /\ b = a + m
      /\ Len(w) \in Nat
  <2>1. a \in Nat /\ b = a + m /\ b <= Len(w)
    BY DEF Taken
  <2> QED
    BY <2>1, LenProperties
<1>4. data \in Seq(S) /\ Len(data) = m
  BY <1>0, <1>1, SliceFacts
<1>5. /\ full \in Nat /\ full * d \in Nat /\ full * d <= m /\ m < full * d + d
      /\ full <= Ceil(Len(data), d)
  <2>1. full = m \div d
    BY <1>4 DEF Taken
  <2>2. m \div d \in Nat /\ (m \div d) * d \in Nat /\ (m \div d) * d <= m
        /\ m < (m \div d) * d + d /\ m \div d <= Ceil(m, d)
    BY DivFacts, CeilBelow
  <2> QED
    BY <1>4, <2>1, <2>2
<1>6. SubSeq(data, full * d + 1, Len(data)) = SubSeq(w, (a + full * d) + 1, b)
  <2> DEFINE x == full * d
  <2>1. x \in Nat /\ x <= m
    BY <1>5
  <2> HIDE DEF x
  <2>2. SubSeq(SubSeq(w, a + 1, b), x + 1, m) = SubSeq(w, (a + x) + 1, a + m)
    BY <1>1, <2>1, SliceOfSlice
  <2> QED
    BY <1>0, <1>1, <1>4, <2>2 DEF x
<1>7. /\ c \in Seq(Seq(S)) /\ Len(c) = Ceil(Len(data), d)
      /\ \A k \in 1..Ceil(Len(data), d) :
           c[k] = SubSeq(data, (k - 1) * d + 1, IF k * d < Len(data) THEN k * d ELSE Len(data))
  BY <1>4, ChunksFacts
<1> HIDE DEF c
<1>8. /\ t \in Seq(Seq(S)) /\ Len(t) = full /\ \A k \in 1..full : t[k] = c[k]
  <2> DEFINE H == Seq(S)
  <2>1. c \in Seq(H) /\ full <= Len(c)
    BY <1>5, <1>7
  <2> HIDE DEF H
  <2>2. t \in Seq(H) /\ Len(t) = full /\ \A k \in 1..full : t[k] = c[k]
    BY <1>5, <2>1, PrefixFacts
  <2> QED
    BY <2>2 DEF H
<1>9. ASSUME NEW k \in 1..full
      PROVE  t[k] = FullPiece(w, d, q + k)
  <2>1. k \in Nat /\ k - 1 \in Nat /\ k <= full
    BY <1>5
  <2>2. /\ k * d \in Nat /\ k * d <= full * d /\ (k - 1) * d \in Nat
        /\ (k - 1) * d <= k * d
    <3>1. k * d \in Nat /\ k * d <= full * d
      BY <1>5, <2>1, TimesMonotone
    <3>2. k - 1 <= k
      BY <2>1
    <3>3. (k - 1) * d \in Nat /\ (k - 1) * d <= k * d
      BY <2>1, <3>2, TimesMonotone
    <3> QED
      BY <3>1, <3>3
  <2>3. k * d <= Len(data)
    BY <1>4, <1>5, <2>2
  <2>4. k \in 1..Ceil(Len(data), d)
    <3>1. Ceil(Len(data), d) \in Nat
      BY <1>1, <1>4, CeilBelow
    <3> QED
      BY <1>5, <2>1, <3>1
  <2>5. c[k] = SubSeq(data, (k - 1) * d + 1, k * d)
    <3>1. (IF k * d < Len(data) THEN k * d ELSE Len(data)) = k * d
      BY <1>1, <1>4, <2>2, <2>3
    <3> QED
      BY <1>7, <2>4, <3>1
  <2>6. SubSeq(data, (k - 1) * d + 1, k * d) = SubSeq(w, (a + (k - 1) * d) + 1, a + k * d)
    <3> DEFINE x == (k - 1) * d
               y == k * d
    <3>1. x \in Nat /\ y \in Nat /\ x <= y /\ y <= b - a
      BY <1>1, <1>4, <2>2, <2>3
    <3> HIDE DEF x, y
    <3>2. SubSeq(SubSeq(w, a + 1, b), x + 1, y) = SubSeq(w, (a + x) + 1, a + y)
      BY <1>1, <3>1, SliceOfSlice
    <3> QED
      BY <1>0, <3>2 DEF x, y
  <2>7. a + (k - 1) * d = ((q + k) - 1) * d /\ a + k * d = (q + k) * d
    <3>1. a = q * d
      BY DEF Taken
    <3> QED
      BY <2>1, <3>1
  <2> QED
    BY <1>8, <2>5, <2>6, <2>7 DEF FullPiece
<1>10. t = [k \in 1..full |-> t[k]]
  <2> DEFINE H == Seq(S)
  <2>1. t \in Seq(H) /\ Len(t) = full
    BY <1>8
  <2> HIDE DEF H, t
  <2>2. t \in [1..full -> H]
    BY <2>1, LenProperties
  <2> QED
    BY <2>2
<1>11. Following(t, w, d, q, full)
  <2> HIDE DEF t
  <2> QED
    BY <1>9, <1>10 DEF Following
<1> QED
  BY <1>4, <1>5, <1>6, <1>11 DEF Stepped, c, t

\* The files the torrent was made of, one after the other.
Whole == Joined(original)

\* The torrent has the lengths of the files it was made of, and those on disk are
\* files, of whatever length.
DiskShape ==
  /\ layout \in Seq(Nat) /\ original \in Seq(Seq(Octets)) /\ Len(original) = Len(layout)
  /\ \A f \in 1..Len(layout) : layout[f] = Len(original[f])
  /\ disk \in Seq(Seq(Octets)) /\ Len(disk) = Len(layout)

\* The hashes hs and the bytes h since the last Reset are those of the first n
\* bytes of w, in pieces of d.
Hashed(hs, h, w, d, n) ==
  /\ Len(hs) \in Nat /\ Len(h) \in Nat /\ Len(h) < d
  /\ n = Len(hs) * d + Len(h) /\ n <= Len(w)
  /\ FullPieces(hs, w, d, Len(hs))
  /\ h = SubSeq(w, Len(hs) * d + 1, n)

\* How far the files have been read.
ReadTo == Offset(reader[1]) + reader[2]

\* While the files are read, they are as they were found.
Hashing ==
  /\ disk = original
  /\ reader \in Nat \X Nat /\ reader[1] \in 1..(Len(layout) + 1)
  /\ reader[1] <= Len(layout) => reader[2] <= layout[reader[1]]
  /\ reader[1] = Len(layout) + 1 => reader[2] = 0
  /\ Hashed(hashes, digest, Whole, plen, ReadTo)

\* The strengthening of VerifyIsExact that every step preserves.
DataInv ==
  /\ tpc \in {"new", "hash", "created", "verified", "failed"}
  /\ plen \in Nat \ {0} /\ DiskShape
  /\ tpc = "new" => reader = <<1, 0>> /\ digest = <<>> /\ hashes = <<>>
  /\ tpc = "hash" => Hashing
  /\ tpc \in {"created", "verified"} => hashes = Chunks(Whole, plen)
  /\ tpc = "verified" => valid = {i \in 0..Len(hashes) - 1 : ReadPiece(i) = hashes[i + 1]}

\* What the whole holds, byte by byte.
LEMMA WholeFacts ==
  ASSUME DiskShape
  PROVE  /\ layout \in Seq(Nat) /\ Whole \in Seq(Octets) /\ Len(Whole) = TotalLength
         /\ Len(Whole) \in Nat
         /\ \A f \in 1..Len(layout) : \A k \in 1..layout[f] :
              Whole[Offset(f) + k] = original[f][k]
<1>1. /\ layout \in Seq(Nat) /\ Len(original) = Len(layout)
      /\ \A f \in 1..Len(layout) : layout[f] = Len(original[f])
  BY DEF DiskShape
<1>2. \A f \in 1..Len(layout) : original[f] \in Seq(Octets)
  BY <1>1, MembersOfSeq DEF DiskShape
<1>3. /\ Whole \in Seq(Octets) /\ Len(Whole) = TotalLength
      /\ \A f \in 1..Len(layout) : \A k \in 1..layout[f] :
           Whole[Offset(f) + k] = original[f][k]
  BY <1>1, <1>2, JoinedFacts DEF Whole
<1> QED
  BY <1>1, <1>3, LenProperties

\* The disk holds what w says it holds of file f between s and e.
Agrees(w, f, s, e) ==
  \A j \in 1..layout[f] : s < Offset(f) + j /\ Offset(f) + j <= e =>
    j <= Len(disk[f]) /\ disk[f][j] = w[Offset(f) + j]

\* A part of a file on which the disk agrees with w is the same part of w.
LEMMA FilePart ==
  ASSUME DiskShape, NEW w \in Seq(Octets), Len(w) = TotalLength, NEW f \in 1..Len(layout),
         NEW a \in Nat, NEW b \in Nat, a <= b, b <= Len(disk[f]), b <= layout[f],
         Agrees(w, f, Offset(f) + a, Offset(f) + b)
  PROVE  /\ Offset(f) \in Nat /\ Offset(f) + b <= Len(w)
         /\ SubSeq(disk[f], a + 1, b) = SubSeq(w, (Offset(f) + a) + 1, Offset(f) + b)
<1> DEFINE N == Len(layout)
           o == Offset(f)
           l == layout[f]
           x == SubSeq(disk[f], a + 1, b)
           y == SubSeq(w, (o + a) + 1, o + b)
<1>0. layout \in Seq(Nat)
  BY DEF DiskShape
<1>1. N \in Nat /\ l \in Nat /\ f \in Nat /\ f \in 1..(N + 1) /\ f + 1 \in 1..(N + 1)
  BY <1>0, MembersOfSeq
<1>2. o \in Nat /\ Offset(f + 1) = o + l /\ Offset(f + 1) \in Nat
  BY <1>0, <1>1, OffsetFacts
<1>3. Len(w) \in Nat
  BY LenProperties
<1>4. o + b <= Len(w)
  <2>1. Offset(f + 1) <= TotalLength
    BY <1>0, <1>1, OffsetBound
  <2> DEFINE n == Len(w)
             z == Offset(f + 1)
  <2>2. l \in Nat /\ o \in Nat /\ n \in Nat /\ z = o + l /\ z <= n /\ b <= l
    BY <1>1, <1>2, <1>3, <2>1
  <2> HIDE DEF o, l, n, z
  <2>3. o + b <= n
    BY <2>2
  <2> QED
    BY <2>3 DEF n
<1>5. disk[f] \in Seq(Octets) /\ Len(disk[f]) \in Nat
  <2>1. f \in 1..Len(disk)
    BY DEF DiskShape
  <2> QED
    BY <2>1, MembersOfSeq, LenProperties DEF DiskShape
<1>6. \A j \in 1..l : o + a < o + j /\ o + j <= o + b => disk[f][j] = w[o + j]
  BY DEF Agrees
<1> HIDE DEF o, l
<1>7. x \in Seq(Octets) /\ Len(x) = b - a /\ \A k \in 1..(b - a) : x[k] = disk[f][a + k]
  BY <1>5, SliceFacts
<1>8. o + a \in Nat /\ o + b \in Nat /\ o + a <= o + b /\ (o + b) - (o + a) = b - a
  BY <1>2
<1>9. y \in Seq(Octets) /\ Len(y) = b - a /\ \A k \in 1..(b - a) : y[k] = w[(o + a) + k]
  <2> DEFINE u == o + a
             v == o + b
  <2>1. u \in Nat /\ v \in Nat /\ u <= v /\ v <= Len(w) /\ v - u = b - a
    BY <1>4, <1>8
  <2>2. y = SubSeq(w, u + 1, v)
    OBVIOUS
  <2>3. o + a = u
    OBVIOUS
  <2> HIDE DEF u, v, y
  <2>4. /\ SubSeq(w, u + 1, v) \in Seq(Octets) /\ Len(SubSeq(w, u + 1, v)) = v - u
        /\ \A k \in 1..(v - u) : SubSeq(w, u + 1, v)[k] = w[u + k]
    BY <2>1, SliceFacts
  <2> QED
    BY <2>1, <2>2, <2>3, <2>4
<1> HIDE DEF x, y
<1>10. \A k \in 1..(b - a) : x[k] = y[k]
  <2> TAKE k \in 1..(b - a)
  <2>0. b <= l
    BY DEF l
  <2>1. /\ a + k \in 1..l /\ o + (a + k) = (o + a) + k
        /\ o + a < o + (a + k) /\ o + (a + k) <= o + b
    BY <1>1, <1>2, <2>0
  <2>2. disk[f][a + k] = w[o + (a + k)]
    BY <1>6, <2>1
  <2> QED
    BY <1>7, <1>9, <2>1, <2>2
<1>11. x = y
  BY <1>7, <1>9, <1>10, SeqEqual
<1> QED
  BY <1>2, <1>4, <1>11 DEF o, x, y

\* While the files are as they were found, the disk agrees with the whole.
LEMMA FoundAgrees ==
  ASSUME DiskShape, disk = original, NEW f \in 1..Len(layout), NEW s, NEW e
  PROVE  Agrees(Whole, f, s, e) /\ Len(disk[f]) = layout[f]
<1>1. Len(disk[f]) = layout[f] /\ layout[f] \in Nat
  BY MembersOfSeq DEF DiskShape
<1>2. \A j \in 1..layout[f] : Whole[Offset(f) + j] = disk[f][j]
  BY WholeFacts
<1> QED
  BY <1>1, <1>2 DEF Agrees

\* Full pieces are a sequence.
LEMMA HashesAreSeq ==
  ASSUME NEW w, NEW d, NEW q \in Nat, NEW h, FullPieces(h, w, d, q)
  PROVE  h \in Seq({h[k] : k \in 1..q}) /\ Len(h) = q
<1>1. h = [k \in 1..q |-> h[k]]
  BY DEF FullPieces
<1> QED
  BY <1>1, FunctionIsSeq

\* j is s and then t.
IsJoin(j, s, t) == j = s \o t

\* j are q and m full pieces.
Grown(j, w, d, q, m) == Len(j) = q + m /\ FullPieces(j, w, d, q + m)

\* Full pieces and the full pieces after them.
LEMMA HashesJoin ==
  ASSUME NEW w, NEW d, NEW q \in Nat, NEW m \in Nat,
         NEW h, FullPieces(h, w, d, q), NEW t, Following(t, w, d, q, m),
         NEW j, IsJoin(j, h, t)
  PROVE  Grown(j, w, d, q, m)
<1> DEFINE T == {h[k] : k \in 1..q} \cup {t[k] : k \in 1..m}
<1>1. /\ h \in Seq({h[k] : k \in 1..q}) /\ Len(h) = q
      /\ t \in Seq({t[k] : k \in 1..m}) /\ Len(t) = m
  <2>1. h \in Seq({h[k] : k \in 1..q}) /\ Len(h) = q
    BY HashesAreSeq
  <2>2. t = [k \in 1..m |-> t[k]]
    BY DEF Following
  <2>3. t \in Seq({t[k] : k \in 1..m}) /\ Len(t) = m
    BY <2>2, FunctionIsSeq
  <2> QED
    BY <2>1, <2>3
<1>2. h \in Seq(T) /\ t \in Seq(T)
  <2>1. {h[k] : k \in 1..q} \subseteq T /\ {t[k] : k \in 1..m} \subseteq T
    OBVIOUS
  <2> HIDE DEF T
  <2> QED
    BY <1>1, <2>1, SeqMonotonic
<1> HIDE DEF T
<1>3. /\ j \in Seq(T) /\ Len(j) = q + m
      /\ \A i \in 1..(q + m) : j[i] = IF i <= q THEN h[i] ELSE t[i - q]
  <2>1. j = h \o t
    BY DEF IsJoin
  <2>2. Len(h) = q /\ Len(t) = m
    BY <1>1
  <2>3. /\ h \o t \in Seq(T) /\ Len(h \o t) = Len(h) + Len(t)
        /\ \A i \in 1..(Len(h) + Len(t)) :
             (h \o t)[i] = IF i <= Len(h) THEN h[i] ELSE t[i - Len(h)]
    BY <1>2, ConcatProperties
  <2> QED
    BY <2>1, <2>2, <2>3
<1>4. j \in [1..(q + m) -> T]
  BY <1>3, LenProperties
<1>5. \A i \in 1..(q + m) : j[i] = FullPiece(w, d, i)
  <2> TAKE i \in 1..(q + m)
  <2>1. CASE i <= q
    <3>1. i \in 1..q
      BY <2>1
    <3> QED
      BY <1>3, <2>1, <3>1 DEF FullPieces
  <2>2. CASE ~(i <= q)
    <3>1. i - q \in 1..m /\ q + (i - q) = i
      BY <2>2
    <3>2. t[i - q] = FullPiece(w, d, q + (i - q))
      BY <3>1 DEF Following
    <3> QED
      BY <1>3, <2>2, <3>1, <3>2
  <2> QED
    BY <2>1, <2>2
<1>6. j = [i \in 1..(q + m) |-> j[i]]
  BY <1>4
<1>7. FullPieces(j, w, d, q + m)
  BY <1>5, <1>6 DEF FullPieces
<1> QED
  BY <1>3, <1>7 DEF Grown

\* The last, shorter piece completes the pieces of the whole.
LEMMA ChunksEnd ==
  ASSUME NEW S, NEW w \in Seq(S), NEW d \in Nat \ {0}, NEW q \in Nat, NEW r \in Nat,
         r < d, Len(w) = q * d + r,
         NEW h, FullPieces(h, w, d, q), NEW last, last = SubSeq(w, q * d + 1, Len(w)),
         NEW t, t = IF r = 0 THEN <<>> ELSE <<last>>
  PROVE  IsJoin(Chunks(w, d), h, t)
<1> DEFINE c == Chunks(w, d)
           m == IF r = 0 THEN 0 ELSE 1
           T == {h[k] : k \in 1..q} \cup {last}
           j == h \o t
<1>1. q * d \in Nat /\ Len(w) \in Nat
  BY LenProperties
<1>2. Ceil(Len(w), d) = q + m
  <2>1. Ceil(q * d + r, d) = IF r = 0 THEN q ELSE q + 1
    BY CeilFacts
  <2> QED
    BY <2>1
<1>3. /\ c \in Seq(Seq(S)) /\ Len(c) = q + m
      /\ \A k \in 1..(q + m) :
           c[k] = SubSeq(w, (k - 1) * d + 1, IF k * d < Len(w) THEN k * d ELSE Len(w))
  BY <1>2, ChunksFacts
<1> HIDE DEF c
<1>4. c = [k \in 1..(q + m) |-> c[k]]
  <2> DEFINE H == Seq(S)
  <2>1. c \in Seq(H)
    BY <1>3
  <2> HIDE DEF H
  <2>2. c \in [1..Len(c) -> H]
    BY <2>1, LenProperties
  <2> QED
    BY <1>3, <2>2
<1>5. h \in Seq(T) /\ Len(h) = q
  <2> HIDE DEF T, m, j
  <2>1. h \in Seq({h[k] : k \in 1..q}) /\ Len(h) = q
    BY HashesAreSeq
  <2>2. {h[k] : k \in 1..q} \subseteq T
    BY DEF T
  <2> QED
    BY <2>1, <2>2, SeqMonotonic
<1>6. last \in T
  OBVIOUS
<1> HIDE DEF T
<1>7. t \in Seq(T) /\ Len(t) = m /\ \A k \in 1..m : t[k] = last
  <2>1. CASE r = 0
    BY <2>1
  <2>2. CASE r # 0
    BY <1>6, <2>2
  <2> QED
    BY <2>1, <2>2
<1>8. m \in Nat /\ m <= 1 /\ (m = 1 => r # 0)
  OBVIOUS
<1> HIDE DEF m
<1>9. /\ j \in Seq(T) /\ Len(j) = q + m
      /\ \A i \in 1..(q + m) : j[i] = IF i <= q THEN h[i] ELSE t[i - q]
  BY <1>5, <1>7, ConcatProperties
<1> HIDE DEF j
<1>10. j = [i \in 1..(q + m) |-> j[i]]
  <2>1. j \in [1..(q + m) -> T]
    BY <1>9, LenProperties
  <2> QED
    BY <2>1
<1>11. \A i \in 1..(q + m) : j[i] = c[i]
  <2> TAKE i \in 1..(q + m)
  <2>1. i \in Nat /\ i * d \in Nat
    BY <1>8
  <2>2. CASE i <= q
    <3>1. i * d <= q * d /\ i \in 1..q
      BY <1>8, <2>1, <2>2, TimesMonotone
    <3>2. (IF i * d < Len(w) THEN i * d ELSE Len(w)) = i * d
      <4> DEFINE x == i * d
                 y == q * d
                 l == Len(w)
      <4>1. x \in Nat /\ y \in Nat /\ l = y + r /\ x <= y
        BY <1>1, <2>1, <3>1
      <4> HIDE DEF x, y, l
      <4>2. (IF x < l THEN x ELSE l) = x
        BY <4>1
      <4> QED
        BY <4>2 DEF x, l
    <3>3. j[i] = FullPiece(w, d, i)
      BY <1>9, <2>2, <3>1 DEF FullPieces
    <3> QED
      BY <1>3, <3>2, <3>3 DEF FullPiece
  <2>3. CASE ~(i <= q)
    <3>1. i = q + 1 /\ m = 1 /\ i - q \in 1..m /\ i - 1 = q
      BY <1>8, <2>3
    <3>2. i * d = q * d + d
      BY <3>1
    <3>3. (IF i * d < Len(w) THEN i * d ELSE Len(w)) = Len(w)
      <4> DEFINE x == i * d
                 y == q * d
                 l == Len(w)
      <4>1. x = y + d /\ y \in Nat /\ l = y + r
        BY <1>1, <3>2
      <4> HIDE DEF x, y, l
      <4>2. ~(x < l)
        BY <4>1
      <4> QED
        BY <4>2 DEF x, l
    <3>4. c[i] = last
      BY <1>3, <3>1, <3>3
    <3> QED
      BY <1>7, <1>9, <2>3, <3>1, <3>4
  <2> QED
    BY <2>2, <2>3
<1>12. j = c
  BY <1>4, <1>10, <1>11
<1> QED
  BY <1>12 DEF j, c, IsJoin

\* The first file starts at the beginning of the whole, and is the whole if it is
\* the only one.
StartsAtZero ==
  DiskShape =>
    /\ reader = <<1, 0>> => ReadTo = 0 /\ Len(Whole) \in Nat
    /\ Len(layout) = 1 => Whole = original[1]

\* That is so for every layout.
LEMMA StartHolds == StartsAtZero
<1> SUFFICES ASSUME DiskShape
             PROVE  /\ reader = <<1, 0>> => ReadTo = 0 /\ Len(Whole) \in Nat
                    /\ Len(layout) = 1 => Whole = original[1]
  BY DEF StartsAtZero
<1>1. layout \in Seq(Nat) /\ Offset(1) = 0 /\ Len(Whole) \in Nat
  BY OffsetFacts, WholeFacts
<1>2. ASSUME reader = <<1, 0>> PROVE ReadTo = 0
  <2>1. reader[1] = 1 /\ reader[2] = 0
    BY <1>2
  <2> QED
    BY <1>1, <2>1 DEF ReadTo
<1>3. ASSUME Len(layout) = 1 PROVE Whole = original[1]
  <2> DEFINE n == layout[1]
             t == original[1]
  <2>1. 1 \in 1..Len(layout) /\ 1 \in 1..Len(original) /\ 1 + 1 = Len(layout) + 1
    BY <1>3 DEF DiskShape
  <2>2. t \in Seq(Octets) /\ Len(t) = n /\ n \in Nat
    BY <2>1, MembersOfSeq DEF DiskShape
  <2>3. Offset(1 + 1) = n
    <3>1. Offset(1 + 1) = Offset(1) + n
      BY <1>1, <2>1, OffsetFacts
    <3> QED
      BY <1>1, <2>2, <3>1
  <2>4. Whole \in Seq(Octets) /\ Len(Whole) = n
    BY <2>1, <2>3, WholeFacts DEF TotalLength
  <2>5. \A k \in 1..n : Whole[k] = t[k]
    <3> TAKE k \in 1..n
    <3>1. Whole[Offset(1) + k] = t[k]
      BY <2>1, WholeFacts
    <3>2. Offset(1) + k = k
      BY <1>1, <2>2
    <3> QED
      BY <3>1, <3>2
  <2> HIDE DEF n, t
  <2>6. Whole = t
    BY <2>2, <2>4, <2>5, SeqEqual
  <2> QED
    BY <2>6 DEF t
<1> QED
  BY <1>1, <1>2, <1>3

\* So it is in the next state.
LEMMA StartHoldsNext == StartsAtZero'
  BY StartHolds, PTL

\* What depends on the files as found and the layout alone.
LEMMA DataFrame ==
  ASSUME UNCHANGED <<original, layout>>
  PROVE  Whole' = Whole /\ \A f : Offset(f)' = Offset(f)
<1>1. Whole' = Whole
  BY DEF Whole, Joined
<1>2. \A f : Offset(f)' = Offset(f)
  BY DEF Offset
<1> QED
  BY <1>1, <1>2

\* A torrent about files describes them as they are.
LEMMA DescribedFacts ==
  ASSUME NEW files \in Seq(Seq(Octets)), Described(files)
  PROVE  DiskShape' /\ disk' = files /\ original' = files /\ Len(layout') = Len(files)
<1> DEFINE N == Len(files)
<1>1. N \in Nat /\ DOMAIN files = 1..N /\ \A f \in 1..N : files[f] \in Seq(Octets)
  BY MembersOfSeq, LenProperties
<1> HIDE DEF N
<1>2. /\ layout' = [f \in 1..N |-> layout'[f]]
      /\ \A f \in 1..N : layout'[f] = Len(files[f])
  BY <1>1 DEF Described
<1>3. \A f \in 1..N : layout'[f] \in Nat
  <2> TAKE f \in 1..N
  <2>1. files[f] \in Seq(Octets) /\ layout'[f] = Len(files[f])
    BY <1>1, <1>2
  <2>2. \A q \in Seq(Octets) : Len(q) \in Nat
    BY LenProperties
  <2> QED
    BY <2>1, <2>2
<1>4. layout' \in Seq({layout'[f] : f \in 1..N}) /\ Len(layout') = N
  <2>1. \A s : s = [f \in 1..N |-> s[f]] => s \in Seq({s[f] : f \in 1..N}) /\ Len(s) = N
    <3>1. N \in Nat
      BY <1>1
    <3> TAKE s
    <3> HAVE s = [f \in 1..N |-> s[f]]
    <3> QED
      BY <3>1, FunctionIsSeq
  <2> QED
    BY <1>2, <2>1
<1>5. {layout'[f] : f \in 1..N} \subseteq Nat
  BY <1>3
<1>6. layout' \in Seq(Nat)
  BY <1>4, <1>5, SeqMonotonic
<1>7. disk' = files /\ original' = files
  BY DEF Described
<1> QED
  BY <1>2, <1>4, <1>6, <1>7 DEF DiskShape, N

\* The walk finds the files as they are on disk.
LEMMA WalkKeeps ==
  ASSUME DataInv, Walk
  PROVE  DataInv'
<1>1. PICK d \in Dirs, p \in PieceLens :
        /\ Described(KeptFiles(d)) /\ plen' = p /\ tpc' \in {"failed", "hash"}
  BY DEF Walk
<1>2. plen' \in Nat \ {0} /\ KeptFiles(d) \in Seq(Seq(Octets))
  BY <1>1, DataAssumption, KeptFacts
<1>3. DiskShape' /\ disk' = original'
  BY <1>1, <1>2, DescribedFacts
<1> DEFINE N == Len(layout')
<1>4. N \in Nat /\ \A f \in 1..N : layout'[f] \in Nat
  BY <1>3, MembersOfSeq DEF DiskShape
<1> HIDE DEF N
<1>5. tpc = "new" /\ reader' = <<1, 0>> /\ digest' = <<>> /\ hashes' = <<>>
  BY DEF DataInv, Walk
<1>6. ReadTo' = 0 /\ Len(Whole') \in Nat
  BY <1>3, <1>5, StartHoldsNext DEF StartsAtZero
<1>7. Hashing'
  <2>1. ASSUME NEW w, Len(w) \in Nat, NEW e \in Nat \ {0}
        PROVE  Hashed(<<>>, <<>>, w, e, 0)
    <3>1. Len(<<>>) = 0 /\ 0 * e = 0 /\ 0 < e /\ 0 <= Len(w)
      BY <2>1
    <3>2. FullPieces(<<>>, w, e, 0)
      BY DEF FullPieces
    <3>3. <<>> = SubSeq(w, 0 + 1, 0)
      BY SubSeqEmpty
    <3> QED
      BY <3>1, <3>2, <3>3 DEF Hashed
  <2>2. Hashed(hashes', digest', Whole', plen', ReadTo')
    BY <1>2, <1>5, <1>6, <2>1
  <2>3. reader'[1] = 1 /\ reader'[2] = 0 /\ reader' \in Nat \X Nat
    BY <1>5
  <2>4. 1 \in 1..(N + 1) /\ (1 <= N => 0 <= layout'[1])
    BY <1>4
  <2> QED
    BY <1>3, <2>2, <2>3, <2>4 DEF Hashing, N
<1> QED
  BY <1>1, <1>2, <1>3, <1>7 DEF DataInv

\* A single file is hashed as it is.
LEMMA HashFileKeeps ==
  ASSUME DataInv, hashFile
  PROVE  DataInv'
<1>1. PICK d \in Dirs, p \in PieceLens : \E f \in DOMAIN d :
        Described(<<d[f]>>) /\ plen' = p /\ hashes' = Chunks(d[f], p)
  BY DEF hashFile
<1>2. PICK f \in DOMAIN d : Described(<<d[f]>>) /\ plen' = p /\ hashes' = Chunks(d[f], p)
  BY <1>1
<1>3. plen' \in Nat \ {0} /\ d \in Seq(Seq(Octets)) /\ tpc' = "created"
  BY <1>2, DataAssumption DEF hashFile
<1>4. d[f] \in Seq(Octets)
  <2>1. f \in 1..Len(d)
    BY <1>3, LenProperties
  <2> QED
    BY <1>3, <2>1, MembersOfSeq
<1> DEFINE t == d[f]
<1>5. <<t>> \in Seq(Seq(Octets)) /\ Len(<<t>>) = 1 /\ <<t>>[1] = t
  <2> HIDE DEF t
  <2>1. t \in Seq(Octets)
    BY <1>4 DEF t
  <2> QED
    BY <2>1
<1> HIDE DEF t
<1>6. DiskShape' /\ original' = <<t>> /\ Len(layout') = 1
  BY <1>2, <1>5, DescribedFacts DEF t
<1>7. Whole' = t
  BY <1>5, <1>6, StartHoldsNext DEF StartsAtZero
<1>8. hashes' = Chunks(Whole', plen')
  BY <1>2, <1>7 DEF t
<1> QED
  BY <1>3, <1>6, <1>8 DEF DataInv

\* The next file starts where this one ends.
LEMMA NextFileKeeps ==
  ASSUME DataInv, NextFile
  PROVE  DataInv'
<1>0. DiskShape /\ layout \in Seq(Nat)
  BY DEF DataInv, DiskShape
<1>1. /\ layout \in Seq(Nat) /\ plen \in Nat \ {0} /\ DiskShape /\ Hashing /\ tpc = "hash"
      /\ reader[1] <= Len(disk) /\ reader[2] = Len(disk[reader[1]])
      /\ reader' = <<reader[1] + 1, 0>>
      /\ UNCHANGED <<tpc, disk, original, layout, plen, digest, hashes, valid>>
  BY <1>0 DEF DataInv, NextFile
<1> DEFINE N == Len(layout)
           f == reader[1]
<1>2. /\ disk = original /\ \A g \in 1..N : Len(disk[g]) = layout[g]
      /\ f \in 1..(N + 1) /\ Len(disk) = N /\ Hashed(hashes, digest, Whole, plen, ReadTo)
  BY <1>1 DEF Hashing, DiskShape
<1>3. N \in Nat /\ \A g \in 1..N : layout[g] \in Nat
  BY <1>1, MembersOfSeq
<1> HIDE DEF N, f
<1>4. f \in 1..N /\ f + 1 \in 1..(N + 1) /\ f + 1 \in Nat
  BY <1>1, <1>2, <1>3 DEF f
<1>5. ReadTo = Offset(f + 1)
  <2>1. Offset(f + 1) = Offset(f) + layout[f] /\ Offset(f + 1) \in Nat
    BY <1>1, <1>4, OffsetFacts DEF N
  <2>2. reader[2] = layout[f]
    BY <1>1, <1>2, <1>4 DEF f
  <2> QED
    BY <2>1, <2>2 DEF ReadTo, f
<1>6. Offset(f + 1) \in Nat
  BY <1>1, <1>4, OffsetFacts DEF N
<1>7. Whole' = Whole /\ \A g : Offset(g)' = Offset(g)
  BY <1>1, DataFrame
<1>8. reader'[1] = f + 1 /\ reader'[2] = 0 /\ reader' \in Nat \X Nat
  BY <1>1, <1>4 DEF f
<1>9. ReadTo' = Offset(f + 1)
  BY <1>1, <1>6, <1>8 DEF ReadTo, Offset
<1>10. reader'[1] <= N => reader'[2] <= layout[reader'[1]]
  BY <1>3, <1>4, <1>8
<1>11. Hashing'
  BY <1>1, <1>2, <1>4, <1>5, <1>7, <1>8, <1>9, <1>10 DEF Hashing, N
<1>12. DiskShape'
  BY <1>1 DEF DiskShape
<1> QED
  BY <1>1, <1>11, <1>12 DEF DataInv

\* Reading on: what HashStep says of the sequences, for the hashes so far.
LEMMA HashedStep ==
  ASSUME NEW S, NEW w \in Seq(S), NEW d \in Nat \ {0}, NEW hs, NEW h,
         NEW p \in Nat, Hashed(hs, h, w, d, p), NEW n \in Nat, p + n <= Len(w),
         NEW data, data = h \o SubSeq(w, p + 1, p + n), NEW full, full = Len(data) \div d
  PROVE  Hashed(hs \o SubSeq(Chunks(data, d), 1, full),
                SubSeq(data, full * d + 1, Len(data)), w, d, p + n)
<1> DEFINE q == Len(hs)
           r == Len(h)
           a == q * d
           b == p + n
           m == r + n
           t == SubSeq(Chunks(data, d), 1, full)
           rest == SubSeq(data, full * d + 1, Len(data))
<1>1. /\ q \in Nat /\ r \in Nat /\ r < d /\ p = a + r /\ p <= Len(w)
      /\ FullPieces(hs, w, d, q) /\ h = SubSeq(w, a + 1, p)
  BY DEF Hashed
<1>2. a = q * d
  OBVIOUS
<1>3. a \in Nat /\ b = a + m /\ m \in Nat /\ b \in Nat /\ a <= p /\ p <= b /\ b <= Len(w)
  <2>1. a \in Nat
    BY <1>1
  <2> HIDE DEF a, q, r
  <2> QED
    BY <1>1, <2>1
<1> HIDE DEF q, r, a, m, t, rest
<1>4. data = SubSeq(w, a + 1, b)
  <2>1. data = h \o SubSeq(w, p + 1, b)
    OBVIOUS
  <2> HIDE DEF b
  <2>2. SubSeq(w, a + 1, p) \o SubSeq(w, p + 1, b) = SubSeq(w, a + 1, b)
    BY <1>3, SliceJoin
  <2> QED
    BY <1>1, <2>1, <2>2
<1> HIDE DEF b
<1>5. Stepped(w, d, q, m, a, b, data, full)
  <2>1. Taken(w, d, q, m, a, b, data, full)
    BY <1>2, <1>3, <1>4 DEF Taken
  <2> QED
    BY <1>1, <1>3, <2>1, HashStep
<1> DEFINE y == full * d
<1>6. /\ Len(data) = m /\ full \in Nat /\ y \in Nat /\ y <= m /\ m < y + d
      /\ rest = SubSeq(w, (a + y) + 1, b)
      /\ Following(t, w, d, q, full)
  BY <1>5 DEF Stepped, t, rest
<1>7. (q + full) * d = a + y /\ q + full \in Nat
  BY <1>1, <1>2, <1>6
<1> HIDE DEF y
<1>8. Len(hs \o t) = q + full /\ FullPieces(hs \o t, w, d, q + full)
  <2>1. q \in Nat /\ full \in Nat /\ FullPieces(hs, w, d, q) /\ Following(t, w, d, q, full)
    BY <1>1, <1>6
  <2> DEFINE j == hs \o t
  <2>2. IsJoin(j, hs, t)
    BY DEF IsJoin
  <2> HIDE DEF j
  <2>3. Grown(j, w, d, q, full)
    BY <2>1, <2>2, HashesJoin
  <2> QED
    BY <2>3 DEF j, Grown
<1>9. Len(rest) = m - y
  <2> DEFINE c == a + y
  <2>1. c \in Nat /\ c <= b /\ b - c = m - y
    <3>1. y \in Nat /\ y <= m
      BY <1>6
    <3> QED
      BY <1>3, <3>1
  <2> HIDE DEF c
  <2>2. Len(SubSeq(w, c + 1, b)) = b - c
    BY <1>3, <2>1, SliceFacts
  <2> QED
    BY <1>6, <2>1, <2>2 DEF c
<1>10. m - y \in Nat /\ m - y < d /\ b = (a + y) + (m - y)
  <2>1. y \in Nat /\ y <= m /\ m < y + d
    BY <1>6
  <2> QED
    BY <1>3, <2>1
<1>11. Hashed(hs \o t, rest, w, d, b)
  BY <1>3, <1>6, <1>7, <1>8, <1>9, <1>10 DEF Hashed
<1> QED
  BY <1>11 DEF t, rest, b

\* A Read hands on the bytes after the position, whichever file they are in.
LEMMA HashMultiKeeps ==
  ASSUME DataInv, NEW n \in 1..ReadMax, hashMultiFiles(n)
  PROVE  DataInv'
<1> DEFINE N == Len(layout)
           f == reader[1]
           o == reader[2]
           data == digest \o SubSeq(disk[f], o + 1, o + n)
           full == Len(data) \div plen
<1>0. DiskShape /\ layout \in Seq(Nat)
  BY DEF DataInv, DiskShape
<1>1. /\ layout \in Seq(Nat) /\ plen \in Nat \ {0} /\ DiskShape /\ Hashing /\ tpc = "hash"
      /\ f <= Len(disk) /\ o + n <= Len(disk[f])
      /\ hashes' = hashes \o SubSeq(Chunks(data, plen), 1, full)
      /\ digest' = SubSeq(data, full * plen + 1, Len(data))
      /\ reader' = [reader EXCEPT ![2] = @ + n]
      /\ UNCHANGED <<tpc, disk, original, layout, plen, valid>>
  BY <1>0 DEF DataInv, hashMultiFiles
<1>2. /\ disk = original /\ \A g \in 1..N : Len(disk[g]) = layout[g]
      /\ f \in 1..(N + 1) /\ o \in Nat /\ reader \in Nat \X Nat /\ Len(disk) = N
      /\ Hashed(hashes, digest, Whole, plen, ReadTo)
  BY <1>1 DEF Hashing, DiskShape
<1>3. N \in Nat /\ n \in Nat /\ \A g \in 1..N : layout[g] \in Nat
  <2>1. N \in Nat /\ \A g \in 1..N : layout[g] \in Nat
    BY <1>1, MembersOfSeq
  <2>2. n \in Nat
    BY DataAssumption
  <2> QED
    BY <2>1, <2>2
<1>4. reader'[1] = f /\ reader'[2] = o + n /\ reader' \in Nat \X Nat
  <2>1. PICK x \in Nat, y \in Nat : reader = <<x, y>>
    BY <1>2
  <2>2. reader' = <<x, y + n>>
    BY <1>1, <2>1
  <2> QED
    BY <1>3, <2>1, <2>2
<1> HIDE DEF N, f, o
<1>5. f \in 1..N
  BY <1>1, <1>2, <1>3
<1>6. o + n <= layout[f] /\ layout[f] \in Nat
  BY <1>1, <1>2, <1>3, <1>5
<1>7. /\ Offset(f) \in Nat /\ Offset(f) + (o + n) <= Len(Whole)
      /\ SubSeq(disk[f], o + 1, o + n) = SubSeq(Whole, (Offset(f) + o) + 1, Offset(f) + (o + n))
  <2> DEFINE b == o + n
  <2>1. b \in Nat /\ o <= b /\ b <= Len(disk[f]) /\ b <= layout[f]
    BY <1>1, <1>2, <1>3, <1>6
  <2> HIDE DEF b
  <2>2. /\ Offset(f) \in Nat /\ Offset(f) + b <= Len(Whole)
        /\ SubSeq(disk[f], o + 1, b) = SubSeq(Whole, (Offset(f) + o) + 1, Offset(f) + b)
    <3>1. Agrees(Whole, f, Offset(f) + o, Offset(f) + b)
      BY <1>1, <1>2, <1>5, FoundAgrees DEF N
    <3>2. Whole \in Seq(Octets) /\ Len(Whole) = TotalLength
      BY <1>1, WholeFacts
    <3>3. f \in 1..Len(layout) /\ DiskShape /\ o \in Nat
      BY <1>1, <1>2, <1>5 DEF N
    <3> QED
      BY <2>1, <3>1, <3>2, <3>3, FilePart
  <2> QED
    BY <2>2 DEF b
<1>8. ReadTo = Offset(f) + o /\ ReadTo \in Nat /\ Offset(f) + (o + n) = ReadTo + n
  <2>1. ReadTo = Offset(f) + o
    BY DEF ReadTo, f, o
  <2> DEFINE x == Offset(f)
  <2>2. x \in Nat /\ ReadTo = x + o
    BY <1>7, <2>1
  <2> HIDE DEF x
  <2>3. ReadTo \in Nat /\ x + (o + n) = ReadTo + n
    BY <1>2, <1>3, <2>2
  <2> QED
    BY <2>1, <2>3 DEF x
<1>9. ReadTo' = ReadTo + n
  <2>1. ReadTo' = Offset(f) + (o + n)
    BY <1>1, <1>4 DEF ReadTo, Offset
  <2> QED
    BY <1>8, <2>1
<1>10. data = digest \o SubSeq(Whole, ReadTo + 1, ReadTo + n)
  BY <1>7, <1>8
<1> HIDE DEF data
<1>11. Hashed(hashes', digest', Whole, plen, ReadTo + n)
  <2> DEFINE p == ReadTo
             B == Octets
  <2>1. Whole \in Seq(B)
    BY <1>1, WholeFacts
  <2>2. p \in Nat /\ p + n <= Len(Whole) /\ Hashed(hashes, digest, Whole, plen, p)
    BY <1>2, <1>7, <1>8
  <2>3. data = digest \o SubSeq(Whole, p + 1, p + n)
    BY <1>10
  <2> HIDE DEF p, B
  <2>4. Hashed(hashes \o SubSeq(Chunks(data, plen), 1, full),
               SubSeq(data, full * plen + 1, Len(data)), Whole, plen, p + n)
    BY <1>1, <1>3, <2>1, <2>2, <2>3, HashedStep
  <2> QED
    BY <1>1, <2>4 DEF p
<1>12. Whole' = Whole /\ plen' = plen
  BY <1>1, DataFrame
<1>13. Hashed(hashes', digest', Whole', plen', ReadTo')
  BY <1>9, <1>11, <1>12
<1>14. Hashing'
  <2>1. reader'[1] <= N => reader'[2] <= layout[reader'[1]]
    BY <1>4, <1>6
  <2>2. reader'[1] # N + 1
    BY <1>3, <1>4, <1>5
  <2> QED
    BY <1>1, <1>2, <1>4, <1>13, <2>1, <2>2 DEF Hashing, N
<1>15. DiskShape'
  BY <1>1 DEF DiskShape
<1> QED
  BY <1>1, <1>14, <1>15 DEF DataInv

\* What the pieces of a torrent read back as depends on the files, the layout and
\* the piece length alone.
LEMMA ReadFrame ==
  ASSUME UNCHANGED <<disk, layout, plen>>
  PROVE  \A i : ReadPiece(i)' = ReadPiece(i)
  BY DEF ReadPiece, ReadFile, Offset, PieceLen, TotalLength

\* The bytes that are left after the last file are the last piece.
LEMMA FlushKeeps ==
  ASSUME DataInv, Flush
  PROVE  DataInv'
<1> DEFINE N == Len(layout)
           q == Len(hashes)
           r == Len(digest)
           B == Octets
<1>0. DiskShape /\ layout \in Seq(Nat)
  BY DEF DataInv, DiskShape
<1>1. /\ layout \in Seq(Nat) /\ plen \in Nat \ {0} /\ DiskShape /\ Hashing /\ tpc = "hash"
      /\ reader[1] = Len(disk) + 1 /\ hashes' = hashes \o LastPiece /\ tpc' = "created"
      /\ UNCHANGED <<disk, original, layout, plen>>
  BY <1>0 DEF DataInv, Flush
<1>2. Whole \in Seq(B) /\ Len(Whole) = Offset(N + 1) /\ Offset(N + 1) \in Nat
  <2>1. N + 1 \in 1..(N + 1)
    BY <1>1, LenProperties
  <2> QED
    BY <1>1, <2>1, WholeFacts, OffsetFacts DEF TotalLength
<1>3. ReadTo = Len(Whole)
  <2>1. reader[1] = N + 1 /\ reader[2] = 0
    BY <1>1 DEF Hashing, DiskShape
  <2> QED
    BY <1>2, <2>1 DEF ReadTo
<1>4. Hashed(hashes, digest, Whole, plen, Len(Whole))
  BY <1>1, <1>3 DEF Hashing
<1>5. /\ q \in Nat /\ r \in Nat /\ r < plen /\ Len(Whole) = q * plen + r
      /\ FullPieces(hashes, Whole, plen, q) /\ digest = SubSeq(Whole, q * plen + 1, Len(Whole))
  BY <1>4 DEF Hashed
<1>6. LastPiece = IF r = 0 THEN <<>> ELSE <<digest>>
  <2>1. digest \in Seq(B)
    <3> DEFINE a == q * plen
               b == Len(Whole)
    <3>1. a \in Nat /\ b \in Nat /\ a <= b /\ digest = SubSeq(Whole, a + 1, b)
      <4>1. a \in Nat /\ b \in Nat
        BY <1>1, <1>2, <1>5
      <4>2. b = a + r
        BY <1>5
      <4> HIDE DEF a, b, r
      <4>3. a <= b
        BY <1>5, <4>1, <4>2
      <4> QED
        BY <1>5, <4>1, <4>3 DEF a, b
    <3> HIDE DEF a, B
    <3> QED
      BY <1>2, <3>1, SliceFacts
  <2>2. digest = <<>> <=> r = 0
    <3> HIDE DEF B
    <3> QED
      BY <2>1, EmptySeq
  <2> QED
    BY <2>2 DEF LastPiece
<1> HIDE DEF q, r, B
<1>7. IsJoin(Chunks(Whole, plen), hashes, LastPiece)
  BY <1>1, <1>2, <1>5, <1>6, ChunksEnd
<1>8. hashes' = Chunks(Whole', plen')
  BY <1>1, <1>7, DataFrame DEF IsJoin
<1>9. DiskShape'
  BY <1>1 DEF DiskShape
<1> QED
  BY <1>1, <1>8, <1>9 DEF DataInv

\* A file that was rewritten is a file.
LEMMA DamageKeeps ==
  ASSUME DataInv, NEW f \in DOMAIN disk, Damage(f)
  PROVE  DataInv'
<1>1. /\ plen \in Nat \ {0} /\ DiskShape /\ tpc = "created"
      /\ hashes = Chunks(Whole, plen)
      /\ UNCHANGED <<tpc, original, layout, plen, hashes>>
  BY DEF DataInv, Damage
<1>0. PICK n \in 0..layout[f] + 1 : \E t \in [1..n -> Octets] : disk' = [disk EXCEPT ![f] = t]
  BY DEF Damage
<1>2. PICK t \in [1..n -> Octets] : disk' = [disk EXCEPT ![f] = t]
  BY <1>0
<1> DEFINE N == Len(layout)
<1>3. N \in Nat /\ DOMAIN disk = 1..N /\ f \in 1..N
  BY <1>1, LenProperties DEF DiskShape
<1>4. \A g \in 1..N : disk[g] \in Seq(Octets)
  BY <1>1, MembersOfSeq DEF DiskShape
<1>5. t \in Seq(Octets)
  <2>1. n \in Nat
    <3>1. layout[f] \in Nat
      BY <1>1, <1>3, MembersOfSeq DEF DiskShape
    <3> QED
      BY <3>1
  <2> QED
    BY <2>1
<1> HIDE DEF N
<1>6. /\ disk' = [g \in 1..N |-> disk'[g]]
      /\ \A g \in 1..N : disk'[g] \in Seq(Octets)
  BY <1>2, <1>3, <1>4, <1>5
<1>7. disk' \in Seq({disk'[g] : g \in 1..N}) /\ Len(disk') = N
  BY <1>3, <1>6, FunctionIsSeq
<1>8. {disk'[g] : g \in 1..N} \subseteq Seq(Octets)
  BY <1>6
<1>9. disk' \in Seq(Seq(Octets))
  BY <1>7, <1>8, SeqMonotonic
<1>10. DiskShape'
  BY <1>1, <1>7, <1>9 DEF DiskShape, N
<1>11. hashes' = Chunks(Whole', plen')
  BY <1>1, DataFrame
<1> QED
  BY <1>1, <1>10, <1>11 DEF DataInv

\* VerifyData compares what is read with the torrent's hashes.
LEMMA VerifyKeeps ==
  ASSUME DataInv, VerifyData
  PROVE  DataInv'
<1>1. /\ plen \in Nat \ {0} /\ DiskShape /\ tpc = "created"
      /\ hashes = Chunks(Whole, plen) /\ tpc' = "verified"
      /\ valid' = {i \in 0..Len(hashes) - 1 : ReadPiece(i) = hashes[i + 1]}
      /\ UNCHANGED <<disk, original, layout, plen, hashes>>
  BY DEF DataInv, VerifyData
<1>2. \A i : ReadPiece(i)' = ReadPiece(i)
  BY <1>1, ReadFrame
<1>3. hashes' = Chunks(Whole', plen')
  BY <1>1, DataFrame
<1>4. DiskShape'
  BY <1>1 DEF DiskShape
<1> QED
  BY <1>1, <1>2, <1>3, <1>4 DEF DataInv

\* Nothing changes in a step of something else.
LEMMA DataStutter ==
  ASSUME DataInv, UNCHANGED dataVars
  PROVE  DataInv'
<1>1. UNCHANGED <<tpc, disk, original, layout, plen, reader, digest, hashes, valid>>
  BY DEF dataVars
<1>2. \A i : ReadPiece(i)' = ReadPiece(i)
  BY <1>1, ReadFrame
<1>3. Whole' = Whole /\ \A f : Offset(f)' = Offset(f)
  BY <1>1, DataFrame
<1>4. Hashing => Hashing'
  BY <1>1, <1>3 DEF Hashing, ReadTo, Offset
<1>5. DiskShape'
  BY <1>1 DEF DataInv, DiskShape
<1> QED
  BY <1>1, <1>2, <1>3, <1>4, <1>5 DEF DataInv

\* No torrent has been made yet.
LEMMA DataStart == DataInit => DataInv
<1> SUFFICES ASSUME DataInit PROVE DataInv
  OBVIOUS
<1>1. DiskShape
  BY DEF DataInit, DiskShape
<1> QED
  BY <1>1 DEF DataInit, DataInv

\* What ReadPiece has read, and how far it is.
Readings == [data : Seq(Octets), offset : Nat]

\* The bytes of w from s to e, as far as they lie before x.
Clamp(s, e, x) == IF x < s THEN s ELSE IF x > e THEN e ELSE x
Reached(w, s, e, x) ==
  [data |-> SubSeq(w, s + 1, Clamp(s, e, x)), offset |-> Clamp(s, e, x)]

\* A file on disk is a sequence of bytes.
LEMMA DiskFile ==
  ASSUME DiskShape, NEW f \in 1..Len(layout)
  PROVE  /\ disk[f] \in Seq(Octets) /\ Len(disk[f]) \in Nat /\ layout[f] \in Nat
         /\ \A k \in 1..Len(disk[f]) : disk[f][k] \in Octets
<1>1. f \in 1..Len(disk) /\ layout[f] \in Nat
  BY MembersOfSeq DEF DiskShape
<1>2. disk[f] \in Seq(Octets)
  BY <1>1, MembersOfSeq DEF DiskShape
<1> QED
  BY <1>1, <1>2, MembersOfSeq

\* Whatever a turn of the loop reads are bytes.
LEMMA ReadStays ==
  ASSUME DiskShape, NEW f \in 1..Len(layout), NEW r \in Readings, NEW size \in Int
  PROVE  ReadFile(r, f, size) \in Readings
<1> DEFINE N == Len(layout)
           o == Offset(f)
           l == layout[f]
           from == IF r.offset > o THEN r.offset - o ELSE 0
           rest == size - Len(r.data)
           want == IF l - from < rest THEN l - from ELSE rest
           n == Len(disk[f])
           m == IF from + want < n THEN from + want ELSE n
           got == SubSeq(disk[f], from + 1, m)
<1>0. layout \in Seq(Nat)
  BY DEF DiskShape
<1>1. N \in Nat /\ l \in Nat /\ f \in Nat /\ f \in 1..(N + 1)
  BY <1>0, MembersOfSeq
<1>2. o \in Nat
  BY <1>0, <1>1, OffsetFacts
<1>3. r.data \in Seq(Octets) /\ r.offset \in Nat /\ Len(r.data) \in Nat
  BY LenProperties DEF Readings
<1>4. n \in Nat /\ \A k \in 1..n : disk[f][k] \in Octets
  BY DiskFile
<1>5. ReadFile(r, f, size)
        = IF r.offset >= o + l THEN r
          ELSE [data |-> r.data \o got, offset |-> r.offset + Len(got)]
  BY DEF ReadFile
<1> HIDE DEF o, l, n
<1>6. from \in Nat
  BY <1>2, <1>3
<1> HIDE DEF from
<1>7. want \in Int
  BY <1>1, <1>3, <1>6
<1> HIDE DEF want
<1>8. m \in Int /\ m <= n
  BY <1>4, <1>6, <1>7
<1> HIDE DEF m
<1>9. \A k \in (from + 1)..m : disk[f][k] \in Octets
  <2> TAKE k \in (from + 1)..m
  <2>1. k \in 1..n
    BY <1>4, <1>6, <1>8
  <2> QED
    BY <1>4, <2>1
<1>10. got \in Seq(Octets) /\ Len(got) \in Nat
  <2>1. from + 1 \in Int
    BY <1>6
  <2>2. SubSeq(disk[f], from + 1, m) \in Seq(Octets)
    BY <1>8, <1>9, <2>1, SubSeqProperties
  <2> QED
    BY <2>2, LenProperties
<1> HIDE DEF got
<1>11. r.data \o got \in Seq(Octets) /\ r.offset + Len(got) \in Nat
  BY <1>3, <1>10, ConcatProperties
<1> QED
  BY <1>5, <1>11 DEF Readings

\* If the disk agrees with w on the bytes of the piece that lie in a file, a turn of
\* the loop reads them.
LEMMA ReadReaches ==
  ASSUME DiskShape, NEW f \in 1..Len(layout), NEW w \in Seq(Octets), Len(w) = TotalLength,
         NEW s \in Nat, NEW e \in Nat, s < e, e <= Len(w), Agrees(w, f, s, e),
         NEW size, size = e - s
  PROVE  ReadFile(Reached(w, s, e, Offset(f)), f, size) = Reached(w, s, e, Offset(f + 1))
<1> DEFINE N == Len(layout)
           B == Octets
           o == Offset(f)
           l == layout[f]
           c == Clamp(s, e, o)
           d == SubSeq(w, s + 1, c)
           r == Reached(w, s, e, o)
           from == IF c > o THEN c - o ELSE 0
           rest == size - Len(d)
           want == IF l - from < rest THEN l - from ELSE rest
           n == Len(disk[f])
           m == IF from + want < n THEN from + want ELSE n
           got == SubSeq(disk[f], from + 1, m)
           g == Clamp(s, e, Offset(f + 1))
<1>0. layout \in Seq(Nat)
  BY DEF DiskShape
<1>1. N \in Nat /\ l \in Nat /\ f \in Nat /\ f \in 1..(N + 1)
  BY <1>0, MembersOfSeq
<1>2. o \in Nat /\ Offset(f + 1) = o + l
  BY <1>0, <1>1, OffsetFacts
<1>3. w \in Seq(B)
  OBVIOUS
<1>4. Len(w) \in Nat
  BY <1>3, LenProperties
<1>5. n \in Nat
  BY DiskFile
<1>6. r.data = d /\ r.offset = c
  BY DEF Reached
<1>7. ReadFile(r, f, size)
        = IF c >= o + l THEN r ELSE [data |-> d \o got, offset |-> c + Len(got)]
  <2> HIDE DEF r, c, d
  <2> QED
    BY <1>6 DEF ReadFile
<1>8. Reached(w, s, e, Offset(f + 1)) = [data |-> SubSeq(w, s + 1, g), offset |-> g]
  BY DEF Reached
<1>9. r = [data |-> d, offset |-> c]
  BY DEF Reached
<1>10. g = Clamp(s, e, o + l)
  BY <1>2
<1>10a. \A j \in 1..l : s < o + j /\ o + j <= e => j <= n /\ disk[f][j] = w[o + j]
  BY DEF Agrees
<1> HIDE DEF r, o, l, n, g, B, N
<1>11. /\ c \in Nat /\ s <= c /\ c <= e /\ g \in Nat /\ s <= g /\ g <= e
  BY <1>1, <1>2, <1>10 DEF Clamp
<1>12. ASSUME c >= o + l PROVE ReadFile(r, f, size) = Reached(w, s, e, Offset(f + 1))
  <2>1. g = c
    BY <1>1, <1>2, <1>10, <1>12 DEF Clamp
  <2> HIDE DEF c
  <2> QED
    BY <1>7, <1>8, <1>9, <1>12, <2>1
<1>13. ASSUME ~(c >= o + l) PROVE ReadFile(r, f, size) = Reached(w, s, e, Offset(f + 1))
  <2>1. Len(d) = c - s
    <3> HIDE DEF c
    <3>1. c <= Len(w)
      BY <1>4, <1>11
    <3> QED
      BY <1>3, <1>11, <3>1, SliceFacts
  <2> HIDE DEF d
  <2>2. rest = e - c
    <3> HIDE DEF c
    <3> QED
      BY <1>11, <2>1
  <2> HIDE DEF rest
  <2>3. /\ g >= c /\ from \in Nat /\ want = g - c
        /\ (g # c => from = c - o /\ g - o \in 1..l /\ from + want = g - o)
    BY <1>1, <1>2, <1>10, <1>11, <1>13, <2>2 DEF Clamp
  <2> HIDE DEF c, from, want
  <2>4. CASE g = c
    <3>1. m \in Int /\ m <= from
      BY <1>5, <1>11, <2>3, <2>4
    <3> HIDE DEF m
    <3>2. got = <<>>
      <4>1. from + 1 \in Int /\ m < from + 1
        BY <2>3, <3>1
      <4> QED
        BY <3>1, <4>1, SubSeqEmpty
    <3> HIDE DEF got
    <3>3. d \o got = d /\ c + Len(got) = c
      <4>1. d \in Seq(B)
        <5>1. c <= Len(w)
          BY <1>4, <1>11
        <5> QED
          BY <1>3, <1>11, <5>1, SliceFacts DEF d
      <4>2. d \o <<>> = d
        BY <4>1, ConcatEmptySeq
      <4>3. Len(<<>>) = 0
        OBVIOUS
      <4> QED
        BY <1>11, <3>2, <4>2, <4>3
    <3> QED
      BY <1>7, <1>8, <1>13, <2>4, <3>3 DEF d
  <2>5. CASE g # c
    <3> DEFINE a == c - o
               b == g - o
    <3>1. /\ a \in Nat /\ b \in 1..l /\ b \in Nat /\ a <= b /\ o + a = c /\ o + b = g
          /\ from = a /\ from + want = b
      BY <1>1, <1>2, <1>11, <2>3, <2>5
    <3> HIDE DEF a, b
    <3>2. b <= n
      <4>1. s < o + b /\ o + b <= e
        <5>1. s < g /\ g <= e
          BY <1>11, <2>3, <2>5
        <5> QED
          BY <3>1, <5>1
      <4> QED
        BY <1>10a, <3>1, <4>1
    <3>3. m = b
      BY <1>5, <3>1, <3>2
    <3> HIDE DEF m
    <3>4. got = SubSeq(w, c + 1, g)
      <4>1. b <= layout[f]
        BY <1>1, <3>1 DEF l
      <4>2. SubSeq(disk[f], a + 1, b) = SubSeq(w, (Offset(f) + a) + 1, Offset(f) + b)
        <5>1. Agrees(w, f, Offset(f) + a, Offset(f) + b)
          <6>1. \A x \in Nat : c < x /\ x <= g => s < x /\ x <= e
            BY <1>11
          <6>2. \A j \in 1..l : o + j \in Nat
            BY <1>1, <1>2
          <6>3. \A j \in 1..l : o + a < o + j /\ o + j <= o + b => j <= n /\ disk[f][j] = w[o + j]
            BY <1>10a, <3>1, <6>1, <6>2
          <6> QED
            BY <6>3 DEF Agrees, o, l, n
        <5> QED
          BY <3>1, <3>2, <4>1, <5>1, FilePart DEF n
      <4> QED
        BY <3>1, <3>3, <4>2 DEF o
    <3> HIDE DEF got
    <3>5. g <= Len(w)
      BY <1>4, <1>11
    <3>6. Len(got) = g - c
      BY <1>3, <1>11, <2>3, <3>4, <3>5, SliceFacts
    <3>7. d \o got = SubSeq(w, s + 1, g)
      <4>1. c <= g
        BY <1>11, <2>3
      <4>2. SubSeq(w, s + 1, c) \o SubSeq(w, c + 1, g) = SubSeq(w, s + 1, g)
        BY <1>3, <1>11, <3>5, <4>1, SliceJoin
      <4> QED
        BY <3>4, <4>2 DEF d
    <3>8. c + Len(got) = g
      BY <1>11, <3>6
    <3> QED
      BY <1>7, <1>8, <1>13, <3>7, <3>8
  <2> QED
    BY <2>4, <2>5
<1> QED
  BY <1>12, <1>13 DEF r, o

\* Where piece i starts.
StartOf(i) == i * plen

\* Piece i is w between s and e.
Located(w, i, s, e) ==
  /\ w \in Seq(Octets) /\ Len(w) = TotalLength
  /\ s \in Nat /\ e \in Nat /\ s < e /\ e <= Len(w) /\ s = StartOf(i) /\ PieceLen(i) = e - s

\* The disk agrees with w there in the first m files.
AgreeUpTo(w, s, e, m) == \A f \in 1..m : Agrees(w, f, s, e)

\* read is the loop of ReadPiece for piece i.
Loop(read, i) ==
  /\ read \in [0..Len(layout) -> Readings]
  /\ read[0] = [data |-> <<>>, offset |-> StartOf(i)]
  /\ \A f \in 1..Len(layout) : read[f] = ReadFile(read[f - 1], f, PieceLen(i))
  /\ ReadPiece(i) = read[Len(layout)].data

\* The loop ends, and what it reads are bytes.
LEMMA LoopRuns ==
  ASSUME plen \in Nat \ {0}, DiskShape, NEW i \in Nat
  PROVE  \E read : Loop(read, i)
<1> DEFINE N == Len(layout)
           V == Readings
           size == PieceLen(i)
           z == [data |-> <<>>, offset |-> i * plen]
           R(x, f) == ReadFile(x, f, size)
           F == [x \in V \X (1..N) |-> R(x[1], x[2])]
           Fill(g, k) == IF k = 0 THEN z ELSE R(g[k - 1], k)
           f == CHOOSE g : g = [k \in 0..N |-> Fill(g, k)]
<1>1. ReadPiece(i) = f[N].data
  BY DEF ReadPiece
<1>0. layout \in Seq(Nat)
  BY DEF DiskShape
<1>2. N \in Nat /\ size \in Int /\ i * plen \in Nat
  <2>1. N \in Nat /\ N + 1 \in 1..(N + 1) /\ i * plen \in Nat /\ (i + 1) * plen \in Nat
    BY <1>0, LenProperties
  <2>2. TotalLength \in Nat
    BY <1>0, <2>1, OffsetFacts DEF TotalLength
  <2> QED
    BY <2>1, <2>2 DEF PieceLen
<1>3. z \in V
  <2>1. <<>> \in Seq(Octets)
    OBVIOUS
  <2> QED
    BY <1>2, <2>1 DEF Readings
<1>4. \A x \in V, k \in 1..N : R(x, k) \in V
  <2> TAKE x \in V, k \in 1..N
  <2> HIDE DEF size
  <2> QED
    BY <1>2, ReadStays
<1> HIDE DEF N, R, f, z, V
<1>5. PICK g : Iteration(g, N, V, z, F)
  <2>1. F \in [V \X (1..N) -> V]
    BY <1>4
  <2> HIDE DEF F, Fill
  <2> QED
    BY <1>2, <1>3, <2>1, Iterates
<1>6. g \in [0..N -> V] /\ g[0] = z /\ \A k \in 1..N : g[k] = F[<<g[k - 1], k>>]
  BY <1>5 DEF Iteration
<1>7. \A k \in 1..N : g[k] = R(g[k - 1], k)
  <2> TAKE k \in 1..N
  <2>1. g[k - 1] \in V /\ <<g[k - 1], k>> \in V \X (1..N)
    BY <1>2, <1>6
  <2>2. F[<<g[k - 1], k>>] = R(g[k - 1], k)
    BY <2>1
  <2> QED
    BY <1>6, <2>2
<1> HIDE DEF F
<1>8. g = [k \in 0..N |-> Fill(g, k)]
  <2>1. g = [k \in 0..N |-> g[k]]
    BY <1>6
  <2>2. \A k \in 0..N : g[k] = Fill(g, k)
    BY <1>2, <1>6, <1>7
  <2> HIDE DEF Fill
  <2> QED
    BY <2>1, <2>2
<1>9. f = [k \in 0..N |-> Fill(f, k)]
  <2> HIDE DEF Fill
  <2> QED
    BY <1>8 DEF f
<1>10. f[0] = z /\ \A k \in 1..N : f[k] = R(f[k - 1], k)
  <2>1. \A k \in 0..N : f[k] = Fill(f, k)
    <3> HIDE DEF Fill
    <3> QED
      BY <1>9
  <2>2. f[0] = z
    BY <1>2, <2>1
  <2>3. \A k \in 1..N : f[k] = R(f[k - 1], k)
    <3> TAKE k \in 1..N
    <3>1. k \in 0..N /\ k # 0
      BY <1>2
    <3> QED
      BY <2>1, <3>1
  <2> QED
    BY <2>2, <2>3
<1>11. \A k \in 0..N : f[k] \in V
  <2> DEFINE U == {k \in 0..N : f[k] \in V}
  <2>1. 0 \in U
    BY <1>2, <1>3, <1>10
  <2>2. \A k \in 1..N : k - 1 \in U => k \in U
    BY <1>2, <1>4, <1>10
  <2>3. U \in SUBSET (0..N)
    OBVIOUS
  <2>4. U = 0..N
    <3> HIDE DEF U
    <3> QED
      BY <1>2, <2>1, <2>2, <2>3, UpTo
  <2> QED
    BY <2>4
<1>12. f \in [0..N -> V]
  <2> HIDE DEF Fill
  <2> QED
    BY <1>9, <1>11
<1>13. Loop(f, i)
  BY <1>1, <1>10, <1>12 DEF Loop, N, V, R, z, StartOf
<1> QED
  BY <1>13

\* If the disk agrees with w on the bytes of a piece in the first m files, the loop
\* has read them after these files.
LEMMA LoopReads ==
  ASSUME DiskShape, NEW i, NEW read, Loop(read, i), NEW w, NEW s, NEW e, Located(w, i, s, e),
         NEW m \in 0..Len(layout), AgreeUpTo(w, s, e, m)
  PROVE  read[m] = Reached(w, s, e, Offset(m + 1))
<1> DEFINE N == Len(layout)
           U == {f \in 0..m : read[f] = Reached(w, s, e, Offset(f + 1))}
<1>0. /\ layout \in Seq(Nat) /\ w \in Seq(Octets) /\ Len(w) = TotalLength
      /\ s \in Nat /\ e \in Nat /\ s < e /\ e <= Len(w) /\ s = StartOf(i) /\ PieceLen(i) = e - s
      /\ \A f \in 1..m : Agrees(w, f, s, e)
  BY DEF DiskShape, Located, AgreeUpTo
<1>1. N \in Nat /\ m \in Nat /\ m <= N /\ Offset(1) = 0
  BY <1>0, LenProperties, OffsetFacts
<1>2. /\ read[0] = [data |-> <<>>, offset |-> s]
      /\ \A f \in 1..N : read[f] = ReadFile(read[f - 1], f, PieceLen(i))
  BY <1>0 DEF Loop
<1> HIDE DEF N
<1>3. 0 \in U
  <2>1. Clamp(s, e, 0) = s
    BY <1>0 DEF Clamp
  <2>2. SubSeq(w, s + 1, s) = <<>>
    <3>1. s + 1 \in Int /\ s \in Int /\ s < s + 1
      BY <1>0
    <3> QED
      BY <3>1, SubSeqEmpty
  <2>3. Reached(w, s, e, 0) = [data |-> <<>>, offset |-> s]
    BY <2>1, <2>2 DEF Reached
  <2>4. 0 + 1 = 1 /\ 0 \in 0..m
    BY <1>1
  <2> QED
    BY <1>1, <1>2, <2>3, <2>4
<1>4. \A f \in 1..m : f - 1 \in U => f \in U
  <2> TAKE f \in 1..m
  <2> HAVE f - 1 \in U
  <2>1. (f - 1) + 1 = f /\ f \in 0..m /\ f \in 1..N
    BY <1>1
  <2>2. read[f - 1] = Reached(w, s, e, Offset(f))
    BY <2>1
  <2> DEFINE size == PieceLen(i)
  <2>3. size = e - s
    BY <1>0
  <2> HIDE DEF size
  <2>4. ReadFile(Reached(w, s, e, Offset(f)), f, size) = Reached(w, s, e, Offset(f + 1))
    BY <1>0, <2>1, <2>3, ReadReaches DEF N
  <2> QED
    BY <1>2, <2>1, <2>2, <2>4 DEF size
<1>5. U \in SUBSET (0..m)
  OBVIOUS
<1>6. U = 0..m
  <2> HIDE DEF U
  <2> QED
    BY <1>1, <1>3, <1>4, <1>5, UpTo
<1>7. m \in U
  <2> HIDE DEF U
  <2> QED
    BY <1>1, <1>6
<1> QED
  BY <1>7

\* If the disk agrees with w on the whole piece, w is what is read.
LEMMA PieceReads ==
  ASSUME DiskShape, plen \in Nat \ {0}, NEW i \in Nat, NEW w, NEW s, NEW e,
         Located(w, i, s, e), AgreeUpTo(w, s, e, Len(layout))
  PROVE  ReadPiece(i) = SubSeq(w, s + 1, e)
<1>1. PICK read : Loop(read, i)
  BY LoopRuns
<1> DEFINE N == Len(layout)
<1>2. N \in Nat /\ N \in 0..N
  BY LenProperties DEF DiskShape
<1>3. read[N] = Reached(w, s, e, Offset(N + 1))
  BY <1>1, <1>2, LoopReads
<1>4. Clamp(s, e, Offset(N + 1)) = e
  <2>1. Offset(N + 1) = Len(w) /\ Len(w) \in Nat
    BY LenProperties DEF TotalLength, Located
  <2> QED
    BY <2>1 DEF Clamp, Located
<1>5. read[N] = [data |-> SubSeq(w, s + 1, e), offset |-> e]
  BY <1>3, <1>4 DEF Reached
<1>6. ReadPiece(i) = read[N].data
  BY <1>1 DEF Loop
<1>7. [data |-> SubSeq(w, s + 1, e), offset |-> e].data = SubSeq(w, s + 1, e)
  OBVIOUS
<1> QED
  BY <1>5, <1>6, <1>7

\* If the last file has lost a byte of the piece, the read is short.
LEMMA LastIsShort ==
  ASSUME DiskShape, NEW f \in 1..Len(layout), f = Len(layout),
         NEW w \in Seq(Octets), Len(w) = TotalLength,
         NEW s \in Nat, NEW e \in Nat, s < e, e <= Len(w), NEW size, size = e - s,
         NEW j \in 1..layout[f], s < Offset(f) + j, Offset(f) + j <= e, j > Len(disk[f])
  PROVE  Len(ReadFile(Reached(w, s, e, Offset(f)), f, size).data) < e - s
<1> DEFINE N == Len(layout)
           o == Offset(f)
           l == layout[f]
           c == Clamp(s, e, o)
           d == SubSeq(w, s + 1, c)
           r == Reached(w, s, e, o)
           from == IF c > o THEN c - o ELSE 0
           rest == size - Len(d)
           want == IF l - from < rest THEN l - from ELSE rest
           n == Len(disk[f])
           m == IF from + want < n THEN from + want ELSE n
           got == SubSeq(disk[f], from + 1, m)
<1>0. layout \in Seq(Nat)
  BY DEF DiskShape
<1>1. N \in Nat /\ l \in Nat /\ f \in 1..(N + 1) /\ n \in Nat /\ disk[f] \in Seq(Octets)
  BY <1>0, MembersOfSeq, DiskFile
<1>2. o \in Nat /\ Len(w) = o + l /\ Len(w) \in Nat
  <2>1. Offset(f) \in Nat /\ Offset(f + 1) = Offset(f) + layout[f]
    BY <1>0, <1>1, OffsetFacts
  <2>2. Len(w) = Offset(f + 1)
    BY DEF TotalLength
  <2> QED
    BY <2>1, <2>2, LenProperties
<1>3. r.data = d /\ r.offset = c
  BY DEF Reached
<1>4. ReadFile(r, f, size)
        = IF c >= o + l THEN r ELSE [data |-> d \o got, offset |-> c + Len(got)]
  <2> HIDE DEF r, c, d
  <2> QED
    BY <1>3 DEF ReadFile
<1>5. j \in Nat /\ j <= l /\ s < o + j /\ o + j <= e /\ j > n /\ e <= o + l
  BY <1>1, <1>2
<1> HIDE DEF r, o, l, n, N
<1>6. c \in Nat /\ s <= c /\ o <= c /\ c < o + j /\ c < e /\ from = c - o
  BY <1>1, <1>2, <1>5 DEF Clamp
<1> HIDE DEF c
<1>7. d \in Seq(Octets) /\ Len(d) = c - s
  <2>1. c <= Len(w)
    BY <1>2, <1>5, <1>6
  <2> QED
    BY <1>6, <2>1, SliceFacts
<1> HIDE DEF d
<1>8. from \in Nat /\ want = e - c /\ from + want = e - o
  BY <1>1, <1>2, <1>5, <1>6, <1>7
<1> HIDE DEF from, want
<1>9. m = n
  BY <1>1, <1>2, <1>5, <1>8
<1> HIDE DEF m
<1>10. got \in Seq(Octets) /\ Len(got) \in Nat /\ Len(got) < e - c
  <2>1. CASE from <= n
    <3>1. got \in Seq(Octets) /\ Len(got) = n - from
      BY <1>1, <1>8, <1>9, <2>1, SliceFacts DEF n
    <3>2. n - from \in Nat /\ n - from < e - c
      BY <1>1, <1>2, <1>5, <1>6, <1>8, <2>1
    <3> QED
      BY <3>1, <3>2
  <2>2. CASE ~(from <= n)
    <3>1. from + 1 \in Int /\ n \in Int /\ n < from + 1
      BY <1>1, <1>8, <2>2
    <3>2. got = <<>>
      BY <1>9, <3>1, SubSeqEmpty
    <3>3. <<>> \in Seq(Octets) /\ Len(<<>>) = 0
      OBVIOUS
    <3>4. 0 \in Nat /\ 0 < e - c
      BY <1>6
    <3> HIDE DEF got
    <3> QED
      BY <3>2, <3>3, <3>4
  <2> QED
    BY <2>1, <2>2
<1> HIDE DEF got
<1>11. Len(d \o got) = Len(d) + Len(got)
  BY <1>7, <1>10, ConcatProperties
<1>12. ~(c >= o + l)
  <2>1. l \in Nat /\ o \in Nat /\ j \in Nat /\ c \in Nat
    BY <1>1, <1>2, <1>5, <1>6
  <2>2. j <= l /\ c < o + j
    BY <1>5, <1>6
  <2> QED
    BY <2>1, <2>2
<1>13. ReadFile(r, f, size).data = d \o got
  <2>1. ReadFile(r, f, size) = [data |-> d \o got, offset |-> c + Len(got)]
    BY <1>4, <1>12
  <2>2. \A x, y : [data |-> x, offset |-> y].data = x
    OBVIOUS
  <2> QED
    BY <2>1, <2>2
<1>14. Len(d \o got) < e - s
  BY <1>6, <1>7, <1>10, <1>11
<1> QED
  BY <1>13, <1>14 DEF r, o

\* Piece i + 1 of the whole.
Span(i, s, e) ==
  /\ s \in Nat /\ e \in Nat /\ s < e /\ e <= Len(Whole) /\ s = StartOf(i) /\ PieceLen(i) = e - s
  /\ Chunks(Whole, plen)[i + 1] = SubSeq(Whole, s + 1, e)
  /\ \A f \in 1..Len(layout) : \A j \in 1..layout[f] :
       Holds(i, f, j) <=> s < Offset(f) + j /\ Offset(f) + j <= e

\* Every piece has its place in the whole.
LEMMA PieceSpan ==
  ASSUME DiskShape, plen \in Nat \ {0}, NEW i \in 0..Ceil(Len(Whole), plen) - 1
  PROVE  i \in Nat /\ \E s, e : Span(i, s, e)
<1> DEFINE N == Len(layout)
           s == i * plen
           n == Len(Whole)
           x == (i + 1) * plen
           e == IF x < n THEN x ELSE n
<1>1. Whole \in Seq(Octets) /\ n = TotalLength /\ layout \in Seq(Nat) /\ n \in Nat
  BY WholeFacts
<1>2. Ceil(n, plen) \in Nat
  BY <1>1, CeilBelow
<1>3. i + 1 \in 1..Ceil(n, plen) /\ (i + 1) - 1 = i /\ i \in Nat
  BY <1>2
<1>4. s \in Nat /\ s < n
  BY <1>1, <1>3, CeilBelow
<1>5. x = s + plen /\ x \in Nat
  BY <1>3
<1>6. Chunks(Whole, plen)[i + 1] = SubSeq(Whole, s + 1, e)
  <2>1. \A k \in 1..Ceil(Len(Whole), plen) :
          Chunks(Whole, plen)[k]
            = SubSeq(Whole, (k - 1) * plen + 1,
                     IF k * plen < Len(Whole) THEN k * plen ELSE Len(Whole))
    BY <1>1, ChunksFacts
  <2> QED
    BY <1>3, <2>1
<1>7. PieceLen(i) = (IF x > n THEN n ELSE x) - s
  BY <1>1 DEF PieceLen
<1>8. ASSUME NEW f \in 1..N, NEW j \in 1..layout[f]
      PROVE  Offset(f) + j \in Nat /\ Offset(f) + j <= n
  <2>1. N \in Nat /\ layout[f] \in Nat /\ f \in 1..(N + 1) /\ f + 1 \in 1..(N + 1)
    BY <1>1, MembersOfSeq
  <2> DEFINE o == Offset(f)
             l == layout[f]
  <2>2. o \in Nat /\ Offset(f + 1) = o + l /\ l \in Nat
    BY <1>1, <2>1, OffsetFacts
  <2>3. Offset(f + 1) <= n
    BY <1>1, <2>1, OffsetBound
  <2>4. j \in 1..l
    OBVIOUS
  <2> HIDE DEF o, l, n
  <2>5. o + j \in Nat /\ o + j <= n
    BY <1>1, <2>2, <2>3, <2>4
  <2> QED
    BY <2>5 DEF o
<1>9. \A f \in 1..N : \A j \in 1..layout[f] :
        Holds(i, f, j) <=> s < Offset(f) + j /\ Offset(f) + j <= x
  BY DEF Holds
<1> HIDE DEF s, x, n
<1>10. /\ e \in Nat /\ s < e /\ e <= n /\ (IF x > n THEN n ELSE x) = e
       /\ \A y \in Nat : y <= n => (y <= x <=> y <= e)
  BY <1>1, <1>4, <1>5
<1> HIDE DEF e
<1>11. \A f \in 1..N : \A j \in 1..layout[f] :
         Holds(i, f, j) <=> s < Offset(f) + j /\ Offset(f) + j <= e
  BY <1>8, <1>9, <1>10
<1>12. Span(i, s, e)
  BY <1>4, <1>6, <1>7, <1>10, <1>11 DEF Span, s, n, N, StartOf
<1> QED
  BY <1>3, <1>12

\* A piece whose bytes are all in place is read back.
LEMMA IntactIsRead ==
  ASSUME DiskShape, plen \in Nat \ {0}, NEW i \in 0..Ceil(Len(Whole), plen) - 1, Intact(i)
  PROVE  ReadPiece(i) = Chunks(Whole, plen)[i + 1]
<1>1. i \in Nat /\ \E s, e : Span(i, s, e)
  BY PieceSpan
<1>2. PICK s, e : Span(i, s, e)
  BY <1>1
<1>3. Whole \in Seq(Octets) /\ Len(Whole) = TotalLength
  BY WholeFacts
<1>4. ASSUME NEW f \in 1..Len(layout) PROVE Agrees(Whole, f, s, e)
  <2> SUFFICES ASSUME NEW j \in 1..layout[f], s < Offset(f) + j, Offset(f) + j <= e
               PROVE  j <= Len(disk[f]) /\ disk[f][j] = Whole[Offset(f) + j]
    BY DEF Agrees
  <2>1. Holds(i, f, j)
    BY <1>2 DEF Span
  <2>2. ~(j > Len(disk[f])) /\ disk[f][j] = original[f][j]
    BY <2>1 DEF Intact, Missing
  <2>3. Whole[Offset(f) + j] = original[f][j]
    BY WholeFacts
  <2>4. j \in Nat /\ Len(disk[f]) \in Nat
    BY DiskFile
  <2> QED
    BY <2>2, <2>3, <2>4
<1>5. ReadPiece(i) = SubSeq(Whole, s + 1, e)
  <2>1. Located(Whole, i, s, e)
    BY <1>2, <1>3 DEF Span, Located
  <2>2. AgreeUpTo(Whole, s, e, Len(layout))
    BY <1>4 DEF AgreeUpTo
  <2> QED
    BY <1>1, <2>1, <2>2, PieceReads
<1> QED
  BY <1>2, <1>5 DEF Span

\* The files as long as they were, with the bytes that are on disk now.
Kept ==
  [f \in 1..Len(layout) |->
     [j \in 1..layout[f] |-> IF j <= Len(disk[f]) THEN disk[f][j] ELSE original[f][j]]]
Seen == Joined(Kept)

\* Seen has the bytes of the disk in their places.
LEMMA SeenFacts ==
  ASSUME DiskShape
  PROVE  /\ Seen \in Seq(Octets) /\ Len(Seen) = TotalLength
         /\ \A f \in 1..Len(layout) : \A j \in 1..layout[f] :
              j <= Len(disk[f]) => Seen[Offset(f) + j] = disk[f][j]
<1> DEFINE N == Len(layout)
           B(f, j) == IF j <= Len(disk[f]) THEN disk[f][j] ELSE original[f][j]
<1>1. layout \in Seq(Nat) /\ N \in Nat
  BY LenProperties DEF DiskShape
<1>2. ASSUME NEW f \in 1..N
      PROVE  /\ Kept[f] \in Seq(Octets) /\ Len(Kept[f]) = layout[f]
             /\ \A j \in 1..layout[f] : Kept[f][j] = B(f, j)
  <2> DEFINE l == layout[f]
             t == Kept[f]
  <2>1. l \in Nat /\ Len(disk[f]) \in Nat /\ \A k \in 1..Len(disk[f]) : disk[f][k] \in Octets
    BY DiskFile
  <2>2. \A k \in 1..l : original[f][k] \in Octets
    <3>1. f \in 1..Len(original) /\ l = Len(original[f])
      BY DEF DiskShape
    <3>2. original[f] \in Seq(Octets)
      BY <3>1, MembersOfSeq DEF DiskShape
    <3> QED
      BY <3>1, <3>2, MembersOfSeq
  <2>3. t = [k \in 1..l |-> B(f, k)]
    BY DEF Kept
  <2>4. \A k \in 1..l : B(f, k) \in Octets
    <3> TAKE k \in 1..l
    <3>1. CASE k <= Len(disk[f])
      <4>1. k \in 1..Len(disk[f])
        BY <2>1, <3>1
      <4> QED
        BY <2>1, <3>1, <4>1
    <3>2. CASE ~(k <= Len(disk[f]))
      BY <2>2, <3>2
    <3> QED
      BY <3>1, <3>2
  <2> HIDE DEF B, t, l
  <2>5. t = [k \in 1..l |-> t[k]] /\ \A k \in 1..l : t[k] = B(f, k)
    BY <2>3
  <2>6. t \in Seq({t[k] : k \in 1..l}) /\ Len(t) = l
    BY <2>1, <2>5, FunctionIsSeq
  <2>7. {t[k] : k \in 1..l} \subseteq Octets
    BY <2>4, <2>5
  <2>8. t \in Seq(Octets)
    BY <2>6, <2>7, SeqMonotonic
  <2> QED
    BY <2>5, <2>6, <2>8 DEF t, l
<1>3. Len(Kept) = N
  <2>1. Kept = [f \in 1..N |-> Kept[f]]
    BY DEF Kept
  <2> QED
    BY <1>1, <2>1, FunctionIsSeq
<1>4. /\ Seen \in Seq(Octets) /\ Len(Seen) = TotalLength
      /\ \A f \in 1..N : \A j \in 1..layout[f] : Seen[Offset(f) + j] = Kept[f][j]
  BY <1>1, <1>2, <1>3, JoinedFacts DEF Seen
<1> QED
  BY <1>2, <1>4

\* If no file has lost a byte of the piece, what is on disk is read.
LEMMA SeenIsRead ==
  ASSUME DiskShape, plen \in Nat \ {0}, NEW i \in Nat, NEW s, NEW e, Span(i, s, e),
         AgreeUpTo(Seen, s, e, Len(layout))
  PROVE  ReadPiece(i) = SubSeq(Seen, s + 1, e)
<1>1. Seen \in Seq(Octets) /\ Len(Seen) = TotalLength
  BY SeenFacts
<1>2. Len(Whole) = TotalLength
  BY WholeFacts
<1>3. Located(Seen, i, s, e)
  BY <1>1, <1>2 DEF Span, Located
<1> QED
  BY <1>3, PieceReads

\* A piece that is read back as it was hashed, and of which no file but the last
\* has lost a byte, is in place.
LEMMA ReadIsIntact ==
  ASSUME DiskShape, plen \in Nat \ {0}, NEW i \in 0..Ceil(Len(Whole), plen) - 1,
         ReadPiece(i) = Chunks(Whole, plen)[i + 1],
         \A f \in 1..Len(layout) - 1 : \A j \in 1..layout[f] : Holds(i, f, j) => ~Missing(f, j)
  PROVE  Intact(i)
<1> DEFINE N == Len(layout)
<1>1. i \in Nat /\ \E s, e : Span(i, s, e)
  BY PieceSpan
<1>2. PICK s, e : Span(i, s, e)
  BY <1>1
<1>3. Whole \in Seq(Octets) /\ Len(Whole) = TotalLength /\ N \in Nat
  BY WholeFacts, LenProperties
<1>4. Seen \in Seq(Octets) /\ Len(Seen) = TotalLength
  BY SeenFacts
<1>5. ASSUME NEW f \in 1..N, \A j \in 1..layout[f] : Holds(i, f, j) => ~Missing(f, j)
      PROVE  Agrees(Seen, f, s, e)
  <2> SUFFICES ASSUME NEW j \in 1..layout[f], s < Offset(f) + j, Offset(f) + j <= e
               PROVE  j <= Len(disk[f]) /\ disk[f][j] = Seen[Offset(f) + j]
    BY DEF Agrees
  <2>1. Holds(i, f, j)
    BY <1>2 DEF Span
  <2>2. ~(j > Len(disk[f])) /\ j \in Nat /\ Len(disk[f]) \in Nat
    BY <1>5, <2>1, DiskFile DEF Missing
  <2>3. j <= Len(disk[f])
    BY <2>2
  <2> QED
    BY <2>3, SeenFacts
<1>6. /\ s \in Nat /\ e \in Nat /\ s < e /\ e <= Len(Seen) /\ e <= Len(Whole) /\ s = StartOf(i)
      /\ PieceLen(i) = e - s /\ ReadPiece(i) = SubSeq(Whole, s + 1, e)
  BY <1>2, <1>3, <1>4 DEF Span
<1>6a. \A f \in 1..N : \A j \in 1..layout[f] :
        Holds(i, f, j) => s < Offset(f) + j /\ Offset(f) + j <= e
  BY <1>2 DEF Span
<1>7. CASE \A f \in 1..N : \A j \in 1..layout[f] : Holds(i, f, j) => ~Missing(f, j)
  <2>1. SubSeq(Seen, s + 1, e) = SubSeq(Whole, s + 1, e)
    <3>1. AgreeUpTo(Seen, s, e, Len(layout))
      BY <1>5, <1>7 DEF AgreeUpTo
    <3>2. ReadPiece(i) = SubSeq(Seen, s + 1, e)
      BY <1>1, <1>2, <3>1, SeenIsRead
    <3> QED
      BY <1>6, <3>2
  <2>2. /\ \A k \in 1..(e - s) : SubSeq(Seen, s + 1, e)[k] = Seen[s + k]
        /\ \A k \in 1..(e - s) : SubSeq(Whole, s + 1, e)[k] = Whole[s + k]
    <3>1. s \in Nat /\ e \in Nat /\ s <= e /\ e <= Len(Seen) /\ e <= Len(Whole)
      BY <1>6
    <3>2. \A w \in Seq(Octets) :
            e <= Len(w) => \A k \in 1..(e - s) : SubSeq(w, s + 1, e)[k] = w[s + k]
      BY <3>1, SliceFacts
    <3> QED
      BY <1>3, <1>4, <3>1, <3>2
  <2> SUFFICES ASSUME NEW f \in 1..N, NEW j \in 1..layout[f], Holds(i, f, j)
               PROVE  ~Missing(f, j) /\ disk[f][j] = original[f][j]
    BY DEF Intact
  <2>3. ~Missing(f, j) /\ j <= Len(disk[f])
    <3>1. ~Missing(f, j) /\ j \in Nat /\ Len(disk[f]) \in Nat
      BY <1>7, DiskFile
    <3> QED
      BY <3>1 DEF Missing
  <2>4. Seen[Offset(f) + j] = disk[f][j] /\ Whole[Offset(f) + j] = original[f][j]
    BY <2>3, SeenFacts, WholeFacts
  <2>5. s < Offset(f) + j /\ Offset(f) + j <= e
    BY <1>6a
  <2>6. Offset(f) \in Nat /\ j \in Nat
    <3>1. layout \in Seq(Nat)
      BY DEF DiskShape
    <3>2. f \in 1..(N + 1)
      BY <1>3
    <3>3. Offset(f) \in Nat
      BY <3>1, <3>2, OffsetFacts
    <3>4. layout[f] \in Nat
      BY DiskFile
    <3>5. j \in Nat
      BY <3>4
    <3> QED
      BY <3>3, <3>5
  <2> DEFINE x == Offset(f) + j
             k == x - s
  <2>7. k \in 1..(e - s) /\ s + k = x
    <3>1. x \in Nat /\ s \in Nat /\ e \in Nat /\ s < x /\ x <= e
      <4>1. s \in Nat /\ e \in Nat
        BY <1>6
      <4>2. x \in Nat
        BY <2>6
      <4> QED
        BY <2>5, <4>1, <4>2
    <3> HIDE DEF x
    <3> QED
      BY <3>1
  <2>8. Seen[x] = Whole[x]
    <3> HIDE DEF x, k
    <3> QED
      BY <2>1, <2>2, <2>7
  <2> QED
    BY <2>3, <2>4, <2>8
<1>8. ASSUME NEW f \in 1..N, NEW j \in 1..layout[f], Holds(i, f, j), Missing(f, j)
      PROVE  FALSE
  <2>1. f = N
    <3>1. ~(f \in 1..N - 1)
      BY <1>8
    <3> QED
      BY <1>3, <3>1
  <2> DEFINE M == N - 1
             size == PieceLen(i)
  <2>2. M \in 0..N /\ M + 1 = f /\ f - 1 = M
    BY <1>3, <2>1
  <2>3. PICK read : Loop(read, i)
    BY <1>1, LoopRuns
  <2>4. \A g \in 1..M : Agrees(Seen, g, s, e)
    <3> TAKE g \in 1..M
    <3>1. g \in 1..N /\ g \in 1..N - 1
      BY <1>3
    <3> QED
      BY <1>5, <3>1
  <2> HIDE DEF M, size
  <2>5. read[M] = Reached(Seen, s, e, Offset(M + 1))
    <3>1. M \in 0..Len(layout)
      BY <2>2 DEF N
    <3>2. Located(Seen, i, s, e)
      BY <1>4, <1>6 DEF Located
    <3>3. AgreeUpTo(Seen, s, e, M)
      BY <2>4 DEF AgreeUpTo
    <3> QED
      BY <2>3, <3>1, <3>2, <3>3, LoopReads
  <2>6. size = e - s
    BY <1>6 DEF size
  <2>7. ReadPiece(i) = ReadFile(Reached(Seen, s, e, Offset(f)), f, size).data
    <3>1. read[f] = ReadFile(read[f - 1], f, size) /\ ReadPiece(i) = read[f].data
      BY <2>1, <2>3 DEF Loop, size
    <3> QED
      BY <2>2, <2>5, <3>1
  <2>8. s < Offset(f) + j /\ Offset(f) + j <= e /\ j > Len(disk[f])
    BY <1>8, <1>6a DEF Missing
  <2>9. Len(ReadPiece(i)) < e - s
    BY <1>4, <1>6, <2>1, <2>6, <2>7, <2>8, LastIsShort
  <2>10. Len(ReadPiece(i)) = e - s
    <3>1. s \in Nat /\ e \in Nat /\ s <= e /\ e <= Len(Whole)
      BY <1>6
    <3>2. Len(SubSeq(Whole, s + 1, e)) = e - s
      BY <1>3, <3>1, SliceFacts
    <3> QED
      BY <1>6, <3>2
  <2> QED
    BY <1>6, <2>9, <2>10
<1> QED
  BY <1>7, <1>8

\* Every step preserves DataInv.
LEMMA DataStep == DataInv /\ [DataNext]_dataVars => DataInv'
<1> SUFFICES ASSUME DataInv, [DataNext]_dataVars PROVE DataInv'
  OBVIOUS
<1>1. CASE Walk
  BY <1>1, WalkKeeps
<1>2. CASE hashFile
  BY <1>2, HashFileKeeps
<1>3. CASE NextFile
  BY <1>3, NextFileKeeps
<1>4. CASE Flush
  BY <1>4, FlushKeeps
<1>5. CASE VerifyData
  BY <1>5, VerifyKeeps
<1>6. ASSUME NEW n \in 1..ReadMax, hashMultiFiles(n) PROVE DataInv'
  BY <1>6, HashMultiKeeps
<1>7. ASSUME NEW f \in DOMAIN disk, Damage(f) PROVE DataInv'
  BY <1>7, DamageKeeps
<1>8. CASE UNCHANGED dataVars
  BY <1>8, DataStutter
<1> QED
  BY <1>1, <1>2, <1>3, <1>4, <1>5, <1>6, <1>7, <1>8 DEF DataNext

\* What VerifyData finds follows from what is read back.
LEMMA DataInvImplies == DataInv => VerifyIsExact
<1> SUFFICES ASSUME DataInv, tpc = "verified"
             PROVE  /\ hashes = Chunks(Whole, plen)
                    /\ \A i \in 0..Len(hashes) - 1 : Intact(i) => i \in valid
                    /\ \A i \in valid :
                         Intact(i) \/ \E f \in 1..Len(layout) - 1 : \E j \in 1..layout[f] :
                                        Holds(i, f, j) /\ Missing(f, j)
  BY DEF VerifyIsExact, Whole
<1>1. /\ plen \in Nat \ {0} /\ DiskShape /\ hashes = Chunks(Whole, plen)
      /\ valid = {i \in 0..Len(hashes) - 1 : ReadPiece(i) = hashes[i + 1]}
  BY DEF DataInv
<1>2. Len(hashes) = Ceil(Len(Whole), plen)
  BY <1>1, WholeFacts, ChunksFacts
<1>3. ASSUME NEW i \in 0..Len(hashes) - 1, Intact(i) PROVE i \in valid
  BY <1>1, <1>2, <1>3, IntactIsRead
<1>4. ASSUME NEW i \in valid,
             \A f \in 1..Len(layout) - 1 : \A j \in 1..layout[f] :
               Holds(i, f, j) => ~Missing(f, j)
      PROVE  Intact(i)
  BY <1>1, <1>2, <1>4, ReadIsIntact
<1> QED
  BY <1>1, <1>3, <1>4

\* Whatever the files, the piece length and the reads are, VerifyData finds every
\* piece valid whose bytes are all in place, and another one only if a file that is
\* not the last has lost a byte of it.
THEOREM VerificationIsExact == DataSpec => []VerifyIsExact
<1>1. DataInv /\ [DataNext]_dataVars => DataInv'
  BY DataStep
<1> QED
  BY <1>1, DataStart, DataInvImplies, PTL DEF DataSpec

-----------------------------------------------------------------------------
(* The rate limiter: its history and its bucket. *)

\* What went through beyond the rate and what a refill would now leave in the
\* bucket are at most a burst together: the strengthening of WithinBurst.
BurstShared ==
  /\ tokens \in Nat /\ elapsed \in Nat /\ level \in Nat
  /\ need \in [Users -> Nat] /\ left \in [Users -> Nat]
  /\ level + refill <= Burst

\* A bucket that holds no more than b is not made fuller by the cap.
LEMMA LesserBound ==
  ASSUME NEW l \in Nat, NEW t \in Nat, NEW e \in Nat, NEW b \in Nat, l + (t + e) <= b
  PROVE  l + Lesser(t + e, b) <= b
  BY DEF Lesser

\* A write asks for a natural number of bytes.
LEMMA ChunkFacts ==
  ASSUME NEW n \in Nat
  PROVE  WriteChunk(n) \in Nat
  BY ThrottleAssumption DEF WriteChunk, Lesser

\* Wait takes from the bucket what it lets through; a tick adds a token at most,
\* and drains the history by one.
LEMMA ThrottleStep == BurstShared /\ [ThrottleNext]_throttleVars => BurstShared'
<1> SUFFICES ASSUME BurstShared, [ThrottleNext]_throttleVars PROVE BurstShared'
  OBVIOUS
<1> USE ThrottleAssumption
<1>1. ASSUME NEW u \in Users, ThrottledRead(u) PROVE BurstShared'
  <2>1. PICK n \in 1..Lesser(MaxIO, Burst) : need' = [need EXCEPT ![u] = n]
    BY <1>1 DEF ThrottledRead
  <2>2. n \in Nat
    BY DEF Lesser
  <2>3. need' \in [Users -> Nat]
    BY <2>1, <2>2 DEF BurstShared
  <2> QED
    BY <1>1, <2>3 DEF ThrottledRead, BurstShared, refill
<1>2. ASSUME NEW u \in Users, StartWrite(u) PROVE BurstShared'
  <2>1. PICK n \in 1..MaxIO : left' = [left EXCEPT ![u] = n]
    BY <1>2 DEF StartWrite
  <2>2. left' \in [Users -> Nat]
    BY <2>1 DEF BurstShared
  <2> QED
    BY <1>2, <2>2 DEF StartWrite, BurstShared, refill
<1>3. ASSUME NEW u \in Users, NextChunk(u) PROVE BurstShared'
  <2>1. WriteChunk(left[u]) \in Nat
    BY ChunkFacts DEF BurstShared
  <2>2. need' \in [Users -> Nat]
    BY <1>3, <2>1 DEF NextChunk, BurstShared
  <2> QED
    BY <1>3, <2>2 DEF NextChunk, BurstShared, refill
<1>4. ASSUME NEW u \in Users, Granted(u) PROVE BurstShared'
  <2> DEFINE n == need[u]
             r == refill
  <2>1. /\ n \in Nat /\ tokens \in Nat /\ elapsed \in Nat /\ level \in Nat /\ level + r <= Burst
        /\ r >= n /\ tokens' = r - n /\ elapsed' = 0 /\ level' = level + n
    BY <1>4 DEF Granted, BurstShared
  <2>2. r \in Nat
    BY <2>1 DEF refill, Lesser
  <2>3. need' \in [Users -> Nat]
    BY <1>4 DEF Granted, BurstShared
  <2>4. left' \in [Users -> Nat]
    <3>1. (IF left[u] < n THEN 0 ELSE left[u] - n) \in Nat /\ left \in [Users -> Nat]
      BY <2>1 DEF BurstShared
    <3>2. CASE left' = [left EXCEPT ![u] = 0]
      BY <3>1, <3>2
    <3>3. CASE left' = [left EXCEPT ![u] = IF left[u] < n THEN 0 ELSE left[u] - n]
      BY <3>1, <3>3
    <3>4. left' \in {[left EXCEPT ![u] = IF left[u] < n THEN 0 ELSE left[u] - n],
                     [left EXCEPT ![u] = 0]}
      BY <1>4, <3>1 DEF Granted
    <3> QED
      BY <3>2, <3>3, <3>4
  <2> HIDE DEF n, r
  <2>5. tokens' \in Nat /\ elapsed' \in Nat /\ level' \in Nat /\ level' + (tokens' + elapsed') <= Burst
    BY <2>1, <2>2
  <2>6. level' + refill' <= Burst
    <3>1. level' + Lesser(tokens' + elapsed', Burst) <= Burst
      BY <2>5, LesserBound
    <3> QED
      BY <3>1 DEF refill
  <2> QED
    BY <2>3, <2>4, <2>5, <2>6 DEF BurstShared
<1>5. ASSUME NEW u \in Users, Sleep(u) PROVE BurstShared'
  <2>1. /\ refill \in Nat /\ level \in Nat /\ level + refill <= Burst
        /\ tokens' = refill /\ elapsed' = 0 /\ UNCHANGED <<left, need, level>>
    BY <1>5 DEF Sleep, BurstShared, refill, Lesser
  <2>2. refill' = refill
    BY <2>1 DEF refill, Lesser
  <2> QED
    BY <2>1, <2>2 DEF BurstShared
<1>6. CASE Tick
  <2>1. /\ tokens \in Nat /\ elapsed \in Nat /\ level \in Nat /\ level + refill <= Burst
        /\ elapsed' = Lesser(elapsed + 1, Burst) /\ tokens' = tokens
        /\ level' = (IF level > 0 THEN level - 1 ELSE 0) /\ UNCHANGED <<left, need>>
    BY <1>6 DEF Tick, BurstShared
  <2>2. elapsed' \in Nat /\ level' \in Nat /\ level' + refill' <= Burst
    BY <2>1 DEF refill, Lesser
  <2> QED
    BY <2>1, <2>2 DEF BurstShared
<1>7. CASE UNCHANGED throttleVars
  BY <1>7 DEF throttleVars, BurstShared, refill
<1> QED
  BY <1>1, <1>2, <1>3, <1>4, <1>5, <1>6, <1>7 DEF ThrottleNext

\* Over every interval at most a burst and the interval's worth of tokens goes
\* through Wait, for any number of users, although tokens are added lazily.
THEOREM RateBounded == ThrottleSpec => []WithinBurst
<1>1. ThrottleInit => BurstShared
  BY ThrottleAssumption DEF ThrottleInit, BurstShared, refill, Lesser
<1>2. BurstShared => WithinBurst
  BY ThrottleAssumption DEF BurstShared, WithinBurst, refill, Lesser
<1> QED
  BY <1>1, <1>2, ThrottleStep, PTL DEF ThrottleSpec
=============================================================================
