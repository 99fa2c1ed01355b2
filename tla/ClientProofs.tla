----------------------------- MODULE ClientProofs -----------------------------
(***************************************************************************)
(* Proofs about Client.tla: what the UDP tracker client, the metadata      *)
(* exchange and the list of peers keep, whatever trackers, peers and the   *)
(* network do.                                                             *)
(***************************************************************************)
EXTENDS Client, SeqFacts

-----------------------------------------------------------------------------
(* The UDP tracker. *)

UdpTypeOK ==
  /\ attempt \in Nat
  /\ out \in [connect : Nat, announce : Nat]
  /\ sock \in [connect : Nat, announce : Nat, error : Nat]

\* Unless a connect request was doubled there is at most one reply to it: none
\* before it is sent, and none after it has been read.
OneConnectReply ==
  ~doubled =>
    /\ ustage = "connect" => out.connect + sock.connect <= 1
    /\ ustage = "connect" /\ ~reading /\ attempt = 0 => out.connect + sock.connect = 0
    /\ ustage = "announce" => out.connect + sock.connect = 0

UdpInv == UdpTypeOK /\ OneConnectReply /\ StaleReplyNeedsCopy

\* A socket that is closed holds nothing.
LEMMA UdpRecords ==
  /\ NoRequests \in [connect : Nat, announce : Nat]
  /\ NoReplies \in [connect : Nat, announce : Nat, error : Nat]
  /\ NoRequests.connect = 0 /\ NoReplies.connect = 0
  BY DEF NoRequests, NoReplies

\* The invariant holds before anything is sent.
LEMMA UdpInitInv == UdpInit => UdpInv
  BY UdpRecords DEF UdpInit, UdpInv, UdpTypeOK, OneConnectReply, StaleReplyNeedsCopy

\* A request more, or a reply fewer, changes one counter.
LEMMA OutChanges ==
  ASSUME UdpTypeOK, NEW k \in {"connect", "announce"}, NEW v \in Nat,
         out' = [out EXCEPT ![k] = v]
  PROVE  /\ out' \in [connect : Nat, announce : Nat]
         /\ out'.connect = IF k = "connect" THEN v ELSE out.connect
<1>1. CASE k = "connect"
  BY <1>1 DEF UdpTypeOK
<1>2. CASE k = "announce"
  BY <1>2 DEF UdpTypeOK
<1> QED
  BY <1>1, <1>2

\* The same for the replies in the socket.
LEMMA SockChanges ==
  ASSUME UdpTypeOK, NEW k \in {"connect", "announce", "error"}, NEW v \in Nat,
         sock' = [sock EXCEPT ![k] = v]
  PROVE  /\ sock' \in [connect : Nat, announce : Nat, error : Nat]
         /\ sock'.connect = IF k = "connect" THEN v ELSE sock.connect
<1>1. CASE k = "connect"
  BY <1>1 DEF UdpTypeOK
<1>2. CASE k = "announce"
  BY <1>2 DEF UdpTypeOK
<1>3. CASE k = "error"
  BY <1>3 DEF UdpTypeOK
<1> QED
  BY <1>1, <1>2, <1>3

\* A closed exchange keeps no request and no reply.
LEMMA UdpFailKeeps ==
  ASSUME UdpInv, NEW why, UdpFail(why), why = "too short" => doubled
  PROVE  UdpInv'
  BY UdpRecords DEF UdpInv, UdpTypeOK, OneConnectReply, StaleReplyNeedsCopy, UdpFail, UdpClose

\* Sending a request, the first or a repeated one.
LEMMA UdpWriteKeeps ==
  ASSUME UdpInv, UdpWrite
  PROVE  UdpInv'
<1>1. /\ ustage \in {"connect", "announce"} /\ ustage' = ustage /\ cause' = cause
      /\ attempt' = attempt /\ sock' = sock
      /\ out' = [out EXCEPT ![ustage] = out[ustage] + 1]
  BY DEF UdpWrite, UdpBusy
<1>2. ~reading /\ reading'
  BY DEF UdpWrite
<1>3. ~doubled' => ~doubled /\ ~(ustage = "connect" /\ attempt > 0)
  <2>1. doubled' = (doubled \/ (ustage = "connect" /\ attempt > 0))
    BY DEF UdpWrite
  <2> QED
    BY <2>1, Zenon
<1>4. doubled => doubled'
  <2>1. doubled' = (doubled \/ (ustage = "connect" /\ attempt > 0))
    BY DEF UdpWrite
  <2> QED
    BY <2>1, Zenon
<1>5. out[ustage] \in Nat /\ out["connect"] = out.connect
  BY <1>1 DEF UdpInv, UdpTypeOK
<1>6. /\ out' \in [connect : Nat, announce : Nat]
      /\ out'.connect = IF ustage = "connect" THEN out.connect + 1 ELSE out.connect
  <2>1. out[ustage] + 1 \in Nat
    BY <1>5
  <2> QED
    BY <1>1, <1>5, <2>1, OutChanges DEF UdpInv
<1>7. UdpTypeOK'
  BY <1>1, <1>6 DEF UdpInv, UdpTypeOK
<1>8. OneConnectReply'
  <2> SUFFICES ASSUME ~doubled' PROVE OneConnectReply'
    BY DEF OneConnectReply
  <2>1. CASE ustage = "connect"
    <3>1. attempt = 0
      BY <1>3, <2>1 DEF UdpInv, UdpTypeOK
    <3>2. out.connect + sock.connect = 0
      BY <1>2, <1>3, <2>1, <3>1 DEF UdpInv, OneConnectReply
    <3>3. out'.connect + sock'.connect <= 1
      BY <1>1, <1>6, <2>1, <3>2 DEF UdpInv, UdpTypeOK
    <3> QED
      BY <1>1, <1>2, <2>1, <3>3 DEF OneConnectReply
  <2>2. CASE ustage = "announce"
    BY <1>1, <1>3, <1>6, <2>2 DEF UdpInv, OneConnectReply
  <2> QED
    BY <1>1, <2>1, <2>2
<1>9. StaleReplyNeedsCopy'
  BY <1>1, <1>4 DEF UdpInv, StaleReplyNeedsCopy
<1> QED
  BY <1>7, <1>8, <1>9 DEF UdpInv

\* A reply, or an error message, comes in.
LEMMA UdpArriveKeeps ==
  ASSUME UdpInv, NEW k \in {"connect", "announce"}, UdpArrive(k)
  PROVE  UdpInv'
<1>1. PICK r \in {k, "error"} : sock' = [sock EXCEPT ![r] = sock[r] + 1]
  BY DEF UdpArrive
<1>2. /\ out[k] > 0 /\ out' = [out EXCEPT ![k] = out[k] - 1]
      /\ ustage' = ustage /\ cause' = cause /\ attempt' = attempt
  BY DEF UdpArrive
<1>3. doubled' = doubled /\ reading' = reading
  BY DEF UdpArrive
<1>4. /\ out[k] \in Nat /\ sock[r] \in Nat
      /\ out["connect"] = out.connect /\ sock["connect"] = sock.connect
  BY DEF UdpInv, UdpTypeOK
<1>5. out[k] - 1 \in Nat /\ sock[r] + 1 \in Nat
  BY <1>2, <1>4
<1>6. /\ out' \in [connect : Nat, announce : Nat]
      /\ out'.connect = IF k = "connect" THEN out.connect - 1 ELSE out.connect
  BY <1>2, <1>4, <1>5, OutChanges DEF UdpInv
<1>7. /\ sock' \in [connect : Nat, announce : Nat, error : Nat]
      /\ sock'.connect = IF r = "connect" THEN sock.connect + 1 ELSE sock.connect
  BY <1>1, <1>4, <1>5, SockChanges DEF UdpInv
<1>8. UdpTypeOK'
  BY <1>2, <1>6, <1>7 DEF UdpInv, UdpTypeOK
<1>9. out'.connect + sock'.connect <= out.connect + sock.connect
  BY <1>6, <1>7 DEF UdpInv, UdpTypeOK
<1>10. OneConnectReply'
  <2> SUFFICES ASSUME ~doubled' PROVE OneConnectReply'
    BY DEF OneConnectReply
  <2> DEFINE m == out.connect + sock.connect
             n == out'.connect + sock'.connect
  <2>1. m \in Nat /\ n \in Nat /\ n <= m
    BY <1>8, <1>9 DEF UdpInv, UdpTypeOK
  <2>2. /\ ustage = "connect" => m <= 1
        /\ ustage = "connect" /\ ~reading /\ attempt = 0 => m = 0
        /\ ustage = "announce" => m = 0
    BY <1>3 DEF UdpInv, OneConnectReply
  <2> HIDE DEF m, n
  <2>3. (m <= 1 => n <= 1) /\ (m = 0 => n = 0)
    BY <2>1
  <2>4. /\ ustage' = "connect" => n <= 1
        /\ ustage' = "connect" /\ ~reading' /\ attempt' = 0 => n = 0
        /\ ustage' = "announce" => n = 0
    BY <1>2, <1>3, <2>2, <2>3, Zenon
  <2> USE DEF m, n
  <2> QED
    BY <2>4, Zenon DEF OneConnectReply
<1>11. StaleReplyNeedsCopy'
  BY <1>2, <1>3 DEF UdpInv, StaleReplyNeedsCopy
<1> QED
  BY <1>8, <1>10, <1>11 DEF UdpInv

\* The network duplicates a request or a reply.
LEMMA UdpDuplicateKeeps ==
  ASSUME UdpInv, NEW k \in {"connect", "announce"}, UdpDuplicate(k)
  PROVE  UdpInv'
<1>1. /\ out' = [out EXCEPT ![k] = out[k] + 1] /\ sock' = sock
      /\ ustage' = ustage /\ cause' = cause /\ attempt' = attempt
  BY DEF UdpDuplicate
<1>2. reading' = reading /\ (doubled => doubled') /\ (k = "connect" => doubled')
  <2>1. reading' = reading /\ doubled' = (doubled \/ k = "connect")
    BY DEF UdpDuplicate
  <2> QED
    BY <2>1, Zenon
<1>3. out[k] \in Nat /\ out[k] + 1 \in Nat
  BY DEF UdpInv, UdpTypeOK
<1>4. /\ out' \in [connect : Nat, announce : Nat]
      /\ k = "announce" => out'.connect = out.connect
  BY <1>1, <1>3, OutChanges DEF UdpInv
<1>5. UdpTypeOK'
  BY <1>1, <1>4 DEF UdpInv, UdpTypeOK
<1>6. OneConnectReply'
  <2> SUFFICES ASSUME ~doubled' PROVE OneConnectReply'
    BY DEF OneConnectReply
  <2>1. ~doubled /\ out'.connect = out.connect
    BY <1>2, <1>4
  <2> QED
    BY <1>1, <1>2, <2>1, Zenon DEF UdpInv, OneConnectReply
<1>7. StaleReplyNeedsCopy'
  BY <1>1, <1>2 DEF UdpInv, StaleReplyNeedsCopy
<1> QED
  BY <1>5, <1>6, <1>7 DEF UdpInv

\* The connect reply is read, and the announce begins.
LEMMA UdpConnectedKeeps ==
  ASSUME UdpInv, UdpConnected
  PROVE  UdpInv'
<1>1. /\ ustage = "connect" /\ ustage' = "announce" /\ attempt' = 0 /\ out' = out
      /\ sock.connect > 0 /\ sock' = [sock EXCEPT !["connect"] = sock["connect"] - 1]
      /\ cause' = cause
  BY DEF UdpConnected
<1>2. doubled' = doubled
  BY DEF UdpConnected
<1>3. sock["connect"] = sock.connect /\ sock["connect"] - 1 \in Nat
  BY <1>1 DEF UdpInv, UdpTypeOK
<1>4. sock' \in [connect : Nat, announce : Nat, error : Nat] /\ sock'.connect = sock.connect - 1
  BY <1>1, <1>3, SockChanges DEF UdpInv
<1>5. UdpTypeOK'
  BY <1>1, <1>4 DEF UdpInv, UdpTypeOK
<1>6. OneConnectReply'
  <2> SUFFICES ASSUME ~doubled' PROVE out'.connect + sock'.connect = 0
    BY <1>1 DEF OneConnectReply
  <2>1. out.connect + sock.connect <= 1
    BY <1>1, <1>2 DEF UdpInv, OneConnectReply
  <2> QED
    BY <1>1, <1>4, <2>1 DEF UdpInv, UdpTypeOK
<1>7. StaleReplyNeedsCopy'
  BY <1>1, <1>2 DEF UdpInv, StaleReplyNeedsCopy
<1> QED
  BY <1>5, <1>6, <1>7 DEF UdpInv

\* Every step of the tracker client keeps its invariant.
LEMMA UdpStepInv ==
  ASSUME UdpInv, UdpStep
  PROVE  UdpInv'
<1>1. CASE UdpDeadline
  <2>1. /\ attempt' = attempt + 1 /\ ustage' = ustage /\ out' = out /\ sock' = sock
        /\ cause' = cause
    BY <1>1 DEF UdpDeadline
  <2>2. doubled' = doubled
    BY <1>1 DEF UdpDeadline
  <2>3. attempt' # 0 /\ UdpTypeOK'
    BY <2>1 DEF UdpInv, UdpTypeOK
  <2>4. OneConnectReply' /\ StaleReplyNeedsCopy'
    BY <2>1, <2>2, <2>3 DEF UdpInv, OneConnectReply, StaleReplyNeedsCopy
  <2> QED
    BY <2>3, <2>4 DEF UdpInv
<1>2. CASE UdpGiveUp \/ UdpError \/ UdpRefused
  BY <1>2, UdpFailKeeps DEF UdpGiveUp, UdpError, UdpRefused
<1>3. CASE UdpAnnounced
  BY <1>3, UdpRecords
     DEF UdpAnnounced, UdpClose, UdpInv, UdpTypeOK, OneConnectReply, StaleReplyNeedsCopy
<1>4. CASE UdpTooShort
  <2>1. out.connect + sock.connect # 0 /\ ustage = "announce"
    <3>1. sock.connect > 0 /\ ustage = "announce"
      BY <1>4 DEF UdpTooShort
    <3>2. out.connect \in Nat /\ sock.connect \in Nat
      BY DEF UdpInv, UdpTypeOK
    <3> QED
      BY <3>1, <3>2
  <2>2. doubled
    BY <2>1 DEF UdpInv, OneConnectReply
  <2> QED
    BY <1>4, <2>2, UdpFailKeeps DEF UdpTooShort
<1> QED
  BY <1>1, <1>2, <1>3, <1>4, UdpWriteKeeps, UdpConnectedKeeps, UdpArriveKeeps,
     UdpDuplicateKeeps DEF UdpStep

-----------------------------------------------------------------------------
(* The metadata of a magnet link. *)

\* The count of missing pieces is right, however often and in whichever order
\* the pieces come.
PendingCounts ==
  /\ received \subseteq 1..NumMeta
  /\ fetch \in {"writing", "reading"} =>
       pending \in Nat /\ pending + Cardinality(received) = NumMeta

MetaInv == PendingCounts /\ HonestPeerVerifies

\* Only the pieces of the metadata can be received.
LEMMA ReceivedFinite ==
  ASSUME NEW S \in SUBSET (1..NumMeta)
  PROVE  /\ IsFiniteSet(S) /\ Cardinality(S) \in Nat
         /\ Cardinality(S) = NumMeta => S = 1..NumMeta
<1>1. IsFiniteSet(1..NumMeta) /\ Cardinality(1..NumMeta) = NumMeta
  BY FS_Interval, MetadataAssumption
<1> QED
  BY <1>1, FS_Subset, FS_CardinalityType

\* The invariant holds before any fetch.
LEMMA MetaInitInv == MetaInit => MetaInv
  BY DEF MetaInit, MetaInv, PendingCounts, HonestPeerVerifies

\* It holds when a fetch starts.
LEMMA MetaStartInv ==
  ASSUME MetaStart
  PROVE  MetaInv'
  BY FS_EmptySet, MetadataAssumption DEF MetaStart, MetaInv, PendingCounts, HonestPeerVerifies

\* Every step of a fetch keeps it.
LEMMA MetaStepInv ==
  ASSUME MetaInv, MetaStep
  PROVE  MetaInv'
<1>1. CASE MetaVerify
  <2>1. pending = 0 /\ received' = received /\ fetch = "reading" /\ fetch' \notin {"writing", "reading"}
    BY <1>1 DEF MetaVerify
  <2>2. received = 1..NumMeta
    BY <2>1, ReceivedFinite, MetadataAssumption DEF MetaInv, PendingCounts
  <2>3. HonestPeerVerifies'
    <3>1. /\ fetch' = IF ~wrong /\ received = 1..NumMeta THEN "ok" ELSE "mismatch"
          /\ wrong' = wrong
      BY <1>1 DEF MetaVerify
    <3>2. ~wrong => fetch' = "ok"
      BY <2>2, <3>1, Zenon
    <3> QED
      BY <3>1, <3>2 DEF HonestPeerVerifies
  <2> QED
    BY <2>1, <2>3 DEF MetaInv, PendingCounts
<1>2. CASE MetaWrite \/ MetaWriteBlocks \/ MetaFail \/ MetaStall
  BY <1>2 DEF MetaWrite, MetaWriteBlocks, MetaFail, MetaStall, MetaInv, PendingCounts,
              HonestPeerVerifies
<1>3. ASSUME NEW i \in 1..NumMeta, NEW good \in BOOLEAN, MetaData(i, good)
      PROVE  MetaInv'
  <2>1. /\ fetch = "reading" /\ fetch' = fetch /\ pending > 0 /\ i \notin received
        /\ received' = received \cup {i} /\ pending' = pending - 1
    BY <1>3 DEF MetaData
  <2>2. Cardinality(received') = Cardinality(received) + 1
    BY <2>1, ReceivedFinite, FS_AddElement DEF MetaInv, PendingCounts
  <2>3. pending \in Nat /\ pending + Cardinality(received) = NumMeta
    BY <2>1 DEF MetaInv, PendingCounts
  <2>4. Cardinality(received) \in Nat
    BY ReceivedFinite DEF MetaInv, PendingCounts
  <2>5. pending' \in Nat /\ pending' + Cardinality(received') = NumMeta
    BY <2>1, <2>2, <2>3, <2>4, MetadataAssumption
  <2> QED
    BY <2>1, <2>5 DEF MetaInv, PendingCounts, HonestPeerVerifies
<1> QED
  BY <1>1, <1>2, <1>3 DEF MetaStep

-----------------------------------------------------------------------------
(* The client. *)

\* No step outside the two exchanges disturbs them.
LEMMA ClientStep ==
  ASSUME UdpInv, MetaInv, [Next]_vars
  PROVE  UdpInv' /\ MetaInv'
<1>1. ASSUME UNCHANGED udpVars PROVE UdpInv'
  <2>1. /\ doubled' = doubled /\ reading' = reading /\ ustage' = ustage /\ cause' = cause
        /\ attempt' = attempt /\ out' = out /\ sock' = sock
    BY <1>1 DEF udpVars
  <2> QED
    BY <2>1, Zenon DEF UdpInv, UdpTypeOK, OneConnectReply, StaleReplyNeedsCopy
<1>2. ASSUME UNCHANGED metaVars PROVE MetaInv'
  BY <1>2 DEF metaVars, MetaInv, PendingCounts, HonestPeerVerifies
<1>3. CASE UdpRuns
  BY <1>2, <1>3, UdpStepInv DEF UdpRuns
<1>4. CASE MetaRuns
  BY <1>1, <1>4, MetaStepInv DEF MetaRuns
<1>5. CASE PeerHasMetadata
  BY <1>1, <1>5, MetaStartInv DEF PeerHasMetadata, TryPeer
<1>6. CASE HandshakeStalls
  BY <1>1, <1>6 DEF HandshakeStalls, TryPeer, MetaInv, PendingCounts, HonestPeerVerifies
<1>7. CASE UdpReplies \/ \E t \in Http : HttpReplies(t)
  BY <1>1, <1>2, <1>7 DEF UdpReplies, HttpReplies, Collect
<1>8. CASE AnnounceEnds \/ PeerUseless \/ MagnetResolved \/ MagnetFails
  BY <1>1, <1>2, <1>8 DEF AnnounceEnds, PeerUseless, TryPeer, MagnetResolved, MagnetFails
<1>9. CASE StartDiscovery \/ TakeDiscovery \/ StartDownload
  BY <1>1, <1>2, <1>9 DEF StartDiscovery, TakeDiscovery, StartDownload
<1>10. CASE Discovery \/ FileReturns
  BY <1>1, <1>2, <1>10 DEF Discovery, DiscoveryFails, DiscoveryEnds, FileReturns
<1>11. CASE UNCHANGED vars
  BY <1>1, <1>2, <1>11 DEF vars
<1> QED
  BY <1>3, <1>4, <1>5, <1>6, <1>7, <1>8, <1>9, <1>10, <1>11 DEF Next, Main

\* An announce to a UDP tracker is lost to a stale reply only when a connect
\* request was sent again or the network duplicated it or its reply, for every
\* number of retries and copies and every order in which they arrive.
THEOREM StaleReply == Spec => []StaleReplyNeedsCopy
<1>1. Init => UdpInv /\ MetaInv
  BY UdpInitInv, MetaInitInv DEF Init
<1>2. UdpInv => StaleReplyNeedsCopy
  BY DEF UdpInv
<1> QED
  BY <1>1, <1>2, ClientStep, PTL DEF Spec

\* The metadata of a peer that only sends right pieces passes the hash check,
\* for every number of pieces, in any order and with any repetitions.
THEOREM HonestMetadata == Spec => []HonestPeerVerifies
<1>1. Init => UdpInv /\ MetaInv
  BY UdpInitInv, MetaInitInv DEF Init
<1>2. MetaInv => HonestPeerVerifies
  BY DEF MetaInv
<1> QED
  BY <1>1, <1>2, ClientStep, PTL DEF Spec

-----------------------------------------------------------------------------
(* The list of peers. *)

\* Every address some result may hold.
Addr == UNION {Range(l) : l \in PeerLists \cup DhtLists}

\* A result is a list of addresses.
LEMMA ListsOfAddr ==
  ASSUME NEW l \in PeerLists \cup DhtLists
  PROVE  l \in Seq(Addr)
<1>1. l \in Seq(Range(l)) /\ Range(l) \subseteq Addr
  BY ClientAssumption DEF Addr
<1>2. Len(l) \in Nat /\ l \in [1..Len(l) -> Range(l)]
  BY <1>1, LenProperties
<1> QED
  BY <1>1, <1>2, SeqDef

\* Merging keeps the addresses apart and loses none: when appended addresses are
\* recorded, whatever the new ones are, and otherwise if they have no repetition.
LEMMA MergeFacts ==
  ASSUME NEW S, NEW old \in Seq(S), IsInjective(old), NEW new \in Seq(S)
  PROVE  /\ /\ Merge(old, new) \in Seq(S) /\ IsInjective(Merge(old, new))
            /\ Range(Merge(old, new)) = Range(old) \cup Range(new)
         /\ IsInjective(new) =>
              /\ MergeNew(old, new) \in Seq(S) /\ IsInjective(MergeNew(old, new))
              /\ Range(MergeNew(old, new)) = Range(old) \cup Range(new)
<1> DEFINE Fits(s) == s \in Seq(S) /\ IsInjective(s) /\ Range(s) = Range(old) \cup Range(new)
<1> SUFFICES ASSUME NEW record \in BOOLEAN, record \/ IsInjective(new)
             PROVE  Fits(AppendUnseen(old, new, record))
  <2> HIDE DEF Fits
  <2>1. Fits(Merge(old, new)) /\ (IsInjective(new) => Fits(MergeNew(old, new)))
    BY Zenon DEF Merge, MergeNew
  <2> QED
    BY <2>1 DEF Fits
<1> DEFINE N == Len(new)
           Seen(g, k) == Contains(IF record THEN g[k - 1] ELSE old, new[k])
           Fill(g, k) == IF k = 0 THEN old
                         ELSE IF Seen(g, k) THEN g[k - 1] ELSE Append(g[k - 1], new[k])
           f == CHOOSE g : g = [k \in 0..N |-> Fill(g, k)]
           Upto(k) == {new[j] : j \in 1..k}
           Good(k) == /\ f[k] \in Seq(S) /\ IsInjective(f[k])
                      /\ Range(f[k]) = Range(old) \cup Upto(k)
<1>1. AppendUnseen(old, new, record) = f[N]
  BY DEF AppendUnseen
<1>2. N \in Nat /\ (\A k \in 1..N : new[k] \in S) /\ Range(new) = Upto(N)
  BY MembersOfSeq
<1>3. ~record => \A j, k \in 1..N : new[j] = new[k] => j = k
  BY InjectiveSeq
<1> HIDE DEF N, f
<1>4. \A m \in 0..N : \E g : g = [k \in 0..m |-> Fill(g, k)]
  <2> DEFINE Bad == {m \in 0..N : ~\E g : g = [k \in 0..m |-> Fill(g, k)]}
  <2> SUFFICES ASSUME Bad # {} PROVE FALSE
    OBVIOUS
  <2>1. PICK m \in Bad : \A j \in Bad : m <= j
    <3>1. Bad \in SUBSET Nat
      BY <1>2
    <3> HIDE DEF Bad
    <3> QED
      BY <3>1, LeastMember
  <2>2. m \in 0..N /\ ~\E g : g = [k \in 0..m |-> Fill(g, k)]
    BY <2>1
  <2>3. CASE m = 0
    <3> DEFINE g == [k \in 0..0 |-> old]
    <3>1. g = [k \in 0..0 |-> Fill(g, k)]
      OBVIOUS
    <3> QED
      BY <2>2, <2>3, <3>1
  <2>4. CASE m # 0
    <3>1. m - 1 \in 0..N /\ m - 1 \notin Bad
      <4> HIDE DEF Bad
      <4> QED
        BY <1>2, <2>1, <2>2, <2>4
    <3>2. PICK g : g = [k \in 0..(m - 1) |-> Fill(g, k)]
      BY <3>1
    <3> DEFINE h == [k \in 0..m |-> IF k = m THEN Fill(g, m) ELSE g[k]]
    <3>3. \A k \in 0..m : h[k] = Fill(h, k)
      <4> TAKE k \in 0..m
      <4>1. CASE k = 0
        BY <1>2, <2>2, <2>4, <3>2, <4>1
      <4>2. CASE k # 0
        <5>1. k - 1 \in 0..m /\ k - 1 # m /\ h[k - 1] = g[k - 1]
          BY <1>2, <2>2, <4>2
        <5>2. Fill(h, k) = Fill(g, k)
          BY <4>2, <5>1
        <5> HIDE DEF Fill
        <5>3. k # m => k \in 0..(m - 1)
          BY <1>2, <2>2
        <5>4. h[k] = Fill(g, k)
          BY <3>2, <5>3
        <5> QED
          BY <5>2, <5>4
      <4> QED
        BY <4>1, <4>2
    <3>4. h = [k \in 0..m |-> h[k]]
      OBVIOUS
    <3> HIDE DEF h, Fill
    <3>5. h = [k \in 0..m |-> Fill(h, k)]
      BY <3>3, <3>4
    <3> QED
      BY <2>2, <3>5
  <2> QED
    BY <2>3, <2>4
<1>5. f = [k \in 0..N |-> Fill(f, k)]
  <2>1. N \in 0..N
    BY <1>2
  <2> HIDE DEF Fill
  <2>2. \E g : g = [k \in 0..N |-> Fill(g, k)]
    BY <1>4, <2>1
  <2> QED
    BY <2>2 DEF f
<1>6. \A m \in 0..N : Good(m)
  <2> DEFINE Bad == {m \in 0..N : ~Good(m)}
  <2> SUFFICES ASSUME Bad # {} PROVE FALSE
    OBVIOUS
  <2>1. PICK m \in Bad : \A j \in Bad : m <= j
    <3>1. Bad \in SUBSET Nat
      BY <1>2
    <3> HIDE DEF Bad
    <3> QED
      BY <3>1, LeastMember
  <2>2. m \in 0..N /\ ~Good(m)
    BY <2>1
  <2>3. f[m] = Fill(f, m)
    <3> HIDE DEF Fill
    <3> QED
      BY <1>5, <2>2
  <2>4. CASE m = 0
    <3>1. Upto(m) = {}
      BY <2>4
    <3> QED
      BY <2>2, <2>3, <2>4, <3>1
  <2>5. CASE m # 0
    <3>1. m - 1 \in 0..N /\ m - 1 \notin Bad /\ m \in 1..N
      <4> HIDE DEF Bad
      <4> QED
        BY <1>2, <2>1, <2>2, <2>5
    <3>2. Good(m - 1) /\ new[m] \in S
      BY <1>2, <3>1
    <3> DEFINE p == f[m - 1]
    <3>3. Upto(m) = Upto(m - 1) \cup {new[m]}
      <4>1. 1..m = 1..(m - 1) \cup {m}
        BY <1>2, <3>1
      <4> QED
        BY <4>1
    <3>4. \A q \in Seq(S) : Contains(q, new[m]) <=> new[m] \in Range(q)
      BY MembersOfSeq, SMTT(30) DEF Contains
    <3>5. CASE Seen(f, m)
      <4>1. new[m] \in Range(p)
        BY <3>2, <3>4, <3>5
      <4>2. f[m] = p
        BY <2>3, <2>5, <3>5
      <4> QED
        BY <2>2, <3>2, <3>3, <4>1, <4>2
    <3>6. CASE ~Seen(f, m)
      <4>1. f[m] = Append(p, new[m])
        BY <2>3, <2>5, <3>6
      <4>2. new[m] \notin Range(p)
        <5>1. CASE record
          BY <3>2, <3>4, <3>6, <5>1
        <5>2. CASE ~record
          <6>1. new[m] \notin Range(old)
            BY <3>4, <3>6, <5>2
          <6>2. new[m] \notin Upto(m - 1)
            BY <1>2, <1>3, <3>1, <5>2
          <6> QED
            BY <3>2, <6>1, <6>2
        <5> QED
          BY <5>1, <5>2
      <4> HIDE DEF p
      <4>3. p \in Seq(S) /\ IsInjective(p) /\ Range(p) = Range(old) \cup Upto(m - 1)
        BY <3>2 DEF p
      <4>4. /\ f[m] \in Seq(S) /\ IsInjective(f[m])
            /\ Range(f[m]) = Range(p) \cup {new[m]}
        BY <3>2, <4>1, <4>2, <4>3, AppendFacts, SMTT(30)
      <4>5. Range(f[m]) = Range(old) \cup Upto(m)
        <5> HIDE DEF Upto
        <5> QED
          BY <3>3, <4>3, <4>4
      <4> QED
        BY <2>2, <4>4, <4>5
    <3> QED
      BY <3>5, <3>6
  <2> QED
    BY <2>4, <2>5
<1>7. Good(N)
  <2>1. N \in 0..N
    BY <1>2
  <2> HIDE DEF Good
  <2> QED
    BY <1>6, <2>1
<1> QED
  BY <1>1, <1>2, <1>7

\* What the list of peers needs: addresses are addresses, and what discovery
\* hands over has no repetition.
PeersInv ==
  /\ addrs \in Seq(Addr)
  /\ dhtPeers \in Seq(Addr) /\ IsInjective(dhtPeers)
  /\ EveryPeerOnce

\* A list that is merged in keeps it.
LEMMA PeersMerged ==
  ASSUME PeersInv, NEW l \in Seq(Addr), heard' = heard \cup Range(l),
         \/ addrs' = Merge(addrs, l)
         \/ IsInjective(l) /\ addrs' = MergeNew(addrs, l),
         dhtPeers' \in Seq(Addr), IsInjective(dhtPeers')
  PROVE  PeersInv'
<1>1. /\ addrs' \in Seq(Addr) /\ IsInjective(addrs')
      /\ Range(addrs') = Range(addrs) \cup Range(l)
  BY MergeFacts DEF PeersInv, EveryPeerOnce
<1> QED
  BY <1>1 DEF PeersInv, EveryPeerOnce

\* Every step keeps it.
LEMMA PeersStep ==
  ASSUME PeersInv, [Next]_vars
  PROVE  PeersInv'
<1>1. ASSUME UNCHANGED <<addrs, heard, dhtPeers>> PROVE PeersInv'
  BY <1>1 DEF PeersInv, EveryPeerOnce
<1>2. ASSUME NEW l \in PeerLists, TakePeers(l), dhtPeers' = dhtPeers PROVE PeersInv'
  <2>1. l \in Seq(Addr) /\ dhtPeers' \in Seq(Addr) /\ IsInjective(dhtPeers')
    BY <1>2, ListsOfAddr DEF PeersInv
  <2> QED
    BY <1>2, <2>1, PeersMerged DEF TakePeers
<1>3. CASE UdpReplies \/ \E t \in Http : HttpReplies(t)
  <2>1. /\ dhtPeers' = dhtPeers
        /\ (\E l \in PeerLists : TakePeers(l)) \/ UNCHANGED <<addrs, heard>>
    BY <1>3 DEF UdpReplies, HttpReplies, Collect, dhtVars
  <2> QED
    BY <1>1, <1>2, <2>1
<1>4. CASE TakeDiscovery
  <2>1. /\ dhtPeers \in Seq(Addr) /\ dhtPeers' \in Seq(Addr) /\ IsInjective(dhtPeers')
    BY <1>4 DEF TakeDiscovery, PeersInv
  <2> QED
    BY <1>4, <2>1, PeersMerged DEF TakeDiscovery
<1>5. CASE StartDownload
  <2>1. /\ dhtPeers' = dhtPeers
        /\ \/ UNCHANGED <<addrs, heard>>
           \/ /\ addrs' = MergeNew(addrs, dhtPeers)
              /\ heard' = heard \cup Range(dhtPeers)
    BY <1>5 DEF StartDownload
  <2>2. CASE UNCHANGED <<addrs, heard>>
    BY <1>1, <2>1, <2>2
  <2>3. CASE /\ addrs' = MergeNew(addrs, dhtPeers)
             /\ heard' = heard \cup Range(dhtPeers)
    <3>1. /\ dhtPeers \in Seq(Addr) /\ IsInjective(dhtPeers)
          /\ dhtPeers' \in Seq(Addr) /\ IsInjective(dhtPeers')
      BY <2>1 DEF PeersInv
    <3> QED
      BY <2>3, <3>1, PeersMerged
  <2> QED
    BY <2>1, <2>2, <2>3
<1>6. CASE Discovery
  <2>1. /\ addrs' = addrs /\ heard' = heard
        /\ dhtPeers' = dhtPeers \/ dhtPeers' \in DhtLists
    BY <1>6 DEF Discovery, DiscoveryFails, DiscoveryEnds, mainVars
  <2>2. dhtPeers' \in Seq(Addr) /\ IsInjective(dhtPeers')
    BY <2>1, ListsOfAddr, ClientAssumption DEF PeersInv
  <2> QED
    BY <2>1, <2>2 DEF PeersInv, EveryPeerOnce
<1>7. CASE UdpRuns \/ MetaRuns
  BY <1>1, <1>7 DEF UdpRuns, MetaRuns, mainVars, dhtVars
<1>8. CASE AnnounceEnds \/ MagnetResolved \/ MagnetFails \/ StartDiscovery \/ FileReturns
  BY <1>1, <1>8
     DEF AnnounceEnds, MagnetResolved, MagnetFails, StartDiscovery, FileReturns, dhtVars
<1>9. CASE PeerUseless \/ HandshakeStalls \/ PeerHasMetadata
  BY <1>1, <1>9 DEF PeerUseless, HandshakeStalls, PeerHasMetadata, TryPeer, dhtVars
<1>10. CASE UNCHANGED vars
  BY <1>1, <1>10 DEF vars, mainVars, dhtVars
<1> QED
  BY <1>3, <1>4, <1>5, <1>6, <1>7, <1>8, <1>9, <1>10 DEF Next, Main

\* The pool is given every address of every collected result once, for every
\* number of trackers and whatever lists they and the DHT return: a tracker's
\* list may repeat addresses, a list from GetPeers may not.
THEOREM PeersGivenOnce == Spec => []EveryPeerOnce
<1>1. Init => PeersInv
  <2>1. <<>> \in Seq(Addr)
    OBVIOUS
  <2> QED
    BY <2>1, EmptyFacts DEF Init, PeersInv, EveryPeerOnce
<1>2. PeersInv => EveryPeerOnce
  BY DEF PeersInv
<1> QED
  BY <1>1, <1>2, PeersStep, PTL DEF Spec
=============================================================================
