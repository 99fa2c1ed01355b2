--------------------------------- MODULE Client ---------------------------------
(***************************************************************************)
(* cmd/peer-pressure/main.go: what the commands peers and download do      *)
(* before the transfer.  All trackers are asked concurrently and all are   *)
(* waited for; a magnet link needs metadata from one of the peers found;   *)
(* DHT discovery runs in a goroutine that hands its result over on a       *)
(* channel, and the download starts without it when it is not needed.      *)
(*                                                                         *)
(* One UDP tracker is modelled in detail by UdpTracker, the DHT by Dht and *)
(* the download by Download; here they have outcomes.                      *)
(***************************************************************************)
EXTENDS UdpTracker, Metadata, Sequences, SequencesExt

CONSTANTS
  Udp,        \* the UDP tracker
  Http,       \* the HTTP trackers
  PeerLists,  \* peer lists a tracker may return
  DhtLists    \* peer lists GetPeers may return: without repetitions

ASSUME ClientAssumption ==
  /\ Udp \notin Http /\ IsFiniteSet(Http)
  /\ \A l \in PeerLists \cup DhtLists : l \in Seq(Range(l))
  /\ \A l \in DhtLists : IsInjective(l)

VARIABLES
  command,   \* "peers", "torrent" or "magnet" (download of one or the other)
  noDHT,     \* the option -no-dht, or the torrent is private
  webseeds,  \* the torrent has web seeds
  cpc,       \* where the main goroutine stands
  awaited,   \* trackers whose result has not been collected
  addrs,     \* peer addresses collected
  tried,     \* fetchMetadataFromPeers: peers tried
  dht,       \* discovery: "off", "running", "sent" (in dhtCh) or "taken"
  dhtPeers,  \* its result: addresses
  dhtNode,   \* the result's node: "nil", "open", "kept" in dhtNode or "closed"
  heard      \* history: every address in a result the client has collected

optionVars == <<command, noDHT, webseeds>>
dhtVars == <<dht, dhtPeers, dhtNode>>
mainVars == <<cpc, awaited, addrs, tried, heard>>
vars == <<optionVars, dhtVars, mainVars, udpVars, metaVars>>

Init ==
  /\ UdpInit /\ MetaInit
  /\ command \in {"peers", "torrent", "magnet"}
  /\ noDHT \in BOOLEAN /\ webseeds \in BOOLEAN
  /\ cpc = "announce" /\ awaited = Http \cup {Udp}
  /\ addrs = <<>> /\ tried = 0 /\ heard = {}
  /\ dht = "off" /\ dhtPeers = <<>> /\ dhtNode = "nil"

Goto(pc) == cpc' = pc

\* The loop over the addresses of a result: those that have been seen are
\* skipped.  What it appends counts as seen only if record holds.
AppendUnseen(old, new, record) ==
  LET merged[k \in 0..Len(new)] ==
        IF k = 0 THEN old
        ELSE IF Contains(IF record THEN merged[k - 1] ELSE old, new[k])
          THEN merged[k - 1]
          ELSE Append(merged[k - 1], new[k])
  IN  merged[Len(new)]

\* The merge written out in runDownload: the result's own addresses are not
\* compared with each other, which is left to GetPeers.
MergeNew(old, new) == AppendUnseen(old, new, FALSE)

\* Addresses are appended in their order, each at most once.
Merge(old, new) == AppendUnseen(old, new, TRUE)

-----------------------------------------------------------------------------
(* announceAll and announceAllTrackers. *)

\* The main goroutine takes t's result from the channel: peers or an error.
Collect(t) ==
  /\ cpc = "announce" /\ t \in awaited
  /\ awaited' = awaited \ {t}
  /\ UNCHANGED <<optionVars, dhtVars, cpc, tried, udpVars, metaVars>>

TakePeers(l) == addrs' = Merge(addrs, l) /\ heard' = heard \cup Range(l)

\* One request; no answer within the client's timeout, a status other than 200
\* and a response that does not parse are errors.
HttpReplies(t) ==
  /\ t \in Http /\ Collect(t)
  /\ \/ \E l \in PeerLists : TakePeers(l)
     \/ UNCHANGED <<addrs, heard>>

UdpReplies ==
  /\ ~UdpBusy /\ Collect(Udp)
  /\ \/ ustage = "ok" /\ \E l \in PeerLists : TakePeers(l)
     \/ ustage = "failed" /\ UNCHANGED <<addrs, heard>>

\* Every tracker has been heard.  A magnet link goes on only with peers.
AnnounceEnds ==
  /\ cpc = "announce" /\ awaited = {}
  /\ Goto(CASE command # "magnet" -> "discover"
            [] addrs # <<>>       -> "metadata"
            [] OTHER              -> "fatal")
  /\ UNCHANGED <<optionVars, dhtVars, awaited, addrs, tried, heard, udpVars, metaVars>>

-----------------------------------------------------------------------------
(* fetchMetadataFromPeers and resolveMagnet. *)

Fetching == fetch \in {"writing", "reading", "stalled"}

\* The next peer is dialled.
TryPeer ==
  /\ cpc = "metadata" /\ ~Fetching /\ fetch # "ok" /\ tried < Len(addrs)
  /\ tried' = tried + 1
  /\ UNCHANGED <<optionVars, dhtVars, cpc, awaited, addrs, heard, udpVars>>

\* It does not answer, serves another torrent, or has no ut_metadata.
PeerUseless == TryPeer /\ UNCHANGED metaVars

\* It sends other messages instead of its extension handshake, for ever; each
\* of them renews the deadline.
HandshakeStalls ==
  TryPeer /\ fetch' = "stalled" /\ UNCHANGED <<received, pending, wrong>>

PeerHasMetadata == TryPeer /\ MetaStart

\* The info dictionary parses, and tells whether the torrent is private; web
\* seeds are not part of it.
MagnetResolved ==
  /\ cpc = "metadata" /\ fetch = "ok"
  /\ Goto("discover")
  /\ noDHT' \in {noDHT, TRUE} /\ webseeds' = FALSE
  /\ UNCHANGED <<command, dhtVars, awaited, addrs, tried, heard, udpVars, metaVars>>

\* No peer is left, or the info dictionary does not parse.
MagnetFails ==
  /\ cpc = "metadata"
  /\ fetch = "ok" \/ (tried = Len(addrs) /\ ~Fetching)
  /\ Goto("fatal")
  /\ UNCHANGED <<optionVars, dhtVars, awaited, addrs, tried, heard, udpVars, metaVars>>

-----------------------------------------------------------------------------
(* DHT discovery and the start of the download. *)

\* Discovery starts unless it is disabled.  The command peers runs it in line,
\* a download waits for it only if it has no other source.
StartDiscovery ==
  /\ cpc = "discover"
  /\ dht' = IF noDHT THEN "off" ELSE "running"
  /\ Goto(CASE noDHT -> IF command = "peers" THEN "done" ELSE "start"
            [] command = "peers" \/ (addrs = <<>> /\ ~webseeds) -> "wait"
            [] OTHER -> "start")
  /\ UNCHANGED <<optionVars, dhtPeers, dhtNode, awaited, addrs, tried, heard,
                 udpVars, metaVars>>

\* Mutant: nothing is sent when the bootstrap fails.
DiscoveryFailsSilently ==
  /\ dht = "running"
  /\ dht' = "taken"
  /\ UNCHANGED <<optionVars, dhtPeers, dhtNode, mainVars, udpVars, metaVars>>

\* No socket, or the bootstrap fails and the node is closed.
DiscoveryFails ==
  /\ dht = "running"
  /\ dht' = "sent"
  /\ UNCHANGED <<optionVars, dhtPeers, dhtNode, mainVars, udpVars, metaVars>>

DiscoveryEnds ==
  /\ dht = "running"
  /\ dht' = "sent" /\ dhtPeers' \in DhtLists /\ dhtNode' = "open"
  /\ UNCHANGED <<optionVars, mainVars, udpVars, metaVars>>

\* The main goroutine takes the result it waits for.  The node is closed, by
\* peers at once and by runDownload when it returns, and is not announced to.
TakeDiscovery ==
  /\ cpc = "wait" /\ dht = "sent"
  /\ dht' = "taken"
  /\ dhtNode' = IF dhtNode = "open" THEN "closed" ELSE dhtNode
  /\ addrs' = Merge(addrs, dhtPeers) /\ heard' = heard \cup Range(dhtPeers)
  /\ Goto(IF command = "peers" THEN "done" ELSE "start")
  /\ UNCHANGED <<optionVars, dhtPeers, awaited, tried, udpVars, metaVars>>

\* Without peers and web seeds there is nothing to download from.  A discovery
\* result that is ready is merged; one that comes later is never looked at.
StartDownload ==
  /\ cpc = "start"
  /\ IF addrs = <<>> /\ ~webseeds
       THEN Goto("fatal") /\ UNCHANGED <<dht, dhtNode, addrs, heard>>
     ELSE IF dht = "sent"
       THEN /\ Goto("file")
            /\ dht' = "taken"
            /\ dhtNode' = IF dhtNode = "open" THEN "kept" ELSE dhtNode
            /\ addrs' = MergeNew(addrs, dhtPeers)
            /\ heard' = heard \cup Range(dhtPeers)
       ELSE Goto("file") /\ UNCHANGED <<dht, dhtNode, addrs, heard>>
  /\ UNCHANGED <<optionVars, dhtPeers, awaited, tried, udpVars, metaVars>>

\* File returns; on success a kept node is announced to, then closed.
FileReturns ==
  /\ cpc = "file"
  /\ \/ Goto("fatal") /\ UNCHANGED dhtNode
     \/ /\ Goto("done")
        /\ dhtNode' = IF dhtNode = "kept" THEN "closed" ELSE dhtNode
  /\ UNCHANGED <<optionVars, dht, dhtPeers, awaited, addrs, tried, heard,
                 udpVars, metaVars>>

-----------------------------------------------------------------------------
UdpRuns == UdpStep /\ UNCHANGED <<optionVars, dhtVars, mainVars, metaVars>>
MetaRuns == MetaStep /\ UNCHANGED <<optionVars, dhtVars, mainVars, udpVars>>
Discovery == DiscoveryFails \/ DiscoveryEnds

Main ==
  \/ UdpReplies \/ \E t \in Http : HttpReplies(t)
  \/ AnnounceEnds \/ PeerUseless \/ HandshakeStalls \/ PeerHasMetadata \/ MagnetResolved
  \/ MagnetFails \/ StartDiscovery \/ TakeDiscovery \/ StartDownload

Next == Main \/ UdpRuns \/ MetaRuns \/ Discovery \/ FileReturns

Spec == Init /\ [][Next]_vars

\* Deadlines pass, HTTP requests time out, discovery ends (Dht's OperationsEnd).
Fairness ==
  /\ WF_vars(Main) /\ WF_vars(UdpRuns) /\ WF_vars(MetaRuns) /\ WF_vars(Discovery)

FairSpec == Spec /\ Fairness

-----------------------------------------------------------------------------
\* The pool of the download takes it for granted that no address is given
\* twice: whatever trackers and DHT return, repeat or share, the list of peers
\* holds every address of every result the client has collected, once.
EveryPeerOnce == IsInjective(addrs) /\ Range(addrs) = heard

\* No combination of failing trackers, peers and discovery leaves the client
\* waiting: it gets to the download or exits, unless a peer in the metadata
\* exchange keeps renewing the deadline of a read, or does not read the requests,
\* whose writes have no deadline.
StartsOrExits == <>(cpc \in {"file", "done", "fatal"} \/ fetch = "stalled")
=============================================================================
