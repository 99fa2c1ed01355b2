------------------------------- MODULE Discovery -------------------------------
(***************************************************************************)
(* discovery/discovery.go: Manager.Discover asks every source in a         *)
(* goroutine of its own, drops the addresses that another source or an     *)
(* earlier call has reported, and closes the channel after the last one.   *)
(***************************************************************************)
EXTENDS Naturals, Sequences, SequencesExt

CONSTANTS
  Sources,   \* the peer sources
  Found,     \* address lists a source may return
  ChanCap    \* capacity of the channel

\* Every address a source may return.
Findable == UNION {Range(l) : l \in Found}

ASSUME DiscoveryAssumption ==
  ChanCap \in Nat \ {0} /\ IsFiniteSet(Sources) /\ Found \subseteq Seq(Findable)

VARIABLES
  spc,        \* spc[s]: "ask", "offer", "send" or "done"
  offers,     \* offers[s]: what s returned and has not been handled
  seen,       \* the Manager's set of addresses
  dch,        \* the channel
  dclosed,    \* it has been closed
  dcancel,    \* ctx is done
  delivered,  \* history: what the caller has received
  returned,   \* history: every address some source returned
  wasReset    \* Reset has been called while Discover runs

discoveryVars ==
  <<spc, offers, seen, dch, dclosed, dcancel, delivered, returned, wasReset>>

DiscoveryInit ==
  /\ spc = [s \in Sources |-> "ask"] /\ offers = [s \in Sources |-> <<>>]
  /\ seen = {} /\ dch = <<>> /\ dclosed = FALSE /\ dcancel = FALSE
  /\ delivered = <<>> /\ returned = {} /\ wasReset = FALSE

\* Peers returns a list.  With an error the source is skipped.
SourceReturns(s) ==
  /\ spc[s] = "ask"
  /\ \E l \in Found :
       /\ offers' = [offers EXCEPT ![s] = l]
       /\ returned' = returned \cup Range(l)
  /\ spc' = [spc EXCEPT ![s] = "offer"]
  /\ UNCHANGED <<seen, dch, dclosed, dcancel, delivered, wasReset>>

SourceEnds(s) ==
  /\ spc[s] = "ask" \/ (spc[s] = "offer" /\ offers[s] = <<>>)
  /\ spc' = [spc EXCEPT ![s] = "done"]
  /\ UNCHANGED <<offers, seen, dch, dclosed, dcancel, delivered, returned, wasReset>>

\* Mutant: the address is looked up but not recorded.
addIfNewForgets(s) ==
  /\ spc[s] = "offer" /\ offers[s] # <<>>
  /\ IF Head(offers[s]) \in seen
       THEN offers' = [offers EXCEPT ![s] = Tail(@)] /\ UNCHANGED spc
       ELSE spc' = [spc EXCEPT ![s] = "send"] /\ UNCHANGED offers
  /\ UNCHANGED <<seen, dch, dclosed, dcancel, delivered, returned, wasReset>>

\* Looking the address up and recording it is one critical section.
addIfNew(s) ==
  /\ spc[s] = "offer" /\ offers[s] # <<>>
  /\ IF Head(offers[s]) \in seen
       THEN offers' = [offers EXCEPT ![s] = Tail(@)] /\ UNCHANGED <<seen, spc>>
       ELSE /\ seen' = seen \cup {Head(offers[s])}
            /\ spc' = [spc EXCEPT ![s] = "send"]
            /\ UNCHANGED offers
  /\ UNCHANGED <<dch, dclosed, dcancel, delivered, returned, wasReset>>

SendPeer(s) ==
  /\ spc[s] = "send" /\ Len(dch) < ChanCap
  /\ dch' = Append(dch, Head(offers[s]))
  /\ offers' = [offers EXCEPT ![s] = Tail(@)]
  /\ spc' = [spc EXCEPT ![s] = "offer"]
  /\ UNCHANGED <<seen, dclosed, dcancel, delivered, returned, wasReset>>

AbandonSend(s) ==
  /\ spc[s] = "send" /\ dcancel
  /\ spc' = [spc EXCEPT ![s] = "done"]
  /\ UNCHANGED <<offers, seen, dch, dclosed, dcancel, delivered, returned, wasReset>>

CloseChannel ==
  /\ ~dclosed /\ \A s \in Sources : spc[s] = "done"
  /\ dclosed' = TRUE
  /\ UNCHANGED <<spc, offers, seen, dch, dcancel, delivered, returned, wasReset>>

\* The caller: it receives, and may cancel or reset at any time.
ReceivePeer ==
  /\ dch # <<>>
  /\ delivered' = Append(delivered, Head(dch)) /\ dch' = Tail(dch)
  /\ UNCHANGED <<spc, offers, seen, dclosed, dcancel, returned, wasReset>>

CancelDiscover ==
  /\ ~dcancel /\ dcancel' = TRUE
  /\ UNCHANGED <<spc, offers, seen, dch, dclosed, delivered, returned, wasReset>>

Reset ==
  /\ ~wasReset /\ wasReset' = TRUE /\ seen' = {}
  /\ UNCHANGED <<spc, offers, dch, dclosed, dcancel, delivered, returned>>

DiscoveryNext ==
  \/ \E s \in Sources : \/ SourceReturns(s) \/ SourceEnds(s) \/ addIfNew(s)
                        \/ SendPeer(s) \/ AbandonSend(s)
  \/ CloseChannel \/ ReceivePeer \/ CancelDiscover \/ Reset

DiscoverySpec == DiscoveryInit /\ [][DiscoveryNext]_discoveryVars

-----------------------------------------------------------------------------
\* Sources that report the same address at the same time, or twice, do not make
\* the caller see it twice, unless Reset is called meanwhile; and when the
\* channel is closed without a cancellation, nothing that a source returned is
\* missing, although an address is recorded before it is sent.
EachPeerDelivered ==
  /\ ~wasReset => IsInjective(delivered \o dch)
  /\ dclosed /\ ~dcancel => Range(delivered \o dch) = returned
=============================================================================
