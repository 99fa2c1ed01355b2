---------------------------------- MODULE Pex ----------------------------------
(***************************************************************************)
(* pex/tracker.go: one DiffTracker, and what the peer at the other end of  *)
(* its connection makes of the messages (external).                        *)
(***************************************************************************)
EXTENDS Naturals, FiniteSets, FiniteSetsExt

CONSTANTS
  Known4, Known6,      \* IPv4 and IPv6 peers of the swarm
  MaxAdded, MaxDropped \* what one message holds of a family

ASSUME PexAssumption ==
  /\ IsFiniteSet(Known4) /\ IsFiniteSet(Known6) /\ Known4 \cap Known6 = {}
  /\ MaxAdded \in Nat /\ MaxDropped \in Nat

VARIABLES
  current,   \* peers known now
  lastSent,  \* snapshot at the last Diff
  view,      \* peers the receiver believes in
  cutOff     \* history: peers some message left out and no later one mentioned

pexVars == <<current, lastSent, view, cutOff>>

PexInit == current = {} /\ lastSent = {} /\ view = {} /\ cutOff = {}

AddPexPeer(p) ==
  current' = current \cup {p} /\ UNCHANGED <<lastSent, view, cutOff>>

RemovePexPeer(p) ==
  current' = current \ {p} /\ UNCHANGED <<lastSent, view, cutOff>>

\* What is left of a list in map order after its cut to limit entries.
Capped(S, limit) == kSubset(IF Cardinality(S) < limit THEN Cardinality(S) ELSE limit, S)

\* Mutant: the snapshot keeps peers that have gone.
SnapshotKeeps == lastSent \cup current

\* All of current is recorded as sent, whatever the caps left out.
Snapshot == current

Diff ==
  LET new == current \ lastSent
      gone == lastSent \ current
  IN  /\ \E a4 \in Capped(new \cap Known4, MaxAdded), a6 \in Capped(new \cap Known6, MaxAdded),
            d4 \in Capped(gone \cap Known4, MaxDropped), d6 \in Capped(gone \cap Known6, MaxDropped) :
           LET told == a4 \cup a6 \cup d4 \cup d6
           IN  /\ view' = (view \cup a4 \cup a6) \ (d4 \cup d6)
               /\ cutOff' = (cutOff \cup new \cup gone) \ told
      /\ lastSent' = Snapshot
      /\ UNCHANGED current

PexNext ==
  \/ \E p \in Known4 \cup Known6 : AddPexPeer(p) \/ RemovePexPeer(p)
  \/ Diff

PexSpec == PexInit /\ [][PexNext]_pexVars

-----------------------------------------------------------------------------
\* The receiver's picture of the swarm is the sender's last snapshot, except for
\* peers that a cap once cut off a message: nothing but the cap makes the two
\* drift apart, over any number of messages and peers that come and go.
ViewFollows == (view \ lastSent) \cup (lastSent \ view) \subseteq cutOff
=============================================================================
