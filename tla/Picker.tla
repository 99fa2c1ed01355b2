-------------------------------- MODULE Picker --------------------------------
(***************************************************************************)
(* The piece picker of download/picker.go, shared by every worker of one   *)
(* download.  The code guards it with one mutex, so each method is one     *)
(* atomic operation here; the modules that EXTEND this one conjoin these   *)
(* operations to the steps of the goroutines that call them.               *)
(*                                                                         *)
(* A bitfield is the set of the pieces whose bit is set (hasPiece), and    *)
(* the boolean slices done and inflight are the sets of their TRUE indices.*)
(***************************************************************************)
EXTENDS Integers, FiniteSets

CONSTANT Piece          \* the piece indices of the torrent

ASSUME PieceAssumption == IsFiniteSet(Piece)

VARIABLES
  frequency,  \* frequency[i]: how many registered bitfields have piece i
  done,       \* pieces downloaded and verified
  inflight,   \* pieces some worker has reserved
  endgame     \* endgame mode; the code never resets it

pickerVars == <<frequency, done, inflight, endgame>>

NumPieces == Cardinality(Piece)

PickerTypeOK ==
  /\ frequency \in [Piece -> Int]
  /\ done \subseteq Piece
  /\ inflight \subseteq Piece
  /\ endgame \in BOOLEAN

NewPicker ==
  /\ frequency = [i \in Piece |-> 0]
  /\ done = {}
  /\ inflight = {}
  /\ endgame = FALSE

-----------------------------------------------------------------------------
AddPeer(bitfield) ==
  /\ frequency' = [i \in Piece |->
                     IF i \in bitfield THEN frequency[i] + 1 ELSE frequency[i]]
  /\ UNCHANGED <<done, inflight, endgame>>

RemovePeer(bitfield) ==
  /\ frequency' = [i \in Piece |->
                     IF i \in bitfield THEN frequency[i] - 1 ELSE frequency[i]]
  /\ UNCHANGED <<done, inflight, endgame>>

\* Mutant: the scan does not look at inflight.
CandidatesInFlight(bitfield) == {i \in bitfield \cap Piece : i \notin done}

\* The pieces the scan of Pick keeps: missing, offered by the peer, and free
\* unless endgame has started.
Candidates(bitfield) ==
  {i \in bitfield \cap Piece : i \notin done /\ (i \in inflight => endgame)}

Rarest(S) == {i \in S : \A j \in S : frequency[i] <= frequency[j]}

\* Mutant: a done piece counts as neither done nor in flight.
shouldEnterEndgameUnfinished == Piece \subseteq inflight /\ done # Piece

shouldEnterEndgame ==
  /\ Piece \subseteq (done \cup inflight)
  /\ done # Piece

\* pickEndgame: the reserved pieces this peer could duplicate.
EndgameCandidates(bitfield) == {i \in bitfield \cap inflight : i \notin done}

\* Pick returns (i, true): a rarest candidate, ties broken at random, or the
\* first duplicate of the call that starts endgame (which leaves inflight alone).
Pick(bitfield, i) ==
  \/ /\ i \in Rarest(Candidates(bitfield))
     /\ inflight' = inflight \cup {i}
     /\ UNCHANGED <<frequency, done, endgame>>
  \/ /\ Candidates(bitfield) = {}
     /\ ~endgame /\ shouldEnterEndgame
     /\ i \in EndgameCandidates(bitfield)
     /\ endgame' = TRUE
     /\ UNCHANGED <<frequency, done, inflight>>

\* Pick returns (-1, false).  The call may still have started endgame.
PickNone(bitfield) ==
  /\ Candidates(bitfield) = {}
  /\ IF ~endgame /\ shouldEnterEndgame
       THEN EndgameCandidates(bitfield) = {} /\ endgame' = TRUE
       ELSE UNCHANGED endgame
  /\ UNCHANGED <<frequency, done, inflight>>

Finish(i) ==
  /\ done' = done \cup {i}
  /\ inflight' = inflight \ {i}
  /\ UNCHANGED <<frequency, endgame>>

IsDone(i) == i \in done

Abort(i) ==
  /\ inflight' = inflight \ {i}
  /\ UNCHANGED <<frequency, done, endgame>>
=============================================================================
