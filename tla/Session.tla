------------------------------- MODULE Session --------------------------------
(***************************************************************************)
(* What one peer session (runWorkerSession and pipelinedDownload) promises *)
(* the picker and the other workers, with the wire abstracted away: which  *)
(* pieces it has reserved, when it gives one back, and the separate steps  *)
(* (IsDone, hash, Finish or Abort, send on the results channel) at which   *)
(* other goroutines may interleave.  Pipeline.tla, the detailed session,   *)
(* is checked to implement this module; Download.tla composes it with the  *)
(* seeds and the collector of File.                                        *)
(*                                                                         *)
(* claims[w] are the pieces the session must still account for: in the     *)
(* sender's hands, queued in jobCh, or in the reader's active map.         *)
(***************************************************************************)
EXTENDS Picker, Sequences

CONSTANTS
  Peers,      \* workers that speak the peer protocol
  Seeds,      \* HTTP workers (webseed, httpseed); they run in Download.tla
  Bitfields,  \* Bitfields[w]: the bitfields peer w may end up with
  NoPiece     \* no piece is being concluded

Worker == Peers \cup Seeds

ASSUME WorkerAssumption ==
  /\ IsFiniteSet(Worker)
  /\ Peers \cap Seeds = {}
  /\ Bitfields \in [Peers -> SUBSET SUBSET Piece]
  /\ NoPiece \notin Piece

VARIABLES
  pc,         \* where the worker's goroutine stands
  have,       \* the bitfield the worker registered with the picker
  claims,     \* reservations the worker must still finish or abort
  cur,        \* the piece the worker is verifying or reporting
  sender,     \* is the session's sender goroutine still picking?
  results     \* the results channel, capacity NumPieces

sessionVars == <<pc, have, claims, cur, sender>>

Result == [piece : Piece, ok : BOOLEAN]

\* The session's reader goroutine exists (so does its picker registration).
InSession == {"read", "hash", "sendOk", "sendErr", "abort"}

SessionInit ==
  /\ NewPicker
  /\ pc = [w \in Worker |-> "idle"]
  /\ have = [w \in Worker |-> {}]
  /\ claims = [w \in Worker |-> {}]
  /\ cur = [w \in Worker |-> NoPiece]
  /\ sender = [w \in Worker |-> FALSE]
  /\ results = <<>>

Goto(w, label) == pc' = [pc EXCEPT ![w] = label]

\* The session settles its reservation of i.  In endgame the sender may have
\* picked i again for the same session, which then still owes that duplicate.
Settle(w, i) ==
  \/ claims' = [claims EXCEPT ![w] = @ \ {i}]
  \/ endgame /\ UNCHANGED claims

-----------------------------------------------------------------------------
\* Dial and NegotiateUnchoke have succeeded: register with the picker, start
\* the sender goroutine and enter the reader loop.
OpenSession(w, bitfield) ==
  /\ pc[w] = "idle"
  /\ AddPeer(bitfield)
  /\ Goto(w, "read")
  /\ have' = [have EXCEPT ![w] = bitfield]
  /\ sender' = [sender EXCEPT ![w] = TRUE]
  /\ UNCHANGED <<claims, cur, results>>

\* Sender: Pick reserves a piece for this session.
SenderPick(w, i) ==
  /\ sender[w]
  /\ Pick(have[w], i)
  /\ claims' = [claims EXCEPT ![w] = @ \cup {i}]
  /\ UNCHANGED <<pc, have, cur, sender, results>>

\* Sender: Pick has nothing for this peer; jobCh is closed.
SenderQuit(w) ==
  /\ sender[w]
  /\ PickNone(have[w])
  /\ sender' = [sender EXCEPT ![w] = FALSE]
  /\ UNCHANGED <<pc, have, claims, cur, results>>

\* Sender: a write or the flush fails; abort the piece in hand, close jobCh.
SenderFail(w, i) ==
  /\ sender[w]
  /\ i \in claims[w]
  /\ Abort(i)
  /\ \/ (pc[w] = "hash" => i # cur[w]) /\ Settle(w, i)
     \/ endgame /\ UNCHANGED claims
  /\ sender' = [sender EXCEPT ![w] = FALSE]
  /\ UNCHANGED <<pc, have, cur, results>>

-----------------------------------------------------------------------------
\* Reader: the last block of i arrives and another worker has finished i.
SkipDuplicate(w, i) ==
  /\ pc[w] = "read"
  /\ i \in claims[w]
  /\ IsDone(i)
  /\ Settle(w, i)
  /\ UNCHANGED <<pickerVars, pc, have, cur, sender, results>>

\* Reader: the last block of i arrives and IsDone(i) is false at this moment.
PieceComplete(w, i) ==
  /\ pc[w] = "read"
  /\ i \in claims[w]
  /\ ~IsDone(i)
  /\ cur' = [cur EXCEPT ![w] = i]
  /\ Goto(w, "hash")
  /\ UNCHANGED <<pickerVars, have, claims, sender, results>>

\* Mutant: the mismatch is reported as a success.
HashMismatchAccepted(w) ==
  /\ pc[w] = "hash"
  /\ Abort(cur[w])
  /\ Settle(w, cur[w])
  /\ Goto(w, "sendOk")
  /\ UNCHANGED <<have, cur, sender, results>>

\* Reader: the SHA-1 of the piece is wrong.
HashMismatch(w) ==
  /\ pc[w] = "hash"
  /\ Abort(cur[w])
  /\ Settle(w, cur[w])
  /\ Goto(w, "sendErr")
  /\ UNCHANGED <<have, cur, sender, results>>

\* Reader: the SHA-1 is right; IsDone is not consulted again.
HashMatch(w) ==
  /\ pc[w] = "hash"
  /\ Finish(cur[w])
  /\ Settle(w, cur[w])
  /\ Goto(w, "sendOk")
  /\ UNCHANGED <<have, cur, sender, results>>

\* Mutant: the channel has no capacity limit.
DeliverUnbounded(w, label) ==
  /\ results' = Append(results, [piece |-> cur[w], ok |-> pc[w] = "sendOk"])
  /\ cur' = [cur EXCEPT ![w] = NoPiece]
  /\ Goto(w, label)
  /\ UNCHANGED <<pickerVars, have, claims, sender>>

\* A send on the results channel, which blocks while the channel is full.
Deliver(w, label) ==
  /\ Len(results) < NumPieces
  /\ results' = Append(results, [piece |-> cur[w], ok |-> pc[w] = "sendOk"])
  /\ cur' = [cur EXCEPT ![w] = NoPiece]
  /\ Goto(w, label)
  /\ UNCHANGED <<pickerVars, have, claims, sender>>

SendResult(w) ==
  /\ pc[w] \in {"sendOk", "sendErr"}
  /\ Deliver(w, "read")

\* Reader: read error, 30 s deadline, malformed block or choke; abortAll starts.
\* The reader only reads while it has an active piece.
ReadFails(w) ==
  /\ pc[w] = "read"
  /\ claims[w] # {}
  /\ Goto(w, "abort")
  /\ UNCHANGED <<pickerVars, have, claims, cur, sender, results>>

\* Mutant: the job is drained but its piece is not returned.
AbortOneDrops(w, i) ==
  /\ pc[w] = "abort"
  /\ i \in claims[w]
  /\ Settle(w, i)
  /\ UNCHANGED <<pickerVars, pc, have, cur, sender, results>>

\* abortAll returns one reservation: from active, or drained from jobCh.
AbortOne(w, i) ==
  /\ pc[w] = "abort"
  /\ i \in claims[w]
  /\ Abort(i)
  /\ Settle(w, i)
  /\ UNCHANGED <<pc, have, cur, sender, results>>

\* Mutant: no RemovePeer is deferred.
CloseSessionRegistered(w) ==
  /\ pc[w] \in {"read", "abort"}
  /\ ~sender[w]
  /\ claims[w] = {}
  /\ Goto(w, "idle")
  /\ have' = [have EXCEPT ![w] = {}]
  /\ UNCHANGED <<pickerVars, claims, cur, sender, results>>

\* The reader has seen jobCh closed and owes nothing: pipelinedDownload
\* returns and the deferred RemovePeer and Close run.
CloseSession(w) ==
  /\ pc[w] \in {"read", "abort"}
  /\ ~sender[w]
  /\ claims[w] = {}
  /\ RemovePeer(have[w])
  /\ Goto(w, "idle")
  /\ have' = [have EXCEPT ![w] = {}]
  /\ UNCHANGED <<claims, cur, sender, results>>

-----------------------------------------------------------------------------
SenderStep(w) ==
  \/ \E i \in Piece : SenderPick(w, i) \/ SenderFail(w, i)
  \/ SenderQuit(w)

ReaderStep(w) ==
  \/ \E i \in Piece : SkipDuplicate(w, i) \/ PieceComplete(w, i) \/ AbortOne(w, i)
  \/ HashMismatch(w) \/ HashMatch(w) \/ SendResult(w)
  \/ ReadFails(w) \/ CloseSession(w)

\* The consumer of the channel, File's collector.
TakeResult ==
  /\ results # <<>>
  /\ results' = Tail(results)
  /\ UNCHANGED <<pickerVars, sessionVars>>

SessionNext ==
  \/ \E w \in Peers :
       \/ \E bitfield \in Bitfields[w] : OpenSession(w, bitfield)
       \/ SenderStep(w)
       \/ ReaderStep(w)
  \/ TakeResult

SessionSpec == SessionInit /\ [][SessionNext]_<<pickerVars, sessionVars, results>>
=============================================================================
