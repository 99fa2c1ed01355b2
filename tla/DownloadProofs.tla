---------------------------- MODULE DownloadProofs ----------------------------
(***************************************************************************)
(* Proofs about Download.tla, for every set of pieces, peers and seeds and *)
(* every bound.                                                            *)
(***************************************************************************)
EXTENDS Download, FiniteSetTheorems, SequenceTheorems, TLAPS

-----------------------------------------------------------------------------
(* What the operations of the picker do, stated once. *)

\* A successful Pick returns a piece that is missing, reserves it, and can
\* return a reserved piece only in endgame.
LEMMA PickEffect ==
  ASSUME NEW B, NEW i, Pick(B, i), PickerTypeOK
  PROVE  /\ i \in B /\ i \in Piece /\ i \notin done
         /\ inflight' = inflight \cup {i}
         /\ ~endgame' => ~endgame /\ i \notin inflight
         /\ UNCHANGED <<frequency, done>>
         /\ PickerTypeOK'
  BY DEF Pick, Rarest, Candidates, EndgameCandidates, PickerTypeOK

\* A Pick that returns nothing changes at most the endgame flag.
LEMMA PickNoneEffect ==
  ASSUME NEW B, PickNone(B), PickerTypeOK
  PROVE  /\ ~endgame' => ~endgame
         /\ UNCHANGED <<frequency, done, inflight>>
         /\ PickerTypeOK'
  BY DEF PickNone, PickerTypeOK

\* A worker that has every piece gets nothing only when every piece is done.
LEMMA FullBitfieldPick ==
  ASSUME PickNone(Piece), PickerTypeOK
  PROVE  done = Piece
<1>1. Candidates(Piece) = {}
  BY DEF PickNone
<1>2. ASSUME ~endgame, done # Piece  PROVE FALSE
  <2>1. shouldEnterEndgame
    BY <1>1, <1>2 DEF Candidates, shouldEnterEndgame, PickerTypeOK
  <2>2. EndgameCandidates(Piece) = {}
    BY <2>1, <1>2 DEF PickNone
  <2> QED
    BY <2>1, <2>2, <1>2 DEF EndgameCandidates, shouldEnterEndgame, PickerTypeOK
<1>3. ASSUME endgame, done # Piece  PROVE FALSE
  BY <1>1, <1>3 DEF Candidates, PickerTypeOK
<1> QED
  BY <1>2, <1>3

-----------------------------------------------------------------------------
(* The shape of the workers' states: what each program point implies. *)

Busy == {"hash", "fetch", "sendOk", "sendErr", "sendErrWait"}

\* A worker that verifies or reports a piece has one, a peer owes the piece it
\* is hashing and a seed exactly the piece it fetches, and a worker outside a
\* session owes nothing and is not registered with the picker.
PeerShape(w) ==
  /\ pc[w] \in Busy => cur[w] \in Piece
  /\ pc[w] = "hash" => cur[w] \in claims[w]
  /\ pc[w] \in {"idle", "gone"} => claims[w] = {} /\ have[w] = {} /\ ~sender[w]

SeedShape(s) ==
  /\ pc[s] \in Busy => cur[s] \in Piece
  /\ claims[s] = IF pc[s] = "fetch" THEN {cur[s]} ELSE {}
  /\ have[s] = IF pc[s] \in {"idle", "gone"} THEN {} ELSE Piece

Shape == (\A w \in Peers : PeerShape(w)) /\ (\A s \in Seeds : SeedShape(s))

\* No worker but w changes its state.
OnlyMoves(w) ==
  \A v \in Worker \ {w} :
    /\ pc'[v] = pc[v] /\ have'[v] = have[v] /\ claims'[v] = claims[v]
    /\ cur'[v] = cur[v] /\ sender'[v] = sender[v]

\* Every step keeps the types of the workers' own state.
LEMMA WorkerTypeStep ==
  ASSUME TypeOK, Shape, [Next]_vars
  PROVE  WorkerTypeOK'
<1> USE WorkerAssumption
    DEF TypeOK, WorkerTypeOK, Worker, Goto, Settle, PeerLabels, SeedLabels, InSession
<1>1. ASSUME NEW w \in Peers, StartSession(w)  PROVE WorkerTypeOK'
  BY <1>1 DEF StartSession, OpenSession
<1>2. ASSUME NEW w \in Peers, PeerExit(w)  PROVE WorkerTypeOK'
  BY <1>2 DEF PeerExit
<1>3. ASSUME NEW w \in Peers, SenderRuns(w)  PROVE WorkerTypeOK'
  <2>1. ASSUME NEW i \in Piece, SenderPick(w, i)  PROVE WorkerTypeOK'
    BY <2>1 DEF SenderPick
  <2>2. ASSUME SenderQuit(w)  PROVE WorkerTypeOK'
    BY <2>2 DEF SenderQuit
  <2> QED
    BY <1>3, <2>1, <2>2 DEF SenderRuns
<1>4. ASSUME NEW w \in Peers, SenderBreaks(w)  PROVE WorkerTypeOK'
  BY <1>4 DEF SenderBreaks, SenderFail
<1>5. ASSUME NEW w \in Peers, ReaderRuns(w)  PROVE WorkerTypeOK'
  BY <1>5 DEF ReaderRuns, SkipDuplicate, PieceComplete, AbortOne, HashMatch,
              SendResult, Deliver, CloseSession
<1>6. ASSUME NEW w \in Peers, ReaderBreaks(w)  PROVE WorkerTypeOK'
  BY <1>6 DEF ReaderBreaks, HashMismatch, ReadFails
<1>7. ASSUME NEW s \in Seeds, SeedRuns(s)  PROVE WorkerTypeOK'
  BY <1>7 DEF SeedRuns, SeedStart, SeedCheck, SeedNone, SeedFinish, SeedSend,
              Deliver, SeedBackoff, SeedLeave, SeedPick
<1>8. ASSUME NEW s \in Seeds, SeedBreaks(s)  PROVE WorkerTypeOK'
  BY <1>8 DEF SeedBreaks, SeedAbort
<1>9. ASSUME UNCHANGED sessionVars  PROVE WorkerTypeOK'
  BY <1>9 DEF sessionVars
<1> QED
  BY <1>1, <1>2, <1>3, <1>4, <1>5, <1>6, <1>7, <1>8, <1>9
  DEF Next, PeerNext, SeedNext, DropFailed, WritePiece, WriteFails, CloseResults, ChannelDrained,
      CallerCancels, Returned, vars

\* Every step keeps the types of the picker's state.
LEMMA PickerTypeStep ==
  ASSUME TypeOK, Shape, [Next]_vars
  PROVE  PickerTypeOK'
<1>1. PickerTypeOK
  BY DEF TypeOK
<1>2. ASSUME UNCHANGED pickerVars  PROVE PickerTypeOK'
  BY <1>1, <1>2 DEF pickerVars, PickerTypeOK
<1>3. ASSUME NEW B, AddPeer(B) \/ RemovePeer(B)  PROVE PickerTypeOK'
  BY <1>1, <1>3 DEF AddPeer, RemovePeer, PickerTypeOK
<1>4. ASSUME NEW i \in Piece, Finish(i) \/ Abort(i)  PROVE PickerTypeOK'
  BY <1>1, <1>4 DEF Finish, Abort, PickerTypeOK
<1>5. ASSUME NEW w \in Worker, pc[w] \in Busy  PROVE cur[w] \in Piece
  BY <1>5 DEF Shape, PeerShape, SeedShape, Worker
<1>6. ASSUME NEW w \in Peers, StartSession(w) \/ PeerExit(w)  PROVE PickerTypeOK'
  BY <1>2, <1>3, <1>6 DEF StartSession, OpenSession, PeerExit
<1>7. ASSUME NEW w \in Peers, SenderRuns(w) \/ SenderBreaks(w)  PROVE PickerTypeOK'
  BY <1>1, <1>4, <1>7, PickEffect, PickNoneEffect
  DEF SenderRuns, SenderPick, SenderQuit, SenderBreaks, SenderFail
<1>8. ASSUME NEW w \in Peers, ReaderRuns(w) \/ ReaderBreaks(w)  PROVE PickerTypeOK'
  BY <1>2, <1>3, <1>4, <1>5, <1>8
  DEF ReaderRuns, SkipDuplicate, PieceComplete, AbortOne, HashMatch, SendResult,
      Deliver, CloseSession, ReaderBreaks, HashMismatch, ReadFails, Busy, Worker
<1>9. ASSUME NEW s \in Seeds, SeedRuns(s) \/ SeedBreaks(s)  PROVE PickerTypeOK'
  BY <1>1, <1>2, <1>3, <1>4, <1>5, <1>9, PickEffect, PickNoneEffect
  DEF SeedRuns, SeedStart, SeedCheck, SeedNone, SeedFinish, SeedSend, Deliver,
      SeedBackoff, SeedLeave, SeedPick, SeedBreaks, SeedAbort, Busy, Worker
<1> QED
  BY <1>2, <1>6, <1>7, <1>8, <1>9
  DEF Next, PeerNext, SeedNext, DropFailed, WritePiece, WriteFails, CloseResults, ChannelDrained,
      CallerCancels, Returned, vars

\* Taking the head of the channel shortens it; putting a result in, where there
\* is room, respects its capacity.
LEMMA ChannelTypes ==
  ASSUME results \in Seq(Result), Len(results) <= NumPieces
  PROVE  /\ NumPieces \in Nat
         /\ Len(results) \in Nat
         /\ results # <<>> => /\ Head(results) \in Result
                              /\ Tail(results) \in Seq(Result)
                              /\ Len(Tail(results)) <= NumPieces
         /\ \A r \in Result : Len(results) < NumPieces =>
              /\ Append(results, r) \in Seq(Result)
              /\ Len(Append(results, r)) <= NumPieces
<1>1. NumPieces \in Nat
  BY PieceAssumption, FS_CardinalityType DEF NumPieces
<1> QED
  BY <1>1

\* Every step keeps the types of the channel and of File's own variables.
LEMMA FileTypeStep ==
  ASSUME TypeOK, Shape, [Next]_vars
  PROVE  FileTypeOK'
<1>1. FileTypeOK
  BY DEF TypeOK
<1>2. ASSUME UNCHANGED results, UNCHANGED fileVars, NoFault \/ Fault
      PROVE  FileTypeOK'
  BY <1>1, <1>2, BoundAssumption DEF FileTypeOK, fileVars, NoFault, Fault
<1>3. ASSUME NEW w \in Worker, NEW label, Deliver(w, label), cur[w] \in Piece,
             UNCHANGED fileVars, NoFault
      PROVE  FileTypeOK'
  BY <1>1, <1>3, ChannelTypes DEF FileTypeOK, Deliver, Result, fileVars, NoFault
<1>4. ASSUME NEW w \in Peers, StartSession(w)  PROVE FileTypeOK'
  BY <1>1, <1>4 DEF StartSession, OpenSession, FileTypeOK, NoFault
<1>5. ASSUME NEW w \in Peers, PeerExit(w) \/ SenderRuns(w) \/ SenderBreaks(w)
      PROVE  FileTypeOK'
  BY <1>2, <1>5
  DEF PeerExit, SenderRuns, SenderPick, SenderQuit, SenderBreaks, SenderFail
<1>6. ASSUME NEW w \in Peers, ReaderRuns(w) \/ ReaderBreaks(w)  PROVE FileTypeOK'
  BY <1>2, <1>3, <1>6
  DEF ReaderRuns, SkipDuplicate, PieceComplete, AbortOne, HashMatch, SendResult,
      CloseSession, ReaderBreaks, HashMismatch, ReadFails, Busy, Worker, Shape,
      PeerShape, SeedShape
<1>7. ASSUME NEW s \in Seeds, SeedRuns(s) \/ SeedBreaks(s)  PROVE FileTypeOK'
  BY <1>2, <1>3, <1>7
  DEF SeedRuns, SeedStart, SeedCheck, SeedNone, SeedFinish, SeedSend,
      SeedBackoff, SeedLeave, SeedPick, SeedBreaks, SeedAbort, Busy, Worker, Shape,
      PeerShape, SeedShape
<1>8. ASSUME results # <<>>, results' = Tail(results)
      PROVE  /\ Head(results).piece \in Piece
             /\ results' \in Seq(Result) /\ Len(results') <= NumPieces
  BY <1>1, <1>8, ChannelTypes DEF FileTypeOK, Result
<1>9. ASSUME DropFailed  PROVE FileTypeOK'
  BY <1>1, <1>8, <1>9 DEF DropFailed, FileTypeOK, fileVars, NoFault
<1>10. ASSUME WritePiece  PROVE FileTypeOK'
  <2>1. outcome' \in Outcome /\ ctxDone' \in BOOLEAN
    BY <1>1, <1>10 DEF WritePiece, FileTypeOK, Outcome
  <2>2. completed' \in Nat /\ written' \subseteq Piece
    BY <1>1, <1>8, <1>10 DEF WritePiece, FileTypeOK
  <2> QED
    BY <1>1, <1>8, <1>10, <2>1, <2>2 DEF WritePiece, FileTypeOK, NoFault
<1>11. ASSUME WriteFails  PROVE FileTypeOK'
  BY <1>1, <1>8, <1>11, BoundAssumption DEF WriteFails, FileTypeOK, Fault, Outcome
<1>12. ASSUME CloseResults \/ ChannelDrained \/ CallerCancels  PROVE FileTypeOK'
  BY <1>1, <1>12
  DEF CloseResults, ChannelDrained, CallerCancels, FileTypeOK, NoFault, Outcome
<1>13. ASSUME UNCHANGED vars  PROVE FileTypeOK'
  BY <1>2, <1>13 DEF vars, NoFault
<1> QED
  BY <1>4, <1>5, <1>6, <1>7, <1>9, <1>10, <1>11, <1>12, <1>13
  DEF Next, PeerNext, SeedNext, Returned

\* A step of one worker changes no other worker's state.
LEMMA WorkersAreLocal ==
  ASSUME TypeOK
  PROVE  /\ \A w \in Peers : PeerNext(w) => OnlyMoves(w)
         /\ \A s \in Seeds : SeedNext(s) => OnlyMoves(s)
<1> USE DEF TypeOK, WorkerTypeOK, Worker, Goto, Settle, OnlyMoves
<1>1. ASSUME NEW w \in Peers, StartSession(w) \/ PeerExit(w)  PROVE OnlyMoves(w)
  BY <1>1 DEF StartSession, OpenSession, PeerExit
<1>2. ASSUME NEW w \in Peers, SenderRuns(w) \/ SenderBreaks(w)  PROVE OnlyMoves(w)
  BY <1>2 DEF SenderRuns, SenderPick, SenderQuit, SenderBreaks, SenderFail
<1>3. ASSUME NEW w \in Peers, ReaderRuns(w)  PROVE OnlyMoves(w)
  BY <1>3 DEF ReaderRuns, SkipDuplicate, PieceComplete, AbortOne, HashMatch,
              SendResult, Deliver, CloseSession
<1>4. ASSUME NEW w \in Peers, ReaderBreaks(w)  PROVE OnlyMoves(w)
  BY <1>4 DEF ReaderBreaks, HashMismatch, ReadFails
<1>5. ASSUME NEW s \in Seeds, SeedRuns(s) \/ SeedBreaks(s)  PROVE OnlyMoves(s)
  BY <1>5 DEF SeedRuns, SeedStart, SeedCheck, SeedNone, SeedFinish, SeedSend,
              Deliver, SeedBackoff, SeedLeave, SeedPick, SeedBreaks, SeedAbort
<1> QED
  BY <1>1, <1>2, <1>3, <1>4, <1>5 DEF PeerNext, SeedNext

\* Every step keeps Shape.
LEMMA ShapeStep ==
  ASSUME TypeOK, Shape, [Next]_vars
  PROVE  Shape'
<1> USE DEF TypeOK, WorkerTypeOK, Worker, Goto, Busy
<1>1. ASSUME NEW w \in Worker, OnlyMoves(w),
             w \in Peers => PeerShape(w)', w \in Seeds => SeedShape(w)'
      PROVE  Shape'
  <2>1. ASSUME NEW v \in Peers, v # w  PROVE PeerShape(v)'
    BY <1>1, <2>1 DEF OnlyMoves, Shape, PeerShape
  <2>2. ASSUME NEW v \in Seeds, v # w  PROVE SeedShape(v)'
    BY <1>1, <2>2 DEF OnlyMoves, Shape, SeedShape
  <2> QED
    BY <1>1, <2>1, <2>2 DEF Shape
<1>2. ASSUME NEW w \in Peers  PROVE PeerShape(w) /\ w \notin Seeds
  BY WorkerAssumption DEF Shape
<1>3. ASSUME NEW w \in Peers, StartSession(w) \/ PeerExit(w)  PROVE PeerShape(w)'
  BY <1>2, <1>3 DEF StartSession, OpenSession, PeerExit, PeerShape
<1>4. ASSUME NEW w \in Peers, SenderRuns(w)  PROVE PeerShape(w)'
  BY <1>2, <1>4 DEF SenderRuns, SenderPick, SenderQuit, PeerShape
<1>5. ASSUME NEW w \in Peers, SenderBreaks(w)  PROVE PeerShape(w)'
  BY <1>2, <1>5 DEF SenderBreaks, SenderFail, Settle, PeerShape
<1>6. ASSUME NEW w \in Peers, ReaderRuns(w)  PROVE PeerShape(w)'
  BY <1>2, <1>6 DEF ReaderRuns, SkipDuplicate, PieceComplete, AbortOne, HashMatch,
                    SendResult, Deliver, CloseSession, Settle, PeerShape
<1>7. ASSUME NEW w \in Peers, ReaderBreaks(w)  PROVE PeerShape(w)'
  BY <1>2, <1>7 DEF ReaderBreaks, HashMismatch, ReadFails, Settle, PeerShape
<1>8. ASSUME NEW s \in Seeds  PROVE SeedShape(s) /\ s \notin Peers
  BY WorkerAssumption DEF Shape
<1>9. ASSUME NEW s \in Seeds, SeedRuns(s)  PROVE SeedShape(s)'
  BY <1>8, <1>9 DEF SeedRuns, SeedStart, SeedCheck, SeedNone, SeedFinish, SeedSend,
                    Deliver, SeedBackoff, SeedLeave, SeedPick, SeedShape
<1>10. ASSUME NEW s \in Seeds, SeedBreaks(s)  PROVE SeedShape(s)'
  BY <1>8, <1>10 DEF SeedBreaks, SeedAbort, SeedShape
<1>11. ASSUME UNCHANGED sessionVars  PROVE Shape'
  BY <1>11 DEF sessionVars, Shape, PeerShape, SeedShape
<1>12. ASSUME NEW w \in Peers, PeerNext(w)  PROVE Shape'
  <2>1. PeerShape(w)'
    BY <1>3, <1>4, <1>5, <1>6, <1>7, <1>12 DEF PeerNext
  <2>2. OnlyMoves(w)
    BY <1>12, WorkersAreLocal
  <2> QED
    BY <2>1, <2>2, <1>1, <1>2
<1>13. ASSUME NEW s \in Seeds, SeedNext(s)  PROVE Shape'
  BY <1>1, <1>8, <1>9, <1>10, <1>13, WorkersAreLocal DEF SeedNext
<1> QED
  BY <1>11, <1>12, <1>13
  DEF Next, DropFailed, WritePiece, WriteFails, CloseResults, ChannelDrained,
      CallerCancels, Returned, vars

\* The initial state has the types and the shape.
LEMMA InitShape == Init => TypeOK /\ Shape
<1> SUFFICES ASSUME Init  PROVE TypeOK /\ Shape
  OBVIOUS
<1>1. NumPieces \in Nat
  BY PieceAssumption, FS_CardinalityType DEF NumPieces
<1>2. PickerTypeOK
  <2>1. NewPicker
    BY DEF Init, SessionInit
  <2>2. frequency \in [Piece -> Int]
    BY <2>1 DEF NewPicker
  <2> QED
    BY <2>1, <2>2 DEF NewPicker, PickerTypeOK
<1>3. WorkerTypeOK /\ Shape
  BY DEF Init, SessionInit, WorkerTypeOK, PeerLabels, SeedLabels,
         Shape, PeerShape, SeedShape, Busy, Worker
<1>4. FileTypeOK
  <2>1. results \in Seq(Result) /\ Len(results) <= NumPieces
    BY <1>1 DEF Init, SessionInit
  <2>2. opened \in [Peers -> Nat] /\ faults \in Nat /\ completed \in Nat
    BY DEF Init
  <2> QED
    BY <2>1, <2>2 DEF Init, FileTypeOK, Outcome
<1> QED
  BY <1>2, <1>3, <1>4 DEF TypeOK

\* Types and shape together are an inductive invariant.
LEMMA Shaped == Spec => [](TypeOK /\ Shape)
<1>1. TypeOK /\ Shape /\ [Next]_vars => TypeOK' /\ Shape'
  BY WorkerTypeStep, PickerTypeStep, FileTypeStep, ShapeStep DEF TypeOK
<1> QED
  BY InitShape, <1>1, PTL DEF Spec

\* Types are correct in every reachable state; in particular the results
\* channel of File never holds more than numPieces results.
THEOREM TypeCorrect == Spec => []TypeOK
  BY Shaped, PTL

-----------------------------------------------------------------------------
(* Reservations.  To the picker's done and inflight and to the workers'    *)
(* claims, every step is of one of four kinds.                             *)

ClaimStep(w, i) ==
  /\ i \notin done /\ done' = done
  /\ inflight' = inflight \cup {i}
  /\ ~endgame' => ~endgame /\ i \notin inflight
  /\ claims' = [claims EXCEPT ![w] = @ \cup {i}]

\* An Abort (done unchanged) or a Finish.
ReturnStep(w, i) ==
  /\ i \in claims[w]
  /\ inflight' = inflight \ {i}
  /\ done' = done \/ done' = done \cup {i}
  /\ endgame' = endgame
  /\ Settle(w, i)

SkipStep(w, i) ==
  /\ i \in claims[w] /\ i \in done
  /\ done' = done /\ inflight' = inflight /\ endgame' = endgame
  /\ Settle(w, i)

QuietStep ==
  /\ done' = done /\ inflight' = inflight /\ claims' = claims
  /\ ~endgame' => ~endgame

ReservationStep ==
  \/ \E w \in Worker : \E i \in Piece :
       ClaimStep(w, i) \/ ReturnStep(w, i) \/ SkipStep(w, i)
  \/ QuietStep

\* Every step is of one of the four kinds.
LEMMA StepKinds ==
  ASSUME TypeOK, Shape, [Next]_vars
  PROVE  ReservationStep
<1>1. ASSUME NEW w \in Worker, NEW i \in Piece,
             ClaimStep(w, i) \/ ReturnStep(w, i) \/ SkipStep(w, i)
      PROVE  ReservationStep
  BY <1>1 DEF ReservationStep
<1>2. ASSUME UNCHANGED <<done, inflight, endgame, claims>>  PROVE ReservationStep
  BY <1>2 DEF ReservationStep, QuietStep
<1>3. Peers \subseteq Worker /\ Seeds \subseteq Worker /\ PickerTypeOK
  BY DEF Worker, TypeOK
<1>4. ASSUME NEW w \in Peers, StartSession(w) \/ PeerExit(w)  PROVE ReservationStep
  BY <1>2, <1>4 DEF StartSession, OpenSession, PeerExit, AddPeer, pickerVars
<1>5. ASSUME NEW w \in Peers, SenderRuns(w)  PROVE ReservationStep
  <2>1. ASSUME NEW i \in Piece, SenderPick(w, i)  PROVE ClaimStep(w, i)
    BY <2>1, <1>3, PickEffect DEF SenderPick, ClaimStep
  <2>2. ASSUME SenderQuit(w)  PROVE QuietStep
    BY <2>2, <1>3, PickNoneEffect DEF SenderQuit, QuietStep
  <2> QED
    BY <1>1, <1>3, <1>5, <2>1, <2>2 DEF SenderRuns, ReservationStep
<1>6. ASSUME NEW w \in Peers, SenderBreaks(w)  PROVE ReservationStep
  <2>1. ASSUME NEW i \in Piece, SenderFail(w, i)  PROVE ReturnStep(w, i)
    BY <2>1 DEF SenderFail, Abort, ReturnStep, Settle
  <2> QED
    BY <1>1, <1>3, <1>6, <2>1 DEF SenderBreaks
<1>7. ASSUME NEW w \in Peers, ReaderRuns(w) \/ ReaderBreaks(w)  PROVE ReservationStep
  <2>1. ASSUME NEW i \in Piece, SkipDuplicate(w, i)  PROVE SkipStep(w, i)
    BY <2>1 DEF SkipDuplicate, SkipStep, IsDone, pickerVars
  <2>2. ASSUME NEW i \in Piece, AbortOne(w, i)  PROVE ReturnStep(w, i)
    BY <2>2 DEF AbortOne, Abort, ReturnStep
  <2>3. ASSUME HashMatch(w) \/ HashMismatch(w)
        PROVE  cur[w] \in Piece /\ ReturnStep(w, cur[w])
    BY <2>3 DEF HashMatch, HashMismatch, Finish, Abort, ReturnStep, Shape,
                PeerShape, Busy
  <2>4. ASSUME \/ \E i \in Piece : PieceComplete(w, i)
               \/ SendResult(w) \/ ReadFails(w) \/ CloseSession(w)
        PROVE  ReservationStep
    BY <2>4, <1>2 DEF PieceComplete, SendResult, Deliver, ReadFails, CloseSession,
                      RemovePeer, pickerVars
  <2> QED
    BY <1>1, <1>3, <1>7, <2>1, <2>2, <2>3, <2>4 DEF ReaderRuns, ReaderBreaks
<1>8. ASSUME NEW s \in Seeds, SeedNext(s)  PROVE ReservationStep
  <2>1. ASSUME NEW i \in Piece, SeedPick(s, i)  PROVE ClaimStep(s, i)
    <3>1. claims[s] = {}
      BY <2>1 DEF SeedPick, Shape, SeedShape
    <3> QED
      BY <3>1, <2>1, <1>3, PickEffect DEF SeedPick, ClaimStep
  <2>2. ASSUME SeedNone(s)  PROVE QuietStep
    BY <2>2, <1>3, PickNoneEffect DEF SeedNone, QuietStep
  <2>3. ASSUME SeedFinish(s) \/ (\E label \in {"sendErr", "sendErrWait"} : SeedAbort(s, label))
        PROVE  cur[s] \in Piece /\ ReturnStep(s, cur[s])
    <3>1. cur[s] \in Piece /\ claims[s] = {cur[s]}
      BY <2>3 DEF SeedFinish, SeedAbort, Shape, SeedShape, Busy
    <3> QED
      BY <3>1, <2>3 DEF SeedFinish, SeedAbort, Finish, Abort, ReturnStep, Settle
  <2>4. ASSUME SeedStart(s) \/ SeedCheck(s) \/ SeedSend(s) \/ SeedBackoff(s) \/ SeedLeave(s)
        PROVE  ReservationStep
    BY <2>4, <1>2 DEF SeedStart, SeedCheck, SeedSend, Deliver, SeedBackoff,
                      SeedLeave, AddPeer, RemovePeer, pickerVars
  <2> QED
    BY <1>1, <1>3, <1>8, <2>1, <2>2, <2>3, <2>4
    DEF SeedNext, SeedRuns, SeedBreaks, ReservationStep
<1>9. ASSUME UNCHANGED <<pickerVars, sessionVars>>  PROVE ReservationStep
  BY <1>2, <1>9 DEF pickerVars, sessionVars
<1> QED
  BY <1>4, <1>5, <1>6, <1>7, <1>8, <1>9
  DEF Next, PeerNext, DropFailed, WritePiece, WriteFails, CloseResults,
      ChannelDrained, CallerCancels, Returned, vars

\* A verified piece is not reserved.
DoneFree == done \cap inflight = {}

Reservations == DoneFree /\ NoLeakedReservation /\ ExclusiveBeforeEndgame

\* Each kind of step keeps the reservations exact.
LEMMA ReservationsStep ==
  ASSUME TypeOK, Reservations, ReservationStep
  PROVE  Reservations'
<1> USE DEF Reservations, DoneFree, NoLeakedReservation, ExclusiveBeforeEndgame
<1>1. claims \in [Worker -> SUBSET Piece] /\ endgame \in BOOLEAN
  BY DEF TypeOK, WorkerTypeOK, PickerTypeOK
<1>2. ASSUME NEW w \in Worker, NEW i \in Piece, ClaimStep(w, i)  PROVE Reservations'
  BY <1>1, <1>2 DEF ClaimStep
<1>3. ASSUME NEW w \in Worker, NEW i \in Piece, ReturnStep(w, i)  PROVE Reservations'
  BY <1>1, <1>3 DEF ReturnStep, Settle
<1>4. ASSUME NEW w \in Worker, NEW i \in Piece, SkipStep(w, i)  PROVE Reservations'
  BY <1>1, <1>4 DEF SkipStep, Settle
<1>5. ASSUME QuietStep  PROVE Reservations'
  BY <1>5 DEF QuietStep
<1> QED
  BY <1>2, <1>3, <1>4, <1>5 DEF ReservationStep

\* Reservations is an invariant.
LEMMA ReservationsInv == Spec => []Reservations
<1>1. Init => Reservations
  BY DEF Init, SessionInit, NewPicker, Reservations, DoneFree, NoLeakedReservation,
         ExclusiveBeforeEndgame
<1>2. TypeOK /\ Shape /\ Reservations /\ [Next]_vars => Reservations'
  BY StepKinds, ReservationsStep
<1> QED
  BY <1>1, <1>2, Shaped, PTL DEF Spec

\* No exit path of a peer session or a seed leaks a reservation.
THEOREM NoReservationLeaks == Spec => []NoLeakedReservation
<1>1. Reservations => NoLeakedReservation
  BY DEF Reservations
<1> QED
  BY <1>1, ReservationsInv, PTL

\* Before endgame the picker never hands one piece to two workers.
THEOREM ReservationsExclusive == Spec => []ExclusiveBeforeEndgame
<1>1. Reservations => ExclusiveBeforeEndgame
  BY DEF Reservations
<1> QED
  BY <1>1, ReservationsInv, PTL

-----------------------------------------------------------------------------
(* Closing the channel, and seeds that stay. *)

\* A worker that has exited takes no further step.
LEMMA GoneStays ==
  ASSUME TypeOK, Shape, NEW w \in Worker, pc[w] = "gone"
  PROVE  /\ w \in Peers => ~PeerNext(w)
         /\ w \in Seeds => ~SeedNext(w)
<1>1. ASSUME w \in Peers  PROVE ~PeerNext(w)
  <2>1. claims[w] = {} /\ ~sender[w]
    BY <1>1 DEF Shape, PeerShape
  <2> QED
    BY <2>1
    DEF PeerNext, StartSession, OpenSession, PeerExit, SenderRuns, SenderPick,
        SenderQuit, SenderBreaks, SenderFail, ReaderRuns, SkipDuplicate,
        PieceComplete, AbortOne, HashMatch, SendResult, CloseSession,
        ReaderBreaks, HashMismatch, ReadFails
<1>2. ASSUME w \in Seeds  PROVE ~SeedNext(w)
  BY DEF SeedNext, SeedRuns, SeedStart, SeedCheck, SeedNone, SeedFinish, SeedSend,
         SeedBackoff, SeedLeave, SeedPick, SeedBreaks, SeedAbort
<1> QED
  BY <1>1, <1>2

\* Once File's closer has closed the channel no worker is left.
NobodyLeft == closed => \A w \in Worker : pc[w] = "gone"

\* Workers do not come back.
LEMMA ClosedLast == Spec => []NobodyLeft
<1>1. Init => NobodyLeft
  BY DEF Init, NobodyLeft
<1>2. ASSUME TypeOK, Shape, NobodyLeft, [Next]_vars  PROVE NobodyLeft'
  <2>1. ASSUME NEW w \in Peers, PeerNext(w)  PROVE ~closed /\ ~closed'
    <3>1. ~closed
      BY <2>1, <1>2, GoneStays DEF NobodyLeft, Worker
    <3> QED
      BY <3>1, <2>1 DEF PeerNext, StartSession, PeerExit, SenderRuns, SenderBreaks,
                        ReaderRuns, ReaderBreaks, fileVars
  <2>2. ASSUME NEW s \in Seeds, SeedNext(s)  PROVE ~closed /\ ~closed'
    <3>1. ~closed
      BY <2>2, <1>2, GoneStays DEF NobodyLeft, Worker
    <3> QED
      BY <3>1, <2>2 DEF SeedNext, SeedRuns, SeedBreaks, fileVars
  <2>3. ASSUME CloseResults  PROVE NobodyLeft'
    BY <2>3 DEF CloseResults, NobodyLeft, sessionVars
  <2>4. ASSUME UNCHANGED <<closed, sessionVars>>  PROVE NobodyLeft'
    BY <2>4, <1>2 DEF NobodyLeft, sessionVars
  <2> QED
    BY <1>2, <2>1, <2>2, <2>3, <2>4
    DEF Next, NobodyLeft, DropFailed, WritePiece, WriteFails, ChannelDrained,
        CallerCancels, Returned, vars, fileVars
<1> QED
  BY <1>1, <1>2, Shaped, PTL DEF Spec

\* A webseed or httpseed that finds nothing to pick leaves a finished torrent.
THEOREM SeedsStay == Spec => SeedStaysUntilDone
<1>1. ASSUME TypeOK, Shape, [Next]_vars, NEW s \in Seeds,
             pc[s] = "pick", pc'[s] = "leave"
      PROVE  done = Piece
  <2>1. SeedNext(s)
    <3>1. ASSUME NEW w \in Worker, OnlyMoves(w)  PROVE w = s
      BY <1>1, <3>1 DEF OnlyMoves, Worker
    <3>2. ~UNCHANGED sessionVars
      BY <1>1 DEF sessionVars
    <3> QED
      BY <1>1, <3>1, <3>2, WorkersAreLocal, WorkerAssumption
      DEF Next, Worker, DropFailed, WritePiece, WriteFails, CloseResults,
          ChannelDrained, CallerCancels, Returned, vars
  <2>2. SeedNone(s)
    BY <1>1, <2>1
    DEF SeedNext, SeedRuns, SeedStart, SeedCheck, SeedFinish, SeedSend, SeedPick,
        SeedBackoff, SeedLeave, SeedBreaks, SeedAbort, Goto, TypeOK, WorkerTypeOK, Worker
  <2>3. have[s] = Piece
    BY <1>1 DEF Shape, SeedShape
  <2> QED
    BY <2>2, <2>3, <1>1, FullBitfieldPick DEF SeedNone, TypeOK
<1>2. TypeOK /\ Shape /\ [Next]_vars =>
        [\A s \in Seeds : pc[s] = "pick" /\ pc'[s] = "leave" => done = Piece]_vars
  BY <1>1
<1> QED
  BY <1>2, Shaped, PTL DEF Spec, SeedStaysUntilDone

-----------------------------------------------------------------------------
(* From Finish to the output file.  To the path of a verified piece, every *)
(* step is of one of four kinds.                                           *)

fileState == <<written, completed, outcome>>

\* Worker w calls Finish for a piece it owes and is about to report it.
FinishStep(w) ==
  /\ cur[w] \in claims[w] /\ cur'[w] = cur[w]
  /\ pc[w] \notin {"gone", "sendOk"} /\ pc'[w] = "sendOk"
  /\ done' = done \cup {cur[w]}
  /\ \A v \in Worker \ {w} : pc'[v] = pc[v] /\ cur'[v] = cur[v]
  /\ UNCHANGED <<results, fileState>>

ReportStep(w) ==
  /\ cur[w] \in Piece /\ pc[w] # "gone"
  /\ results' = Append(results, [piece |-> cur[w], ok |-> pc[w] = "sendOk"])
  /\ pc'[w] # "sendOk"
  /\ \A v \in Worker \ {w} : pc'[v] = pc[v] /\ cur'[v] = cur[v]
  /\ UNCHANGED <<done, fileState>>

\* The collector takes the head of the channel and, if it counts it, writes it.
CollectStep ==
  /\ outcome = "running" /\ outcome' # "incomplete"
  /\ results # <<>> /\ results' = Tail(results)
  /\ UNCHANGED <<done, pc, cur>>
  /\ \/ /\ UNCHANGED <<written, completed>> /\ outcome' # "nil"
        /\ ~Head(results).ok \/ outcome' = "writeError"
     \/ /\ Head(results).ok
        /\ written' = written \cup {Head(results).piece}
        /\ completed' = completed + 1
        /\ outcome' = "nil" => completed' = NumPieces

\* No success is added anywhere.
IdleStep ==
  /\ \A w \in Worker : pc'[w] = "sendOk" => pc[w] = "sendOk" /\ cur'[w] = cur[w]
  /\ \A w \in Worker : pc[w] = "sendOk" => pc'[w] = "sendOk" /\ cur'[w] = cur[w]
  /\ UNCHANGED <<done, results, written, completed>>
  /\ \/ UNCHANGED outcome
     \/ outcome = "running" /\ outcome' = "incomplete" /\ closed /\ results = <<>>

PathStep ==
  /\ ~endgame' => ~endgame
  /\ closed => closed'
  /\ \/ \E w \in Worker : FinishStep(w) \/ ReportStep(w)
     \/ CollectStep \/ IdleStep

\* Every step is of one of these kinds, and endgame is never left.
LEMMA PathKinds ==
  ASSUME TypeOK, Shape, [Next]_vars
  PROVE  PathStep
<1>1. ~endgame' => ~endgame
  BY StepKinds DEF ReservationStep, ClaimStep, ReturnStep, SkipStep, QuietStep
<1>9. closed => closed'
  <2>1. ASSUME NEW w \in Peers, PeerNext(w)  PROVE closed' = closed
    BY <2>1 DEF PeerNext, StartSession, PeerExit, SenderRuns, SenderBreaks, ReaderRuns,
                ReaderBreaks, fileVars
  <2>2. ASSUME NEW s \in Seeds, SeedNext(s)  PROVE closed' = closed
    BY <2>2 DEF SeedNext, SeedRuns, SeedBreaks, fileVars
  <2>3. ASSUME \/ DropFailed \/ WritePiece \/ WriteFails \/ CloseResults \/ ChannelDrained
               \/ CallerCancels \/ UNCHANGED vars
        PROVE  closed => closed'
    BY <2>3 DEF DropFailed, WritePiece, WriteFails, CloseResults, ChannelDrained,
                CallerCancels, fileVars, vars
  <2> QED
    BY <2>1, <2>2, <2>3 DEF Next, Returned
<1>2. ASSUME NEW w \in Worker, FinishStep(w) \/ ReportStep(w)  PROVE PathStep
  BY <1>1, <1>2, <1>9 DEF PathStep
<1>3. ASSUME IdleStep  PROVE PathStep
  BY <1>1, <1>3, <1>9 DEF PathStep
<1>4. PickerTypeOK /\ WorkerTypeOK
  BY DEF TypeOK
<1>5. ASSUME NEW w \in Peers, PeerNext(w)  PROVE PathStep
  <2>1. w \in Worker /\ OnlyMoves(w) /\ PeerShape(w)
    BY <1>5, WorkersAreLocal DEF Worker, Shape
  <2>2. ASSUME HashMatch(w), UNCHANGED fileVars  PROVE FinishStep(w)
    BY <1>4, <2>1, <2>2 DEF HashMatch, Finish, FinishStep, OnlyMoves, PeerShape, Goto,
                      fileVars, fileState, WorkerTypeOK
  <2>3. ASSUME SendResult(w), UNCHANGED fileVars  PROVE ReportStep(w)
    BY <1>4, <2>1, <2>3 DEF SendResult, Deliver, Goto, ReportStep, OnlyMoves, PeerShape,
                      Busy, pickerVars, fileVars, fileState, WorkerTypeOK
  <2>4. ASSUME StartSession(w) \/ PeerExit(w) \/ SenderRuns(w) \/ SenderBreaks(w)
        PROVE  IdleStep
    BY <1>4, <2>1, <2>4, PickEffect, PickNoneEffect
    DEF StartSession, OpenSession, AddPeer, PeerExit, SenderRuns, SenderPick,
        SenderQuit, SenderBreaks, SenderFail, Abort, Goto, IdleStep, OnlyMoves,
        WorkerTypeOK, pickerVars, fileVars
  <2>5. ASSUME \/ \E i \in Piece : \/ SkipDuplicate(w, i) \/ PieceComplete(w, i)
                                   \/ AbortOne(w, i)
               \/ CloseSession(w) \/ HashMismatch(w) \/ ReadFails(w),
               UNCHANGED fileVars
        PROVE  IdleStep
    BY <1>4, <2>1, <2>5
    DEF SkipDuplicate, PieceComplete, AbortOne, CloseSession, HashMismatch, ReadFails,
        RemovePeer, Abort, Goto, IdleStep, OnlyMoves, WorkerTypeOK, pickerVars, fileVars
  <2> QED
    BY <1>2, <1>3, <1>5, <2>1, <2>2, <2>3, <2>4, <2>5 DEF PeerNext, ReaderRuns, ReaderBreaks
<1>6. ASSUME NEW s \in Seeds, SeedNext(s)  PROVE PathStep
  <2>1. s \in Worker /\ OnlyMoves(s) /\ SeedShape(s) /\ UNCHANGED fileVars
    BY <1>6, WorkersAreLocal DEF Worker, Shape, SeedNext, SeedRuns, SeedBreaks
  <2>2. ASSUME SeedFinish(s)  PROVE FinishStep(s)
    BY <1>4, <2>1, <2>2 DEF SeedFinish, Finish, FinishStep, OnlyMoves, SeedShape, Goto,
                      fileVars, fileState, WorkerTypeOK
  <2>3. ASSUME SeedSend(s)  PROVE ReportStep(s)
    BY <1>4, <2>1, <2>3 DEF SeedSend, Deliver, Goto, ReportStep, OnlyMoves, SeedShape,
                      Busy, pickerVars, fileVars, fileState, WorkerTypeOK
  <2>4. ASSUME SeedNone(s) \/ (\E i \in Piece : SeedPick(s, i))  PROVE IdleStep
    BY <1>4, <2>1, <2>4, PickEffect, PickNoneEffect
    DEF SeedNone, SeedPick, Goto, IdleStep, OnlyMoves, WorkerTypeOK, fileVars
  <2>5. ASSUME \/ SeedStart(s) \/ SeedCheck(s) \/ SeedBackoff(s) \/ SeedLeave(s)
               \/ \E label \in {"sendErr", "sendErrWait"} : SeedAbort(s, label)
        PROVE  IdleStep
    BY <1>4, <2>1, <2>5
    DEF SeedStart, SeedCheck, SeedBackoff, SeedLeave, SeedAbort, AddPeer, RemovePeer,
        Abort, Goto, IdleStep, OnlyMoves, WorkerTypeOK, pickerVars, fileVars
  <2> QED
    BY <1>2, <1>3, <1>6, <2>1, <2>2, <2>3, <2>4, <2>5 DEF SeedNext, SeedRuns, SeedBreaks
<1>7. ASSUME DropFailed \/ WritePiece \/ WriteFails  PROVE CollectStep
  BY <1>7 DEF DropFailed, WritePiece, WriteFails, CollectStep, pickerVars, sessionVars,
              fileVars
<1>8. ASSUME CloseResults \/ ChannelDrained \/ CallerCancels \/ UNCHANGED vars
      PROVE  IdleStep
  BY <1>8 DEF CloseResults, ChannelDrained, CallerCancels, IdleStep, pickerVars,
              sessionVars, fileVars, vars
<1> QED
  BY <1>1, <1>3, <1>5, <1>6, <1>7, <1>8, <1>9 DEF Next, Returned, PathStep

\* Taking the head of the channel moves every other result up by one.
LEMMA TailOfChannel ==
  ASSUME results \in Seq(Result), results # <<>>, results' = Tail(results)
  PROVE  /\ Len(results) \in Nat \ {0}
         /\ Len(results') = Len(results) - 1
         /\ Head(results) = results[1]
         /\ \A k \in 1..Len(results') : /\ results'[k] = results[k + 1]
                                        /\ k + 1 \in 1..Len(results)
  OBVIOUS

\* A result is put at the end of the channel.
LEMMA AppendToChannel ==
  ASSUME results \in Seq(Result), NEW r \in Result, results' = Append(results, r)
  PROVE  /\ Len(results) \in Nat
         /\ Len(results') = Len(results) + 1
         /\ results'[Len(results) + 1] = r
         /\ \A k \in 1..Len(results) : results'[k] = results[k]
  OBVIOUS

\* Each kind of step keeps unverified data out of the path to the file.
LEMMA VerifiedStep ==
  ASSUME TypeOK, OnlyVerifiedData, PathStep
  PROVE  OnlyVerifiedData'
<1>1. results \in Seq(Result) /\ Len(results) \in Nat
  BY DEF TypeOK, FileTypeOK
<1>2. ASSUME NEW w \in Worker, FinishStep(w)  PROVE OnlyVerifiedData'
  BY <1>2 DEF FinishStep, OnlyVerifiedData, fileState
<1>3. ASSUME NEW w \in Worker, ReportStep(w)  PROVE OnlyVerifiedData'
  <2> DEFINE r == [piece |-> cur[w], ok |-> pc[w] = "sendOk"]
  <2>1. r \in Result /\ r.piece = cur[w] /\ r.ok = (pc[w] = "sendOk")
    BY <1>3 DEF ReportStep, Result
  <2>2. results' = Append(results, r)
    BY <1>3 DEF ReportStep
  <2>3. r.ok => r.piece \in done
    BY <2>1 DEF OnlyVerifiedData
  <2> HIDE DEF r
  <2>4. \A k \in 1..Len(results') : results'[k].ok => results'[k].piece \in done
    BY <1>1, <2>1, <2>2, <2>3, AppendToChannel DEF OnlyVerifiedData
  <2> QED
    BY <1>3, <2>4 DEF ReportStep, OnlyVerifiedData, fileState
<1>4. ASSUME CollectStep  PROVE OnlyVerifiedData'
  <2>1. \A k \in 1..Len(results') : results'[k].ok => results'[k].piece \in done
    BY <1>1, <1>4, TailOfChannel DEF CollectStep, OnlyVerifiedData
  <2>2. written' \subseteq done
    BY <1>1, <1>4, TailOfChannel DEF CollectStep, OnlyVerifiedData
  <2> QED
    BY <1>4, <2>1, <2>2 DEF CollectStep, OnlyVerifiedData
<1>5. ASSUME IdleStep  PROVE OnlyVerifiedData'
  BY <1>5 DEF IdleStep, OnlyVerifiedData
<1> QED
  BY <1>2, <1>3, <1>4, <1>5 DEF PathStep

\* The output file only ever holds verified pieces.
THEOREM FileIsVerified == Spec => []OnlyVerifiedData
<1>1. Init => OnlyVerifiedData
  BY DEF Init, SessionInit, NewPicker, OnlyVerifiedData
<1>2. TypeOK /\ Shape /\ OnlyVerifiedData /\ [Next]_vars => OnlyVerifiedData'
  BY PathKinds, VerifiedStep
<1> QED
  BY <1>1, <1>2, Shaped, PTL DEF Spec

\* Every verified piece has one success on its way: in the hands of one worker,
\* in one place of the channel, or in the file.
OneReportPerPiece ==
  /\ \A v, w \in Worker : v # w /\ pc[v] = "sendOk" /\ pc[w] = "sendOk" => cur[v] # cur[w]
  /\ \A k, l \in 1..Len(results) :
       k # l /\ results[k].ok /\ results[l].ok => results[k].piece # results[l].piece
  /\ \A w \in Worker : \A k \in 1..Len(results) :
       pc[w] = "sendOk" /\ results[k].ok => cur[w] # results[k].piece
  /\ \A k \in 1..Len(results) : results[k].ok => results[k].piece \notin written
  /\ \A w \in Worker : pc[w] = "sendOk" => cur[w] \notin written

\* Before endgame the collector's counter is the number of pieces in the file,
\* and File returns nil only when the counter reaches numPieces.
Counted ==
  /\ ~endgame => OneReportPerPiece /\ completed = Cardinality(written)
  /\ outcome = "nil" => completed = NumPieces

\* Each kind of step keeps one success per piece until endgame starts.
LEMMA CountedStep ==
  ASSUME TypeOK, Reservations, OnlyVerifiedData, Counted, PathStep
  PROVE  Counted'
<1>1. results \in Seq(Result) /\ Len(results) \in Nat
  BY DEF TypeOK, FileTypeOK
<1>2. ASSUME NEW w \in Worker, FinishStep(w)  PROVE Counted'
  <2>1. ASSUME ~endgame  PROVE cur[w] \notin done
    BY <1>2, <2>1 DEF FinishStep, Reservations, DoneFree, ExclusiveBeforeEndgame
  <2>2. ASSUME ~endgame'  PROVE OneReportPerPiece'
    <3>1. ~endgame /\ OneReportPerPiece /\ cur[w] \notin done
      BY <2>1, <2>2 DEF PathStep, Counted
    <3> QED
      BY <1>2, <3>1 DEF FinishStep, OneReportPerPiece, OnlyVerifiedData, fileState
  <2> QED
    BY <1>2, <2>2 DEF FinishStep, Counted, PathStep, fileState
<1>3. ASSUME NEW w \in Worker, ReportStep(w)  PROVE Counted'
  <2> DEFINE r == [piece |-> cur[w], ok |-> pc[w] = "sendOk"]
  <2>1. r \in Result /\ (r.ok => r.piece = cur[w] /\ pc[w] = "sendOk")
    BY <1>3 DEF ReportStep, Result
  <2>2. results' = Append(results, r)
    BY <1>3 DEF ReportStep
  <2> HIDE DEF r
  <2>3. ASSUME OneReportPerPiece  PROVE OneReportPerPiece'
    <3>1. /\ pc'[w] # "sendOk" /\ written' = written
          /\ \A v \in Worker \ {w} : pc'[v] = pc[v] /\ cur'[v] = cur[v]
      BY <1>3 DEF ReportStep, fileState
    <3>2. \A k \in 1..Len(results') :
            \/ k \in 1..Len(results) /\ results'[k] = results[k]
            \/ k = Len(results) + 1 /\ results'[k] = r
      BY <1>1, <2>1, <2>2, AppendToChannel
    <3>3. ASSUME NEW k \in 1..Len(results'), NEW l \in 1..Len(results'), k # l,
                 results'[k].ok, results'[l].ok
          PROVE  results'[k].piece # results'[l].piece
      BY <1>1, <2>1, <2>3, <3>2, <3>3 DEF OneReportPerPiece
    <3>4. ASSUME NEW v \in Worker, NEW k \in 1..Len(results'), pc'[v] = "sendOk",
                 results'[k].ok
          PROVE  cur'[v] # results'[k].piece
      BY <2>1, <2>3, <3>1, <3>2, <3>4 DEF OneReportPerPiece
    <3>5. ASSUME NEW k \in 1..Len(results'), results'[k].ok
          PROVE  results'[k].piece \notin written'
      BY <2>1, <2>3, <3>1, <3>2, <3>5 DEF OneReportPerPiece
    <3> QED
      BY <2>3, <3>1, <3>3, <3>4, <3>5 DEF OneReportPerPiece
  <2> QED
    BY <1>3, <2>3 DEF ReportStep, Counted, PathStep, fileState
<1>4. ASSUME CollectStep  PROVE Counted'
  <2>1. /\ 1 \in 1..Len(results) /\ Head(results) = results[1]
        /\ \A k \in 1..Len(results') : /\ results'[k] = results[k + 1]
                                       /\ k + 1 \in 1..Len(results) /\ k + 1 # 1
    BY <1>1, <1>4, TailOfChannel DEF CollectStep
  <2>2. UNCHANGED <<pc, cur>>
    BY <1>4 DEF CollectStep
  <2>3. ASSUME OneReportPerPiece,
               NEW k \in 1..Len(results'), NEW l \in 1..Len(results'), k # l,
               results'[k].ok, results'[l].ok
        PROVE  results'[k].piece # results'[l].piece
    <3>1. /\ k + 1 \in 1..Len(results) /\ l + 1 \in 1..Len(results) /\ k + 1 # l + 1
          /\ results'[k] = results[k + 1] /\ results'[l] = results[l + 1]
      BY <2>1, <2>3
    <3>2. \A m, n \in 1..Len(results) :
            m # n /\ results[m].ok /\ results[n].ok => results[m].piece # results[n].piece
      BY <2>3 DEF OneReportPerPiece
    <3> QED
      BY <2>3, <3>1, <3>2
  <2>4. ASSUME OneReportPerPiece,
               \A k \in 1..Len(results') : results'[k].ok => results'[k].piece \notin written',
               \A w \in Worker : pc'[w] = "sendOk" => cur'[w] \notin written'
        PROVE  OneReportPerPiece'
    <3>1. ASSUME NEW w \in Worker, NEW k \in 1..Len(results'), pc'[w] = "sendOk",
                 results'[k].ok
          PROVE  cur'[w] # results'[k].piece
      BY <2>1, <2>2, <2>4, <3>1 DEF OneReportPerPiece
    <3>2. \A v, w \in Worker : v # w /\ pc'[v] = "sendOk" /\ pc'[w] = "sendOk"
                                 => cur'[v] # cur'[w]
      BY <2>2, <2>4 DEF OneReportPerPiece
    <3> QED
      BY <2>3, <2>4, <3>1, <3>2 DEF OneReportPerPiece
  <2>5. CASE UNCHANGED <<written, completed>> /\ outcome' # "nil"
    <3>1. ASSUME OneReportPerPiece  PROVE OneReportPerPiece'
      <4>1. \A k \in 1..Len(results') : results'[k].ok => results'[k].piece \notin written'
        BY <2>1, <2>5, <3>1 DEF OneReportPerPiece
      <4>2. \A w \in Worker : pc'[w] = "sendOk" => cur'[w] \notin written'
        BY <2>2, <2>5, <3>1 DEF OneReportPerPiece
      <4> QED
        BY <2>4, <3>1, <4>1, <4>2
    <3> QED
      BY <2>5, <3>1 DEF Counted, PathStep
  <2>6. CASE /\ Head(results).ok
             /\ written' = written \cup {Head(results).piece}
             /\ completed' = completed + 1
             /\ outcome' = "nil" => completed' = NumPieces
    <3>1. ASSUME OneReportPerPiece  PROVE OneReportPerPiece'
      <4>1. ASSUME NEW k \in 1..Len(results'), results'[k].ok
            PROVE  results'[k].piece \notin written'
        BY <2>1, <2>6, <3>1, <4>1 DEF OneReportPerPiece
      <4>2. \A w \in Worker : pc'[w] = "sendOk" => cur'[w] \notin written'
        BY <2>1, <2>2, <2>6, <3>1 DEF OneReportPerPiece
      <4> QED
        BY <2>4, <3>1, <4>1, <4>2
    <3>2. ASSUME OneReportPerPiece, completed = Cardinality(written)
          PROVE  completed' = Cardinality(written')
      <4>1. IsFiniteSet(written)
        BY PieceAssumption, FS_Subset DEF TypeOK, FileTypeOK
      <4>2. Head(results).piece \notin written
        BY <2>1, <2>6, <3>2 DEF OneReportPerPiece
      <4> QED
        BY <2>6, <3>2, <4>1, <4>2, FS_AddElement
    <3> QED
      BY <2>6, <3>1, <3>2 DEF Counted, PathStep
  <2> QED
    BY <1>4, <2>5, <2>6 DEF CollectStep
<1>5. ASSUME IdleStep  PROVE Counted'
  <2>1. ASSUME OneReportPerPiece  PROVE OneReportPerPiece'
    BY <1>5, <2>1 DEF IdleStep, OneReportPerPiece
  <2> QED
    BY <1>5, <2>1 DEF IdleStep, Counted, PathStep
<1> QED
  BY <1>2, <1>3, <1>4, <1>5 DEF PathStep

\* When File returns nil without having entered endgame, the output file holds
\* every piece of the torrent.
THEOREM NilIsCompleteFile == Spec => []NilIsCompleteBeforeEndgame
<1>1. Init => Counted
  BY FS_EmptySet DEF Init, SessionInit, Counted, OneReportPerPiece
<1>2. TypeOK /\ Shape /\ Reservations /\ OnlyVerifiedData /\ Counted /\ [Next]_vars
        => Counted'
  BY PathKinds, CountedStep
<1>3. TypeOK /\ Counted => NilIsCompleteBeforeEndgame
  BY PieceAssumption, FS_Subset
  DEF TypeOK, FileTypeOK, Counted, NilIsCompleteBeforeEndgame, NumPieces
<1> QED
  BY <1>1, <1>2, <1>3, Shaped, ReservationsInv, FileIsVerified, PTL DEF Spec

\* Until File returns because of a write error or with nil, a piece that is done
\* is in the file, in the channel, or in the hands of a worker about to send it.
OnItsWay(i) ==
  \/ i \in written
  \/ \E k \in 1..Len(results) : results[k].ok /\ results[k].piece = i
  \/ \E w \in Worker : pc[w] = "sendOk" /\ cur[w] = i

NothingLost ==
  /\ outcome \in {"running", "incomplete"} => \A i \in done : OnItsWay(i)
  /\ outcome = "incomplete" => closed /\ results = <<>>

\* Each kind of step keeps every verified piece on its way.
LEMMA NothingLostStep ==
  ASSUME TypeOK, NobodyLeft, NothingLost, PathStep
  PROVE  NothingLost'
<1>1. results \in Seq(Result) /\ Len(results) \in Nat
  BY DEF TypeOK, FileTypeOK
<1>2. ASSUME NEW w \in Worker, FinishStep(w) \/ ReportStep(w)
      PROVE  ~closed /\ outcome # "incomplete" /\ outcome' = outcome
  BY <1>2 DEF FinishStep, ReportStep, NobodyLeft, NothingLost, fileState
<1>3. ASSUME NEW w \in Worker, FinishStep(w)  PROVE NothingLost'
  <2>1. ASSUME outcome = "running", NEW i \in done'  PROVE OnItsWay(i)'
    <3>1. CASE i = cur[w]
      BY <1>3, <3>1 DEF FinishStep, OnItsWay
    <3>2. CASE i # cur[w]
      <4>1. OnItsWay(i)
        BY <1>3, <2>1, <3>2 DEF FinishStep, NothingLost
      <4> QED
        BY <1>3, <4>1 DEF FinishStep, OnItsWay, fileState
    <3> QED
      BY <3>1, <3>2
  <2> QED
    BY <1>2, <1>3, <2>1 DEF NothingLost
<1>4. ASSUME NEW w \in Worker, ReportStep(w)  PROVE NothingLost'
  <2> DEFINE r == [piece |-> cur[w], ok |-> pc[w] = "sendOk"]
  <2>1. r \in Result /\ r.piece = cur[w] /\ r.ok = (pc[w] = "sendOk")
    BY <1>4 DEF ReportStep, Result
  <2>2. results' = Append(results, r)
    BY <1>4 DEF ReportStep
  <2> HIDE DEF r
  <2>3. /\ Len(results') = Len(results) + 1 /\ results'[Len(results) + 1] = r
        /\ \A k \in 1..Len(results) : results'[k] = results[k]
    BY <1>1, <2>1, <2>2, AppendToChannel
  <2>4. ASSUME outcome = "running", NEW i \in done'  PROVE OnItsWay(i)'
    <3>1. OnItsWay(i)
      BY <1>4, <2>4 DEF ReportStep, NothingLost
    <3>2. CASE i \in written
      BY <1>4, <3>2 DEF ReportStep, OnItsWay, fileState
    <3>3. ASSUME NEW k \in 1..Len(results), results[k].ok, results[k].piece = i
          PROVE  OnItsWay(i)'
      <4>1. k \in 1..Len(results') /\ results'[k] = results[k]
        BY <1>1, <2>3, <3>3
      <4> QED
        BY <3>3, <4>1 DEF OnItsWay
    <3>4. ASSUME NEW v \in Worker, pc[v] = "sendOk", cur[v] = i  PROVE OnItsWay(i)'
      <4>1. CASE v = w
        <5>1. Len(results) + 1 \in 1..Len(results')
          BY <1>1, <2>3
        <5>2. r.ok /\ r.piece = i
          BY <2>1, <3>4, <4>1
        <5> QED
          BY <2>3, <5>1, <5>2 DEF OnItsWay
      <4>2. CASE v # w
        BY <1>4, <3>4, <4>2 DEF ReportStep, OnItsWay
      <4> QED
        BY <4>1, <4>2
    <3> QED
      BY <3>1, <3>2, <3>3, <3>4 DEF OnItsWay
  <2> QED
    BY <1>2, <1>4, <2>4 DEF NothingLost
<1>5. ASSUME CollectStep  PROVE NothingLost'
  <2>1. /\ Len(results) \in Nat \ {0} /\ Len(results') = Len(results) - 1
        /\ Head(results) = results[1]
        /\ \A k \in 1..Len(results') : results'[k] = results[k + 1]
    BY <1>1, <1>5, TailOfChannel DEF CollectStep
  <2>2. ASSUME outcome' = "running", NEW i \in done'  PROVE OnItsWay(i)'
    <3>1. OnItsWay(i)
      BY <1>5, <2>2 DEF CollectStep, NothingLost
    <3>2. written \subseteq written'
      BY <1>5 DEF CollectStep
    <3>3. ASSUME NEW k \in 1..Len(results), results[k].ok, results[k].piece = i
          PROVE  OnItsWay(i)'
      <4>1. CASE k = 1
        BY <1>5, <2>1, <2>2, <3>3, <4>1 DEF CollectStep, OnItsWay
      <4>2. CASE k # 1
        <5>1. k - 1 \in 1..Len(results') /\ (k - 1) + 1 = k
          BY <2>1, <3>3, <4>2
        <5>2. results'[k - 1] = results[k]
          BY <2>1, <5>1
        <5> QED
          BY <3>3, <5>1, <5>2 DEF OnItsWay
      <4> QED
        BY <4>1, <4>2
    <3>4. ASSUME NEW v \in Worker, pc[v] = "sendOk", cur[v] = i  PROVE OnItsWay(i)'
      BY <1>5, <3>4 DEF CollectStep, OnItsWay
    <3> QED
      BY <3>1, <3>2, <3>3, <3>4 DEF OnItsWay
  <2> QED
    BY <1>5, <2>2 DEF CollectStep, NothingLost
<1>6. ASSUME IdleStep  PROVE NothingLost'
  <2>1. ASSUME NEW i, OnItsWay(i)  PROVE OnItsWay(i)'
    BY <1>6, <2>1 DEF IdleStep, OnItsWay
  <2> QED
    BY <1>6, <2>1 DEF IdleStep, NothingLost, PathStep
<1> QED
  BY <1>3, <1>4, <1>5, <1>6 DEF PathStep

\* A cancelled download that returns "download incomplete" has every verified
\* piece in its output file, whatever was in the channel or in a worker's hands.
THEOREM CancelledKeepsAll == Spec => []IncompleteKeepsAll
<1>1. Init => NothingLost
  BY DEF Init, SessionInit, NewPicker, NothingLost
<1>2. TypeOK /\ Shape /\ NobodyLeft /\ NothingLost /\ [Next]_vars => NothingLost'
  BY PathKinds, NothingLostStep
<1>3. NobodyLeft /\ NothingLost => IncompleteKeepsAll
  BY DEF NobodyLeft, NothingLost, OnItsWay, IncompleteKeepsAll
<1> QED
  BY <1>1, <1>2, <1>3, Shaped, ClosedLast, PTL DEF Spec

-----------------------------------------------------------------------------
(* Registrations.  To frequency and have, every step is a registration of   *)
(* a worker that has none, the end of one, or neither.                      *)

RegisterStep(w, B) ==
  /\ have[w] = {} /\ have' = [have EXCEPT ![w] = B]
  /\ AddPeer(B)

UnregisterStep(w) ==
  /\ have' = [have EXCEPT ![w] = {}]
  /\ RemovePeer(have[w])

\* Every step is of one of these kinds.
LEMMA RegistrationKinds ==
  ASSUME TypeOK, Shape, [Next]_vars
  PROVE  \/ \E w \in Worker : UnregisterStep(w) \/ \E B \in SUBSET Piece : RegisterStep(w, B)
         \/ UNCHANGED <<frequency, have>>
<1>1. Peers \subseteq Worker /\ Seeds \subseteq Worker /\ PickerTypeOK
  BY DEF Worker, TypeOK
<1>2. ASSUME NEW w \in Peers, StartSession(w)
      PROVE  \E B \in SUBSET Piece : RegisterStep(w, B)
  BY <1>2, WorkerAssumption
  DEF StartSession, OpenSession, RegisterStep, Shape, PeerShape
<1>3. ASSUME NEW w \in Peers, CloseSession(w)  PROVE UnregisterStep(w)
  BY <1>3 DEF CloseSession, UnregisterStep
<1>4. ASSUME NEW w \in Peers, PeerNext(w), ~StartSession(w), ~CloseSession(w)
      PROVE  UNCHANGED <<frequency, have>>
  BY <1>1, <1>4, PickEffect, PickNoneEffect
  DEF PeerNext, PeerExit, SenderRuns, SenderPick, SenderQuit, SenderBreaks, SenderFail,
      ReaderRuns, SkipDuplicate, PieceComplete, AbortOne, HashMatch, SendResult, Deliver,
      ReaderBreaks, HashMismatch, ReadFails, Abort, Finish, pickerVars
<1>5. ASSUME NEW s \in Seeds, SeedStart(s)  PROVE RegisterStep(s, Piece)
  BY <1>5 DEF SeedStart, RegisterStep, Shape, SeedShape
<1>6. ASSUME NEW s \in Seeds, SeedLeave(s)  PROVE UnregisterStep(s)
  BY <1>6 DEF SeedLeave, UnregisterStep
<1>7. ASSUME NEW s \in Seeds, SeedNext(s), ~SeedStart(s), ~SeedLeave(s)
      PROVE  UNCHANGED <<frequency, have>>
  BY <1>1, <1>7, PickEffect, PickNoneEffect
  DEF SeedNext, SeedRuns, SeedCheck, SeedNone, SeedFinish, SeedSend, Deliver, SeedPick,
      SeedBackoff, SeedBreaks, SeedAbort, Abort, Finish, pickerVars
<1> QED
  BY <1>1, <1>2, <1>3, <1>4, <1>5, <1>6, <1>7
  DEF Next, DropFailed, WritePiece, WriteFails, CloseResults, ChannelDrained,
      CallerCancels, Returned, vars, pickerVars, sessionVars

\* Each kind of step keeps the piece frequencies exact.
LEMMA FrequencyStep ==
  ASSUME TypeOK, Shape, FrequencyExact, [Next]_vars
  PROVE  FrequencyExact'
<1> DEFINE Have(i) == {v \in Worker : i \in have[v]}
           HaveNext(i) == {v \in Worker : i \in have'[v]}
<1>1. /\ have \in [Worker -> SUBSET Piece] /\ frequency \in [Piece -> Int]
      /\ \A i \in Piece : frequency[i] = Cardinality(Have(i))
      /\ \A i \in Piece : IsFiniteSet(Have(i)) /\ Cardinality(Have(i)) \in Nat
  <2>1. ASSUME NEW i \in Piece  PROVE IsFiniteSet(Have(i))
    BY WorkerAssumption, FS_Subset
  <2> QED
    BY <2>1, FS_CardinalityType DEF TypeOK, WorkerTypeOK, PickerTypeOK, FrequencyExact
<1>2. ASSUME NEW w \in Worker, NEW B \in SUBSET Piece, RegisterStep(w, B), NEW i \in Piece
      PROVE  frequency'[i] = Cardinality(HaveNext(i))
  <2>1. w \notin Have(i)
    BY <1>2 DEF RegisterStep
  <2>2. HaveNext(i) = IF i \in B THEN Have(i) \cup {w} ELSE Have(i)
    BY <1>1, <1>2 DEF RegisterStep
  <2>3. frequency'[i] = IF i \in B THEN frequency[i] + 1 ELSE frequency[i]
    BY <1>2 DEF RegisterStep, AddPeer
  <2> HIDE DEF Have, HaveNext
  <2>4. Cardinality(Have(i) \cup {w}) = Cardinality(Have(i)) + 1
    BY <1>1, <2>1, FS_AddElement
  <2> QED
    BY <1>1, <2>2, <2>3, <2>4
<1>3. ASSUME NEW w \in Worker, UnregisterStep(w), NEW i \in Piece
      PROVE  frequency'[i] = Cardinality(HaveNext(i))
  <2>1. HaveNext(i) = Have(i) \ {w} /\ (w \in Have(i) <=> i \in have[w])
    BY <1>1, <1>3 DEF UnregisterStep
  <2>2. frequency'[i] = IF i \in have[w] THEN frequency[i] - 1 ELSE frequency[i]
    BY <1>3 DEF UnregisterStep, RemovePeer
  <2> HIDE DEF Have, HaveNext
  <2>3. Cardinality(Have(i) \ {w}) =
          IF w \in Have(i) THEN Cardinality(Have(i)) - 1 ELSE Cardinality(Have(i))
    BY <1>1, FS_RemoveElement
  <2> QED
    BY <1>1, <2>1, <2>2, <2>3
<1>4. ASSUME UNCHANGED <<frequency, have>>  PROVE FrequencyExact'
  BY <1>4 DEF FrequencyExact
<1> QED
  BY <1>2, <1>3, <1>4, RegistrationKinds DEF FrequencyExact

\* frequency counts exactly the registered bitfields, across every reconnect.
THEOREM FrequenciesExact == Spec => []FrequencyExact
<1>1. Init => FrequencyExact
  <2>1. ASSUME Init, NEW i \in Piece
        PROVE  frequency[i] = 0 /\ {w \in Worker : i \in have[w]} = {}
    BY <2>1 DEF Init, SessionInit, NewPicker
  <2> QED
    BY <2>1, FS_EmptySet DEF FrequencyExact
<1>2. TypeOK /\ Shape /\ FrequencyExact /\ [Next]_vars => FrequencyExact'
  BY FrequencyStep
<1> QED
  BY <1>1, <1>2, Shaped, PTL DEF Spec
=============================================================================
