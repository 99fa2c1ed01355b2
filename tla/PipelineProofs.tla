---------------------------- MODULE PipelineProofs ----------------------------
(***************************************************************************)
(* Proofs about Pipeline.tla, for every piece size, channel capacity and   *)
(* connection, any other workers, and any number of corrupt blocks.        *)
(***************************************************************************)
EXTENDS Pipeline, SeqFacts

-----------------------------------------------------------------------------
(* The program points. *)

Concluding == {"hash", "sendOk", "sendErr"}

\* What each program point of the two goroutines implies: outside a session
\* nothing is left of it, the sender holds a piece exactly while it requests and
\* queues it, the reader reads only with an active piece, and only the piece it
\* concludes is complete.
Points ==
  /\ rpc \in {"idle", "negotiate"} =>
       wire = <<>> /\ jobCh = <<>> /\ Active = {} /\ spc = "closed"
  /\ rpc \notin {"idle", "negotiate"} => bitfield \subseteq Piece
  /\ hand \in Piece <=> spc \in {"write", "enqueue"}
  /\ spc = "enqueue" => blk = NumBlocks + 1
  /\ spc \in {"pick", "closed"} => blk = 1
  /\ IF rpc \in Concluding THEN mine \in Active ELSE mine = NoPiece
  /\ rpc \in {"drain", "read"} => Active # {}
  /\ rpc = "abortDrain" => Active = {}
  /\ \A i \in Active : active[i].received = NumBlocks <=> (rpc \in Concluding /\ i = mine)

\* The abstract sessions beside this one.
OthersOK ==
  /\ pc \in [Worker -> {"idle"} \cup InSession]
  /\ have \in [Worker -> SUBSET Piece]
  /\ claims \in [Worker -> SUBSET Piece]
  /\ cur \in [Worker -> Piece \cup {NoPiece}]
  /\ sender \in [Worker -> BOOLEAN]
  /\ \A w \in Worker : pc[w] \in Concluding => cur[w] \in Piece

SelfTypeOK ==
  /\ bitfield = NoBitfield \/ bitfield \subseteq Piece
  /\ spc \in {"pick", "write", "enqueue", "closed"}
  /\ hand \in Piece \cup {NoPiece}
  /\ blk \in 1..(NumBlocks + 1)
  /\ jobCh \in Seq(Piece) /\ Len(jobCh) <= MaxActive
  /\ wire \in Seq(Piece \X Block) /\ Len(wire) <= WireCap
  /\ rpc \in {"idle", "negotiate", "take", "drain", "read", "hash", "sendOk",
              "sendErr", "abortActive", "abortDrain"}
  /\ active \in [Piece -> Job \cup {NoJob}]
  /\ mine \in Piece \cup {NoPiece}
  /\ productive \in BOOLEAN
  /\ corrupt \in 0..MaxCorrupt

ResultsOK == results \in Seq(Result) /\ Len(results) <= NumPieces

PointInv == PickerTypeOK /\ SelfTypeOK /\ ResultsOK /\ OthersOK /\ Points

\* What the constants are assumed to be.
LEMMA Bounds ==
  /\ NumBlocks \in Nat \ {0} /\ MaxActive \in Nat \ {0} /\ WireCap \in Nat \ {0}
  /\ MaxCorrupt \in Nat /\ NumPieces \in Nat
<1>1. NumPieces \in Nat
  BY PieceAssumption, FS_CardinalityType DEF NumPieces
<1> QED
  BY <1>1, PipelineAssumption

\* What the operations of the picker do to the types.
LEMMA PickerSteps ==
  ASSUME PickerTypeOK
  PROVE  /\ \A B : AddPeer(B) \/ RemovePeer(B) => PickerTypeOK'
         /\ \A B, i : Pick(B, i) => PickerTypeOK' /\ i \in Piece
         /\ \A B : PickNone(B) => PickerTypeOK'
         /\ \A i \in Piece : Finish(i) \/ Abort(i) => PickerTypeOK'
         /\ UNCHANGED pickerVars => PickerTypeOK'
<1>1. \A B : AddPeer(B) \/ RemovePeer(B) => PickerTypeOK'
  BY DEF PickerTypeOK, AddPeer, RemovePeer
<1>2. \A B, i : Pick(B, i) => PickerTypeOK' /\ i \in Piece
  BY DEF PickerTypeOK, Pick, Rarest, Candidates, EndgameCandidates
<1>3. \A B : PickNone(B) => PickerTypeOK'
  BY DEF PickerTypeOK, PickNone
<1>4. \A i \in Piece : Finish(i) \/ Abort(i) => PickerTypeOK'
  BY DEF PickerTypeOK, Finish, Abort
<1>5. UNCHANGED pickerVars => PickerTypeOK'
  BY DEF PickerTypeOK, pickerVars
<1> QED
  BY <1>1, <1>2, <1>3, <1>4, <1>5

\* A result is sent on the channel.
LEMMA ResultSent ==
  ASSUME ResultsOK, Len(results) < NumPieces, NEW i \in Piece, NEW ok \in BOOLEAN,
         results' = Append(results, [piece |-> i, ok |-> ok])
  PROVE  ResultsOK'
<1>1. [piece |-> i, ok |-> ok] \in Result
  BY DEF Result
<1> QED
  BY <1>1, AppendFacts, MembersOfSeq, Bounds DEF ResultsOK

\* A result is taken from the channel.
LEMMA ResultTaken ==
  ASSUME ResultsOK, results # <<>>, results' = Tail(results)
  PROVE  ResultsOK'
  BY HeadTailFacts, MembersOfSeq, Bounds DEF ResultsOK

\* A step of another worker or of the collector.
LEMMA OthersStepKeeps ==
  ASSUME PointInv, OthersStep PROVE PointInv'
<1> USE DEF PointInv
<1>1. SelfTypeOK' /\ Points'
  BY DEF OthersStep, selfVars, senderVars, readerVars, SelfTypeOK, Points, Active
<1>2. CASE TakeResult
  <2>1. ResultsOK'
    BY <1>2, ResultTaken DEF TakeResult
  <2>2. OthersOK' /\ PickerTypeOK'
    BY <1>2, PickerSteps DEF TakeResult, sessionVars, OthersOK
  <2> QED
    BY <1>1, <2>1, <2>2
<1>3. ASSUME NEW w \in Peers, NEW offered \in Bitfields[w], OpenSession(w, offered)
      PROVE  PointInv'
  <2>1. offered \subseteq Piece /\ w \in Worker
    BY WorkerAssumption DEF Worker
  <2>2. OthersOK' /\ ResultsOK' /\ PickerTypeOK'
    BY <1>3, <2>1, PickerSteps
    DEF OpenSession, Goto, OthersOK, ResultsOK, InSession, Concluding
  <2> QED
    BY <1>1, <2>2
<1>4. ASSUME NEW w \in Peers, SenderStep(w) PROVE PointInv'
  <2>1. w \in Worker
    BY DEF Worker
  <2>2. ASSUME NEW i \in Piece, SenderPick(w, i) PROVE PointInv'
    <3>1. OthersOK' /\ ResultsOK' /\ PickerTypeOK'
      BY <2>1, <2>2, PickerSteps DEF SenderPick, OthersOK, ResultsOK
    <3> QED
      BY <1>1, <3>1
  <2>3. ASSUME NEW i \in Piece, SenderFail(w, i) PROVE PointInv'
    <3>1. OthersOK' /\ ResultsOK' /\ PickerTypeOK'
      BY <2>1, <2>3, PickerSteps DEF SenderFail, Settle, OthersOK, ResultsOK
    <3> QED
      BY <1>1, <3>1
  <2>4. CASE SenderQuit(w)
    <3>1. OthersOK' /\ ResultsOK' /\ PickerTypeOK'
      BY <2>1, <2>4, PickerSteps DEF SenderQuit, OthersOK, ResultsOK
    <3> QED
      BY <1>1, <3>1
  <2> QED
    BY <1>4, <2>2, <2>3, <2>4 DEF SenderStep
<1>5. ASSUME NEW w \in Peers, ReaderStep(w) PROVE PointInv'
  <2>1. w \in Worker
    BY DEF Worker
  <2>2. ASSUME NEW i \in Piece, SkipDuplicate(w, i) \/ PieceComplete(w, i) \/ AbortOne(w, i)
        PROVE PointInv'
    <3>1. OthersOK' /\ ResultsOK'
      BY <2>1, <2>2
      DEF SkipDuplicate, PieceComplete, AbortOne, Settle, Goto, OthersOK, ResultsOK,
          InSession, Concluding
    <3>2. PickerTypeOK'
      BY <2>2, PickerSteps DEF SkipDuplicate, PieceComplete, AbortOne
    <3> QED
      BY <1>1, <3>1, <3>2
  <2>3. CASE HashMismatch(w) \/ HashMatch(w)
    <3>1. pc[w] = "hash" /\ cur[w] \in Piece
      BY <2>1, <2>3 DEF HashMismatch, HashMatch, OthersOK, Concluding
    <3>2. PickerTypeOK'
      BY <2>3, <3>1, PickerSteps DEF HashMismatch, HashMatch
    <3>3. OthersOK' /\ ResultsOK'
      BY <2>1, <2>3, <3>1
      DEF HashMismatch, HashMatch, Settle, Goto, OthersOK, ResultsOK, InSession, Concluding
    <3> QED
      BY <1>1, <3>2, <3>3
  <2>4. CASE SendResult(w)
    <3>1. cur[w] \in Piece /\ (pc[w] = "sendOk") \in BOOLEAN
      BY <2>1, <2>4 DEF SendResult, OthersOK, Concluding
    <3>2. ResultsOK'
      BY <2>4, <3>1, ResultSent DEF SendResult, Deliver
    <3>3. OthersOK' /\ PickerTypeOK'
      BY <2>1, <2>4, PickerSteps
      DEF SendResult, Deliver, Goto, OthersOK, InSession, Concluding
    <3> QED
      BY <1>1, <3>2, <3>3
  <2>5. CASE ReadFails(w) \/ CloseSession(w)
    <3>1. OthersOK' /\ ResultsOK'
      BY <2>1, <2>5
      DEF ReadFails, CloseSession, Goto, OthersOK, ResultsOK, InSession, Concluding
    <3>2. PickerTypeOK'
      BY <2>5, PickerSteps DEF ReadFails, CloseSession
    <3> QED
      BY <1>1, <3>1, <3>2
  <2> QED
    BY <1>5, <2>2, <2>3, <2>4, <2>5 DEF ReaderStep
<1> QED
  BY <1>2, <1>3, <1>4, <1>5 DEF OthersStep

\* Negotiation and the sender goroutine.
LEMMA SenderKeeps ==
  ASSUME PointInv,
         \/ Dial \/ HearAvailability \/ NegotiationFails \/ Unchoked
         \/ (\E i \in Piece : SPick(i)) \/ SQuit \/ SWrite \/ SFlush \/ SWriteFails \/ SEnqueue
  PROVE  PointInv'
<1> USE Bounds DEF PointInv
<1>0. Offers \subseteq SUBSET Piece /\ NoPiece \notin Piece
  BY PipelineAssumption, WorkerAssumption
<1>1. CASE Dial
  BY <1>1, PickerSteps
  DEF Dial, othersVars, senderVars, SelfTypeOK, ResultsOK, OthersOK, Points, Active, Concluding
<1>2. CASE HearAvailability
  BY <1>0, <1>2, PickerSteps
  DEF HearAvailability, othersVars, senderVars, readerVars, SelfTypeOK, ResultsOK, OthersOK,
      Points, Active, Concluding
<1>3. CASE NegotiationFails
  BY <1>3, PickerSteps
  DEF NegotiationFails, othersVars, senderVars, SelfTypeOK, ResultsOK, OthersOK, Points,
      Active, Concluding
<1>4. CASE Unchoked
  BY <1>4, PickerSteps
  DEF Unchoked, othersVars, SelfTypeOK, ResultsOK, OthersOK, Points, Active, Concluding
<1>5. ASSUME NEW i \in Piece, SPick(i) PROVE PointInv'
  BY <1>5, PickerSteps
  DEF SPick, othersVars, readerVars, SelfTypeOK, ResultsOK, OthersOK, Points, Active, Concluding
<1>6. CASE SQuit
  BY <1>6, PickerSteps
  DEF SQuit, othersVars, readerVars, SelfTypeOK, ResultsOK, OthersOK, Points, Active, Concluding
<1>7. CASE SWrite
  <2>1. hand \in Piece /\ blk \in Block /\ <<hand, blk>> \in Piece \X Block
    BY <1>7 DEF SWrite, Points, SelfTypeOK, Block
  <2>2. wire' \in Seq(Piece \X Block) /\ Len(wire') <= WireCap
    BY <1>7, <2>1, AppendFacts, MembersOfSeq DEF SWrite, SelfTypeOK
  <2>3. blk' \in 1..(NumBlocks + 1)
    BY <1>7, <2>1 DEF SWrite, Block
  <2>4. SelfTypeOK' /\ ResultsOK' /\ OthersOK'
    BY <1>7, <2>2, <2>3 DEF SWrite, othersVars, readerVars, SelfTypeOK, ResultsOK, OthersOK
  <2>5. Points'
    BY <1>7 DEF SWrite, readerVars, Points, Active, Concluding
  <2> QED
    BY <1>7, <2>4, <2>5, PickerSteps DEF SWrite
<1>8. CASE SFlush
  BY <1>8, PickerSteps
  DEF SFlush, othersVars, readerVars, SelfTypeOK, ResultsOK, OthersOK, Points, Active, Concluding
<1>9. CASE SWriteFails
  <2>1. hand \in Piece
    BY <1>9 DEF SWriteFails, Points
  <2> QED
    BY <1>0, <1>9, <2>1, PickerSteps
    DEF SWriteFails, othersVars, readerVars, SelfTypeOK, ResultsOK, OthersOK, Points, Active,
        Concluding
<1>10. CASE SEnqueue
  <2>1. hand \in Piece
    BY <1>10 DEF SEnqueue, Points
  <2>2. jobCh' \in Seq(Piece) /\ Len(jobCh') <= MaxActive
    BY <1>10, <2>1, AppendFacts, MembersOfSeq DEF SEnqueue, SelfTypeOK
  <2>3. SelfTypeOK' /\ ResultsOK' /\ OthersOK'
    BY <1>10, <2>2 DEF SEnqueue, othersVars, readerVars, SelfTypeOK, ResultsOK, OthersOK
  <2>4. Points'
    BY <1>0, <1>10 DEF SEnqueue, readerVars, Points, Active, Concluding
  <2> QED
    BY <1>10, <2>3, <2>4, PickerSteps DEF SEnqueue
<1> QED
  BY <1>1, <1>2, <1>3, <1>4, <1>5, <1>6, <1>7, <1>8, <1>9, <1>10

\* A fresh job.
NewJob == [received |-> 0, got |-> {}, bad |-> FALSE]

\* A job that has just been activated has no block.
LEMMA NewJobFacts == NewJob \in Job /\ NewJob # NoJob /\ NewJob.received # NumBlocks
                     /\ NewJob.got = {} /\ NewJob.received = 0
<1>1. NewJob \in Job
  BY Bounds DEF NewJob, Job
<1>2. NewJob.received = 0 /\ NewJob.got = {}
  BY DEF NewJob
<1> QED
  BY <1>1, <1>2, Bounds, PipelineAssumption

\* A job is taken from jobCh.
LEMMA RegisterEffect ==
  ASSUME SelfTypeOK, Register
  PROVE  /\ Head(jobCh) \in Piece /\ active' = [active EXCEPT ![Head(jobCh)] = NewJob]
         /\ active' \in [Piece -> Job \cup {NoJob}]
         /\ Active' = Active \cup {Head(jobCh)}
         /\ jobCh # <<>> /\ jobCh' = Tail(jobCh) /\ jobCh' \in Seq(Piece)
         /\ Len(jobCh') = Len(jobCh) - 1 /\ Len(jobCh') <= MaxActive
<1>1. jobCh # <<>> /\ jobCh' = Tail(jobCh)
      /\ active' = [active EXCEPT ![Head(jobCh)] = NewJob]
  BY DEF Register, NewJob
<1>2. Head(jobCh) \in Piece /\ jobCh' \in Seq(Piece) /\ Len(jobCh') = Len(jobCh) - 1
  BY <1>1, HeadTailFacts DEF SelfTypeOK
<1>3. Len(jobCh') <= MaxActive
  BY <1>2, MembersOfSeq, Bounds DEF SelfTypeOK
<1>4. active' \in [Piece -> Job \cup {NoJob}]
  BY <1>1, <1>2, NewJobFacts DEF SelfTypeOK
<1>5. Active' = Active \cup {Head(jobCh)}
  BY <1>1, <1>2, NewJobFacts DEF SelfTypeOK, Active
<1> QED
  BY <1>1, <1>2, <1>3, <1>4, <1>5

\* The answer at the head of the wire.
LEMMA WireHead ==
  ASSUME SelfTypeOK, wire # <<>>
  PROVE  /\ Head(wire)[1] \in Piece /\ Head(wire)[2] \in Block
         /\ Head(wire) = <<Head(wire)[1], Head(wire)[2]>>
         /\ Tail(wire) \in Seq(Piece \X Block) /\ Len(Tail(wire)) = Len(wire) - 1
         /\ Len(Tail(wire)) <= WireCap
<1>1. Head(wire) \in Piece \X Block /\ Tail(wire) \in Seq(Piece \X Block)
      /\ Len(Tail(wire)) = Len(wire) - 1
  BY HeadTailFacts DEF SelfTypeOK
<1>2. Len(Tail(wire)) <= WireCap
  BY <1>1, MembersOfSeq, Bounds DEF SelfTypeOK
<1> QED
  BY <1>1, <1>2

\* The reader goroutine, apart from the blocks it receives.
LEMMA ReaderKeeps ==
  ASSUME PointInv,
         \/ RTake \/ RFinished \/ RDrain \/ RDrained \/ RIgnore \/ RFails \/ RHash \/ RSend
         \/ RAbortActive \/ RAbortQueued \/ RAborted
  PROVE  PointInv'
<1> USE Bounds DEF PointInv
<1>0. NoPiece \notin Piece
  BY WorkerAssumption
<1>1. CASE RTake
  <2>1. PickerTypeOK' /\ ResultsOK' /\ OthersOK' /\ rpc = "take"
    BY <1>1, PickerSteps DEF RTake, othersVars, ResultsOK, OthersOK
  <2>2. CASE Active = {}
    <3>1. Register
      BY <1>1, <2>2 DEF RTake
    <3>2. SelfTypeOK'
      BY <1>1, <3>1, RegisterEffect DEF RTake, SelfTypeOK, senderVars
    <3>3. Points'
      <4>1. Active' = {Head(jobCh)} /\ active'[Head(jobCh)] = NewJob
        BY <2>2, <3>1, RegisterEffect DEF SelfTypeOK
      <4> QED
        BY <1>1, <3>1, <4>1, NewJobFacts DEF RTake, senderVars, Points, Concluding
    <3> QED
      BY <2>1, <3>2, <3>3
  <2>3. CASE Active # {}
    BY <1>1, <2>1, <2>3
    DEF RTake, senderVars, SelfTypeOK, Points, Active, Concluding
  <2> QED
    BY <2>2, <2>3
<1>2. CASE RFinished \/ RAborted
  <2>1. EndSession /\ Active = {} /\ jobCh = <<>> /\ spc = "closed" /\ rpc \notin Concluding
    BY <1>2 DEF RFinished, RAborted, Points, Concluding
  <2>2. PickerTypeOK' /\ ResultsOK' /\ OthersOK'
    BY <2>1, PickerSteps DEF EndSession, othersVars, ResultsOK, OthersOK
  <2>3. SelfTypeOK'
    BY <2>1, EmptySeq DEF EndSession, senderVars, SelfTypeOK
  <2>4. Points'
    BY <2>1 DEF EndSession, senderVars, Points, Active, Concluding
  <2> QED
    BY <2>2, <2>3, <2>4
<1>3. CASE RDrain
  <2>1. PickerTypeOK' /\ ResultsOK' /\ OthersOK' /\ Register /\ rpc = "drain"
    BY <1>3, PickerSteps DEF RDrain, othersVars, ResultsOK, OthersOK
  <2>2. SelfTypeOK'
    BY <1>3, <2>1, RegisterEffect DEF RDrain, SelfTypeOK, senderVars
  <2>3. Points'
    <3>1. Active' = Active \cup {Head(jobCh)}
          /\ \A i \in Piece : active'[i] = IF i = Head(jobCh) THEN NewJob ELSE active[i]
      BY <2>1, RegisterEffect DEF SelfTypeOK
    <3>2. Active' \subseteq Piece
      BY DEF Active
    <3> QED
      BY <1>3, <2>1, <3>1, <3>2, NewJobFacts DEF RDrain, senderVars, Points, Concluding
  <2> QED
    BY <2>1, <2>2, <2>3
<1>4. CASE RDrained
  BY <1>4, PickerSteps
  DEF RDrained, othersVars, senderVars, SelfTypeOK, ResultsOK, OthersOK, Points, Active, Concluding
<1>5. CASE RIgnore
  BY <1>5, PickerSteps
  DEF RIgnore, othersVars, senderVars, SelfTypeOK, ResultsOK, OthersOK, Points, Active, Concluding
<1>6. CASE RFails
  BY <1>6, PickerSteps
  DEF RFails, othersVars, senderVars, SelfTypeOK, ResultsOK, OthersOK, Points, Active, Concluding
<1>7. CASE RHash
  <2>1. mine \in Piece
    BY <1>7 DEF RHash, Points, Concluding, Active
  <2>2. PickerTypeOK'
    BY <1>7, <2>1, PickerSteps DEF RHash
  <2>3. ResultsOK' /\ OthersOK'
    BY <1>7 DEF RHash, othersVars, ResultsOK, OthersOK
  <2>4. SelfTypeOK' /\ Points'
    BY <1>7 DEF RHash, senderVars, SelfTypeOK, Points, Active, Concluding
  <2> QED
    BY <2>2, <2>3, <2>4
<1>8. CASE RSend
  <2>1. mine \in Piece /\ rpc \in Concluding /\ (rpc = "sendOk") \in BOOLEAN
    BY <1>8 DEF RSend, Points, Concluding, Active
  <2>2. ResultsOK'
    BY <1>8, <2>1, ResultSent DEF RSend
  <2>3. PickerTypeOK' /\ OthersOK'
    BY <1>8, PickerSteps DEF RSend, othersVars, OthersOK
  <2>4. SelfTypeOK'
    <3>1. productive' \in BOOLEAN
      BY <1>8 DEF RSend, SelfTypeOK
    <3>2. active' \in [Piece -> Job \cup {NoJob}]
      BY <1>8, <2>1 DEF RSend, SelfTypeOK
    <3> QED
      BY <1>8, <3>1, <3>2 DEF RSend, senderVars, SelfTypeOK
  <2>5. Active' = Active \ {mine} /\ \A i \in Active' : active'[i] = active[i]
    BY <1>8, <2>1 DEF RSend, SelfTypeOK, Active
  <2>6. Points'
    BY <1>8, <2>1, <2>5 DEF RSend, senderVars, Points, Concluding
  <2> QED
    BY <2>2, <2>3, <2>4, <2>6
<1>9. CASE RAbortActive
  <2>1. ResultsOK' /\ OthersOK'
    BY <1>9 DEF RAbortActive, othersVars, ResultsOK, OthersOK
  <2>2. ASSUME NEW i \in Active, Abort(i), active' = [active EXCEPT ![i] = NoJob], UNCHANGED rpc
        PROVE  PointInv'
    <3>1. i \in Piece /\ PickerTypeOK'
      BY <2>2, PickerSteps DEF Active
    <3>2. SelfTypeOK'
      BY <1>9, <2>2, <3>1 DEF RAbortActive, senderVars, SelfTypeOK
    <3>3. Active' = Active \ {i} /\ \A k \in Active' : active'[k] = active[k]
      BY <2>2, <3>1 DEF SelfTypeOK, Active
    <3>4. Points'
      BY <1>9, <2>2, <3>3 DEF RAbortActive, senderVars, Points, Concluding
    <3> QED
      BY <2>1, <3>1, <3>2, <3>4
  <2>3. ASSUME Active = {}, rpc' = "abortDrain", UNCHANGED <<pickerVars, active>>
        PROVE  PointInv'
    BY <1>9, <2>1, <2>3, PickerSteps
    DEF RAbortActive, senderVars, SelfTypeOK, Points, Active, Concluding
  <2> QED
    BY <1>9, <2>2, <2>3 DEF RAbortActive
<1>10. CASE RAbortQueued
  <2>1. Head(jobCh) \in Piece /\ Tail(jobCh) \in Seq(Piece) /\ Len(Tail(jobCh)) <= MaxActive
    BY <1>10, HeadTailFacts, MembersOfSeq DEF RAbortQueued, SelfTypeOK
  <2>2. PickerTypeOK'
    BY <1>10, <2>1, PickerSteps DEF RAbortQueued
  <2>3. ResultsOK' /\ OthersOK'
    BY <1>10 DEF RAbortQueued, othersVars, ResultsOK, OthersOK
  <2>4. SelfTypeOK' /\ Points'
    BY <1>10, <2>1
    DEF RAbortQueued, senderVars, readerVars, SelfTypeOK, Points, Active, Concluding
  <2> QED
    BY <2>2, <2>3, <2>4
<1> QED
  BY <1>1, <1>2, <1>3, <1>4, <1>5, <1>6, <1>7, <1>8, <1>9, <1>10

\* What a block does: it is ignored, or it is stored, and the piece it completes
\* is dropped when another worker was faster and verified otherwise.
Ignored(i) == active[i] = NoJob /\ rpc' = "take" /\ UNCHANGED <<active, mine>>

Stored(i, b) ==
  /\ active[i] # NoJob
  /\ \E j \in Job :
       /\ j.received = active[i].received + 1 /\ j.got = active[i].got \cup {b}
       /\ \/ /\ j.received # NumBlocks /\ active' = [active EXCEPT ![i] = j]
             /\ rpc' = "take" /\ UNCHANGED mine
          \/ /\ j.received = NumBlocks /\ IsDone(i) /\ active' = [active EXCEPT ![i] = NoJob]
             /\ rpc' = "take" /\ UNCHANGED mine
          \/ /\ j.received = NumBlocks /\ ~IsDone(i) /\ active' = [active EXCEPT ![i] = j]
             /\ rpc' = "hash" /\ mine' = i

\* What reading a block does: nothing, or it is stored in its job.
LEMMA BlockEffect ==
  ASSUME PointInv, RBlock
  PROVE  /\ rpc = "read" /\ wire # <<>> /\ wire' = Tail(wire)
         /\ corrupt' \in 0..MaxCorrupt
         /\ Ignored(Head(wire)[1]) \/ Stored(Head(wire)[1], Head(wire)[2])
         /\ UNCHANGED <<pickerVars, othersVars, results, bitfield, senderVars, jobCh,
                        productive>>
<1> DEFINE i == Head(wire)[1]
           b == Head(wire)[2]
<1>1. /\ rpc = "read" /\ wire # <<>> /\ wire' = Tail(wire)
      /\ UNCHANGED <<pickerVars, othersVars, results, bitfield, senderVars, jobCh,
                     productive>>
  BY DEF RBlock
<1>2. PICK bad \in BOOLEAN :
        /\ bad => corrupt < MaxCorrupt
        /\ corrupt' = IF bad THEN corrupt + 1 ELSE corrupt
        /\ IF active[i] = NoJob THEN rpc' = "take" /\ UNCHANGED <<active, mine>>
                                ELSE StoreBlock(i, b, bad)
  BY DEF RBlock
<1>3. corrupt' \in 0..MaxCorrupt
  BY <1>2, Bounds DEF PointInv, SelfTypeOK
<1>4. i \in Piece /\ b \in Block
  BY <1>1, WireHead DEF PointInv
<1>5. ASSUME active[i] # NoJob PROVE Stored(i, b)
  <2> DEFINE j == [received |-> active[i].received + 1, got |-> active[i].got \cup {b},
                   bad |-> active[i].bad \/ bad]
  <2>1. active[i] \in Job /\ i \in Active
    BY <1>4, <1>5 DEF PointInv, SelfTypeOK, Active
  <2>2. active[i].received \in 0..NumBlocks /\ active[i].got \subseteq Block
        /\ active[i].bad \in BOOLEAN
    BY <2>1 DEF Job
  <2>3. active[i].received # NumBlocks
    BY <1>1, <2>1 DEF PointInv, Points, Concluding
  <2>4. j.received \in 0..NumBlocks /\ j.received = active[i].received + 1
    BY <2>2, <2>3, Bounds
  <2>5. (active[i].bad \/ bad) \in BOOLEAN
    OBVIOUS
  <2>6. j \in Job
    BY <1>4, <2>2, <2>4, <2>5 DEF Job
  <2>7. StoreAndCount(i, b, bad, NumBlocks)
    BY <1>2, <1>5 DEF StoreBlock
  <2>8. \/ /\ j.received # NumBlocks /\ active' = [active EXCEPT ![i] = j]
           /\ rpc' = "take" /\ UNCHANGED mine
        \/ /\ j.received = NumBlocks /\ IsDone(i) /\ active' = [active EXCEPT ![i] = NoJob]
           /\ rpc' = "take" /\ UNCHANGED mine
        \/ /\ j.received = NumBlocks /\ ~IsDone(i) /\ active' = [active EXCEPT ![i] = j]
           /\ rpc' = "hash" /\ mine' = i
    BY <2>7 DEF StoreAndCount
  <2>9. j.got = active[i].got \cup {b}
    OBVIOUS
  <2> HIDE DEF j
  <2> QED
    BY <1>5, <2>4, <2>6, <2>8, <2>9 DEF Stored
<1>6. ASSUME active[i] = NoJob PROVE Ignored(i)
  BY <1>2, <1>6 DEF Ignored
<1> QED
  BY <1>1, <1>3, <1>5, <1>6

\* A block that is read keeps the types.
LEMMA BlockKeeps == ASSUME PointInv, RBlock PROVE PointInv'
<1> DEFINE i == Head(wire)[1]
           b == Head(wire)[2]
<1>1. /\ rpc = "read" /\ wire # <<>> /\ wire' = Tail(wire)
      /\ corrupt' \in 0..MaxCorrupt /\ (Ignored(i) \/ Stored(i, b))
      /\ UNCHANGED <<pickerVars, othersVars, results, bitfield, senderVars, jobCh, productive>>
  BY BlockEffect
<1>2. /\ i \in Piece /\ b \in Block /\ wire' \in Seq(Piece \X Block) /\ Len(wire') <= WireCap
  BY <1>1, WireHead DEF PointInv
<1> HIDE DEF i, b
<1>3. PickerTypeOK' /\ ResultsOK' /\ OthersOK'
  BY <1>1, PickerSteps DEF PointInv, othersVars, ResultsOK, OthersOK
<1>4. ASSUME active' \in [Piece -> Job \cup {NoJob}], mine' \in Piece \cup {NoPiece},
             rpc' \in {"take", "hash"}
      PROVE  SelfTypeOK'
  BY <1>1, <1>2, <1>4 DEF PointInv, SelfTypeOK, senderVars
<1>5. CASE Ignored(i)
  <2>1. SelfTypeOK'
    BY <1>4, <1>5 DEF Ignored, PointInv, SelfTypeOK
  <2>2. Points'
    BY <1>1, <1>5 DEF Ignored, PointInv, Points, senderVars, Active, Concluding
  <2> QED
    BY <1>3, <2>1, <2>2 DEF PointInv
<1>6. CASE Stored(i, b)
  <2>1. PICK j \in Job :
       /\ j.received = active[i].received + 1
       /\ \/ /\ j.received # NumBlocks /\ active' = [active EXCEPT ![i] = j]
             /\ rpc' = "take" /\ UNCHANGED mine
          \/ /\ j.received = NumBlocks /\ active' = [active EXCEPT ![i] = NoJob]
             /\ rpc' = "take" /\ UNCHANGED mine
          \/ /\ j.received = NumBlocks /\ active' = [active EXCEPT ![i] = j]
             /\ rpc' = "hash" /\ mine' = i
    BY <1>6 DEF Stored
  <2>2. SelfTypeOK'
    BY <1>2, <1>4, <2>1 DEF PointInv, SelfTypeOK
  <2>3. j # NoJob
    BY PipelineAssumption
  <2>4. \A k \in Active : active[k].received # NumBlocks
    BY <1>1 DEF PointInv, Points, Concluding
  <2>5. mine = NoPiece /\ NoPiece \notin Piece
    BY <1>1, WorkerAssumption DEF PointInv, Points, Concluding
  <2>6. \/ rpc' = "take" /\ mine' = NoPiece
        \/ rpc' = "hash" /\ mine' = i /\ i \in Active'
    BY <1>2, <2>1, <2>3, <2>5 DEF PointInv, SelfTypeOK, Active
  <2>7. \A k \in Active' : active'[k].received = NumBlocks <=> rpc' = "hash" /\ k = i
    BY <1>2, <2>1, <2>3, <2>4 DEF PointInv, SelfTypeOK, Active
  <2>8. Points'
    BY <1>1, <2>6, <2>7 DEF PointInv, Points, senderVars, Concluding
  <2> QED
    BY <1>3, <2>2, <2>8 DEF PointInv
<1> QED
  BY <1>1, <1>5, <1>6

\* The types hold in the initial states.
LEMMA PointInit == ASSUME Init PROVE PointInv
<1> USE Bounds DEF Init, SessionInit, NewPicker
<1>1. PickerTypeOK
  <2>1. frequency \in [Piece -> Int] /\ done \subseteq Piece /\ inflight \subseteq Piece
    OBVIOUS
  <2>2. endgame \in BOOLEAN
    BY Zenon
  <2> QED
    BY <2>1, <2>2 DEF PickerTypeOK
<1>2. ResultsOK
  BY EmptySeq DEF ResultsOK
<1>3. OthersOK
  BY DEF OthersOK, Concluding
<1>4. SelfTypeOK
  <2>1. productive \in BOOLEAN
    BY Zenon
  <2> QED
    BY <2>1, EmptySeq DEF SelfTypeOK
<1>5. Points
  BY WorkerAssumption DEF Points, Active, Concluding
<1> QED
  BY <1>1, <1>2, <1>3, <1>4, <1>5 DEF PointInv

\* Every step keeps the types.
LEMMA PointStep == ASSUME PointInv, [Next]_vars PROVE PointInv'
<1>1. CASE UNCHANGED vars
  BY <1>1 DEF vars, pickerVars, othersVars, senderVars, readerVars, PointInv, PickerTypeOK,
              SelfTypeOK, ResultsOK, OthersOK, Points, Active
<1> QED
  BY <1>1, OthersStepKeeps, SenderKeeps, ReaderKeeps, BlockKeeps DEF Next, SenderNext, ReaderNext

\* Type correctness of the session, its sender, its reader and their channels,
\* whatever the other workers do.
THEOREM TypeCorrect == Spec => []TypeOK
<1>1. PointInv => TypeOK
  BY DEF PointInv, SelfTypeOK, ResultsOK, TypeOK
<1> QED
  BY <1>1, PointInit, PointStep, PTL DEF Spec

-----------------------------------------------------------------------------
(* The order of the answers: why counting blocks is enough. *)

\* The block requested after block b of a piece that is requested over and over.
Succ(b) == IF b = NumBlocks THEN 1 ELSE b + 1

\* How many blocks of a piece ago block x was answered, if block f is next.
Ago(x, f) == IF x < f THEN f - x ELSE f + NumBlocks - x

\* The last r blocks answered before block f.
Recent(f, r) == {x \in Block : Ago(x, f) <= r}

\* The block of piece i that the sender requests next.
SendNext(i) == IF hand = i /\ spc = "write" /\ blk <= NumBlocks THEN blk ELSE 1

\* next[k][i] is the block of piece i that comes first after k more answers: the
\* requests of a piece follow each other in cyclic order, up to the sender's next
\* one, and a job holds the blocks that came last.
Ordered(next) ==
  /\ \A k \in 1..Len(wire) :
       /\ wire[k][2] = next[k - 1][wire[k][1]]
       /\ next[k] = [next[k - 1] EXCEPT ![wire[k][1]] = Succ(wire[k][2])]
  /\ spc # "closed" => \A i \in Piece : next[Len(wire)][i] = SendNext(i)
  /\ \A i \in Active : active[i].got = Recent(next[0][i], active[i].received)

AnswersInOrder == \E next \in [0..Len(wire) -> [Piece -> Block]] : Ordered(next)

\* start[q] is where on the wire the requests of the q-th queued job begin; those
\* of the piece in hand follow the last job's, and what the active jobs still
\* need lies before the first.
Placed(start) ==
  /\ \A q \in 1..Len(jobCh) :
       /\ start[q + 1] = start[q] + NumBlocks
       /\ \A b \in Block : wire[start[q] + b] = <<jobCh[q], b>>
  /\ \A q, r \in 1..(Len(jobCh) + 1) : q <= r => start[q] <= start[r]
  /\ spc # "closed" =>
       /\ Len(wire) = start[Len(jobCh) + 1] + (blk - 1)
       /\ \A b \in 1..(blk - 1) : wire[start[Len(jobCh) + 1] + b] = <<hand, b>>
  /\ \A i \in Active :
       active[i].received + Cardinality({k \in 1..start[1] : wire[k][1] = i}) >= NumBlocks

RequestsKept == \E start \in [1..(Len(jobCh) + 1) -> 0..Len(wire)] : Placed(start)

\* The blocks in a round before the next one, as one more block comes.
LEMMA RecentFacts ==
  ASSUME NEW f \in Block
  PROVE  /\ Succ(f) \in Block /\ Recent(f, 0) = {} /\ Recent(f, NumBlocks) = Block
         /\ \A r \in Nat : Recent(Succ(f), r + 1) = Recent(f, r) \cup {f}
<1> USE Bounds DEF Block
<1>1. Succ(f) \in Block
  BY DEF Succ
<1>2. \A x \in Block : Ago(x, f) \in 1..NumBlocks
  BY DEF Ago
<1>3. Recent(f, 0) = {} /\ Recent(f, NumBlocks) = Block
  BY <1>2 DEF Recent
<1>4. \A x \in Block : Ago(x, Succ(f)) = IF x = f THEN 1 ELSE Ago(x, f) + 1
  BY DEF Ago, Succ
<1>5. ASSUME NEW r \in Nat PROVE Recent(Succ(f), r + 1) = Recent(f, r) \cup {f}
  <2>1. ASSUME NEW x \in Block
        PROVE  x \in Recent(Succ(f), r + 1) <=> x \in Recent(f, r) \cup {f}
    BY <1>2, <1>4 DEF Recent
  <2>2. Recent(Succ(f), r + 1) \subseteq Block /\ Recent(f, r) \cup {f} \subseteq Block
    BY DEF Recent
  <2> QED
    BY <2>1, <2>2
<1> QED
  BY <1>1, <1>3, <1>5

\* The answers on the wire name pieces and blocks.
LEMMA WireAt ==
  ASSUME SelfTypeOK
  PROVE  /\ Len(wire) \in Nat
         /\ \A k \in 1..Len(wire) : /\ wire[k][1] \in Piece /\ wire[k][2] \in Block
                                    /\ wire[k] = <<wire[k][1], wire[k][2]>>
<1>1. Len(wire) \in Nat /\ \A k \in 1..Len(wire) : wire[k] \in Piece \X Block
  BY MembersOfSeq DEF SelfTypeOK
<1> QED
  BY <1>1

\* A step that leaves the wire alone and asks for no block.
LEMMA OrderSame ==
  ASSUME AnswersInOrder, wire' = wire, SelfTypeOK,
         spc' # "closed" => spc # "closed" /\ \A i \in Piece : SendNext(i)' = SendNext(i),
         \A i \in Active' : active'[i] = NewJob \/ (i \in Active /\ active'[i] = active[i])
  PROVE  AnswersInOrder'
<1>1. PICK next \in [0..Len(wire) -> [Piece -> Block]] : Ordered(next)
  BY DEF AnswersInOrder
<1>2. \A k \in 1..Len(wire)' :
       /\ wire'[k][2] = next[k - 1][wire'[k][1]]
       /\ next[k] = [next[k - 1] EXCEPT ![wire'[k][1]] = Succ(wire'[k][2])]
  BY <1>1 DEF Ordered
<1>3. spc' # "closed" => \A i \in Piece : next[Len(wire)'][i] = SendNext(i)'
  BY <1>1 DEF Ordered
<1>4. ASSUME NEW i \in Active' PROVE active'[i].got = Recent(next[0][i], active'[i].received)
  <2>1. CASE active'[i] = NewJob
    <3>1. i \in Piece /\ 0 \in 0..Len(wire)
      BY WireAt DEF Active
    <3>2. next[0][i] \in Block
      BY <3>1
    <3> QED
      BY <2>1, <3>2, NewJobFacts, RecentFacts
  <2>2. CASE i \in Active /\ active'[i] = active[i]
    BY <1>1, <2>2 DEF Ordered
  <2> QED
    BY <2>1, <2>2
<1>5. Ordered(next)'
  BY <1>2, <1>3, <1>4 DEF Ordered, Succ, Recent, Ago, Block
<1>6. next \in [0..Len(wire)' -> [Piece -> Block]]
  OBVIOUS
<1> QED
  BY <1>5, <1>6 DEF AnswersInOrder, Block

\* Nothing on the wire and no job.
LEMMA OrderEmpty ==
  ASSUME wire' = <<>>, Active' = {}, spc' \in {"pick", "closed"}
  PROVE  AnswersInOrder'
<1> DEFINE next == [k \in 0..0 |-> [i \in Piece |-> 1]]
<1>1. Len(wire)' = 0
  OBVIOUS
<1>2. 1 \in Block /\ 0 \in 0..0
  BY Bounds DEF Block
<1>3. next \in [0..Len(wire)' -> [Piece -> Block]]
  BY <1>1, <1>2
<1>4. \A i \in Piece : next[Len(wire)'][i] = 1
  BY <1>1, <1>2
<1> HIDE DEF next
<1>5. Ordered(next)'
  BY <1>1, <1>4 DEF Ordered, SendNext
<1> QED
  BY <1>3, <1>5 DEF AnswersInOrder, Block

\* The sender requests a block: it is the one expected next of its piece.
LEMMA OrderWrite ==
  ASSUME PointInv, AnswersInOrder, SWrite
  PROVE  AnswersInOrder'
<1>1. PICK next \in [0..Len(wire) -> [Piece -> Block]] : Ordered(next)
  BY DEF AnswersInOrder
<1> DEFINE L == Len(wire)
           ext == [k \in 0..(L + 1) |->
                     IF k <= L THEN next[k] ELSE [next[L] EXCEPT ![hand] = Succ(blk)]]
<1>2. /\ spc = "write" /\ blk <= NumBlocks /\ wire' = Append(wire, <<hand, blk>>)
      /\ blk' = blk + 1 /\ spc' = "write" /\ hand' = hand /\ active' = active
  BY DEF SWrite, readerVars
<1>3. hand \in Piece /\ blk \in Block /\ <<hand, blk>> \in Piece \X Block
  BY <1>2 DEF PointInv, Points, SelfTypeOK, Block
<1>4. L \in Nat
  BY WireAt DEF PointInv
<1>5. /\ Len(wire)' = L + 1 /\ \A k \in 1..L : wire'[k] = wire[k]
      /\ wire'[L + 1] = <<hand, blk>>
  BY <1>2, <1>3, AppendProperties DEF PointInv, SelfTypeOK
<1> HIDE DEF L
<1>6. Succ(blk) \in Block
  BY <1>3, RecentFacts
<1>7. L \in 0..L /\ next[L] \in [Piece -> Block]
  BY <1>1, <1>4 DEF L
<1>8. ext \in [0..(L + 1) -> [Piece -> Block]]
  BY <1>1, <1>4, <1>6, <1>7 DEF L
<1>9. PICK new \in [0..(L + 1) -> [Piece -> Block]] :
        /\ \A k \in 0..L : new[k] = next[k]
        /\ new[L + 1] = [next[L] EXCEPT ![hand] = Succ(blk)]
  <2>1. /\ \A k \in 0..L : ext[k] = next[k]
        /\ ext[L + 1] = [next[L] EXCEPT ![hand] = Succ(blk)]
    BY <1>4
  <2> HIDE DEF ext
  <2> QED
    BY <1>8, <2>1
<1> HIDE DEF ext
<1>10. next[L][hand] = blk /\ \A i \in Piece : i # hand => next[L][i] = 1
  BY <1>1, <1>2, <1>3 DEF Ordered, SendNext, L
<1>11. ASSUME NEW k \in 1..(L + 1)
       PROVE  /\ wire'[k][2] = new[k - 1][wire'[k][1]]
              /\ new[k] = [new[k - 1] EXCEPT ![wire'[k][1]] = Succ(wire'[k][2])]
  <2>1. CASE k \in 1..L
    <3>1. wire'[k] = wire[k] /\ k - 1 \in 0..L /\ k \in 0..L
      BY <1>4, <1>5, <2>1
    <3>2. /\ wire[k][2] = next[k - 1][wire[k][1]]
          /\ next[k] = [next[k - 1] EXCEPT ![wire[k][1]] = Succ(wire[k][2])]
      BY <1>1, <2>1 DEF Ordered, L
    <3> QED
      BY <1>9, <3>1, <3>2
  <2>2. CASE k = L + 1
    <3>1. wire'[k][1] = hand /\ wire'[k][2] = blk /\ k - 1 = L
      BY <1>4, <1>5, <2>2
    <3> QED
      BY <1>7, <1>9, <1>10, <2>2, <3>1
  <2> QED
    BY <1>4, <2>1, <2>2
<1>12. ASSUME NEW i \in Piece PROVE new[L + 1][i] = SendNext(i)'
  <2>1. CASE i = hand
    <3>1. new[L + 1][i] = Succ(blk)
      BY <1>7, <1>9, <2>1
    <3> QED
      BY <1>2, <1>3, <2>1, <3>1, Bounds DEF SendNext, Succ, Block
  <2>2. CASE i # hand
    <3>1. new[L + 1][i] = 1
      BY <1>7, <1>9, <1>10, <2>2
    <3> QED
      BY <1>2, <2>2, <3>1 DEF SendNext
  <2> QED
    BY <2>1, <2>2
<1>13. \A i \in Active' : active'[i].got = Recent(new[0][i], active'[i].received)
  <2>1. Active' = Active /\ 0 \in 0..L
    BY <1>2, <1>4 DEF Active
  <2> QED
    BY <1>1, <1>2, <1>9, <2>1 DEF Ordered
<1>14. Ordered(new)'
  BY <1>5, <1>11, <1>12, <1>13 DEF Ordered, Succ, Recent, Ago, Block
<1> QED
  BY <1>5, <1>9, <1>14 DEF AnswersInOrder, Block

\* A block arrives: it is the one expected next of its piece.
LEMMA OrderBlock ==
  ASSUME PointInv, AnswersInOrder, RBlock
  PROVE  AnswersInOrder'
<1>1. PICK next \in [0..Len(wire) -> [Piece -> Block]] : Ordered(next)
  BY DEF AnswersInOrder
<1> DEFINE L == Len(wire)
           p == Head(wire)[1]
           b == Head(wire)[2]
           rest == [k \in 0..(L - 1) |-> next[k + 1]]
<1>2. /\ wire # <<>> /\ wire' = Tail(wire) /\ (Ignored(p) \/ Stored(p, b))
      /\ UNCHANGED <<spc, hand, blk>>
  BY BlockEffect DEF senderVars
<1>3. p \in Piece /\ b \in Block
  BY <1>2, WireHead DEF PointInv
<1>4. /\ L \in Nat \ {0} /\ Len(wire)' = L - 1 /\ Head(wire) = wire[1]
      /\ \A k \in 1..(L - 1) : wire'[k] = wire[k + 1]
  BY <1>2, HeadTailProperties, EmptySeq, LenProperties DEF PointInv, SelfTypeOK
<1> HIDE DEF L
<1>5. PICK new \in [0..(L - 1) -> [Piece -> Block]] : \A k \in 0..(L - 1) : new[k] = next[k + 1]
  <2>1. rest \in [0..(L - 1) -> [Piece -> Block]] /\ \A k \in 0..(L - 1) : rest[k] = next[k + 1]
    BY <1>1, <1>4 DEF L
  <2> HIDE DEF rest
  <2> QED
    BY <2>1
<1> HIDE DEF rest
<1>6. next[0] \in [Piece -> Block] /\ b = next[0][p] /\ next[1] = [next[0] EXCEPT ![p] = Succ(b)]
  <2>1. 1 \in 1..L /\ 0 \in 0..L /\ 1 - 1 = 0
    BY <1>4
  <2>2. /\ wire[1][2] = next[1 - 1][wire[1][1]]
        /\ next[1] = [next[1 - 1] EXCEPT ![wire[1][1]] = Succ(wire[1][2])]
    BY <1>1, <2>1 DEF Ordered, L
  <2> QED
    BY <1>1, <1>4, <2>1, <2>2 DEF L
<1> HIDE DEF p, b
<1>7. ASSUME NEW k \in 1..(L - 1)
      PROVE  /\ wire'[k][2] = new[k - 1][wire'[k][1]]
             /\ new[k] = [new[k - 1] EXCEPT ![wire'[k][1]] = Succ(wire'[k][2])]
  <2>1. /\ wire'[k] = wire[k + 1] /\ k + 1 \in 1..L /\ (k + 1) - 1 = k
        /\ new[k] = next[k + 1] /\ new[k - 1] = next[k]
    <3>1. k \in 0..(L - 1) /\ k - 1 \in 0..(L - 1) /\ k + 1 \in 1..L /\ (k - 1) + 1 = k
          /\ (k + 1) - 1 = k
      BY <1>4
    <3>2. new[k - 1] = next[(k - 1) + 1]
      BY <1>5, <3>1
    <3> QED
      BY <1>4, <1>5, <3>1, <3>2
  <2>2. /\ wire[k + 1][2] = next[(k + 1) - 1][wire[k + 1][1]]
        /\ next[k + 1] = [next[(k + 1) - 1] EXCEPT ![wire[k + 1][1]] = Succ(wire[k + 1][2])]
    BY <1>1, <2>1 DEF Ordered, L
  <2> QED
    BY <2>1, <2>2
<1>8. spc' # "closed" => \A i \in Piece : new[L - 1][i] = SendNext(i)'
  <2>1. new[L - 1] = next[L]
    BY <1>4, <1>5
  <2> QED
    BY <1>1, <1>2, <2>1 DEF Ordered, SendNext, L
<1>9. new[0] = next[1]
  BY <1>4, <1>5
<1>10. ASSUME NEW i \in Active', i \in Active, active'[i] = active[i], i # p
       PROVE  active'[i].got = Recent(new[0][i], active'[i].received)
  <2>1. i \in Piece /\ new[0][i] = next[0][i]
    BY <1>6, <1>9, <1>10 DEF Active
  <2> QED
    BY <1>1, <1>10, <2>1 DEF Ordered
<1>11. ASSUME NEW i \in Active' PROVE active'[i].got = Recent(new[0][i], active'[i].received)
  <2>1. CASE Ignored(p)
    <3>1. i \in Active /\ i # p /\ active'[i] = active[i]
      BY <2>1 DEF Ignored, Active
    <3> QED
      BY <1>10, <3>1
  <2>2. CASE Stored(p, b)
    <3>1. PICK j \in Job :
            /\ j.received = active[p].received + 1 /\ j.got = active[p].got \cup {b}
            /\ \/ active' = [active EXCEPT ![p] = j]
               \/ active' = [active EXCEPT ![p] = NoJob]
      BY <2>2 DEF Stored
    <3>2. p \in Active /\ active[p] \in Job /\ active \in [Piece -> Job \cup {NoJob}]
      BY <1>3, <2>2 DEF Stored, Active, PointInv, SelfTypeOK
    <3>3. CASE i = p
      <4>1. active'[i] = j
        BY <3>1, <3>2, <3>3 DEF Active
      <4>2. active[p].got = Recent(b, active[p].received) /\ active[p].received \in Nat
        BY <1>1, <1>6, <3>2, Bounds DEF Ordered, Job
      <4>3. Recent(Succ(b), active[p].received + 1) = Recent(b, active[p].received) \cup {b}
        BY <1>3, <4>2, RecentFacts
      <4>4. new[0][i] = Succ(b)
        BY <1>3, <1>6, <1>9, <3>3
      <4> QED
        BY <3>1, <4>1, <4>2, <4>3, <4>4
    <3>4. CASE i # p
      <4>1. i \in Active /\ active'[i] = active[i]
        BY <3>1, <3>2, <3>4 DEF Active
      <4> QED
        BY <1>10, <3>4, <4>1
    <3> QED
      BY <3>3, <3>4
  <2> QED
    BY <1>2, <2>1, <2>2
<1>12. Ordered(new)'
  BY <1>4, <1>7, <1>8, <1>11 DEF Ordered, Succ, Recent, Ago, Block
<1> QED
  BY <1>4, <1>5, <1>12 DEF AnswersInOrder, Block

\* Every step keeps the order of the answers.
LEMMA OrderStep == ASSUME PointInv, AnswersInOrder, [Next]_vars PROVE AnswersInOrder'
<1> USE DEF PointInv
<1>1. CASE Dial \/ HearAvailability \/ NegotiationFails \/ OthersStep \/ UNCHANGED vars
           \/ RDrained \/ RIgnore \/ RFails \/ RHash \/ RAbortQueued
  <2>1. UNCHANGED <<wire, spc, hand, blk, active>>
    BY <1>1 DEF Dial, HearAvailability, NegotiationFails, OthersStep, selfVars, vars, RDrained,
                RIgnore, RFails, RHash, RAbortQueued, senderVars, readerVars
  <2> QED
    BY <2>1, OrderSame DEF SendNext, Active
<1>2. CASE (\E i \in Piece : SPick(i)) \/ SQuit \/ SFlush \/ SWriteFails \/ SEnqueue
  <2>1. wire' = wire /\ active' = active /\ Active' = Active
    BY <1>2 DEF SPick, SQuit, SFlush, SWriteFails, SEnqueue, readerVars, Active
  <2>2. spc' # "closed" => spc # "closed" /\ \A i \in Piece : SendNext(i)' = SendNext(i)
    BY <1>2, Bounds
    DEF SPick, SQuit, SFlush, SWriteFails, SEnqueue, SendNext, Points, SelfTypeOK
  <2> QED
    BY <2>1, <2>2, OrderSame
<1>3. CASE RTake \/ RDrain
  <2>1. UNCHANGED <<wire, spc, hand, blk>> /\ (active' = active \/ Register)
    BY <1>3 DEF RTake, RDrain, senderVars
  <2>2. \A i \in Active' : active'[i] = NewJob \/ (i \in Active /\ active'[i] = active[i])
    BY <2>1, RegisterEffect DEF Active, SelfTypeOK
  <2> QED
    BY <2>1, <2>2, OrderSame DEF SendNext
<1>4. CASE RSend \/ RAbortActive
  <2>1. UNCHANGED <<wire, spc, hand, blk>>
        /\ (active' = active \/ \E k \in Piece : active' = [active EXCEPT ![k] = NoJob])
    BY <1>4 DEF RSend, RAbortActive, senderVars, Active, Points, Concluding
  <2>2. \A i \in Active' : i \in Active /\ active'[i] = active[i]
    BY <2>1 DEF Active, SelfTypeOK
  <2> QED
    BY <2>1, <2>2, OrderSame DEF SendNext
<1>5. CASE Unchoked
  BY <1>5, OrderEmpty DEF Unchoked, Points, Active
<1>6. CASE RFinished \/ RAborted
  BY <1>6, OrderEmpty DEF RFinished, RAborted, EndSession, senderVars, Points, Active
<1> QED
  BY <1>1, <1>2, <1>3, <1>4, <1>5, <1>6, OrderWrite, OrderBlock
  DEF Next, SenderNext, ReaderNext

\* pipelinedDownload counts the blocks of a piece and does not look at which they
\* are; the buffer it hashes is whole all the same, for any number of blocks,
\* queued duplicates, replaced jobs and late answers.
THEOREM CountingIsEnough == Spec => []CountedMeansWhole
<1>1. ASSUME Init PROVE AnswersInOrder
  <2>1. wire = <<>> /\ Active = {} /\ spc = "closed"
    BY <1>1 DEF Init, Active
  <2> DEFINE next == [k \in 0..0 |-> [i \in Piece |-> 1]]
  <2>2. next \in [0..0 -> [Piece -> Block]] /\ Len(wire) = 0
    BY <2>1, Bounds DEF Block
  <2> HIDE DEF next
  <2>3. Ordered(next)
    BY <2>1, <2>2 DEF Ordered
  <2> QED
    BY <2>2, <2>3 DEF AnswersInOrder
<1>2. ASSUME PointInv, AnswersInOrder PROVE CountedMeansWhole
  <2>1. SUFFICES ASSUME rpc = "hash" PROVE active[mine].got = Block
    BY DEF CountedMeansWhole
  <2>2. mine \in Active /\ active[mine].received = NumBlocks
    BY <1>2, <2>1 DEF PointInv, Points, Concluding
  <2>3. PICK next \in [0..Len(wire) -> [Piece -> Block]] : Ordered(next)
    BY <1>2 DEF AnswersInOrder
  <2>4. mine \in Piece /\ 0 \in 0..Len(wire)
    BY <1>2, <2>2, WireAt DEF Active, PointInv
  <2>5. next[0][mine] \in Block
    BY <2>3, <2>4
  <2> QED
    BY <2>2, <2>3, <2>5, RecentFacts DEF Ordered
<1> QED
  BY <1>1, <1>2, PointInit, PointStep, OrderStep, PTL DEF Spec

-----------------------------------------------------------------------------
(* The place of the requests on the wire: why ignored blocks lose nothing. *)

\* The requests for piece i among the first n of w.
Asked(w, n, i) == {k \in 1..n : w[k][1] = i}

\* The answers for a piece in a prefix of the wire are finitely many.
LEMMA AskedFinite ==
  ASSUME NEW w, NEW n \in Nat, NEW i
  PROVE  IsFiniteSet(Asked(w, n, i)) /\ Cardinality(Asked(w, n, i)) \in Nat
<1>1. IsFiniteSet(1..n)
  <2>1. 1 \in Int /\ n \in Int
    OBVIOUS
  <2> QED
    BY <2>1, FS_Interval
<1>2. Asked(w, n, i) \in SUBSET (1..n)
  BY DEF Asked
<1>3. IsFiniteSet(Asked(w, n, i))
  BY <1>1, <1>2, FS_Subset
<1> QED
  BY <1>3, FS_CardinalityType

\* A longer prefix holds no fewer of them.
LEMMA AskedMore ==
  ASSUME NEW w, NEW n \in Nat, NEW m \in Nat, n <= m, NEW i
  PROVE  Cardinality(Asked(w, n, i)) <= Cardinality(Asked(w, m, i))
<1>1. Asked(w, n, i) \in SUBSET Asked(w, m, i)
  BY DEF Asked
<1> QED
  BY <1>1, AskedFinite, FS_Subset

\* A block that is answered leaves one request less for its piece.
LEMMA AskedTail ==
  ASSUME NEW w, NEW v, NEW n \in Nat \ {0}, NEW i,
         \A k \in 1..(n - 1) : v[k] = w[k + 1]
  PROVE  Cardinality(Asked(v, n - 1, i)) =
           Cardinality(Asked(w, n, i)) - IF w[1][1] = i THEN 1 ELSE 0
<1> DEFINE A == Asked(w, n, i) \ {1}
           B == Asked(v, n - 1, i)
           f == [k \in B |-> k + 1]
<1>1. IsFiniteSet(Asked(w, n, i)) /\ IsFiniteSet(B) /\ Cardinality(Asked(w, n, i)) \in Nat
  BY AskedFinite
<1>2. Cardinality(A) = Cardinality(Asked(w, n, i)) - IF w[1][1] = i THEN 1 ELSE 0
  <2>1. 1 \in Asked(w, n, i) <=> w[1][1] = i
    BY DEF Asked
  <2>2. Cardinality(Asked(w, n, i) \ {1}) =
          IF 1 \in Asked(w, n, i) THEN Cardinality(Asked(w, n, i)) - 1
                                  ELSE Cardinality(Asked(w, n, i))
    BY <1>1, FS_RemoveElement
  <2> QED
    BY <1>1, <2>1, <2>2
<1>3. ASSUME NEW k \in B PROVE k + 1 \in A
  BY <1>3 DEF Asked
<1>4. ASSUME NEW k \in A PROVE k - 1 \in B /\ (k - 1) + 1 = k
  <2>1. k \in 1..n /\ k # 1 /\ w[k][1] = i
    BY <1>4 DEF Asked
  <2>2. k - 1 \in 1..(n - 1) /\ (k - 1) + 1 = k
    BY <2>1
  <2>3. v[k - 1] = w[(k - 1) + 1]
    BY <2>2
  <2> QED
    BY <2>1, <2>2, <2>3 DEF Asked
<1>5. \A k, l \in B : k + 1 = l + 1 => k = l
  BY DEF Asked
<1> HIDE DEF A, B
<1>6. f \in [B -> A] /\ (\A k, l \in B : f[k] = f[l] => k = l) /\ \A l \in A : \E k \in B : f[k] = l
  BY <1>3, <1>4, <1>5
<1>7. DOMAIN f = B
  OBVIOUS
<1> HIDE DEF f
<1>8. f \in Bijection(B, A)
  BY <1>6, <1>7 DEF Bijection, Injection, Surjection, IsInjective
<1>9. ExistsBijection(B, A)
  BY <1>8 DEF ExistsBijection
<1>10. Cardinality(A) = Cardinality(B)
  BY <1>1, <1>9, FS_Bijection DEF B
<1> QED
  BY <1>2, <1>10 DEF B

\* A whole set of requests for a piece.
LEMMA AskedSet ==
  ASSUME NEW w, NEW s \in Nat, NEW n \in Nat, NEW i, n = s + NumBlocks,
         \A b \in Block : w[s + b] = <<i, b>>
  PROVE  Cardinality(Asked(w, n, i)) >= NumBlocks
<1>1. NumBlocks \in Nat \ {0}
  BY Bounds
<1>2. ASSUME NEW k \in (s + 1)..n PROVE k \in Asked(w, n, i)
  <2>1. k - s \in Block /\ s + (k - s) = k /\ k \in 1..n
    BY <1>1 DEF Block
  <2>2. w[s + (k - s)] = <<i, k - s>>
    BY <2>1
  <2>3. w[k][1] = i
    BY <2>1, <2>2
  <2> QED
    BY <2>1, <2>3 DEF Asked
<1>3. (s + 1)..n \in SUBSET Asked(w, n, i) /\ IsFiniteSet(Asked(w, n, i))
  BY <1>2, AskedFinite
<1>4. Cardinality((s + 1)..n) <= Cardinality(Asked(w, n, i))
  BY <1>3, FS_Subset
<1>5. Cardinality((s + 1)..n) = NumBlocks
  BY <1>1, FS_Interval
<1> QED
  BY <1>1, <1>4, <1>5, AskedFinite

\* Placed, with its parts named for the steps that disturb only some of them.
Queued(w, q, start) ==
  /\ \A k \in 1..Len(q) :
       /\ start[k + 1] = start[k] + NumBlocks
       /\ \A b \in Block : w[start[k] + b] = <<q[k], b>>
  /\ \A k, l \in 1..(Len(q) + 1) : k <= l => start[k] <= start[l]

InHand(start) ==
  spc # "closed" =>
    /\ Len(wire) = start[Len(jobCh) + 1] + (blk - 1)
    /\ \A b \in 1..(blk - 1) : wire[start[Len(jobCh) + 1] + b] = <<hand, b>>

Needed(start) ==
  \A i \in Active :
    active[i].received + Cardinality(Asked(wire, start[1], i)) >= NumBlocks

\* The three parts of what Placed says.
LEMMA PlacedParts ==
  ASSUME NEW start
  PROVE  Placed(start) <=> Queued(wire, jobCh, start) /\ InHand(start) /\ Needed(start)
  BY DEF Placed, Queued, InHand, Needed, Asked

\* The job queue holds pieces.
LEMMA QueueLen ==
  ASSUME SelfTypeOK
  PROVE  Len(jobCh) \in Nat /\ \A q \in 1..Len(jobCh) : jobCh[q] \in Piece
  BY MembersOfSeq DEF SelfTypeOK

\* A step that leaves the wire and the queue alone and registers no job.
LEMMA PlacedSame ==
  ASSUME RequestsKept, wire' = wire, jobCh' = jobCh,
         spc' # "closed" => spc # "closed" /\ blk' = blk /\ (blk = 1 \/ hand' = hand),
         \A i \in Active' : i \in Active /\ active'[i] = active[i]
  PROVE  RequestsKept'
<1>1. PICK start \in [1..(Len(jobCh) + 1) -> 0..Len(wire)] : Placed(start)
  BY DEF RequestsKept
<1>2. InHand(start)'
  <2>1. InHand(start)
    BY <1>1, PlacedParts
  <2>2. SUFFICES ASSUME spc' # "closed" PROVE InHand(start)'
    BY DEF InHand
  <2>3. CASE blk = 1
    BY <2>1, <2>2, <2>3 DEF InHand
  <2>4. CASE hand' = hand
    BY <2>1, <2>2, <2>4 DEF InHand
  <2> QED
    BY <2>2, <2>3, <2>4
<1>3. Queued(wire, jobCh, start)'
  BY <1>1, PlacedParts DEF Queued, Block
<1>4. Needed(start)'
  <2>1. \A i : Asked(wire, start[1], i)' = Asked(wire, start[1], i)
    BY DEF Asked
  <2>2. Needed(start)
    BY <1>1, PlacedParts
  <2> QED
    BY <2>1, <2>2 DEF Needed
<1>5. Placed(start)'
  BY <1>2, <1>3, <1>4 DEF Placed, Queued, InHand, Needed, Asked
<1> QED
  BY <1>1, <1>5 DEF RequestsKept

\* Nothing is placed before the session has a job.
LEMMA PlacedEmpty ==
  ASSUME wire' = <<>>, jobCh' = <<>>, Active' = {}, blk' = 1
  PROVE  RequestsKept'
<1>1. PICK start \in [1..1 -> 0..0] : TRUE
  <2>1. [k \in 1..1 |-> 0] \in [1..1 -> 0..0]
    OBVIOUS
  <2> QED
    BY <2>1
<1>2. start[1] = 0 /\ Len(wire)' = 0 /\ Len(jobCh)' = 0
  BY <1>1
<1>3. Placed(start)'
  BY <1>2 DEF Placed
<1> QED
  BY <1>2, <1>3 DEF RequestsKept

\* Where the requests of the queued jobs and of the piece in hand end.
LEMMA StartFacts ==
  ASSUME SelfTypeOK, NEW start \in [1..(Len(jobCh) + 1) -> 0..Len(wire)], Placed(start)
  PROVE  /\ Len(wire) \in Nat /\ Len(jobCh) \in Nat /\ NumBlocks \in Nat \ {0}
         /\ \A q \in 1..(Len(jobCh) + 1) : start[q] \in 0..Len(wire) /\ start[1] <= start[q]
         /\ \A q \in 1..Len(jobCh) :
              /\ start[q + 1] = start[q] + NumBlocks /\ start[q + 1] \in 0..Len(wire)
              /\ \A b \in Block : start[q] + b \in 1..Len(wire)
         /\ Queued(wire, jobCh, start) /\ InHand(start) /\ Needed(start)
<1>1. Len(wire) \in Nat /\ Len(jobCh) \in Nat /\ NumBlocks \in Nat \ {0}
  BY WireAt, QueueLen, Bounds
<1>2. Queued(wire, jobCh, start) /\ InHand(start) /\ Needed(start)
  BY PlacedParts
<1>3. \A q \in 1..(Len(jobCh) + 1) : start[q] \in 0..Len(wire) /\ start[1] <= start[q]
  <2>1. 1 \in 1..(Len(jobCh) + 1)
    BY <1>1
  <2>2. \A q \in 1..(Len(jobCh) + 1) : 1 <= q
    BY <1>1
  <2> QED
    BY <1>2, <2>1, <2>2 DEF Queued
<1>4. ASSUME NEW q \in 1..Len(jobCh)
      PROVE  /\ start[q + 1] = start[q] + NumBlocks /\ start[q + 1] \in 0..Len(wire)
             /\ \A b \in Block : start[q] + b \in 1..Len(wire)
  <2>1. q + 1 \in 1..(Len(jobCh) + 1) /\ q \in 1..(Len(jobCh) + 1)
    BY <1>1
  <2>2. start[q + 1] = start[q] + NumBlocks
    BY <1>2 DEF Queued
  <2>3. start[q + 1] \in 0..Len(wire) /\ start[q] \in 0..Len(wire)
    BY <2>1
  <2> QED
    BY <1>1, <2>2, <2>3 DEF Block
<1> QED
  BY <1>1, <1>2, <1>3, <1>4

\* Writing a request adds its answer to the wire.
LEMMA PlacedWrite ==
  ASSUME PointInv, RequestsKept, SWrite
  PROVE  RequestsKept'
<1>1. PICK start \in [1..(Len(jobCh) + 1) -> 0..Len(wire)] : Placed(start)
  BY DEF RequestsKept
<1> DEFINE L == Len(wire)
           J == Len(jobCh)
<1>2. /\ L \in Nat /\ J \in Nat /\ NumBlocks \in Nat \ {0}
      /\ \A q \in 1..(J + 1) : start[q] \in 0..L /\ start[1] <= start[q]
      /\ \A q \in 1..J :
           /\ start[q + 1] = start[q] + NumBlocks /\ start[q + 1] \in 0..L
           /\ \A b \in Block : start[q] + b \in 1..L
      /\ Queued(wire, jobCh, start) /\ InHand(start) /\ Needed(start)
  BY <1>1, StartFacts DEF PointInv
<1>3. /\ spc = "write" /\ blk <= NumBlocks /\ wire' = Append(wire, <<hand, blk>>)
      /\ blk' = blk + 1 /\ spc' = "write" /\ hand' = hand /\ active' = active /\ jobCh' = jobCh
  BY DEF SWrite, readerVars
<1>4. hand \in Piece /\ blk \in Block /\ <<hand, blk>> \in Piece \X Block
  BY <1>3 DEF PointInv, Points, SelfTypeOK, Block
<1>5. /\ Len(wire') = L + 1 /\ \A k \in 1..L : wire'[k] = wire[k]
      /\ wire'[L + 1] = <<hand, blk>>
  BY <1>3, <1>4, AppendProperties DEF PointInv, SelfTypeOK
<1> HIDE DEF L
<1>6. Queued(wire', jobCh', start)
  <2>1. \A q \in 1..J : start[q + 1] = start[q] + NumBlocks
                        /\ \A b \in Block : wire'[start[q] + b] = <<jobCh[q], b>>
    BY <1>2, <1>5 DEF Queued
  <2> QED
    BY <1>2, <1>3, <2>1 DEF Queued
<1>7. InHand(start)'
  <2>1. L = start[J + 1] + (blk - 1) /\ \A b \in 1..(blk - 1) : wire[start[J + 1] + b] = <<hand, b>>
    BY <1>2, <1>3 DEF InHand, L
  <2>2. J + 1 \in 1..(J + 1) /\ blk \in Nat \ {0}
    BY <1>2, <1>4 DEF Block
  <2>3. start[J + 1] \in 0..L
    BY <1>2, <2>2
  <2>4. Len(wire') = start[J + 1] + (blk' - 1)
    BY <1>2, <1>3, <1>5, <2>1, <2>2, <2>3
  <2>5. ASSUME NEW b \in 1..(blk' - 1) PROVE wire'[start[J + 1] + b] = <<hand, b>>
    <3>1. CASE b = blk
      <4>1. start[J + 1] + b = L + 1
        BY <1>2, <2>1, <2>2, <2>3, <3>1
      <4> QED
        BY <1>5, <3>1, <4>1
    <3>2. CASE b # blk
      <4>1. b \in 1..(blk - 1) /\ start[J + 1] + b \in 1..L
        BY <1>2, <1>3, <2>1, <2>2, <2>3, <3>2
      <4> QED
        BY <1>5, <2>1, <4>1
    <3> QED
      BY <3>1, <3>2
  <2> QED
    BY <1>3, <2>4, <2>5 DEF InHand
<1>8. Needed(start)'
  <2>1. 1 \in 1..(J + 1)
    BY <1>2
  <2>2. start[1] \in 0..L
    BY <1>2, <2>1
  <2>3. \A i : Asked(wire', start[1], i) = Asked(wire, start[1], i)
    BY <1>2, <1>5, <2>2 DEF Asked
  <2> QED
    BY <1>2, <1>3, <2>3 DEF Needed, Active
<1>9. Placed(start)'
  BY <1>6, <1>7, <1>8 DEF Placed, Queued, InHand, Needed, Asked, Block
<1>10. start \in [1..(Len(jobCh') + 1) -> 0..Len(wire')]
  BY <1>2, <1>3, <1>5 DEF L
<1> QED
  BY <1>9, <1>10 DEF RequestsKept

\* A written job enters the job queue behind the earlier ones.
LEMMA PlacedEnqueue ==
  ASSUME PointInv, RequestsKept, SEnqueue
  PROVE  RequestsKept'
<1>1. PICK start \in [1..(Len(jobCh) + 1) -> 0..Len(wire)] : Placed(start)
  BY DEF RequestsKept
<1> DEFINE L == Len(wire)
           J == Len(jobCh)
           ext == [q \in 1..(J + 2) |-> IF q <= J + 1 THEN start[q] ELSE L]
<1>2. /\ L \in Nat /\ J \in Nat /\ NumBlocks \in Nat \ {0}
      /\ \A q \in 1..(J + 1) : start[q] \in 0..L /\ start[1] <= start[q]
      /\ \A q \in 1..J :
           /\ start[q + 1] = start[q] + NumBlocks /\ start[q + 1] \in 0..L
           /\ \A b \in Block : start[q] + b \in 1..L
      /\ Queued(wire, jobCh, start) /\ InHand(start) /\ Needed(start)
  BY <1>1, StartFacts DEF PointInv
<1>3. /\ spc = "enqueue" /\ blk = NumBlocks + 1 /\ hand \in Piece /\ jobCh' = Append(jobCh, hand)
      /\ blk' = 1 /\ spc' = "pick" /\ active' = active /\ wire' = wire
  BY DEF SEnqueue, readerVars, PointInv, Points
<1>4. /\ Len(jobCh') = J + 1 /\ \A k \in 1..J : jobCh'[k] = jobCh[k]
      /\ jobCh'[J + 1] = hand
  BY <1>3, AppendProperties DEF PointInv, SelfTypeOK
<1> HIDE DEF L, J
<1>5. PICK new \in [1..(J + 2) -> 0..L] :
        (\A q \in 1..(J + 1) : new[q] = start[q]) /\ new[J + 2] = L
  <2>1. ext \in [1..(J + 2) -> 0..L]
    BY <1>1, <1>2 DEF L, J
  <2>2. (\A q \in 1..(J + 1) : ext[q] = start[q]) /\ ext[J + 2] = L
    BY <1>2
  <2> HIDE DEF ext
  <2> QED
    BY <2>1, <2>2
<1> HIDE DEF ext
<1>6. L = start[J + 1] + NumBlocks /\ \A b \in Block : wire[start[J + 1] + b] = <<hand, b>>
  <2>1. L = start[J + 1] + (blk - 1) /\ \A b \in 1..(blk - 1) : wire[start[J + 1] + b] = <<hand, b>>
    BY <1>2, <1>3 DEF InHand, L, J
  <2>2. blk - 1 = NumBlocks
    BY <1>2, <1>3
  <2> QED
    BY <2>1, <2>2 DEF Block
<1>7. Queued(wire', jobCh', new)
  <2>1. ASSUME NEW q \in 1..(J + 1)
        PROVE  /\ new[q + 1] = new[q] + NumBlocks
               /\ \A b \in Block : wire'[new[q] + b] = <<jobCh'[q], b>>
    <3>1. CASE q \in 1..J
      <4>1. q + 1 \in 1..(J + 1) /\ new[q + 1] = start[q + 1] /\ new[q] = start[q]
        BY <1>2, <1>5, <3>1
      <4> QED
        BY <1>2, <1>3, <1>4, <3>1, <4>1 DEF Queued, J
    <3>2. CASE q = J + 1
      <4>1. q + 1 = J + 2 /\ new[q + 1] = L /\ new[q] = start[J + 1]
        BY <1>2, <1>5, <3>2
      <4> QED
        BY <1>3, <1>4, <1>6, <3>2, <4>1
    <3>3. J \in Nat
      BY <1>2
    <3>4. q \in 1..J \/ q = J + 1
      BY <3>3
    <3> QED
      BY <3>1, <3>2, <3>4
  <2>2. ASSUME NEW q \in 1..(J + 2), NEW r \in 1..(J + 2), q <= r PROVE new[q] <= new[r]
    <3>1. CASE r = J + 2
      <4>1. new[q] \in 0..L /\ new[r] = L
        BY <1>5, <3>1
      <4> QED
        BY <1>2, <4>1
    <3>2. CASE r # J + 2
      <4>1. q \in 1..(J + 1) /\ r \in 1..(J + 1)
        BY <1>2, <2>2, <3>2
      <4> QED
        BY <1>2, <1>5, <2>2, <4>1 DEF Queued, J
    <3> QED
      BY <3>1, <3>2
  <2>3. (J + 1) + 1 = J + 2
    BY <1>2
  <2> QED
    BY <1>4, <2>1, <2>2, <2>3 DEF Queued
<1>8. InHand(new)'
  <2>1. Len(jobCh') + 1 = J + 2
    BY <1>2, <1>4
  <2>2. new[Len(jobCh') + 1] = Len(wire')
    BY <1>3, <1>5, <2>1 DEF L
  <2>3. Len(wire') = new[Len(jobCh') + 1] + (blk' - 1)
    BY <1>2, <1>3, <2>2 DEF L
  <2> QED
    BY <1>3, <2>3 DEF InHand
<1>9. Needed(new)'
  <2>1. new[1] = start[1]
    BY <1>2, <1>5
  <2> QED
    BY <1>2, <1>3, <2>1 DEF Needed, Active, Asked
<1>10. Placed(new)'
  BY <1>7, <1>8, <1>9 DEF Placed, Queued, InHand, Needed, Asked, Block
<1>11. new \in [1..(Len(jobCh') + 1) -> 0..Len(wire')]
  <2>1. Len(jobCh') + 1 = J + 2 /\ Len(wire') = L
    BY <1>2, <1>3, <1>4 DEF L
  <2> QED
    BY <1>5, <2>1
<1> QED
  BY <1>10, <1>11 DEF RequestsKept

\* A job leaves the queue: its requests are all on the wire.
LEMMA PlacedDequeue ==
  ASSUME PointInv, RequestsKept, jobCh # <<>>, jobCh' = Tail(jobCh),
         UNCHANGED <<wire, spc, hand, blk>>,
         \A i \in Active' : \/ i = Head(jobCh) /\ active'[i].received = 0
                            \/ i \in Active /\ active'[i] = active[i]
  PROVE  RequestsKept'
<1>1. PICK start \in [1..(Len(jobCh) + 1) -> 0..Len(wire)] : Placed(start)
  BY DEF RequestsKept
<1> DEFINE L == Len(wire)
           J == Len(jobCh)
           rest == [q \in 1..J |-> start[q + 1]]
<1>2. /\ L \in Nat /\ J \in Nat /\ NumBlocks \in Nat \ {0}
      /\ \A q \in 1..(J + 1) : start[q] \in 0..L /\ start[1] <= start[q]
      /\ \A q \in 1..J :
           /\ start[q + 1] = start[q] + NumBlocks /\ start[q + 1] \in 0..L
           /\ \A b \in Block : start[q] + b \in 1..L
      /\ Queued(wire, jobCh, start) /\ InHand(start) /\ Needed(start)
  BY <1>1, StartFacts DEF PointInv
<1>3. /\ Len(jobCh') = J - 1 /\ J # 0 /\ Head(jobCh) = jobCh[1]
      /\ \A k \in 1..(J - 1) : jobCh'[k] = jobCh[k + 1]
  BY HeadTailProperties, EmptySeq DEF PointInv, SelfTypeOK
<1> HIDE DEF L, J
<1>4. PICK new \in [1..J -> 0..L] : \A q \in 1..J : new[q] = start[q + 1]
  <2>1. rest \in [1..J -> 0..L] /\ \A q \in 1..J : rest[q] = start[q + 1]
    BY <1>2
  <2> HIDE DEF rest
  <2> QED
    BY <2>1
<1> HIDE DEF rest
<1>5. Queued(wire', jobCh', new)
  <2>1. ASSUME NEW q \in 1..(J - 1)
        PROVE  /\ new[q + 1] = new[q] + NumBlocks
               /\ \A b \in Block : wire'[new[q] + b] = <<jobCh'[q], b>>
    <3>1. q \in 1..J /\ q + 1 \in 1..J
      BY <1>2
    <3>2. new[q] = start[q + 1] /\ new[q + 1] = start[(q + 1) + 1]
      BY <1>4, <3>1
    <3> QED
      BY <1>2, <1>3, <3>1, <3>2 DEF Queued, J
  <2>2. ASSUME NEW q \in 1..J, NEW r \in 1..J, q <= r PROVE new[q] <= new[r]
    <3>1. q + 1 \in 1..(J + 1) /\ r + 1 \in 1..(J + 1) /\ q + 1 <= r + 1
      BY <1>2, <2>2
    <3>2. start[q + 1] <= start[r + 1]
      BY <1>2, <3>1 DEF Queued, J
    <3> QED
      BY <1>4, <3>2
  <2>3. (J - 1) + 1 = J
    BY <1>2
  <2> QED
    BY <1>3, <2>1, <2>2, <2>3 DEF Queued
<1>6. InHand(new)'
  <2>1. Len(jobCh') + 1 = J /\ new[J] = start[J + 1]
    BY <1>2, <1>3, <1>4
  <2> QED
    BY <1>2, <2>1 DEF InHand, J
<1>7. Needed(new)'
  <2>1. 1 \in 1..J /\ 1 \in 1..(J + 1) /\ 1 + 1 \in 1..(J + 1)
    BY <1>2, <1>3
  <2>2. /\ new[1] = start[1 + 1] /\ start[1 + 1] = start[1] + NumBlocks
        /\ start[1] \in Nat /\ new[1] \in Nat /\ start[1] <= new[1]
        /\ \A b \in Block : wire[start[1] + b] = <<jobCh[1], b>>
    <3>1. new[1] = start[1 + 1] /\ start[1 + 1] = start[1] + NumBlocks
      BY <1>2, <1>4, <2>1
    <3>2. \A b \in Block : wire[start[1] + b] = <<jobCh[1], b>>
      BY <1>2, <2>1 DEF Queued, J
    <3>3. start[1] \in 0..L
      BY <1>2, <2>1
    <3> QED
      BY <1>2, <3>1, <3>2, <3>3
  <2>3. ASSUME NEW i \in Active'
        PROVE  active'[i].received + Cardinality(Asked(wire, new[1], i)) >= NumBlocks
    <3>1. Cardinality(Asked(wire, new[1], i)) \in Nat
      BY <2>2, AskedFinite
    <3>2. CASE i = jobCh[1] /\ active'[i].received = 0
      <4>1. Cardinality(Asked(wire, new[1], i)) >= NumBlocks
        BY <2>2, <3>2, AskedSet, ZenonT(30)
      <4> QED
        BY <1>2, <3>1, <3>2, <4>1
    <3>3. CASE i \in Active /\ active'[i] = active[i]
      <4>1. active[i].received \in Nat
        BY <3>3, Bounds DEF PointInv, SelfTypeOK, Active, Job
      <4>2. active[i].received + Cardinality(Asked(wire, start[1], i)) >= NumBlocks
        BY <1>2, <3>3 DEF Needed
      <4>3. /\ Cardinality(Asked(wire, start[1], i)) \in Nat
            /\ Cardinality(Asked(wire, start[1], i)) <= Cardinality(Asked(wire, new[1], i))
        BY <2>2, AskedFinite, AskedMore
      <4> QED
        BY <1>2, <3>1, <3>3, <4>1, <4>2, <4>3, SMTT(30)
    <3> QED
      BY <1>3, <3>2, <3>3
  <2> QED
    BY <2>3 DEF Needed
<1>8. Placed(new)'
  BY <1>5, <1>6, <1>7 DEF Placed, Queued, InHand, Needed, Asked, Block
<1>9. new \in [1..(Len(jobCh') + 1) -> 0..Len(wire')]
  <2>1. Len(jobCh') + 1 = J /\ Len(wire') = L
    BY <1>2, <1>3 DEF L
  <2> QED
    BY <1>4, <2>1
<1> QED
  BY <1>8, <1>9 DEF RequestsKept

\* A block arrives: with a job still incomplete it is not one of a queued job's.
LEMMA PlacedBlock ==
  ASSUME PointInv, RequestsKept, RBlock
  PROVE  RequestsKept'
<1>1. PICK start \in [1..(Len(jobCh) + 1) -> 0..Len(wire)] : Placed(start)
  BY DEF RequestsKept
<1> DEFINE L == Len(wire)
           J == Len(jobCh)
           p == Head(wire)[1]
           b == Head(wire)[2]
           back == [q \in 1..(J + 1) |-> start[q] - 1]
<1>2. /\ L \in Nat /\ J \in Nat /\ NumBlocks \in Nat \ {0}
      /\ \A q \in 1..(J + 1) : start[q] \in 0..L /\ start[1] <= start[q]
      /\ \A q \in 1..J :
           /\ start[q + 1] = start[q] + NumBlocks /\ start[q + 1] \in 0..L
           /\ \A c \in Block : start[q] + c \in 1..L
      /\ Queued(wire, jobCh, start) /\ InHand(start) /\ Needed(start)
  BY <1>1, StartFacts DEF PointInv
<1>3. /\ rpc = "read" /\ wire # <<>> /\ wire' = Tail(wire) /\ (Ignored(p) \/ Stored(p, b))
      /\ UNCHANGED <<spc, hand, blk, jobCh>>
  BY BlockEffect DEF senderVars
<1>4. /\ L # 0 /\ Len(wire') = L - 1 /\ Head(wire) = wire[1]
      /\ \A k \in 1..(L - 1) : wire'[k] = wire[k + 1]
  BY <1>3, HeadTailProperties, EmptySeq, LenProperties DEF PointInv, SelfTypeOK
<1>5. \A i \in Active : active[i].received \in 0..(NumBlocks - 1)
  <2>1. ASSUME NEW i \in Active PROVE active[i].received \in 0..(NumBlocks - 1)
    <3>1. active[i] \in Job /\ active[i].received # NumBlocks
      BY <1>3 DEF PointInv, SelfTypeOK, Points, Active, Concluding
    <3>2. active[i].received \in 0..NumBlocks
      BY <3>1 DEF Job
    <3> QED
      BY <1>2, <3>1, <3>2
  <2> QED
    BY <2>1
<1>6. start[1] \in Nat \ {0}
  <2>1. 1 \in 1..(J + 1)
    BY <1>2
  <2>2. start[1] \in Nat
    BY <1>2, <2>1
  <2>3. PICK i \in Active : TRUE
    BY <1>3 DEF PointInv, Points
  <2>4. Cardinality(Asked(wire, start[1], i)) \in Nat
    BY <2>2, AskedFinite
  <2>5. Cardinality(Asked(wire, start[1], i)) # 0
    <3>1. active[i].received + Cardinality(Asked(wire, start[1], i)) >= NumBlocks
      BY <1>2 DEF Needed
    <3>2. active[i].received \in 0..(NumBlocks - 1)
      BY <1>5
    <3> QED
      BY <1>2, <2>4, <3>1, <3>2
  <2>6. ASSUME start[1] = 0 PROVE FALSE
    <3>1. Asked(wire, start[1], i) = {}
      BY <2>6 DEF Asked
    <3> QED
      BY <2>5, <3>1, FS_EmptySet
  <2> QED
    BY <2>2, <2>6
<1> HIDE DEF L, J, p, b
<1>7. PICK new \in [1..(J + 1) -> 0..(L - 1)] : \A q \in 1..(J + 1) : new[q] = start[q] - 1
  <2>1. \A q \in 1..(J + 1) : start[q] - 1 \in 0..(L - 1)
    <3>1. ASSUME NEW q \in 1..(J + 1) PROVE start[q] - 1 \in 0..(L - 1)
      <4>1. start[q] \in 0..L /\ start[1] <= start[q]
        BY <1>2
      <4> QED
        BY <1>2, <1>6, <4>1
    <3> QED
      BY <3>1
  <2>2. back \in [1..(J + 1) -> 0..(L - 1)] /\ \A q \in 1..(J + 1) : back[q] = start[q] - 1
    BY <2>1
  <2> HIDE DEF back
  <2> QED
    BY <2>2
<1> HIDE DEF back
<1>8. Queued(wire', jobCh', new)
  <2>1. ASSUME NEW q \in 1..J
        PROVE  /\ new[q + 1] = new[q] + NumBlocks
               /\ \A c \in Block : wire'[new[q] + c] = <<jobCh[q], c>>
    <3>1. /\ q \in 1..(J + 1) /\ q + 1 \in 1..(J + 1)
      BY <1>2
    <3>2. /\ new[q] = start[q] - 1 /\ new[q + 1] = start[q + 1] - 1
          /\ start[q] \in 0..L /\ start[1] <= start[q] /\ start[q + 1] = start[q] + NumBlocks
      BY <1>2, <1>7, <3>1
    <3>3. ASSUME NEW c \in Block PROVE wire'[new[q] + c] = <<jobCh[q], c>>
      <4>1. start[q] + c \in 1..L /\ wire[start[q] + c] = <<jobCh[q], c>> /\ c \in Nat \ {0}
        <5>1. c \in 1..NumBlocks /\ NumBlocks \in Nat
          BY Bounds DEF Block
        <5>2. wire[start[q] + c] = <<jobCh[q], c>>
          BY <1>2 DEF Queued, J
        <5>3. start[q + 1] \in 0..L /\ start[q] \in 0..L /\ start[q + 1] = start[q] + NumBlocks
          BY <1>2, <3>1, <3>2
        <5>4. L \in Nat
          BY <1>2
        <5>5. start[q] + c \in 1..L /\ c \in Nat \ {0}
          BY <5>1, <5>3, <5>4
        <5> QED
          BY <5>2, <5>5
      <4>2. new[q] + c \in 1..(L - 1) /\ (new[q] + c) + 1 = start[q] + c
        <5>1. /\ start[q] \in Nat /\ start[1] <= start[q] /\ new[q] = start[q] - 1 /\ L \in Nat
          BY <1>2, <3>2
        <5> QED
          BY <1>6, <4>1, <5>1, SMTT(30)
      <4> QED
        BY <1>4, <4>1, <4>2
    <3>4. new[q + 1] = new[q] + NumBlocks
      <4>1. /\ start[q] \in Nat /\ NumBlocks \in Nat /\ new[q] = start[q] - 1
            /\ new[q + 1] = (start[q] + NumBlocks) - 1
        BY <1>2, <3>2
      <4> QED
        BY <4>1
    <3> QED
      BY <3>3, <3>4
  <2>2. ASSUME NEW q \in 1..(J + 1), NEW r \in 1..(J + 1), q <= r PROVE new[q] <= new[r]
    <3>1. start[q] <= start[r]
      BY <1>2, <2>2 DEF Queued, J
    <3>2. start[q] \in 0..L /\ start[r] \in 0..L /\ L \in Nat
      BY <1>2
    <3>3. new[q] = start[q] - 1 /\ new[r] = start[r] - 1
      BY <1>7
    <3> QED
      BY <3>1, <3>2, <3>3
  <2> QED
    BY <1>3, <2>1, <2>2 DEF Queued, J
<1>9. InHand(new)'
  <2>1. SUFFICES ASSUME spc' # "closed" PROVE InHand(new)'
    BY DEF InHand
  <2>2. /\ L = start[J + 1] + (blk - 1)
        /\ \A c \in 1..(blk - 1) : wire[start[J + 1] + c] = <<hand, c>>
    BY <1>2, <1>3, <2>1 DEF InHand, L, J
  <2>3. J + 1 \in 1..(J + 1) /\ blk \in Nat
    BY <1>2 DEF PointInv, SelfTypeOK
  <2>4. new[J + 1] = start[J + 1] - 1 /\ start[J + 1] \in 0..L /\ start[1] <= start[J + 1]
    BY <1>2, <1>7, <2>3
  <2>5. Len(wire') = new[J + 1] + (blk - 1)
    BY <1>2, <1>4, <2>2, <2>3, <2>4, SMTT(30)
  <2>6. ASSUME NEW c \in 1..(blk - 1) PROVE wire'[new[J + 1] + c] = <<hand, c>>
    <3>1. new[J + 1] + c \in 1..(L - 1) /\ (new[J + 1] + c) + 1 = start[J + 1] + c
      <4>1. L \in Nat /\ start[J + 1] \in Nat /\ new[J + 1] = start[J + 1] - 1
            /\ start[1] <= start[J + 1] /\ L = start[J + 1] + (blk - 1) /\ blk \in Nat
        BY <1>2, <2>2, <2>3, <2>4
      <4> QED
        BY <1>6, <4>1, SMTT(30)
    <3> QED
      BY <1>4, <2>2, <3>1
  <2> QED
    BY <1>3, <2>5, <2>6 DEF InHand, J
<1>10. Needed(new)'
  <2>1. new[1] = start[1] - 1
    BY <1>2, <1>7
  <2>2. start[1] <= L
    BY <1>2
  <2>3. \A k \in 1..(start[1] - 1) : wire'[k] = wire[k + 1]
    BY <1>2, <1>4, <1>6, <2>2
  <2>4. ASSUME NEW i
        PROVE  /\ Cardinality(Asked(wire', new[1], i)) =
                    Cardinality(Asked(wire, start[1], i)) - IF p = i THEN 1 ELSE 0
               /\ Cardinality(Asked(wire, start[1], i)) \in Nat
    <3>1. Cardinality(Asked(wire', start[1] - 1, i)) =
            Cardinality(Asked(wire, start[1], i)) - IF wire[1][1] = i THEN 1 ELSE 0
      BY <1>6, <2>3, AskedTail
    <3>2. Cardinality(Asked(wire, start[1], i)) \in Nat
      BY <1>6, AskedFinite
    <3> QED
      BY <1>4, <2>1, <3>1, <3>2 DEF p
  <2>5. ASSUME NEW i \in Active'
        PROVE  active'[i].received + Cardinality(Asked(wire', new[1], i)) >= NumBlocks
    <3>1. ASSUME i \in Active, i # p, active'[i] = active[i]
          PROVE  active'[i].received + Cardinality(Asked(wire', new[1], i)) >= NumBlocks
      <4>1. Cardinality(Asked(wire', new[1], i)) = Cardinality(Asked(wire, start[1], i))
        BY <2>4, <3>1
      <4> QED
        BY <1>2, <3>1, <4>1 DEF Needed
    <3>2. CASE Ignored(p)
      <4>1. i \in Active /\ i # p /\ active'[i] = active[i]
        BY <3>2 DEF Ignored, Active
      <4> QED
        BY <3>1, <4>1
    <3>3. CASE Stored(p, b)
      <4>1. PICK j \in Job :
              /\ j.received = active[p].received + 1
              /\ \/ active' = [active EXCEPT ![p] = j]
                 \/ active' = [active EXCEPT ![p] = NoJob]
        BY <3>3 DEF Stored
      <4>2. p \in Active /\ active \in [Piece -> Job \cup {NoJob}]
        BY <1>3, <3>3, WireHead DEF Stored, Active, PointInv, SelfTypeOK, p
      <4>3. CASE i # p
        <5>1. i \in Active /\ active'[i] = active[i]
          BY <4>1, <4>2, <4>3 DEF Active
        <5> QED
          BY <3>1, <4>3, <5>1
      <4>4. CASE i = p
        <5>1. active'[i].received = active[i].received + 1
          BY <4>1, <4>2, <4>4 DEF Active
        <5>2. active[i].received \in Nat
          BY <1>2, <1>5, <4>2, <4>4
        <5>3. active[i].received + Cardinality(Asked(wire, start[1], i)) >= NumBlocks
          BY <1>2, <4>2, <4>4 DEF Needed
        <5> QED
          BY <1>2, <2>4, <4>4, <5>1, <5>2, <5>3, SMTT(30)
      <4> QED
        BY <4>3, <4>4
    <3> QED
      BY <1>3, <3>2, <3>3
  <2> QED
    BY <2>5 DEF Needed
<1>11. Placed(new)'
  BY <1>8, <1>9, <1>10 DEF Placed, Queued, InHand, Needed, Asked, Block
<1>12. new \in [1..(Len(jobCh') + 1) -> 0..Len(wire')]
  BY <1>3, <1>4, <1>7 DEF J
<1> QED
  BY <1>11, <1>12 DEF RequestsKept

\* Every step keeps every outstanding request accounted for.
LEMMA PlacedStep == ASSUME PointInv, RequestsKept, [Next]_vars PROVE RequestsKept'
<1> USE DEF PointInv
<1>1. CASE Dial \/ HearAvailability \/ NegotiationFails \/ OthersStep \/ UNCHANGED vars
           \/ RDrained \/ RIgnore \/ RFails \/ RHash
  <2>1. UNCHANGED <<wire, jobCh, spc, hand, blk, active>>
    BY <1>1 DEF Dial, HearAvailability, NegotiationFails, OthersStep, selfVars, vars, RDrained,
                RIgnore, RFails, RHash, senderVars, readerVars
  <2> QED
    BY <2>1, PlacedSame DEF Active
<1>2. CASE (\E i \in Piece : SPick(i)) \/ SQuit \/ SFlush \/ SWriteFails
  <2>1. wire' = wire /\ jobCh' = jobCh /\ active' = active /\ Active' = Active
    BY <1>2 DEF SPick, SQuit, SFlush, SWriteFails, readerVars, Active
  <2>2. spc' # "closed" => spc # "closed" /\ blk' = blk /\ (blk = 1 \/ hand' = hand)
    BY <1>2 DEF SPick, SQuit, SFlush, SWriteFails, Points, SelfTypeOK
  <2> QED
    BY <2>1, <2>2, PlacedSame
<1>3. CASE Register /\ UNCHANGED <<wire, spc, hand, blk>>
  <2>1. \A i \in Active' : \/ i = Head(jobCh) /\ active'[i].received = 0
                           \/ i \in Active /\ active'[i] = active[i]
    <3>1. /\ Active' = Active \cup {Head(jobCh)} /\ Head(jobCh) \in Piece
          /\ active' = [active EXCEPT ![Head(jobCh)] = NewJob]
      BY <1>3, RegisterEffect
    <3> QED
      BY <3>1, NewJobFacts DEF Active, SelfTypeOK
  <2> QED
    BY <1>3, <2>1, PlacedDequeue DEF Register
<1>4. CASE RTake \/ RDrain
  <2>1. UNCHANGED <<wire, spc, hand, blk>> /\ (UNCHANGED <<active, jobCh>> \/ Register)
    BY <1>4 DEF RTake, RDrain, senderVars
  <2>2. CASE UNCHANGED <<active, jobCh>>
    BY <2>1, <2>2, PlacedSame DEF Active
  <2> QED
    BY <1>3, <2>1, <2>2
<1>5. CASE RAbortQueued
  BY <1>5, PlacedDequeue DEF RAbortQueued, senderVars, readerVars, Active
<1>6. CASE RSend \/ RAbortActive
  <2>1. UNCHANGED <<wire, jobCh, spc, hand, blk>>
        /\ (active' = active \/ \E k \in Piece : active' = [active EXCEPT ![k] = NoJob])
    BY <1>6 DEF RSend, RAbortActive, senderVars, Active, Points, Concluding
  <2>2. \A i \in Active' : i \in Active /\ active'[i] = active[i]
    BY <2>1 DEF Active, SelfTypeOK
  <2> QED
    BY <2>1, <2>2, PlacedSame
<1>7. CASE Unchoked
  BY <1>7, PlacedEmpty DEF Unchoked, Points, Active
<1>8. CASE RFinished \/ RAborted
  BY <1>8, PlacedEmpty DEF RFinished, RAborted, EndSession, senderVars, Points, Active
<1> QED
  BY <1>1, <1>2, <1>4, <1>5, <1>6, <1>7, <1>8, PlacedWrite, PlacedEnqueue, PlacedBlock
  DEF Next, SenderNext, ReaderNext

\* The requests still unanswered cover what every registered job misses: the
\* blocks the reader ignores because their piece is not active cost no job.
THEOREM NoJobStarves == Spec => []NoStarvedJob
<1>1. ASSUME Init PROVE RequestsKept
  <2>1. wire = <<>> /\ jobCh = <<>> /\ Active = {} /\ blk = 1 /\ Len(wire) = 0 /\ Len(jobCh) = 0
    BY <1>1 DEF Init, Active
  <2>2. PICK start \in [1..1 -> 0..0] : TRUE
    <3>1. [k \in 1..1 |-> 0] \in [1..1 -> 0..0]
      OBVIOUS
    <3> QED
      BY <3>1
  <2>3. start[1] = 0
    BY <2>2
  <2>4. Placed(start)
    BY <2>1, <2>3 DEF Placed
  <2> QED
    BY <2>1, <2>2, <2>4 DEF RequestsKept
<1>2. ASSUME PointInv, RequestsKept PROVE NoStarvedJob
  <2>1. PICK start \in [1..(Len(jobCh) + 1) -> 0..Len(wire)] : Placed(start)
    BY <1>2 DEF RequestsKept
  <2>2. start[1] \in 0..Len(wire) /\ Len(wire) \in Nat /\ Needed(start) /\ NumBlocks \in Nat
    BY <1>2, <2>1, StartFacts DEF PointInv
  <2>3. ASSUME NEW i \in Active
        PROVE  active[i].received + Cardinality(Asked(wire, Len(wire), i)) >= NumBlocks
    <3>1. active[i].received + Cardinality(Asked(wire, start[1], i)) >= NumBlocks
      BY <2>2 DEF Needed
    <3>2. /\ Cardinality(Asked(wire, start[1], i)) <= Cardinality(Asked(wire, Len(wire), i))
          /\ Cardinality(Asked(wire, start[1], i)) \in Nat
          /\ Cardinality(Asked(wire, Len(wire), i)) \in Nat
      BY <2>2, AskedMore, AskedFinite
    <3>3. active[i].received \in Nat
      BY <1>2, Bounds DEF PointInv, SelfTypeOK, Active, Job
    <3> QED
      BY <2>2, <3>1, <3>2, <3>3
  <2> QED
    BY <2>3 DEF NoStarvedJob, Asked
<1> QED
  BY <1>1, <1>2, PointInit, PointStep, PlacedStep, PTL DEF Spec

-----------------------------------------------------------------------------
(* The session implements the abstract session of Session.tla. *)

Owners == Worker \cup {self}

\* The picker of the abstract specification is this one.
LEMMA SamePicker ==
  /\ \A B : Abstract!AddPeer(B) <=> AddPeer(B)
  /\ \A B : Abstract!RemovePeer(B) <=> RemovePeer(B)
  /\ \A B, i : Abstract!Pick(B, i) <=> Pick(B, i)
  /\ \A B : Abstract!PickNone(B) <=> PickNone(B)
  /\ \A i : Abstract!Finish(i) <=> Finish(i)
  /\ \A i : Abstract!Abort(i) <=> Abort(i)
  /\ \A i : Abstract!IsDone(i) <=> IsDone(i)
  /\ UNCHANGED Abstract!pickerVars <=> UNCHANGED pickerVars
<1>1. /\ \A B : Abstract!AddPeer(B) <=> AddPeer(B)
      /\ \A B : Abstract!RemovePeer(B) <=> RemovePeer(B)
  BY DEF Abstract!AddPeer, AddPeer, Abstract!RemovePeer, RemovePeer
<1>2. /\ \A B : Abstract!Candidates(B) = Candidates(B)
      /\ \A B : Abstract!EndgameCandidates(B) = EndgameCandidates(B)
      /\ Abstract!shouldEnterEndgame <=> shouldEnterEndgame
  BY DEF Abstract!Candidates, Candidates, Abstract!EndgameCandidates, EndgameCandidates,
         Abstract!shouldEnterEndgame, shouldEnterEndgame
<1>3. \A S : Abstract!Rarest(S) = Rarest(S)
  BY DEF Abstract!Rarest, Rarest
<1>4. \A B, i : Abstract!Pick(B, i) <=> Pick(B, i)
  BY <1>2, <1>3 DEF Abstract!Pick, Pick
<1>5. \A B : Abstract!PickNone(B) <=> PickNone(B)
  BY <1>2 DEF Abstract!PickNone, PickNone
<1>6. /\ \A i : Abstract!Finish(i) <=> Finish(i)
      /\ \A i : Abstract!Abort(i) <=> Abort(i)
      /\ \A i : Abstract!IsDone(i) <=> IsDone(i)
      /\ UNCHANGED Abstract!pickerVars <=> UNCHANGED pickerVars
  BY DEF Abstract!Finish, Finish, Abstract!Abort, Abort, Abstract!IsDone, IsDone,
         Abstract!pickerVars, pickerVars
<1> QED
  BY <1>1, <1>4, <1>5, <1>6

\* Both specifications have the same number of pieces.
LEMMA SameNumPieces == NumPieces = Abstract!NumPieces
  BY DEF NumPieces, Abstract!NumPieces, Cardinality, Abstract!Cardinality

\* The three places of a session's reservations: in hand, queued, registered.
Held == Active \ (IF rpc \in {"sendOk", "sendErr"} THEN {mine} ELSE {})

\* Where the session's claims are: with the sender, in the queue, with the reader.
LEMMA ClaimParts ==
  ASSUME SelfTypeOK
  PROVE  /\ AbsClaims = ({hand} \cap Piece) \cup Range(jobCh) \cup Held
         /\ AbsClaims \subseteq Piece
<1>1. Range(jobCh) = {jobCh[k] : k \in 1..Len(jobCh)} /\ Range(jobCh) \subseteq Piece
  BY MembersOfSeq DEF SelfTypeOK
<1> QED
  BY <1>1 DEF AbsClaims, Held, Active

\* The state of the abstract specification: this session beside the others.
LEMMA AllFacts ==
  ASSUME PointInv
  PROVE  /\ self \notin Worker /\ AllPeers \subseteq Owners
         /\ AllPc[self] = AbsPc /\ AllClaims[self] = AbsClaims /\ AllCur[self] = mine
         /\ AllSender[self] = (spc # "closed")
         /\ AllHave[self] = (IF AbsPc = "idle" THEN {} ELSE bitfield)
         /\ \A w \in Worker : /\ AllPc[w] = pc[w] /\ AllClaims[w] = claims[w]
                              /\ AllCur[w] = cur[w] /\ AllSender[w] = sender[w]
                              /\ AllHave[w] = have[w]
         /\ DOMAIN AllPc = Owners /\ DOMAIN AllClaims = Owners /\ DOMAIN AllCur = Owners
         /\ DOMAIN AllSender = Owners /\ DOMAIN AllHave = Owners
<1>1. self \notin Worker /\ AllPeers \subseteq Owners
  BY PipelineAssumption DEF AllPeers, Owners, Worker
<1>2. /\ DOMAIN pc = Worker /\ DOMAIN claims = Worker /\ DOMAIN cur = Worker
      /\ DOMAIN sender = Worker /\ DOMAIN have = Worker
  BY DEF PointInv, OthersOK
<1>3. /\ AllPc[self] = AbsPc /\ DOMAIN AllPc = Owners /\ \A w \in Worker : AllPc[w] = pc[w]
  BY <1>1, <1>2 DEF AllPc, WithSelf, Owners
<1>4. /\ AllClaims[self] = AbsClaims /\ DOMAIN AllClaims = Owners
      /\ \A w \in Worker : AllClaims[w] = claims[w]
  BY <1>1, <1>2 DEF AllClaims, WithSelf, Owners
<1>5. /\ AllCur[self] = mine /\ DOMAIN AllCur = Owners /\ \A w \in Worker : AllCur[w] = cur[w]
  BY <1>1, <1>2 DEF AllCur, WithSelf, Owners
<1>6. /\ AllSender[self] = (spc # "closed") /\ DOMAIN AllSender = Owners
      /\ \A w \in Worker : AllSender[w] = sender[w]
  BY <1>1, <1>2 DEF AllSender, WithSelf, Owners
<1>7. /\ AllHave[self] = (IF AbsPc = "idle" THEN {} ELSE bitfield) /\ DOMAIN AllHave = Owners
      /\ \A w \in Worker : AllHave[w] = have[w]
  BY <1>1, <1>2 DEF AllHave, WithSelf, Owners
<1> QED
  BY <1>1, <1>3, <1>4, <1>5, <1>6, <1>7

\* Before endgame a piece is owed by at most one session and reserved while it is.
Reserved ==
  ~endgame =>
    /\ \A w \in Owners : AllClaims[w] \subseteq inflight
    /\ \A v, w \in Owners : v # w => AllClaims[v] \cap AllClaims[w] = {}

\* A session owes the piece it verifies.
HashOwed == \A w \in Owners : AllPc[w] = "hash" => AllCur[w] \in AllClaims[w]

\* Pick: a piece in flight is picked again only in endgame.
LEMMA PickReserves ==
  ASSUME NEW B, NEW i, Pick(B, i), PickerTypeOK
  PROVE  /\ i \in Piece /\ i \in B /\ inflight' = inflight \cup {i}
         /\ ~endgame' => ~endgame /\ i \notin inflight
  BY DEF Pick, Rarest, Candidates, EndgameCandidates, PickerTypeOK

\* A pick that finds nothing reserves nothing.
LEMMA PickNoneKeeps ==
  ASSUME NEW B, PickNone(B), PickerTypeOK
  PROVE  inflight' = inflight /\ (~endgame' => ~endgame)
  BY DEF PickNone, PickerTypeOK

\* A step that leaves claims and reservations alone.
LEMMA ReservedSame ==
  ASSUME Reserved, AllClaims' = AllClaims, inflight' = inflight, ~endgame' => ~endgame
  PROVE  Reserved'
  BY DEF Reserved, Owners

\* A pick claims what it reserves.
LEMMA ReservedPick ==
  ASSUME PointInv, Reserved, NEW w \in Owners, NEW i,
         AllClaims' = [AllClaims EXCEPT ![w] = @ \cup {i}],
         inflight' = inflight \cup {i}, ~endgame' => ~endgame /\ i \notin inflight
  PROVE  Reserved'
<1>1. \A v \in Owners : AllClaims'[v] = IF v = w THEN AllClaims[w] \cup {i} ELSE AllClaims[v]
  BY AllFacts
<1> QED
  BY <1>1 DEF Reserved, Owners

\* A piece is given back or finished together with its claim.
LEMMA ReservedSettle ==
  ASSUME PointInv, Reserved, NEW w \in Owners, NEW i \in AllClaims[w], UNCHANGED endgame,
         inflight' = inflight \ {i} \/ inflight' = inflight,
         \/ AllClaims' = [AllClaims EXCEPT ![w] = @ \ {i}]
         \/ endgame /\ AllClaims' = AllClaims
  PROVE  Reserved'
<1>1. CASE endgame
  BY <1>1 DEF Reserved
<1>2. CASE ~endgame
  <2>1. \A v \in Owners : AllClaims'[v] = IF v = w THEN AllClaims[w] \ {i} ELSE AllClaims[v]
    BY <1>2, AllFacts
  <2> QED
    BY <1>2, <2>1 DEF Reserved, Owners
<1> QED
  BY <1>1, <1>2

\* Every step of the abstract specification keeps the reservations apart.
LEMMA ReservedStep ==
  ASSUME PointInv, Reserved, HashOwed, Abstract!SessionNext
  PROVE  Reserved' /\ HashOwed'
<1>0. /\ AllPeers \subseteq Owners /\ PickerTypeOK
      /\ DOMAIN AllPc = Owners /\ DOMAIN AllClaims = Owners /\ DOMAIN AllCur = Owners
  BY AllFacts DEF PointInv
<1> USE DEF Abstract!Goto, Abstract!Settle
<1>1. ASSUME NEW w \in AllPeers, NEW B, Abstract!OpenSession(w, B) PROVE Reserved' /\ HashOwed'
  <2>1. /\ AllClaims' = AllClaims /\ AllCur' = AllCur
        /\ AllPc' = [AllPc EXCEPT ![w] = "read"] /\ AddPeer(B)
    BY <1>1, SamePicker DEF Abstract!OpenSession
  <2>2. inflight' = inflight /\ endgame' = endgame
    BY <2>1 DEF AddPeer
  <2> QED
    BY <1>0, <2>1, <2>2, ReservedSame DEF HashOwed, Owners
<1>2. ASSUME NEW w \in AllPeers, NEW i \in Piece, Abstract!SenderPick(w, i)
      PROVE  Reserved' /\ HashOwed'
  <2>1. /\ AllClaims' = [AllClaims EXCEPT ![w] = @ \cup {i}] /\ AllCur' = AllCur
        /\ AllPc' = AllPc /\ Pick(AllHave[w], i)
    BY <1>2, SamePicker DEF Abstract!SenderPick
  <2>2. Reserved'
    BY <1>0, <2>1, PickReserves, ReservedPick
  <2> QED
    BY <1>0, <2>1, <2>2 DEF HashOwed, Owners
<1>3. ASSUME NEW w \in AllPeers, Abstract!SenderQuit(w) PROVE Reserved' /\ HashOwed'
  <2>1. /\ AllClaims' = AllClaims /\ AllCur' = AllCur /\ AllPc' = AllPc /\ PickNone(AllHave[w])
    BY <1>3, SamePicker DEF Abstract!SenderQuit
  <2> QED
    BY <1>0, <2>1, PickNoneKeeps, ReservedSame DEF HashOwed, Owners
<1>4. ASSUME NEW w \in AllPeers, NEW i \in Piece, Abstract!SenderFail(w, i)
      PROVE  Reserved' /\ HashOwed'
  <2>1. /\ i \in AllClaims[w] /\ AllCur' = AllCur /\ AllPc' = AllPc
        /\ inflight' = inflight \ {i} /\ endgame' = endgame
        /\ \/ /\ AllPc[w] = "hash" => i # AllCur[w]
              /\ AllClaims' = [AllClaims EXCEPT ![w] = @ \ {i}]
           \/ endgame /\ AllClaims' = AllClaims
    BY <1>4, SamePicker DEF Abstract!SenderFail, Abort
  <2>2. Reserved'
    BY <1>0, <2>1, ReservedSettle
  <2> QED
    BY <1>0, <2>1, <2>2 DEF HashOwed, Owners
<1>5. ASSUME NEW w \in AllPeers, NEW i \in Piece, Abstract!SkipDuplicate(w, i)
      PROVE  Reserved' /\ HashOwed'
  <2>1. /\ i \in AllClaims[w] /\ AllPc[w] = "read" /\ AllCur' = AllCur /\ AllPc' = AllPc
        /\ inflight' = inflight /\ endgame' = endgame
        /\ \/ AllClaims' = [AllClaims EXCEPT ![w] = @ \ {i}]
           \/ endgame /\ AllClaims' = AllClaims
    BY <1>5 DEF Abstract!SkipDuplicate, Abstract!pickerVars
  <2>2. Reserved'
    BY <1>0, <2>1, ReservedSettle
  <2> QED
    BY <1>0, <2>1, <2>2 DEF HashOwed, Owners
<1>6. ASSUME NEW w \in AllPeers, NEW i \in Piece, Abstract!PieceComplete(w, i)
      PROVE  Reserved' /\ HashOwed'
  <2>1. /\ i \in AllClaims[w] /\ AllCur' = [AllCur EXCEPT ![w] = i]
        /\ AllPc' = [AllPc EXCEPT ![w] = "hash"] /\ AllClaims' = AllClaims
        /\ inflight' = inflight /\ endgame' = endgame
    BY <1>6 DEF Abstract!PieceComplete, Abstract!pickerVars
  <2> QED
    BY <1>0, <2>1, ReservedSame DEF HashOwed, Owners
<1>7. ASSUME NEW w \in AllPeers, NEW i \in Piece, Abstract!AbortOne(w, i)
      PROVE  Reserved' /\ HashOwed'
  <2>1. /\ i \in AllClaims[w] /\ AllPc[w] = "abort" /\ AllCur' = AllCur /\ AllPc' = AllPc
        /\ inflight' = inflight \ {i} /\ endgame' = endgame
        /\ \/ AllClaims' = [AllClaims EXCEPT ![w] = @ \ {i}]
           \/ endgame /\ AllClaims' = AllClaims
    BY <1>7, SamePicker DEF Abstract!AbortOne, Abort
  <2>2. Reserved'
    BY <1>0, <2>1, ReservedSettle
  <2> QED
    BY <1>0, <2>1, <2>2 DEF HashOwed, Owners
<1>8. ASSUME NEW w \in AllPeers, Abstract!HashMismatch(w) \/ Abstract!HashMatch(w)
      PROVE  Reserved' /\ HashOwed'
  <2>1. /\ AllPc[w] = "hash" /\ AllCur' = AllCur
        /\ (AllPc' = [AllPc EXCEPT ![w] = "sendErr"] \/ AllPc' = [AllPc EXCEPT ![w] = "sendOk"])
        /\ inflight' = inflight \ {AllCur[w]} /\ endgame' = endgame
        /\ \/ AllClaims' = [AllClaims EXCEPT ![w] = @ \ {AllCur[w]}]
           \/ endgame /\ AllClaims' = AllClaims
    BY <1>8, SamePicker DEF Abstract!HashMismatch, Abstract!HashMatch, Abort, Finish
  <2>2. AllCur[w] \in AllClaims[w]
    BY <1>0, <2>1 DEF HashOwed
  <2>3. Reserved'
    BY <1>0, <2>1, <2>2, ReservedSettle
  <2> QED
    BY <1>0, <2>1, <2>3 DEF HashOwed, Owners
<1>9. ASSUME NEW w \in AllPeers, Abstract!SendResult(w) PROVE Reserved' /\ HashOwed'
  <2>1. /\ AllPc' = [AllPc EXCEPT ![w] = "read"] /\ AllCur' = [AllCur EXCEPT ![w] = NoPiece]
        /\ AllClaims' = AllClaims /\ inflight' = inflight /\ endgame' = endgame
    BY <1>9 DEF Abstract!SendResult, Abstract!Deliver, Abstract!pickerVars
  <2> QED
    BY <1>0, <2>1, ReservedSame DEF HashOwed, Owners
<1>10. ASSUME NEW w \in AllPeers, Abstract!ReadFails(w) \/ Abstract!CloseSession(w)
       PROVE  Reserved' /\ HashOwed'
  <2>1. /\ (AllPc' = [AllPc EXCEPT ![w] = "abort"] \/ AllPc' = [AllPc EXCEPT ![w] = "idle"])
        /\ AllCur' = AllCur /\ AllClaims' = AllClaims /\ inflight' = inflight
        /\ endgame' = endgame
    BY <1>10, SamePicker
    DEF Abstract!ReadFails, Abstract!CloseSession, Abstract!pickerVars, RemovePeer
  <2> QED
    BY <1>0, <2>1, ReservedSame DEF HashOwed, Owners
<1>11. CASE Abstract!TakeResult
  <2>1. /\ AllPc' = AllPc /\ AllCur' = AllCur /\ AllClaims' = AllClaims
        /\ inflight' = inflight /\ endgame' = endgame
    BY <1>11 DEF Abstract!TakeResult, Abstract!pickerVars, Abstract!sessionVars
  <2> QED
    BY <1>0, <2>1, ReservedSame DEF HashOwed, Owners
<1> QED
  BY <1>1, <1>2, <1>3, <1>4, <1>5, <1>6, <1>7, <1>8, <1>9, <1>10, <1>11
  DEF Abstract!SessionNext, Abstract!SenderStep, Abstract!ReaderStep

\* A step of another worker, seen in the abstract state.
LEMMA LiftOther ==
  ASSUME PointInv, UNCHANGED selfVars, NEW w \in Worker
  PROVE  /\ \A x : pc' = [pc EXCEPT ![w] = x] => AllPc' = [AllPc EXCEPT ![w] = x]
         /\ \A x : have' = [have EXCEPT ![w] = x] => AllHave' = [AllHave EXCEPT ![w] = x]
         /\ \A x : claims' = [claims EXCEPT ![w] = x] => AllClaims' = [AllClaims EXCEPT ![w] = x]
         /\ \A x : cur' = [cur EXCEPT ![w] = x] => AllCur' = [AllCur EXCEPT ![w] = x]
         /\ \A x : sender' = [sender EXCEPT ![w] = x] => AllSender' = [AllSender EXCEPT ![w] = x]
<1>1. /\ self \notin Worker /\ DOMAIN pc = Worker /\ DOMAIN claims = Worker
      /\ DOMAIN cur = Worker /\ DOMAIN sender = Worker /\ DOMAIN have = Worker
  BY PipelineAssumption DEF PointInv, OthersOK
<1>2. UNCHANGED <<bitfield, spc, hand, blk, jobCh, rpc, active, mine>>
  BY DEF selfVars, senderVars, readerVars
<1>3. AbsPc' = AbsPc /\ AbsClaims' = AbsClaims
  BY <1>2 DEF AbsPc, AbsClaims, Active
<1>4. ASSUME NEW x, pc' = [pc EXCEPT ![w] = x] PROVE AllPc' = [AllPc EXCEPT ![w] = x]
  BY <1>1, <1>3, <1>4 DEF AllPc, WithSelf
<1>5. ASSUME NEW x, have' = [have EXCEPT ![w] = x] PROVE AllHave' = [AllHave EXCEPT ![w] = x]
  BY <1>1, <1>2, <1>3, <1>5 DEF AllHave, WithSelf
<1>6. ASSUME NEW x, claims' = [claims EXCEPT ![w] = x] PROVE AllClaims' = [AllClaims EXCEPT ![w] = x]
  BY <1>1, <1>3, <1>6 DEF AllClaims, WithSelf
<1>7. ASSUME NEW x, cur' = [cur EXCEPT ![w] = x] PROVE AllCur' = [AllCur EXCEPT ![w] = x]
  BY <1>1, <1>2, <1>7 DEF AllCur, WithSelf
<1>8. ASSUME NEW x, sender' = [sender EXCEPT ![w] = x] PROVE AllSender' = [AllSender EXCEPT ![w] = x]
  BY <1>1, <1>2, <1>8 DEF AllSender, WithSelf
<1> QED
  BY <1>4, <1>5, <1>6, <1>7, <1>8

\* A step of another session leaves this one's part of the mapped state alone.
LEMMA LiftOthersSame ==
  ASSUME UNCHANGED selfVars
  PROVE  /\ pc' = pc => AllPc' = AllPc
         /\ have' = have => AllHave' = AllHave
         /\ claims' = claims => AllClaims' = AllClaims
         /\ cur' = cur => AllCur' = AllCur
         /\ sender' = sender => AllSender' = AllSender
<1>2. UNCHANGED <<bitfield, spc, hand, blk, jobCh, rpc, active, mine>>
  BY DEF selfVars, senderVars, readerVars
<1>3. AbsPc' = AbsPc /\ AbsClaims' = AbsClaims
  BY <1>2 DEF AbsPc, AbsClaims, Active
<1> QED
  BY <1>2, <1>3 DEF AllPc, AllHave, AllClaims, AllCur, AllSender

\* Another session's Settle is the abstract one.
LEMMA SettleLifted ==
  ASSUME PointInv, UNCHANGED selfVars, NEW w \in Worker, NEW i, Settle(w, i)
  PROVE  Abstract!Settle(w, i)
<1>1. CASE claims' = [claims EXCEPT ![w] = @ \ {i}]
  <2>1. claims' = [claims EXCEPT ![w] = claims[w] \ {i}] /\ AllClaims[w] = claims[w]
    BY <1>1, AllFacts
  <2>2. AllClaims' = [AllClaims EXCEPT ![w] = claims[w] \ {i}]
    BY <2>1, LiftOther
  <2> QED
    BY <2>1, <2>2 DEF Abstract!Settle
<1>2. CASE endgame /\ UNCHANGED claims
  BY <1>2, LiftOthersSame DEF Abstract!Settle
<1> QED
  BY <1>1, <1>2 DEF Settle

\* The abstract bitfields.
LEMMA AllBitfieldsFacts ==
  /\ \A w \in Peers : AllBitfields[w] = Bitfields[w]
  /\ AllBitfields[self] = Offers \cup {Piece}
<1>1. DOMAIN Bitfields = Peers /\ self \notin Peers
  BY WorkerAssumption, PipelineAssumption DEF Worker
<1> QED
  BY <1>1 DEF AllBitfields, WithSelf

\* The steps of the other sessions are abstract steps.
LEMMA OthersRefine ==
  ASSUME PointInv, OthersStep PROVE Abstract!SessionNext
<1>0. UNCHANGED selfVars
  BY DEF OthersStep
<1>1. CASE TakeResult
  <2>1. Abstract!TakeResult
    BY <1>0, <1>1, LiftOthersSame, SamePicker
    DEF TakeResult, sessionVars, Abstract!TakeResult, Abstract!sessionVars
  <2> QED
    BY <2>1 DEF Abstract!SessionNext
<1>2. ASSUME NEW w \in Peers, NEW offered \in Bitfields[w], OpenSession(w, offered)
      PROVE  Abstract!SessionNext
  <2>1. w \in Worker /\ w \in AllPeers
    BY DEF Worker, AllPeers
  <2>2. Abstract!OpenSession(w, offered)
    BY <1>0, <1>2, <2>1, LiftOther, LiftOthersSame, AllFacts, SamePicker, ZenonT(30)
    DEF OpenSession, Goto, Abstract!OpenSession, Abstract!Goto
  <2> QED
    BY <2>1, <2>2, AllBitfieldsFacts DEF Abstract!SessionNext
<1>3. ASSUME NEW w \in Peers, SenderStep(w) PROVE Abstract!SenderStep(w)
  <2>1. w \in Worker
    BY DEF Worker
  <2>2. ASSUME NEW i \in Piece, SenderPick(w, i) PROVE Abstract!SenderPick(w, i)
    BY <1>0, <2>1, <2>2, LiftOther, LiftOthersSame, AllFacts, SamePicker
    DEF SenderPick, Abstract!SenderPick
  <2>3. ASSUME SenderQuit(w) PROVE Abstract!SenderQuit(w)
    BY <1>0, <2>1, <2>3, LiftOther, LiftOthersSame, AllFacts, SamePicker
    DEF SenderQuit, Abstract!SenderQuit
  <2>4. ASSUME NEW i \in Piece, SenderFail(w, i) PROVE Abstract!SenderFail(w, i)
    <3>1. \/ (pc[w] = "hash" => i # cur[w]) /\ Abstract!Settle(w, i)
          \/ endgame /\ UNCHANGED AllClaims
      BY <1>0, <2>1, <2>4, SettleLifted, LiftOthersSame DEF SenderFail
    <3> QED
      BY <1>0, <2>1, <2>4, <3>1, LiftOther, LiftOthersSame, AllFacts, SamePicker
      DEF SenderFail, Abstract!SenderFail
  <2> QED
    BY <1>3, <2>2, <2>3, <2>4 DEF SenderStep, Abstract!SenderStep
<1>4. ASSUME NEW w \in Peers, ReaderStep(w) PROVE Abstract!ReaderStep(w)
  <2>1. w \in Worker
    BY DEF Worker
  <2> USE <1>0, <2>1, LiftOther, LiftOthersSame, AllFacts, SamePicker
      DEF Goto, Abstract!Goto
  <2>2. ASSUME NEW i \in Piece, SkipDuplicate(w, i) PROVE Abstract!SkipDuplicate(w, i)
    BY <2>2, SettleLifted DEF SkipDuplicate, Abstract!SkipDuplicate
  <2>3. ASSUME NEW i \in Piece, PieceComplete(w, i) PROVE Abstract!PieceComplete(w, i)
    BY <2>3, ZenonT(30) DEF PieceComplete, Abstract!PieceComplete
  <2>4. ASSUME NEW i \in Piece, AbortOne(w, i) PROVE Abstract!AbortOne(w, i)
    BY <2>4, SettleLifted DEF AbortOne, Abstract!AbortOne
  <2>5. ASSUME HashMismatch(w) PROVE Abstract!HashMismatch(w)
    BY <2>5, SettleLifted DEF HashMismatch, Abstract!HashMismatch
  <2>6. ASSUME HashMatch(w) PROVE Abstract!HashMatch(w)
    BY <2>6, SettleLifted DEF HashMatch, Abstract!HashMatch
  <2>7. ASSUME SendResult(w) PROVE Abstract!SendResult(w)
    <3>1. AllPc[w] = pc[w] /\ AllCur[w] = cur[w]
      OBVIOUS
    <3>2. /\ Len(results) < Abstract!NumPieces /\ AllPc[w] \in {"sendOk", "sendErr"}
          /\ results' = Append(results, [piece |-> AllCur[w], ok |-> AllPc[w] = "sendOk"])
      <4>1. /\ Len(results) < NumPieces /\ pc[w] \in {"sendOk", "sendErr"}
            /\ results' = Append(results, [piece |-> cur[w], ok |-> pc[w] = "sendOk"])
        BY ONLY <2>7 DEF SendResult, Deliver
      <4>2. [piece |-> cur[w], ok |-> pc[w] = "sendOk"]
              = [piece |-> AllCur[w], ok |-> AllPc[w] = "sendOk"]
        BY ONLY <3>1
      <4>3. NumPieces = Abstract!NumPieces
        BY SameNumPieces
      <4> QED
        BY ONLY <3>1, <4>1, <4>2, <4>3
    <3>3. /\ AllCur' = [AllCur EXCEPT ![w] = NoPiece] /\ AllPc' = [AllPc EXCEPT ![w] = "read"]
          /\ UNCHANGED <<AllHave, AllClaims, AllSender>> /\ UNCHANGED Abstract!pickerVars
      BY <2>7, ZenonT(30) DEF SendResult, Deliver
    <3> QED
      BY ONLY <3>2, <3>3 DEF Abstract!SendResult, Abstract!Deliver, Abstract!Goto
  <2>8. ASSUME ReadFails(w) PROVE Abstract!ReadFails(w)
    BY <2>8 DEF ReadFails, Abstract!ReadFails
  <2>9. ASSUME CloseSession(w) PROVE Abstract!CloseSession(w)
    BY <2>9 DEF CloseSession, Abstract!CloseSession
  <2> QED
    BY <1>4, <2>2, <2>3, <2>4, <2>5, <2>6, <2>7, <2>8, <2>9 DEF ReaderStep, Abstract!ReaderStep
<1> QED
  BY <1>1, <1>2, <1>3, <1>4 DEF OthersStep, AllPeers, Abstract!SessionNext

-----------------------------------------------------------------------------
(* The steps of this session. *)

\* Before endgame a piece of this session is in one place only.
Apart ==
  ~endgame =>
    /\ hand \notin Range(jobCh) \cup Held
    /\ Range(jobCh) \cap Held = {}
    /\ IsInjective(jobCh)

Offered == bitfield \in Offers \cup {Piece, NoBitfield}

\* A step of the session changes its own part of the mapped state only.
LEMMA LiftSelf ==
  ASSUME PointInv, UNCHANGED othersVars
  PROVE  /\ AllPc' = [AllPc EXCEPT ![self] = AbsPc']
         /\ AllClaims' = [AllClaims EXCEPT ![self] = AbsClaims']
         /\ AllCur' = [AllCur EXCEPT ![self] = mine']
         /\ AllSender' = [AllSender EXCEPT ![self] = (spc' # "closed")]
         /\ AllHave' = [AllHave EXCEPT ![self] = (IF AbsPc' = "idle" THEN {} ELSE bitfield')]
<1>1. /\ self \notin Worker /\ DOMAIN pc = Worker /\ DOMAIN claims = Worker
      /\ DOMAIN cur = Worker /\ DOMAIN sender = Worker /\ DOMAIN have = Worker
      /\ pc' = pc /\ claims' = claims /\ cur' = cur /\ sender' = sender /\ have' = have
  BY PipelineAssumption DEF PointInv, OthersOK, othersVars
<1>2. AllPc' = [AllPc EXCEPT ![self] = AbsPc']
  BY <1>1 DEF AllPc, WithSelf
<1>3. AllClaims' = [AllClaims EXCEPT ![self] = AbsClaims']
  BY <1>1 DEF AllClaims, WithSelf
<1>4. AllCur' = [AllCur EXCEPT ![self] = mine']
  BY <1>1 DEF AllCur, WithSelf
<1>5. AllSender' = [AllSender EXCEPT ![self] = (spc' # "closed")]
  BY <1>1 DEF AllSender, WithSelf
<1>6. AllHave' = [AllHave EXCEPT ![self] = (IF AbsPc' = "idle" THEN {} ELSE bitfield')]
  BY <1>1 DEF AllHave, WithSelf
<1> QED
  BY <1>2, <1>3, <1>4, <1>5, <1>6

\* The parts of the abstract state a step of this session leaves alone.
LEMMA LiftSelfSame ==
  ASSUME UNCHANGED othersVars
  PROVE  /\ AbsPc' = AbsPc => AllPc' = AllPc
         /\ AbsClaims' = AbsClaims => AllClaims' = AllClaims
         /\ mine' = mine => AllCur' = AllCur
         /\ (spc' # "closed") = (spc # "closed") => AllSender' = AllSender
         /\ AbsPc' = AbsPc /\ (AbsPc = "idle" \/ bitfield' = bitfield) => AllHave' = AllHave
         /\ AbsPc # "idle" /\ AbsPc' # "idle" /\ bitfield' = bitfield => AllHave' = AllHave
  BY DEF othersVars, AllPc, AllClaims, AllCur, AllSender, AllHave

\* The same after a step.
LEMMA ClaimPartsNext ==
  ASSUME SelfTypeOK'
  PROVE  AbsClaims' = ({hand'} \cap Piece) \cup Range(jobCh') \cup Held'
<1>1. Range(jobCh') = {jobCh'[k] : k \in 1..Len(jobCh')}
  BY MembersOfSeq DEF SelfTypeOK
<1> QED
  BY <1>1 DEF AbsClaims, Held, Active

\* A piece that leaves the session's claims is settled.
LEMMA SelfSettles ==
  ASSUME PointInv, UNCHANGED othersVars, NEW i,
         AbsClaims = AbsClaims' \cup {i}, i \in AbsClaims' => endgame
  PROVE  Abstract!Settle(self, i)
<1>1. AllClaims' = [AllClaims EXCEPT ![self] = AbsClaims'] /\ AllClaims[self] = AbsClaims
  BY LiftSelf, AllFacts
<1>2. CASE i \in AbsClaims'
  <2>1. AbsClaims' = AbsClaims
    BY <1>2
  <2> QED
    BY <1>2, <2>1, LiftSelfSame DEF Abstract!Settle
<1>3. CASE i \notin AbsClaims'
  <2>1. AbsClaims' = AllClaims[self] \ {i}
    BY <1>1, <1>3
  <2> QED
    BY <1>1, <2>1 DEF Abstract!Settle
<1> QED
  BY <1>2, <1>3

\* The program point of the abstract session.
LEMMA AbsPoints ==
  /\ rpc \in {"idle", "negotiate"} => AbsPc = "idle"
  /\ rpc \in {"take", "drain", "read"} => AbsPc = "read"
  /\ rpc \in {"abortActive", "abortDrain"} => AbsPc = "abort"
  /\ rpc \in Concluding => AbsPc = rpc
  /\ rpc' \in {"idle", "negotiate"} => AbsPc' = "idle"
  /\ rpc' \in {"take", "drain", "read"} => AbsPc' = "read"
  /\ rpc' \in {"abortActive", "abortDrain"} => AbsPc' = "abort"
  /\ rpc' \in Concluding => AbsPc' = rpc'
  BY DEF AbsPc, Concluding

\* Dialling, availability and unchoking are abstract steps or stutters.
LEMMA NegotiationRefines ==
  ASSUME PointInv, PointInv', Offered,
         Dial \/ HearAvailability \/ NegotiationFails \/ Unchoked
  PROVE  /\ \/ UNCHANGED <<Abstract!pickerVars, Abstract!sessionVars, results>>
            \/ Abstract!SessionNext
         /\ Offered'
<1>1. CASE Dial \/ HearAvailability \/ NegotiationFails
  <2>1. /\ rpc \in {"idle", "negotiate"} /\ rpc' \in {"idle", "negotiate"}
        /\ UNCHANGED <<pickerVars, othersVars, results, hand, spc, jobCh, active, mine>>
    BY <1>1 DEF Dial, HearAvailability, NegotiationFails, senderVars, readerVars
  <2>2. AbsClaims' = AbsClaims
    BY <2>1 DEF AbsClaims, Active
  <2>3. AbsPc = "idle" /\ AbsPc' = "idle"
    BY <2>1, AbsPoints
  <2>4. UNCHANGED <<Abstract!pickerVars, Abstract!sessionVars, results>>
    BY <2>1, <2>2, <2>3, LiftSelfSame, SamePicker DEF Abstract!sessionVars
  <2>5. Offered'
    BY <1>1 DEF Dial, HearAvailability, NegotiationFails, Offered
  <2> QED
    BY <2>4, <2>5
<1>2. CASE Unchoked
  <2> DEFINE offered == IF bitfield = NoBitfield THEN Piece ELSE bitfield
  <2>1. /\ rpc = "negotiate" /\ rpc' = "take" /\ bitfield' = offered /\ AddPeer(offered)
        /\ spc' = "pick"
        /\ UNCHANGED <<othersVars, results, hand, jobCh, active, mine>>
    BY <1>2 DEF Unchoked
  <2>2. AbsClaims' = AbsClaims
    BY <2>1 DEF AbsClaims, Active
  <2>3. AbsPc = "idle" /\ AbsPc' = "read"
    BY <2>1, AbsPoints
  <2>4. offered \in Offers \cup {Piece}
    BY DEF Offered
  <2> HIDE DEF offered
  <2>5. Abstract!OpenSession(self, offered)
    BY <2>1, <2>2, <2>3, LiftSelf, LiftSelfSame, AllFacts, SamePicker
    DEF Abstract!OpenSession, Abstract!Goto
  <2>6. self \in AllPeers /\ offered \in AllBitfields[self]
    BY <2>4, AllBitfieldsFacts DEF AllPeers
  <2> QED
    BY <2>1, <2>4, <2>5, <2>6 DEF Abstract!SessionNext, Offered
<1> QED
  BY <1>1, <1>2

\* The sender's steps are abstract steps or stutters.
LEMMA SenderRefines ==
  ASSUME PointInv, PointInv', Reserved, Apart, SenderNext \/ SWriteFails
  PROVE  /\ \/ UNCHANGED <<Abstract!pickerVars, Abstract!sessionVars, results>>
            \/ Abstract!SessionNext
         /\ Apart'
<1>1. /\ SelfTypeOK /\ SelfTypeOK' /\ PickerTypeOK /\ self \in AllPeers /\ self \in Owners
      /\ jobCh \in Seq(Piece) /\ NoPiece \notin Piece
  BY WorkerAssumption DEF PointInv, SelfTypeOK, AllPeers, Owners
<1>2. UNCHANGED <<othersVars, results, bitfield, rpc, active, mine>>
  BY DEF SenderNext, SPick, SQuit, SWrite, SFlush, SEnqueue, SWriteFails, readerVars
<1>3. AbsPc' = AbsPc /\ Held' = Held
  BY <1>2 DEF AbsPc, Held, Active
<1>4. /\ AbsClaims = ({hand} \cap Piece) \cup Range(jobCh) \cup Held
      /\ AbsClaims' = ({hand'} \cap Piece) \cup Range(jobCh') \cup Held
      /\ Range(jobCh) \subseteq Piece /\ Held \subseteq Piece
  BY <1>1, <1>3, ClaimParts, ClaimPartsNext, MembersOfSeq DEF Held, Active
<1>5. AllPc' = AllPc /\ AllHave' = AllHave /\ AllCur' = AllCur
  BY <1>2, <1>3, LiftSelfSame
<1>6. ASSUME NEW i \in Piece, SPick(i)
      PROVE  Abstract!SenderPick(self, i) /\ Apart'
  <2>1. spc = "pick" /\ Pick(bitfield, i) /\ hand' = i /\ spc' = "write" /\ jobCh' = jobCh
    BY <1>6 DEF SPick
  <2>2. hand \notin Piece /\ rpc \notin {"idle", "negotiate"}
    BY <2>1 DEF PointInv, Points
  <2>3. AbsPc # "idle"
    BY <1>1, <2>2, AbsPoints DEF SelfTypeOK, Concluding
  <2>4. AbsClaims' = AbsClaims \cup {i}
    BY <1>4, <2>1, <2>2
  <2>5. /\ AllClaims' = [AllClaims EXCEPT ![self] = AllClaims[self] \cup {i}]
        /\ AllHave[self] = bitfield /\ AllSender[self] /\ AllSender' = AllSender
    BY <1>2, <2>1, <2>3, <2>4, LiftSelf, LiftSelfSame, AllFacts
  <2>6. Abstract!SenderPick(self, i)
    BY <1>2, <1>5, <2>1, <2>5, SamePicker DEF Abstract!SenderPick
  <2>7. ~endgame' => ~endgame /\ i \notin inflight
    BY <1>1, <2>1, PickReserves
  <2>8. ~endgame' => ~endgame /\ i \notin AbsClaims
    BY <1>1, <2>7, AllFacts DEF Reserved
  <2>9. Apart'
    BY <1>3, <1>4, <2>1, <2>8 DEF Apart
  <2> QED
    BY <2>6, <2>9
<1>7. CASE SQuit
  <2>1. spc = "pick" /\ PickNone(bitfield) /\ spc' = "closed" /\ hand' = hand /\ jobCh' = jobCh
    BY <1>7 DEF SQuit
  <2>2. rpc \notin {"idle", "negotiate"}
    BY <2>1 DEF PointInv, Points
  <2>3. AbsPc # "idle"
    BY <1>1, <2>2, AbsPoints DEF SelfTypeOK, Concluding
  <2>4. AbsClaims' = AbsClaims
    BY <1>4, <2>1
  <2>5. /\ AllClaims' = AllClaims /\ AllHave[self] = bitfield /\ AllSender[self]
        /\ AllSender' = [AllSender EXCEPT ![self] = FALSE]
    BY <1>2, <2>1, <2>3, <2>4, LiftSelf, LiftSelfSame, AllFacts
  <2>6. Abstract!SenderQuit(self)
    BY <1>2, <1>5, <2>1, <2>5, SamePicker DEF Abstract!SenderQuit
  <2>7. Apart'
    BY <1>1, <1>3, <2>1, PickNoneKeeps DEF Apart
  <2> QED
    BY <1>1, <2>6, <2>7 DEF Abstract!SessionNext, Abstract!SenderStep
<1>8. CASE SWriteFails
  <2>1. /\ spc = "write" /\ Abort(hand) /\ spc' = "closed" /\ hand' = NoPiece /\ jobCh' = jobCh
        /\ endgame' = endgame
    BY <1>8 DEF SWriteFails, Abort
  <2>2. hand \in Piece
    BY <2>1 DEF PointInv, Points
  <2>3. AbsClaims' = Range(jobCh) \cup Held /\ AbsClaims = AbsClaims' \cup {hand}
    BY <1>1, <1>4, <2>1, <2>2
  <2>4. hand \in AbsClaims' => endgame
    BY <2>3 DEF Apart
  <2>5. Abstract!Settle(self, hand)
    BY <1>2, <2>3, <2>4, SelfSettles
  <2>6. AllPc[self] = "hash" /\ hand = AllCur[self] => hand \in AbsClaims'
    <3>1. ASSUME AbsPc = "hash", hand = mine PROVE hand \in Held
      <4>1. rpc = "hash"
        BY <1>1, <3>1, AbsPoints DEF SelfTypeOK, Concluding
      <4> QED
        BY <3>1, <4>1 DEF PointInv, Points, Concluding, Held
    <3> QED
      BY <2>3, <3>1, AllFacts
  <2>7. \/ (AllPc[self] = "hash" => hand # AllCur[self]) /\ Abstract!Settle(self, hand)
        \/ endgame /\ UNCHANGED AllClaims
    <3>1. CASE hand \in AbsClaims'
      <4>1. AbsClaims' = AbsClaims
        BY <2>3, <3>1
      <4> QED
        BY <1>2, <2>4, <3>1, <4>1, LiftSelfSame
    <3> QED
      BY <2>5, <2>6, <3>1
  <2>8. /\ hand \in AllClaims[self] /\ AllSender[self]
        /\ AllSender' = [AllSender EXCEPT ![self] = FALSE]
    BY <1>2, <2>1, <2>3, LiftSelf, AllFacts
  <2>9. Abstract!SenderFail(self, hand)
    BY <1>2, <1>5, <2>1, <2>7, <2>8, SamePicker DEF Abstract!SenderFail
  <2>10. Apart'
    BY <1>1, <1>3, <1>4, <2>1 DEF Apart
  <2> QED
    BY <1>1, <2>2, <2>9, <2>10 DEF Abstract!SessionNext, Abstract!SenderStep
<1>9. CASE SWrite \/ SFlush \/ SEnqueue
  <2>1. UNCHANGED pickerVars /\ spc # "closed" /\ spc' # "closed"
    BY <1>9 DEF SWrite, SFlush, SEnqueue
  <2>2. AbsClaims' = AbsClaims /\ Apart'
    <3>1. CASE SWrite \/ SFlush
      BY <1>3, <1>4, <2>1, <3>1 DEF SWrite, SFlush, Apart, pickerVars
    <3>2. CASE SEnqueue
      <4>1. hand \in Piece /\ jobCh' = Append(jobCh, hand) /\ hand' = NoPiece
        BY <3>2 DEF SEnqueue, PointInv, Points
      <4>2. /\ Range(jobCh') = Range(jobCh) \cup {hand}
            /\ IsInjective(jobCh) /\ hand \notin Range(jobCh) => IsInjective(jobCh')
        BY <1>1, <4>1, AppendFacts
      <4>3. AbsClaims' = AbsClaims
        BY <1>1, <1>4, <4>1, <4>2
      <4>4. Apart'
        BY <1>1, <1>3, <1>4, <2>1, <4>1, <4>2 DEF Apart, pickerVars
      <4> QED
        BY <4>3, <4>4
    <3> QED
      BY <1>9, <3>1, <3>2
  <2> QED
    BY <1>2, <1>5, <2>1, <2>2, LiftSelfSame, SamePicker DEF Abstract!sessionVars
<1> QED
  BY <1>1, <1>6, <1>7, <1>8, <1>9 DEF SenderNext, Abstract!SessionNext, Abstract!SenderStep

\* The reader's steps are abstract steps or stutters.
LEMMA ReaderRefines ==
  ASSUME PointInv, PointInv', Apart, Offered, ReaderNext \/ RIgnore \/ RFails
  PROVE  /\ \/ UNCHANGED <<Abstract!pickerVars, Abstract!sessionVars, results>>
            \/ Abstract!SessionNext
         /\ Apart' /\ Offered'
<1>1. /\ SelfTypeOK /\ SelfTypeOK' /\ PickerTypeOK /\ self \in AllPeers /\ self \in Owners
      /\ jobCh \in Seq(Piece) /\ active \in [Piece -> Job \cup {NoJob}] /\ NoPiece \notin Piece
  BY WorkerAssumption DEF PointInv, SelfTypeOK, AllPeers, Owners
<1>2. UNCHANGED <<othersVars, spc, hand>>
  BY DEF ReaderNext, RTake, RFinished, RDrain, RDrained, RBlock, RHash, RSend, RAbortActive,
         RAbortQueued, RAborted, EndSession, RIgnore, RFails, senderVars
<1>3. AllSender' = AllSender
  BY <1>2, LiftSelfSame
<1>4. /\ AbsClaims = ({hand} \cap Piece) \cup Range(jobCh) \cup Held
      /\ AbsClaims' = ({hand} \cap Piece) \cup Range(jobCh') \cup Held'
      /\ Range(jobCh) \subseteq Piece /\ Held \subseteq Piece
  BY <1>1, <1>2, ClaimParts, ClaimPartsNext, MembersOfSeq DEF Held, Active
<1>5. /\ rpc \notin {"sendOk", "sendErr"} => Held = Active
      /\ rpc' \notin {"sendOk", "sendErr"} => Held' = Active'
  BY DEF Held, Active
<1>6. ASSUME AbsPc' = AbsPc, Held' = Held,
             UNCHANGED <<pickerVars, results, bitfield, jobCh, mine>>
      PROVE  /\ UNCHANGED <<Abstract!pickerVars, Abstract!sessionVars, results>>
             /\ Apart' /\ Offered'
  <2>1. AbsClaims' = AbsClaims
    BY <1>4, <1>6
  <2>2. Apart' /\ Offered'
    BY <1>2, <1>6 DEF Apart, Offered, pickerVars
  <2> QED
    BY <1>2, <1>3, <1>6, <2>1, <2>2, LiftSelfSame, SamePicker DEF Abstract!sessionVars
<1>7. CASE Register /\ rpc \in {"take", "drain"} /\ rpc' \in {"take", "drain"}
           /\ UNCHANGED <<pickerVars, results, bitfield, mine>>
  <2>1. /\ Active' = Active \cup {Head(jobCh)} /\ jobCh # <<>> /\ jobCh' = Tail(jobCh)
    BY <1>1, <1>7, RegisterEffect
  <2>2. Range(jobCh) = {Head(jobCh)} \cup Range(jobCh')
    BY <1>1, <2>1, HeadTailFacts
  <2>3. Held = Active /\ Held' = Active' /\ AbsPc' = AbsPc
    BY <1>5, <1>7, AbsPoints
  <2>4. AbsClaims' = AbsClaims
    BY <1>4, <2>1, <2>2, <2>3
  <2>5. IsInjective(jobCh) => /\ Range(jobCh') = Range(jobCh) \ {Head(jobCh)}
                              /\ IsInjective(jobCh')
    BY <1>1, <2>1, TailFacts
  <2>6. endgame' = endgame
    BY <1>7 DEF pickerVars
  <2>7. Apart'
    BY <1>2, <2>1, <2>2, <2>3, <2>5, <2>6 DEF Apart
  <2>8. Offered'
    BY <1>7 DEF Offered
  <2> QED
    BY <1>2, <1>3, <1>7, <2>3, <2>4, <2>7, <2>8, LiftSelfSame, SamePicker
    DEF Abstract!sessionVars
<1>8. CASE RTake \/ RDrain
  <2>1. /\ rpc \in {"take", "drain"} /\ rpc' \in {"take", "drain"}
        /\ UNCHANGED <<pickerVars, results, bitfield, mine>>
        /\ Register \/ UNCHANGED <<active, jobCh>>
    BY <1>8 DEF RTake, RDrain
  <2>2. CASE UNCHANGED <<active, jobCh>>
    <3>1. Held' = Held /\ AbsPc' = AbsPc
      BY <2>1, <2>2, AbsPoints DEF Held, Active
    <3> QED
      BY <1>6, <2>1, <2>2, <3>1
  <2> QED
    BY <1>7, <2>1, <2>2
<1>9. CASE RDrained \/ RIgnore
  <2>1. /\ rpc \in {"drain", "read"} /\ rpc' \in {"read", "take"}
        /\ UNCHANGED <<pickerVars, results, bitfield, jobCh, mine, active>>
    BY <1>9 DEF RDrained, RIgnore
  <2>2. Held' = Held /\ AbsPc' = AbsPc
    BY <2>1, AbsPoints DEF Held, Active
  <2> QED
    BY <1>6, <2>1, <2>2
<1>10. CASE RFails
  <2>1. /\ rpc = "read" /\ rpc' = "abortActive"
        /\ UNCHANGED <<pickerVars, results, bitfield, jobCh, mine, active>>
    BY <1>10 DEF RFails
  <2>2. Held' = Held /\ Held = Active /\ Active # {} /\ AbsPc = "read" /\ AbsPc' = "abort"
    BY <2>1, AbsPoints DEF Held, Active, PointInv, Points
  <2>3. AbsClaims' = AbsClaims /\ AbsClaims # {}
    BY <1>4, <2>1, <2>2
  <2>4. /\ AllPc' = [AllPc EXCEPT ![self] = "abort"]
        /\ AllPc[self] = "read" /\ AllHave[self] = bitfield /\ AllClaims[self] # {}
        /\ AllClaims' = AllClaims /\ AllCur' = AllCur
    BY <1>2, <2>1, <2>2, <2>3, LiftSelf, LiftSelfSame, AllFacts
  <2>5. AllHave' = AllHave
    BY <1>2, <2>1, <2>2, LiftSelfSame
  <2>6. Abstract!ReadFails(self)
    BY <1>3, <2>1, <2>4, <2>5, SamePicker DEF Abstract!ReadFails, Abstract!Goto
  <2>7. Apart' /\ Offered'
    BY <1>2, <2>1, <2>2 DEF Apart, Offered, pickerVars
  <2> QED
    BY <1>1, <2>6, <2>7 DEF Abstract!SessionNext, Abstract!ReaderStep
<1>11. CASE RFinished \/ RAborted
  <2>1. /\ rpc \in {"take", "abortDrain"} /\ jobCh = <<>> /\ spc = "closed" /\ Active = {}
        /\ RemovePeer(bitfield) /\ rpc' = "idle" /\ bitfield' = NoBitfield
        /\ UNCHANGED <<results, jobCh, active, mine, endgame>>
    BY <1>11 DEF RFinished, RAborted, EndSession, PointInv, Points, RemovePeer
  <2>2. Held' = {} /\ Held = {} /\ AbsPc \in {"read", "abort"} /\ AbsPc' = "idle"
    BY <2>1, AbsPoints DEF Held, Active
  <2>3. hand \notin Piece
    BY <2>1 DEF PointInv, Points
  <2>4. AbsClaims' = AbsClaims /\ AbsClaims = {}
    BY <1>4, <2>1, <2>2, <2>3, EmptyFacts
  <2>5. /\ AllPc' = [AllPc EXCEPT ![self] = "idle"] /\ AllHave' = [AllHave EXCEPT ![self] = {}]
        /\ AllPc[self] \in {"read", "abort"} /\ AllHave[self] = bitfield
        /\ AllClaims[self] = {} /\ AllClaims' = AllClaims /\ AllCur' = AllCur /\ ~AllSender[self]
    BY <1>2, <2>1, <2>2, <2>4, LiftSelf, LiftSelfSame, AllFacts
  <2>6. Abstract!CloseSession(self)
    BY <1>3, <2>1, <2>5, SamePicker DEF Abstract!CloseSession, Abstract!Goto
  <2>7. Apart' /\ Offered'
    BY <1>2, <2>1, <2>2 DEF Apart, Offered
  <2> QED
    BY <1>1, <2>6, <2>7 DEF Abstract!SessionNext, Abstract!ReaderStep
<1>12. ASSUME NEW i \in Piece, Held = Held' \cup {i}, i \notin Held', UNCHANGED jobCh
       PROVE  /\ AbsClaims = AbsClaims' \cup {i} /\ i \in AbsClaims
              /\ i \in AbsClaims' => endgame
  <2>1. AbsClaims = AbsClaims' \cup {i} /\ i \in AbsClaims
    BY <1>4, <1>12
  <2>2. i \in AbsClaims' => i = hand \/ i \in Range(jobCh)
    BY <1>4, <1>12
  <2> QED
    BY <1>12, <2>1, <2>2 DEF Apart
<1>13. ASSUME Held' \subseteq Held, UNCHANGED <<jobCh, endgame>> PROVE Apart'
  BY <1>2, <1>13 DEF Apart
<1>14. CASE RHash
  <2>1. /\ rpc = "hash" /\ mine \in Active /\ mine \in Piece
        /\ UNCHANGED <<results, bitfield, jobCh, mine, active>>
        /\ \/ Finish(mine) /\ rpc' = "sendOk"
           \/ Abort(mine) /\ rpc' = "sendErr"
    BY <1>14 DEF RHash, PointInv, Points, Concluding, Active
  <2>2. Held = Active /\ Held' = Active \ {mine} /\ AbsPc = "hash" /\ AbsPc' = rpc'
    BY <2>1, AbsPoints DEF Held, Active, Concluding
  <2>3. Abstract!Settle(self, mine)
    <3>1. Held = Held' \cup {mine} /\ mine \notin Held'
      BY <2>1, <2>2
    <3> QED
      BY <1>2, <1>12, <2>1, <3>1, SelfSettles
  <2>4. /\ AllPc' = [AllPc EXCEPT ![self] = rpc']
        /\ AllPc[self] = "hash" /\ AllHave[self] = bitfield /\ AllCur' = AllCur
        /\ AllCur[self] = mine
    BY <1>2, <2>1, <2>2, LiftSelf, LiftSelfSame, AllFacts
  <2>5. AllHave' = AllHave
    BY <1>2, <2>1, <2>2, LiftSelfSame
  <2>6. Abstract!HashMatch(self) \/ Abstract!HashMismatch(self)
    BY <1>3, <2>1, <2>3, <2>4, <2>5, SamePicker
    DEF Abstract!HashMatch, Abstract!HashMismatch, Abstract!Goto
  <2>7. Apart' /\ Offered'
    BY <1>13, <2>1, <2>2 DEF Offered, Finish, Abort
  <2> QED
    BY <1>1, <2>6, <2>7 DEF Abstract!SessionNext, Abstract!ReaderStep
<1>15. CASE RSend
  <2>1. /\ rpc \in {"sendOk", "sendErr"} /\ Len(results) < NumPieces /\ mine \in Piece
        /\ results' = Append(results, [piece |-> mine, ok |-> rpc = "sendOk"])
        /\ active' = [active EXCEPT ![mine] = NoJob] /\ mine' = NoPiece /\ rpc' = "take"
        /\ UNCHANGED <<pickerVars, bitfield, jobCh>>
    BY <1>15 DEF RSend, PointInv, Points, Concluding, Active
  <2>2. Held' = Held /\ AbsPc = rpc /\ AbsPc' = "read"
    BY <1>1, <2>1, AbsPoints DEF Held, Active, Concluding
  <2>3. AbsClaims' = AbsClaims
    BY <1>4, <2>1, <2>2
  <2>4. /\ AllPc' = [AllPc EXCEPT ![self] = "read"]
        /\ AllPc[self] = rpc /\ AllHave[self] = bitfield /\ AllClaims' = AllClaims
        /\ AllCur' = [AllCur EXCEPT ![self] = NoPiece] /\ AllCur[self] = mine
    BY <1>2, <2>1, <2>2, <2>3, LiftSelf, LiftSelfSame, AllFacts
  <2>5. AllHave' = AllHave
    BY <1>2, <2>1, <2>2, LiftSelfSame
  <2>6. results' = Append(results, [piece |-> AllCur[self], ok |-> AllPc[self] = "sendOk"])
    <3>1. [piece |-> mine, ok |-> rpc = "sendOk"]
            = [piece |-> AllCur[self], ok |-> AllPc[self] = "sendOk"]
      BY <2>4
    <3> QED
      BY <2>1, <3>1
  <2>7. Abstract!SendResult(self)
    BY <1>3, <2>1, <2>4, <2>5, <2>6, SamePicker, SameNumPieces
    DEF Abstract!SendResult, Abstract!Deliver, Abstract!Goto
  <2>8. Apart' /\ Offered'
    BY <1>13, <2>1, <2>2 DEF Offered, pickerVars
  <2> QED
    BY <1>1, <2>7, <2>8 DEF Abstract!SessionNext, Abstract!ReaderStep
<1>16. CASE RAbortActive
  <2>1. /\ rpc = "abortActive" /\ UNCHANGED <<results, bitfield, jobCh, mine>>
    BY <1>16 DEF RAbortActive
  <2>2. ASSUME NEW i \in Active, Abort(i), active' = [active EXCEPT ![i] = NoJob], rpc' = rpc
        PROVE  Abstract!AbortOne(self, i) /\ Apart'
    <3>1. /\ Held = Active /\ Held' = Active \ {i} /\ AbsPc = "abort" /\ AbsPc' = "abort"
          /\ i \in Piece
      BY <1>1, <2>1, <2>2, AbsPoints DEF Held, Active
    <3>2. AbsClaims = AbsClaims' \cup {i} /\ i \in AbsClaims /\ (i \in AbsClaims' => endgame)
      BY <1>12, <2>1, <3>1
    <3>3. Abstract!Settle(self, i)
      BY <1>2, <3>2, SelfSettles
    <3>4. /\ AllPc' = AllPc /\ AllHave' = AllHave /\ AllCur' = AllCur
          /\ AllPc[self] = "abort" /\ i \in AllClaims[self]
      BY <1>2, <2>1, <3>1, <3>2, LiftSelfSame, AllFacts
    <3>5. Apart'
      BY <1>13, <2>1, <2>2, <3>1 DEF Abort
    <3> QED
      BY <1>3, <2>1, <2>2, <3>3, <3>4, <3>5, SamePicker DEF Abstract!AbortOne
  <2>3. CASE Active = {} /\ rpc' = "abortDrain" /\ UNCHANGED <<pickerVars, active>>
    <3>1. Held' = Held /\ AbsPc' = AbsPc
      BY <2>1, <2>3, AbsPoints DEF Held, Active
    <3> QED
      BY <1>6, <2>1, <2>3, <3>1
  <2>4. (\E i \in Active : Abstract!AbortOne(self, i) /\ Apart') => Abstract!SessionNext /\ Apart'
    BY <1>1 DEF Abstract!SessionNext, Abstract!ReaderStep, Active
  <2> QED
    BY <1>16, <2>1, <2>2, <2>3, <2>4 DEF RAbortActive, Offered
<1>17. CASE RAbortQueued
  <2> DEFINE i == Head(jobCh)
  <2>1. /\ rpc = "abortDrain" /\ rpc' = rpc /\ jobCh # <<>> /\ Abort(i) /\ jobCh' = Tail(jobCh)
        /\ UNCHANGED <<results, bitfield, mine, active>>
    BY <1>17 DEF RAbortQueued, readerVars
  <2>2. /\ i \in Piece /\ Range(jobCh) = {i} \cup Range(jobCh')
    BY <1>1, <2>1, HeadTailFacts
  <2>3. IsInjective(jobCh) => Range(jobCh') = Range(jobCh) \ {i} /\ IsInjective(jobCh')
    BY <1>1, <2>1, TailFacts
  <2> HIDE DEF i
  <2>4. Held' = Held /\ AbsPc = "abort" /\ AbsPc' = "abort"
    BY <2>1, AbsPoints DEF Held, Active
  <2>5. AbsClaims = AbsClaims' \cup {i} /\ i \in AbsClaims
    BY <1>4, <2>2, <2>4
  <2>6. i \in AbsClaims' => endgame
    BY <1>4, <2>2, <2>3, <2>4 DEF Apart
  <2>7. Abstract!Settle(self, i)
    BY <1>2, <2>5, <2>6, SelfSettles
  <2>8. /\ AllPc' = AllPc /\ AllHave' = AllHave /\ AllCur' = AllCur
        /\ AllPc[self] = "abort" /\ i \in AllClaims[self]
    BY <1>2, <2>1, <2>4, <2>5, LiftSelfSame, AllFacts
  <2>9. Abstract!AbortOne(self, i)
    BY <1>3, <2>1, <2>7, <2>8, SamePicker DEF Abstract!AbortOne
  <2>10. Apart' /\ Offered'
    BY <1>2, <2>1, <2>2, <2>3, <2>4 DEF Apart, Offered, Abort
  <2> QED
    BY <1>1, <2>2, <2>9, <2>10 DEF Abstract!SessionNext, Abstract!ReaderStep
<1>18. CASE RBlock
  <2> DEFINE i == Head(wire)[1]
             b == Head(wire)[2]
  <2>1. /\ rpc = "read" /\ wire # <<>> /\ (Ignored(i) \/ Stored(i, b))
        /\ UNCHANGED <<pickerVars, results, bitfield, jobCh>>
    BY <1>18, BlockEffect
  <2>2. i \in Piece
    BY <1>1, <2>1, WireHead
  <2> HIDE DEF i, b
  <2>3. Held = Active /\ AbsPc = "read" /\ AllPc[self] = "read" /\ AllHave[self] = bitfield
    BY <1>5, <2>1, AbsPoints, AllFacts
  <2>4. Offered' /\ endgame' = endgame
    BY <2>1 DEF Offered, pickerVars
  <2>5. ASSUME Active' = Active, rpc' = "take", mine' = mine
        PROVE  /\ UNCHANGED <<Abstract!pickerVars, Abstract!sessionVars, results>>
               /\ Apart'
    BY <1>5, <1>6, <2>1, <2>3, <2>5, AbsPoints
  <2>6. CASE Ignored(i)
    BY <2>4, <2>5, <2>6 DEF Ignored, Active
  <2>7. CASE Stored(i, b)
    <3>1. PICK j \in Job :
            \/ active' = [active EXCEPT ![i] = j] /\ rpc' = "take" /\ UNCHANGED mine
            \/ /\ IsDone(i) /\ active' = [active EXCEPT ![i] = NoJob]
               /\ rpc' = "take" /\ UNCHANGED mine
            \/ ~IsDone(i) /\ active' = [active EXCEPT ![i] = j] /\ rpc' = "hash" /\ mine' = i
      BY <2>7 DEF Stored
    <3>2. i \in Active /\ j # NoJob
      BY <2>2, <2>7, PipelineAssumption DEF Stored, Active
    <3>3. active' = [active EXCEPT ![i] = j] => Active' = Active
      BY <1>1, <2>2, <3>2 DEF Active
    <3>4. CASE /\ IsDone(i) /\ active' = [active EXCEPT ![i] = NoJob]
               /\ rpc' = "take" /\ UNCHANGED mine
      <4>1. Held' = Active \ {i} /\ AbsPc' = "read"
        BY <1>1, <1>5, <2>2, <3>4, AbsPoints DEF Active
      <4>2. AbsClaims = AbsClaims' \cup {i} /\ i \in AbsClaims /\ (i \in AbsClaims' => endgame)
        BY <1>12, <2>1, <2>2, <2>3, <3>2, <4>1
      <4>3. Abstract!Settle(self, i)
        BY <1>2, <4>2, SelfSettles
      <4>4. /\ AllPc' = AllPc /\ AllHave' = AllHave /\ AllCur' = AllCur /\ i \in AllClaims[self]
        BY <1>2, <2>1, <2>3, <3>4, <4>1, <4>2, LiftSelfSame, AllFacts
      <4>5. Abstract!SkipDuplicate(self, i)
        BY <1>3, <2>1, <2>3, <3>4, <4>3, <4>4, SamePicker DEF Abstract!SkipDuplicate
      <4>6. Apart'
        BY <1>13, <2>1, <2>3, <2>4, <4>1
      <4> QED
        BY <1>1, <2>2, <2>4, <4>5, <4>6 DEF Abstract!SessionNext, Abstract!ReaderStep
    <3>5. CASE ~IsDone(i) /\ active' = [active EXCEPT ![i] = j] /\ rpc' = "hash" /\ mine' = i
      <4>1. Held' = Held /\ AbsPc' = "hash"
        BY <1>5, <2>3, <3>3, <3>5, AbsPoints DEF Concluding
      <4>2. AbsClaims' = AbsClaims /\ i \in AbsClaims
        BY <1>4, <2>1, <2>3, <3>2, <4>1
      <4>3. /\ AllPc' = [AllPc EXCEPT ![self] = "hash"]
            /\ AllCur' = [AllCur EXCEPT ![self] = i] /\ AllClaims' = AllClaims
            /\ i \in AllClaims[self]
        BY <1>2, <2>1, <3>5, <4>1, <4>2, LiftSelf, LiftSelfSame, AllFacts
      <4>4. AllHave' = AllHave
        BY <1>2, <2>1, <2>3, <4>1, LiftSelfSame
      <4>5. Abstract!PieceComplete(self, i)
        BY <1>3, <2>1, <2>3, <3>5, <4>3, <4>4, SamePicker
        DEF Abstract!PieceComplete, Abstract!Goto
      <4>6. Apart'
        BY <1>13, <2>1, <2>4, <4>1
      <4> QED
        BY <1>1, <2>2, <2>4, <4>5, <4>6 DEF Abstract!SessionNext, Abstract!ReaderStep
    <3> QED
      BY <2>4, <2>5, <3>1, <3>3, <3>4, <3>5
  <2> QED
    BY <2>1, <2>6, <2>7
<1> QED
  BY <1>8, <1>9, <1>10, <1>11, <1>14, <1>15, <1>16, <1>17, <1>18 DEF ReaderNext

\* Endgame is never left.
LEMMA OthersKeepEndgame ==
  ASSUME PickerTypeOK, OthersStep PROVE ~endgame' => ~endgame
<1>1. \/ \E B : AddPeer(B) \/ RemovePeer(B) \/ PickNone(B)
      \/ \E B, i : Pick(B, i)
      \/ \E i : Finish(i) \/ Abort(i)
      \/ UNCHANGED pickerVars
  BY DEF OthersStep, TakeResult, OpenSession, SenderStep, ReaderStep, SenderPick, SenderQuit,
         SenderFail, SkipDuplicate, PieceComplete, AbortOne, HashMismatch, HashMatch,
         SendResult, Deliver, ReadFails, CloseSession
<1> QED
  BY <1>1 DEF AddPeer, RemovePeer, PickNone, Pick, Finish, Abort, pickerVars, PickerTypeOK

\* The refinement, step by step: two goroutines, a job channel and a wire do
\* what Session.tla says of a session, whatever the other workers do.  Only the
\* reservations before endgame need an invariant: the abstract session settles
\* one when the code drops one of several places that hold it.
THEOREM SessionImplemented == Spec => ImplementsSession
<1> DEFINE SessionInv == Reserved /\ HashOwed /\ Apart /\ Offered
<1>1. ASSUME Init PROVE Abstract!SessionInit /\ SessionInv
  <2>1. /\ NewPicker /\ results = <<>> /\ spc = "closed" /\ hand = NoPiece /\ jobCh = <<>>
        /\ rpc = "idle" /\ mine = NoPiece /\ bitfield = NoBitfield /\ Active = {}
        /\ pc = [w \in Worker |-> "idle"] /\ have = [w \in Worker |-> {}]
        /\ claims = [w \in Worker |-> {}] /\ cur = [w \in Worker |-> NoPiece]
        /\ sender = [w \in Worker |-> FALSE]
    BY <1>1 DEF Init, SessionInit, Active
  <2>2. AbsPc = "idle" /\ Held = {}
    BY <2>1, AbsPoints DEF Held
  <2>3. AbsClaims = {}
    BY <1>1, <2>1, <2>2, PointInit, ClaimParts, EmptyFacts, WorkerAssumption DEF PointInv
  <2>4. Abstract!Worker = Owners /\ self \notin Worker
    BY PipelineAssumption DEF Abstract!Worker, Owners, Worker, AllPeers
  <2>5. /\ AllPc = [w \in Owners |-> "idle"] /\ AllHave = [w \in Owners |-> {}]
        /\ AllClaims = [w \in Owners |-> {}] /\ AllCur = [w \in Owners |-> NoPiece]
    BY <2>1, <2>2, <2>3, <2>4 DEF AllPc, AllHave, AllClaims, AllCur, WithSelf, Owners
  <2>6. AllSender = [w \in Owners |-> FALSE]
    BY <2>1, <2>4 DEF AllSender, WithSelf, Owners
  <2>7. Abstract!NewPicker
    BY <2>1 DEF NewPicker, Abstract!NewPicker
  <2>8. Reserved /\ HashOwed
    BY <2>5 DEF Reserved, HashOwed
  <2>9. Apart /\ Offered
    BY <2>1, <2>2, EmptyFacts DEF Apart, Offered
  <2> QED
    BY <2>1, <2>4, <2>5, <2>6, <2>7, <2>8, <2>9 DEF Abstract!SessionInit
<1>2. ASSUME PointInv, SessionInv, [Next]_vars
      PROVE  /\ [Abstract!SessionNext]_<<Abstract!pickerVars, Abstract!sessionVars, results>>
             /\ SessionInv'
  <2> DEFINE Refined ==
        /\ [Abstract!SessionNext]_<<Abstract!pickerVars, Abstract!sessionVars, results>>
        /\ Apart' /\ Offered'
  <2>1. PointInv'
    BY <1>2, PointStep
  <2>2. ASSUME UNCHANGED vars PROVE Refined
    <3>1. /\ UNCHANGED <<pickerVars, othersVars, results, bitfield, spc, hand, jobCh, rpc, active, mine>>
      BY <2>2 DEF vars, senderVars, readerVars
    <3>2. AbsPc' = AbsPc /\ AbsClaims' = AbsClaims /\ Held' = Held
      BY <3>1 DEF AbsPc, AbsClaims, Held, Active
    <3>3. UNCHANGED <<Abstract!pickerVars, Abstract!sessionVars, results>>
      BY <3>1, <3>2, LiftSelfSame, SamePicker DEF Abstract!sessionVars
    <3>4. Apart' /\ Offered'
      BY <1>2, <3>1, <3>2 DEF Apart, Offered, pickerVars
    <3> QED
      BY <3>3, <3>4
  <2>3. ASSUME Dial \/ HearAvailability \/ NegotiationFails \/ Unchoked PROVE Refined
    <3>1. UNCHANGED <<endgame, hand, jobCh, active>> /\ Held = Active /\ Held' = Active'
      BY <2>3 DEF Dial, HearAvailability, NegotiationFails, Unchoked, AddPeer, pickerVars,
                  senderVars, readerVars, Held, Active
    <3>2. Apart'
      BY <1>2, <3>1 DEF Apart, Active
    <3> QED
      BY <1>2, <2>1, <2>3, <3>2, NegotiationRefines
  <2>4. ASSUME SenderNext \/ SWriteFails PROVE Refined
    <3>1. Offered'
      BY <1>2, <2>4 DEF SenderNext, SPick, SQuit, SWrite, SFlush, SEnqueue, SWriteFails, Offered
    <3> QED
      BY <1>2, <2>1, <2>4, <3>1, SenderRefines
  <2>5. ASSUME ReaderNext \/ RIgnore \/ RFails PROVE Refined
    BY <1>2, <2>1, <2>5, ReaderRefines
  <2>6. ASSUME OthersStep PROVE Refined
    <3>1. UNCHANGED <<bitfield, hand, jobCh, rpc, active, mine>>
      BY <2>6 DEF OthersStep, selfVars, senderVars, readerVars
    <3>2. ~endgame' => ~endgame
      BY <1>2, <2>6, OthersKeepEndgame DEF PointInv
    <3>3. Held' = Held
      BY <3>1 DEF Held, Active
    <3>4. Apart' /\ Offered'
      BY <1>2, <3>1, <3>2, <3>3 DEF Apart, Offered
    <3> QED
      BY <1>2, <2>6, <3>4, OthersRefine
  <2>7. Refined
    BY <1>2, <2>2, <2>3, <2>4, <2>5, <2>6 DEF Next
  <2>8. ASSUME UNCHANGED <<Abstract!pickerVars, Abstract!sessionVars, results>>
        PROVE  Reserved' /\ HashOwed'
    <3>1. /\ AllPc' = AllPc /\ AllClaims' = AllClaims /\ AllCur' = AllCur
          /\ inflight' = inflight /\ endgame' = endgame
      BY <2>8 DEF Abstract!pickerVars, Abstract!sessionVars
    <3> QED
      BY <1>2, <3>1, ReservedSame DEF HashOwed, Owners
  <2> QED
    BY <1>2, <2>7, <2>8, ReservedStep
<1> QED
  BY <1>1, <1>2, PointInit, PointStep, PTL DEF Spec, ImplementsSession, Abstract!SessionSpec
=============================================================================
