------------------------------- MODULE Pipeline -------------------------------
(***************************************************************************)
(* One peer session in full: NegotiateUnchoke (download/piece.go) and      *)
(* pipelinedDownload (download/pipeline.go), a sender goroutine and a      *)
(* reader goroutine that share a connection and the bounded channel jobCh. *)
(* The session is `self'; the other workers of the download run as the     *)
(* abstract sessions of Session.tla and race it for the picker.            *)
(*                                                                         *)
(* The remote peer answers requests in order (as package seed does); wire  *)
(* holds the requests it has not answered yet, and a full wire is TCP      *)
(* back-pressure.  Every piece has NumBlocks blocks.                       *)
(***************************************************************************)
EXTENDS Session

CONSTANTS
  self,        \* this session's worker
  Offers,      \* the bitfields its peer may send
  NumBlocks,   \* BlockCount of a piece
  MaxActive,   \* capacity of jobCh (cfg.PipelineDepth)
  WireCap,     \* bound: requests the connection and the peer can hold
  MaxCorrupt,  \* bound: corrupt blocks
  NoBitfield,  \* nil: the peer has not said what it has
  NoJob        \* no entry of the active map

Block == 1..NumBlocks
Job == [received : 0..NumBlocks, got : SUBSET Block, bad : BOOLEAN]

ASSUME PipelineAssumption ==
  /\ self \notin Worker
  /\ Offers \subseteq SUBSET Piece
  /\ {NumBlocks, MaxActive, WireCap} \subseteq Nat \ {0}
  /\ MaxCorrupt \in Nat
  /\ \A b \in SUBSET Piece : NoBitfield # b
  /\ NoJob \notin Job

VARIABLES
  bitfield,   \* what the peer offers; NoBitfield while unknown
  spc,        \* sender: "pick", "write", "enqueue" or "closed" (jobCh closed)
  hand,       \* the piece the sender is requesting
  blk,        \* its next block; NumBlocks + 1 when only the flush is left
  jobCh,      \* queued jobs: pieces whose requests have all been sent
  wire,       \* requests sent and not answered, oldest first
  rpc,        \* reader: where its loop stands; "idle" between sessions
  active,     \* active[i]: the job of piece i, or NoJob
  mine,       \* the piece the reader is verifying or reporting
  productive, \* downloaded > 0, what runWorker looks at
  corrupt     \* corrupt blocks so far

senderVars == <<spc, hand, blk>>
readerVars == <<rpc, active, mine, productive, corrupt>>
othersVars == <<pc, have, claims, cur, sender>>
vars == <<pickerVars, othersVars, results, bitfield, senderVars, jobCh, wire,
          readerVars>>

Active == {i \in Piece : active[i] # NoJob}

Init ==
  /\ SessionInit
  /\ bitfield = NoBitfield
  /\ spc = "closed" /\ hand = NoPiece /\ blk = 1
  /\ jobCh = <<>> /\ wire = <<>>
  /\ rpc = "idle"
  /\ active = [i \in Piece |-> NoJob]
  /\ mine = NoPiece /\ productive = FALSE /\ corrupt = 0

-----------------------------------------------------------------------------
(* NegotiateUnchoke.  Keep-alives and other messages change nothing. *)

Dial ==
  /\ rpc = "idle"
  /\ rpc' = "negotiate"
  /\ productive' = FALSE
  /\ UNCHANGED <<pickerVars, othersVars, results, bitfield, senderVars, jobCh,
                 wire, active, mine, corrupt>>

\* Bitfield, HaveAll or HaveNone: the last one heard counts.
HearAvailability ==
  /\ rpc = "negotiate"
  /\ bitfield' \in Offers \cup {Piece, NoBitfield}
  /\ UNCHANGED <<pickerVars, othersVars, results, senderVars, jobCh, wire,
                 readerVars>>

\* Choke, read error, deadline, or the write of "interested" failed.
NegotiationFails ==
  /\ rpc = "negotiate"
  /\ rpc' = "idle"
  /\ bitfield' = NoBitfield
  /\ UNCHANGED <<pickerVars, othersVars, results, senderVars, jobCh, wire,
                 active, mine, productive, corrupt>>

\* Unchoke: without availability the peer is assumed to have everything.
Unchoked ==
  /\ rpc = "negotiate"
  /\ LET offered == IF bitfield = NoBitfield THEN Piece ELSE bitfield
     IN  bitfield' = offered /\ AddPeer(offered)
  /\ rpc' = "take"
  /\ spc' = "pick"
  /\ UNCHANGED <<othersVars, results, hand, blk, jobCh, wire, active, mine,
                 productive, corrupt>>

-----------------------------------------------------------------------------
(* The sender goroutine. *)

SPick(i) ==
  /\ spc = "pick"
  /\ Pick(bitfield, i)
  /\ hand' = i /\ blk' = 1
  /\ spc' = "write"
  /\ UNCHANGED <<othersVars, results, bitfield, jobCh, wire, readerVars>>

\* Mutant: the sender tries again instead of closing jobCh.
SQuitRetries ==
  /\ spc = "pick"
  /\ PickNone(bitfield)
  /\ UNCHANGED <<othersVars, results, bitfield, senderVars, jobCh, wire, readerVars>>

SQuit ==
  /\ spc = "pick"
  /\ PickNone(bitfield)
  /\ spc' = "closed"
  /\ UNCHANGED <<othersVars, results, bitfield, hand, blk, jobCh, wire,
                 readerVars>>

SWrite ==
  /\ spc = "write" /\ blk <= NumBlocks
  /\ Len(wire) < WireCap
  /\ wire' = Append(wire, <<hand, blk>>)
  /\ blk' = blk + 1
  /\ UNCHANGED <<pickerVars, othersVars, results, bitfield, spc, hand, jobCh,
                 readerVars>>

\* Mutant: the last block is not requested.
SFlushEarly ==
  /\ spc = "write" /\ blk >= NumBlocks
  /\ spc' = "enqueue"
  /\ UNCHANGED <<pickerVars, othersVars, results, bitfield, hand, blk, jobCh,
                 wire, readerVars>>

SFlush ==
  /\ spc = "write" /\ blk = NumBlocks + 1
  /\ spc' = "enqueue"
  /\ UNCHANGED <<pickerVars, othersVars, results, bitfield, hand, blk, jobCh,
                 wire, readerVars>>

\* Mutant: the piece in hand is not returned to the picker.
SWriteFailsKeeps ==
  /\ spc = "write"
  /\ spc' = "closed" /\ hand' = NoPiece /\ blk' = 1
  /\ UNCHANGED <<pickerVars, othersVars, results, bitfield, jobCh, wire, readerVars>>

\* WriteMessage or Flush fails.
SWriteFails ==
  /\ spc = "write"
  /\ Abort(hand)
  /\ spc' = "closed" /\ hand' = NoPiece /\ blk' = 1
  /\ UNCHANGED <<othersVars, results, bitfield, jobCh, wire, readerVars>>

\* Mutant: jobCh has no capacity limit.
SEnqueueUnbounded ==
  /\ spc = "enqueue"
  /\ jobCh' = Append(jobCh, hand)
  /\ spc' = "pick" /\ hand' = NoPiece /\ blk' = 1
  /\ UNCHANGED <<pickerVars, othersVars, results, bitfield, wire, readerVars>>

\* The send on jobCh blocks while the channel is full.
SEnqueue ==
  /\ spc = "enqueue"
  /\ Len(jobCh) < MaxActive
  /\ jobCh' = Append(jobCh, hand)
  /\ spc' = "pick" /\ hand' = NoPiece /\ blk' = 1
  /\ UNCHANGED <<pickerVars, othersVars, results, bitfield, wire, readerVars>>

-----------------------------------------------------------------------------
(* The reader goroutine. *)

\* register: a second job for the same piece replaces the first.
Register ==
  /\ jobCh # <<>>
  /\ active' = [active EXCEPT ![Head(jobCh)] =
                  [received |-> 0, got |-> {}, bad |-> FALSE]]
  /\ jobCh' = Tail(jobCh)

\* Loop head: with no active piece, block on jobCh.
RTake ==
  /\ rpc = "take"
  /\ IF Active = {} THEN Register ELSE UNCHANGED <<active, jobCh>>
  /\ rpc' = "drain"
  /\ UNCHANGED <<pickerVars, othersVars, results, bitfield, senderVars, wire,
                 mine, productive, corrupt>>

\* pipelinedDownload returns: deferred RemovePeer, PeerDisconnected and Close.
EndSession ==
  /\ RemovePeer(bitfield)
  /\ rpc' = "idle"
  /\ bitfield' = NoBitfield
  /\ wire' = <<>>
  /\ UNCHANGED <<othersVars, results, senderVars, jobCh, active, mine,
                 productive, corrupt>>

RFinished ==
  /\ rpc = "take" /\ Active = {}
  /\ jobCh = <<>> /\ spc = "closed"
  /\ EndSession

\* The non-blocking drain of jobCh, and its default branch.
RDrain ==
  /\ rpc = "drain"
  /\ Register
  /\ UNCHANGED <<pickerVars, othersVars, results, bitfield, senderVars, wire,
                 rpc, mine, productive, corrupt>>

RDrained ==
  /\ rpc = "drain"
  /\ jobCh = <<>>
  /\ rpc' = "read"
  /\ UNCHANGED <<pickerVars, othersVars, results, bitfield, senderVars, jobCh,
                 wire, active, mine, productive, corrupt>>

\* One block of piece i is stored; the piece is complete after `enough' blocks.
StoreAndCount(i, b, bad, enough) ==
  LET j == [received |-> active[i].received + 1,
            got      |-> active[i].got \cup {b},
            bad      |-> active[i].bad \/ bad]
  IN  \/ /\ j.received # enough
         /\ active' = [active EXCEPT ![i] = j]
         /\ rpc' = "take" /\ UNCHANGED mine
      \/ /\ j.received = enough /\ IsDone(i)
         /\ active' = [active EXCEPT ![i] = NoJob]
         /\ rpc' = "take" /\ UNCHANGED mine
      \/ /\ j.received = enough /\ ~IsDone(i)
         /\ active' = [active EXCEPT ![i] = j]
         /\ rpc' = "hash" /\ mine' = i

\* Mutant: one block too few.
StoreBlockEarly(i, b, bad) == StoreAndCount(i, b, bad, NumBlocks - 1)

StoreBlock(i, b, bad) == StoreAndCount(i, b, bad, NumBlocks)

\* A piece message: a block of a piece that is not active is ignored.
RBlock ==
  /\ rpc = "read"
  /\ wire # <<>>
  /\ wire' = Tail(wire)
  /\ LET i == Head(wire)[1]
         b == Head(wire)[2]
     IN  \E bad \in BOOLEAN :
           /\ bad => corrupt < MaxCorrupt
           /\ corrupt' = IF bad THEN corrupt + 1 ELSE corrupt
           /\ IF active[i] = NoJob
                THEN rpc' = "take" /\ UNCHANGED <<active, mine>>
                ELSE StoreBlock(i, b, bad)
  /\ UNCHANGED <<pickerVars, othersVars, results, bitfield, senderVars, jobCh,
                 productive>>

\* Keep-alive, any other message, or a block that overflows its piece.
RIgnore ==
  /\ rpc = "read"
  /\ rpc' = "take"
  /\ UNCHANGED <<pickerVars, othersVars, results, bitfield, senderVars, jobCh,
                 wire, active, mine, productive, corrupt>>

\* Read error, expired deadline, malformed piece message or choke.
RFails ==
  /\ rpc = "read"
  /\ rpc' = "abortActive"
  /\ UNCHANGED <<pickerVars, othersVars, results, bitfield, senderVars, jobCh,
                 wire, active, mine, productive, corrupt>>

\* The SHA-1 is right exactly when every block is there and none is corrupt.
RHash ==
  /\ rpc = "hash"
  /\ IF active[mine].got = Block /\ ~active[mine].bad
       THEN Finish(mine) /\ rpc' = "sendOk"
       ELSE Abort(mine) /\ rpc' = "sendErr"
  /\ UNCHANGED <<othersVars, results, bitfield, senderVars, jobCh, wire,
                 active, mine, productive, corrupt>>

\* The send on results, downloaded++ on success, and delete(active, index).
RSend ==
  /\ rpc \in {"sendOk", "sendErr"}
  /\ Len(results) < NumPieces
  /\ results' = Append(results, [piece |-> mine, ok |-> rpc = "sendOk"])
  /\ productive' = (productive \/ rpc = "sendOk")
  /\ active' = [active EXCEPT ![mine] = NoJob]
  /\ mine' = NoPiece
  /\ rpc' = "take"
  /\ UNCHANGED <<pickerVars, othersVars, bitfield, senderVars, jobCh, wire,
                 corrupt>>

\* abortAll: first every active piece, in map order ...
RAbortActive ==
  /\ rpc = "abortActive"
  /\ \/ \E i \in Active :
          /\ Abort(i)
          /\ active' = [active EXCEPT ![i] = NoJob]
          /\ UNCHANGED rpc
     \/ /\ Active = {}
        /\ rpc' = "abortDrain"
        /\ UNCHANGED <<pickerVars, active>>
  /\ UNCHANGED <<othersVars, results, bitfield, senderVars, jobCh, wire, mine,
                 productive, corrupt>>

\* ... then every job the sender still queues, until it closes jobCh.
RAbortQueued ==
  /\ rpc = "abortDrain"
  /\ jobCh # <<>>
  /\ Abort(Head(jobCh))
  /\ jobCh' = Tail(jobCh)
  /\ UNCHANGED <<othersVars, results, bitfield, senderVars, wire, readerVars>>

RAborted ==
  /\ rpc = "abortDrain"
  /\ jobCh = <<>> /\ spc = "closed"
  /\ EndSession

-----------------------------------------------------------------------------
selfVars == <<bitfield, senderVars, jobCh, wire, readerVars>>

OthersStep ==
  /\ \/ \E w \in Peers : \/ \E offered \in Bitfields[w] : OpenSession(w, offered)
                         \/ SenderStep(w)
                         \/ ReaderStep(w)
     \/ TakeResult
  /\ UNCHANGED selfVars

SenderNext ==
  \/ \E i \in Piece : SPick(i)
  \/ SQuit \/ SWrite \/ SFlush \/ SEnqueue

ReaderNext ==
  \/ RTake \/ RFinished \/ RDrain \/ RDrained \/ RBlock \/ RHash \/ RSend
  \/ RAbortActive \/ RAbortQueued \/ RAborted

Next ==
  \/ Dial \/ HearAvailability \/ NegotiationFails \/ Unchoked
  \/ SenderNext \/ SWriteFails
  \/ ReaderNext \/ RIgnore \/ RFails
  \/ OthersStep

Spec == Init /\ [][Next]_vars

\* The two goroutines are scheduled; the collector takes results, and a full
\* channel serves its blocked senders in turn; the peer answers a request
\* however often it sends other messages first; and once abortAll runs nothing
\* extends the 30 s deadline, so writes come to fail.
Fairness ==
  /\ WF_vars(SenderNext)
  /\ WF_vars(ReaderNext)
  /\ SF_vars(RBlock)
  /\ SF_vars(RSend)
  /\ SF_vars(SWriteFails /\ rpc \in {"abortActive", "abortDrain"})
  /\ WF_vars(TakeResult /\ UNCHANGED selfVars)

FairSpec == Spec /\ Fairness

-----------------------------------------------------------------------------
TypeOK ==
  /\ PickerTypeOK
  /\ bitfield = NoBitfield \/ bitfield \subseteq Piece
  /\ spc \in {"pick", "write", "enqueue", "closed"}
  /\ hand \in Piece \cup {NoPiece}
  /\ blk \in 1..(NumBlocks + 1)
  /\ jobCh \in Seq(Piece) /\ Len(jobCh) <= MaxActive
  /\ wire \in Seq(Piece \X Block) /\ Len(wire) <= WireCap
  /\ rpc \in {"idle", "negotiate", "take", "drain", "read", "hash", "sendOk",
              "sendErr", "abortActive", "abortDrain"}
  /\ active \in [Piece -> Job \cup {NoJob}]
  /\ mine \in Piece \cup {NoPiece}
  /\ productive \in BOOLEAN
  /\ corrupt \in 0..MaxCorrupt
  /\ results \in Seq(Result) /\ Len(results) <= NumPieces

\* The session as Session.tla sees it: `self' beside the other workers.
WithSelf(f, v) ==
  [w \in DOMAIN f \cup {self} |-> IF w = self THEN v ELSE f[w]]

AbsPc ==
  CASE rpc \in {"idle", "negotiate"}         -> "idle"
    [] rpc \in {"take", "drain", "read"}     -> "read"
    [] rpc \in {"abortActive", "abortDrain"} -> "abort"
    [] OTHER                                 -> rpc

AbsClaims ==
  ({hand} \cap Piece)
    \cup {jobCh[k] : k \in 1..Len(jobCh)}
    \cup (Active \ (IF rpc \in {"sendOk", "sendErr"} THEN {mine} ELSE {}))

AllPeers == Peers \cup {self}
AllBitfields == WithSelf(Bitfields, Offers \cup {Piece})
AllPc == WithSelf(pc, AbsPc)
AllHave == WithSelf(have, IF AbsPc = "idle" THEN {} ELSE bitfield)
AllClaims == WithSelf(claims, AbsClaims)
AllCur == WithSelf(cur, mine)
AllSender == WithSelf(sender, spc # "closed")

Abstract == INSTANCE Session WITH
  Peers <- AllPeers, Bitfields <- AllBitfields, pc <- AllPc, have <- AllHave,
  claims <- AllClaims, cur <- AllCur, sender <- AllSender

\* Two goroutines, a job channel and a wire implement the abstract session:
\* what Download.tla relies on (which reservations a session owes, when it
\* settles them, that its reads fail only while it owes one) is what the code
\* does.
ImplementsSession == Abstract!SessionSpec

\* pipelinedDownload counts blocks (received == numBlocks) without looking at
\* which blocks they are.  With a peer that answers in order the buffer is
\* nevertheless whole, even when endgame queues the piece twice, register
\* replaces a half-filled job, or blocks of the earlier request set arrive late.
CountedMeansWhole == rpc = "hash" => active[mine].got = Block

\* No registered job waits for a block that will never come: the requests still
\* unanswered cover what it misses.  So ignoring blocks of unknown pieces loses
\* nothing (the sender registers a piece only after it has sent the requests).
NoStarvedJob ==
  \A i \in Active :
    active[i].received
      + Cardinality({k \in 1..Len(wire) : wire[k][1] = i}) >= NumBlocks

\* The comment on pipelinedDownload: "the sender naturally blocks when that many
\* pieces are in flight".  Jobs queued in jobCh or in the sender's hands are
\* not even counted.
InFlightBounded == Cardinality(Active) <= MaxActive

\* A session that starts ends: neither the job channel, nor the results
\* channel, nor a choke while the sender keeps picking blocks it for ever.
SessionEnds == rpc = "take" ~> rpc = "idle"
=============================================================================
