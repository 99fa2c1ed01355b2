------------------------------- MODULE Download -------------------------------
(***************************************************************************)
(* download.File of download/session.go with cfg.Quiet: peer sessions      *)
(* (Session.tla), the webseed and httpseed workers, the shared picker, the *)
(* bounded results channel, the goroutine that closes it, and the          *)
(* collector that writes pieces to disk and decides what File returns.     *)
(*                                                                         *)
(* The pool is reduced to what File sees of it: a peer worker opens        *)
(* sessions until it exits, and pool.run returns only once ctx is done and *)
(* every worker has exited.                                                *)
(***************************************************************************)
EXTENDS Session

CONSTANTS
  MaxSessions,  \* bound: sessions one peer worker opens
  MaxFaults,    \* bound: network, disk and hash failures of a behaviour
  MayCancel     \* may the caller of File cancel its context?

ASSUME BoundAssumption ==
  MaxSessions \in Nat /\ MaxFaults \in Nat /\ MayCancel \in BOOLEAN

VARIABLES
  opened,     \* opened[w]: sessions the peer worker has opened
  faults,     \* failures so far
  ctxDone,    \* File's context has been cancelled
  closed,     \* the results channel has been closed
  completed,  \* the collector's counter
  written,    \* pieces the output file holds
  outcome     \* "running", or what File returned

fileVars == <<opened, ctxDone, closed, completed, written, outcome>>
vars == <<pickerVars, sessionVars, results, faults, fileVars>>

Outcome == {"running", "nil", "incomplete", "writeError"}

PeerLabels == {"idle", "gone"} \cup InSession
SeedLabels == {"idle", "loop", "pick", "fetch", "sendOk", "sendErr",
               "sendErrWait", "backoff", "leave", "gone"}

Init ==
  /\ SessionInit
  /\ opened = [w \in Peers |-> 0]
  /\ faults = 0
  /\ ctxDone = FALSE
  /\ closed = FALSE
  /\ completed = 0
  /\ written = {}
  /\ outcome = "running"

Fault == faults < MaxFaults /\ faults' = faults + 1
NoFault == UNCHANGED faults

-----------------------------------------------------------------------------
(* Peer workers: runWorker around the session of Session.tla. *)

StartSession(w) ==
  /\ ~ctxDone
  /\ opened[w] < MaxSessions
  /\ opened' = [opened EXCEPT ![w] = @ + 1]
  /\ \E bitfield \in Bitfields[w] : OpenSession(w, bitfield)
  /\ NoFault
  /\ UNCHANGED <<ctxDone, closed, completed, written, outcome>>

\* runWorker returns: ctx is done, or the retries are used up.
PeerExit(w) ==
  /\ pc[w] = "idle"
  /\ Goto(w, "gone")
  /\ NoFault
  /\ UNCHANGED <<pickerVars, have, claims, cur, sender, results, fileVars>>

\* Picking, and quitting when the picker has nothing left for this peer.
SenderRuns(w) ==
  /\ (\E i \in Piece : SenderPick(w, i)) \/ SenderQuit(w)
  /\ NoFault
  /\ UNCHANGED fileVars

\* Once abortAll runs, nothing extends the connection's deadline, so the
\* sender's writes are bound to fail and this costs no fault.
SenderBreaks(w) ==
  /\ \E i \in Piece : SenderFail(w, i)
  /\ IF pc[w] = "abort" THEN NoFault ELSE Fault
  /\ UNCHANGED fileVars

ReaderRuns(w) ==
  /\ \/ \E i \in Piece : SkipDuplicate(w, i) \/ PieceComplete(w, i)
                           \/ AbortOne(w, i)
     \/ HashMatch(w) \/ SendResult(w) \/ CloseSession(w)
  /\ NoFault
  /\ UNCHANGED fileVars

ReaderBreaks(w) ==
  /\ HashMismatch(w) \/ ReadFails(w)
  /\ Fault
  /\ UNCHANGED fileVars

-----------------------------------------------------------------------------
(* Seeds: webseedWorker.run and httpseedWorker.run, one piece at a time. *)

SeedStart(s) ==
  /\ pc[s] = "idle"
  /\ AddPeer(Piece)
  /\ Goto(s, "loop")
  /\ have' = [have EXCEPT ![s] = Piece]
  /\ UNCHANGED <<claims, cur, sender, results>>

\* The select at the head of the loop.
SeedCheck(s) ==
  /\ pc[s] = "loop"
  /\ Goto(s, IF ctxDone THEN "leave" ELSE "pick")
  /\ UNCHANGED <<pickerVars, have, claims, cur, sender, results>>

SeedPick(s, i) ==
  /\ pc[s] = "pick"
  /\ Pick(have[s], i)
  /\ claims' = [claims EXCEPT ![s] = {i}]
  /\ cur' = [cur EXCEPT ![s] = i]
  /\ Goto(s, "fetch")
  /\ UNCHANGED <<have, sender, results>>

SeedNone(s) ==
  /\ pc[s] = "pick"
  /\ PickNone(have[s])
  /\ Goto(s, "leave")
  /\ UNCHANGED <<have, claims, cur, sender, results>>

\* fetchPiece returned data whose hash is right; IsDone is never consulted.
SeedFinish(s) ==
  /\ pc[s] = "fetch"
  /\ Finish(cur[s])
  /\ claims' = [claims EXCEPT ![s] = {}]
  /\ Goto(s, "sendOk")
  /\ UNCHANGED <<have, cur, sender, results>>

\* fetchPiece failed ("sendErrWait") or its data has the wrong hash ("sendErr").
SeedAbort(s, label) ==
  /\ pc[s] = "fetch"
  /\ Abort(cur[s])
  /\ claims' = [claims EXCEPT ![s] = {}]
  /\ Goto(s, label)
  /\ UNCHANGED <<have, cur, sender, results>>

SeedSend(s) ==
  \/ pc[s] \in {"sendOk", "sendErr"} /\ Deliver(s, "loop")
  \/ pc[s] = "sendErrWait" /\ Deliver(s, "backoff")

\* Mutant: the select waits for ctx.Done only.
SeedBackoffForever(s) ==
  /\ pc[s] = "backoff"
  /\ ctxDone /\ Goto(s, "leave")
  /\ UNCHANGED <<pickerVars, have, claims, cur, sender, results>>

\* The select on ctx.Done and the 2 s (or Retry-After) timer.
SeedBackoff(s) ==
  /\ pc[s] = "backoff"
  /\ Goto(s, "loop") \/ (ctxDone /\ Goto(s, "leave"))
  /\ UNCHANGED <<pickerVars, have, claims, cur, sender, results>>

\* The deferred RemovePeer.
SeedLeave(s) ==
  /\ pc[s] = "leave"
  /\ RemovePeer(have[s])
  /\ Goto(s, "gone")
  /\ have' = [have EXCEPT ![s] = {}]
  /\ UNCHANGED <<claims, cur, sender, results>>

SeedRuns(s) ==
  /\ \/ SeedStart(s) \/ SeedCheck(s) \/ SeedNone(s) \/ SeedFinish(s)
     \/ SeedSend(s) \/ SeedBackoff(s) \/ SeedLeave(s)
     \/ \E i \in Piece : SeedPick(s, i)
  /\ NoFault
  /\ UNCHANGED fileVars

\* A cancelled context makes the HTTP request fail without a network fault.
SeedBreaks(s) ==
  /\ \E label \in {"sendErr", "sendErrWait"} : SeedAbort(s, label)
  /\ IF ctxDone THEN NoFault ELSE Fault
  /\ UNCHANGED fileVars

-----------------------------------------------------------------------------
(* File's own goroutines. *)

\* The collector's loop body for a result that is an error.
DropFailed ==
  /\ outcome = "running"
  /\ results # <<>> /\ ~Head(results).ok
  /\ results' = Tail(results)
  /\ NoFault
  /\ UNCHANGED <<pickerVars, sessionVars, fileVars>>

\* Mutant: the collector stops one piece early.
WritePieceStopsEarly ==
  /\ outcome = "running"
  /\ results # <<>> /\ Head(results).ok
  /\ results' = Tail(results)
  /\ written' = written \cup {Head(results).piece}
  /\ completed' = completed + 1
  /\ IF completed + 1 >= NumPieces - 1
       THEN outcome' = "nil" /\ ctxDone' = TRUE
       ELSE UNCHANGED <<outcome, ctxDone>>
  /\ NoFault
  /\ UNCHANGED <<pickerVars, sessionVars, opened, closed>>

\* The collector's loop body for a verified piece: WriteAt, completed++, and
\* after the numPieces-th success the break, cancel() and return nil.
WritePiece ==
  /\ outcome = "running"
  /\ results # <<>> /\ Head(results).ok
  /\ results' = Tail(results)
  /\ written' = written \cup {Head(results).piece}
  /\ completed' = completed + 1
  /\ IF completed + 1 = NumPieces
       THEN outcome' = "nil" /\ ctxDone' = TRUE
       ELSE UNCHANGED <<outcome, ctxDone>>
  /\ NoFault
  /\ UNCHANGED <<pickerVars, sessionVars, opened, closed>>

\* WriteAt fails: File returns the error and its deferred cancel runs.
WriteFails ==
  /\ outcome = "running"
  /\ results # <<>> /\ Head(results).ok
  /\ results' = Tail(results)
  /\ outcome' = "writeError"
  /\ ctxDone' = TRUE
  /\ Fault
  /\ UNCHANGED <<pickerVars, sessionVars, opened, closed, completed, written>>

\* Mutant: the seeds are not waited for.
CloseResultsEarly ==
  /\ ~closed
  /\ ctxDone
  /\ \A w \in Peers : pc[w] = "gone"
  /\ closed' = TRUE
  /\ NoFault
  /\ UNCHANGED <<pickerVars, sessionVars, results, opened, ctxDone, completed,
                 written, outcome>>

\* poolDone.Wait, wsWg.Wait, close(results).
CloseResults ==
  /\ ~closed
  /\ ctxDone
  /\ \A w \in Worker : pc[w] = "gone"
  /\ closed' = TRUE
  /\ NoFault
  /\ UNCHANGED <<pickerVars, sessionVars, results, opened, ctxDone, completed,
                 written, outcome>>

\* range results ends: fewer than numPieces successes were counted.
ChannelDrained ==
  /\ outcome = "running"
  /\ closed /\ results = <<>>
  /\ outcome' = "incomplete"
  /\ NoFault
  /\ UNCHANGED <<pickerVars, sessionVars, results, opened, ctxDone, closed,
                 completed, written>>

CallerCancels ==
  /\ MayCancel
  /\ ~ctxDone
  /\ ctxDone' = TRUE
  /\ NoFault
  /\ UNCHANGED <<pickerVars, sessionVars, results, opened, closed, completed,
                 written, outcome>>

\* Once File has returned, what is left of the workers may stop or stay blocked.
Returned == outcome # "running" /\ UNCHANGED vars

-----------------------------------------------------------------------------
PeerNext(w) ==
  \/ StartSession(w) \/ PeerExit(w)
  \/ SenderRuns(w) \/ SenderBreaks(w)
  \/ ReaderRuns(w) \/ ReaderBreaks(w)

SeedNext(s) == SeedRuns(s) \/ SeedBreaks(s)

Next ==
  \/ \E w \in Peers : PeerNext(w)
  \/ \E s \in Seeds : SeedNext(s)
  \/ DropFailed \/ WritePiece \/ WriteFails
  \/ CloseResults \/ ChannelDrained \/ CallerCancels \/ Returned

Spec == Init /\ [][Next]_vars

\* Goroutines are scheduled; a peer that owes blocks sends them or the read
\* deadline expires; each duplicate job of a session is settled in turn (hence
\* claims' # claims); and writes past the deadline do fail.
Fairness ==
  /\ \A w \in Peers :
       /\ WF_vars(SenderRuns(w))
       /\ WF_vars(ReaderRuns(w) /\ <<pc, claims>>' # <<pc, claims>>)
       /\ WF_vars(PeerExit(w))
       /\ SF_vars(SenderBreaks(w) /\ pc[w] = "abort")
  /\ \A s \in Seeds : WF_vars(SeedRuns(s))
  /\ WF_vars(DropFailed) /\ WF_vars(WritePiece)
  /\ WF_vars(CloseResults) /\ WF_vars(ChannelDrained)

FairSpec == Spec /\ Fairness

-----------------------------------------------------------------------------
WorkerTypeOK ==
  /\ pc \in [Worker -> PeerLabels \cup SeedLabels]
  /\ \A w \in Peers : pc[w] \in PeerLabels
  /\ \A s \in Seeds : pc[s] \in SeedLabels
  /\ have \in [Worker -> SUBSET Piece]
  /\ claims \in [Worker -> SUBSET Piece]
  /\ cur \in [Worker -> Piece \cup {NoPiece}]
  /\ sender \in [Worker -> BOOLEAN]

FileTypeOK ==
  /\ results \in Seq(Result)
  /\ Len(results) <= NumPieces
  /\ opened \in [Peers -> Nat]
  /\ faults \in Nat
  /\ ctxDone \in BOOLEAN
  /\ closed \in BOOLEAN
  /\ completed \in Nat
  /\ written \subseteq Piece
  /\ outcome \in Outcome

\* The type invariant.  Its one bound, on the results channel, is what makes a
\* send on the channel block (make(chan pieceResult, numPieces)).
TypeOK == PickerTypeOK /\ WorkerTypeOK /\ FileTypeOK

\* Every reserved piece is owed by a worker that will finish or abort it: no
\* exit path of a session or a seed leaks a reservation ("must be called on
\* every error exit path", abortAll in pipelinedDownload).
NoLeakedReservation ==
  \A i \in inflight : \E w \in Worker : i \in claims[w]

\* Until endgame starts a piece is reserved by at most one worker, for as long
\* as that worker owes it: Pick, Abort and Finish keep inflight exact.
ExclusiveBeforeEndgame ==
  ~endgame =>
    /\ \A w \in Worker : claims[w] \subseteq inflight
    /\ \A v, w \in Worker : v # w => claims[v] \cap claims[w] = {}

\* Rarest-first ranks pieces by their true availability: frequency counts
\* exactly the bitfields of the workers registered now, across reconnects,
\* aborts and seeds leaving (AddPeer and RemovePeer are balanced).
FrequencyExact ==
  \A i \in Piece : frequency[i] = Cardinality({w \in Worker : i \in have[w]})

\* The output file, the results on their way to it and the workers about to
\* report success only ever hold pieces that were verified (Finish precedes
\* the send in all three kinds of worker).
OnlyVerifiedData ==
  /\ written \subseteq done
  /\ \A k \in 1..Len(results) : results[k].ok => results[k].piece \in done
  /\ \A w \in Worker : pc[w] = "sendOk" => cur[w] \in done

\* If File returns nil and endgame never started, the output file holds every
\* piece: the collector counts results, and each piece then has only one.
NilIsCompleteBeforeEndgame ==
  outcome = "nil" /\ ~endgame => written = Piece

\* If File returns nil, the output file holds every piece: File "downloads all
\* pieces of a torrent" and the IsDone check makes a worker "skip the
\* duplicate".
NilIsComplete == outcome = "nil" => written = Piece

\* A verified piece is never lost on a cancelled download: when File returns
\* "download incomplete", every piece the picker counts as done is in the output
\* file.  Workers send without looking at ctx, results is closed after the last
\* of them has exited, and the collector's range drains it.
IncompleteKeepsAll == outcome = "incomplete" => done \subseteq written

\* A seed, which has every piece, gives up only on cancellation or when every
\* piece is done: pieces reserved by other workers never make it quit, because
\* the same call of Pick starts endgame.
SeedStaysUntilDone ==
  [][\A s \in Seeds : pc[s] = "pick" /\ pc'[s] = "leave" => done = Piece]_vars

\* With at least one seed and finitely many failures File returns.
FileReturns == <>(outcome # "running")
=============================================================================
