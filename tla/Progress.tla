-------------------------------- MODULE Progress --------------------------------
(***************************************************************************)
(* download/progress.go: the state of the pieces on display, as workers    *)
(* and the collector of File report it.  A worker reports a piece after it *)
(* has sent the result, the collector when it takes the result.  In        *)
(* endgame the picker hands a piece to several workers.  A worker stands   *)
(* for a web seed, or for one piece of a session's pipeline.               *)
(***************************************************************************)
EXTENDS Naturals, Sequences, FiniteSets

CONSTANTS
  Loaders,      \* workers
  Shown,        \* pieces
  ResultsCap,   \* capacity of the results channel
  MaxFailures   \* bound: fetches that end in an error result

ASSUME ProgressAssumption ==
  IsFiniteSet(Loaders) /\ IsFiniteSet(Shown) /\ ResultsCap \in Nat /\ MaxFailures \in Nat

VARIABLES
  display,     \* display[i]: "empty", "pending", "active" or "done"
  piecesDone,  \* the counter on display
  doing,       \* doing[w]: a step and the piece it is about, <<>> between pieces
  inflight,    \* the picker's reservations,
  finished,    \*   its finished pieces
  endgame,     \*   and its mode
  resultsCh,   \* results: <<piece, "ok" or "err">>
  completed,   \* results with data that File has taken
  failures,    \* error results
  shared       \* history: a piece was picked while it was in flight

pickerVars == <<inflight, finished, endgame, shared>>
progressVars == <<display, piecesDone, doing, pickerVars, resultsCh, completed, failures>>

ProgressInit ==
  /\ display = [i \in Shown |-> "empty"] /\ piecesDone = 0
  /\ doing = [w \in Loaders |-> <<>>] /\ resultsCh = <<>> /\ completed = 0
  /\ inflight = {} /\ finished = {} /\ endgame = FALSE /\ shared = FALSE
  /\ failures = 0

PeerConnected(bits) ==
  /\ display' = [i \in Shown |-> IF i \in bits /\ display[i] = "empty"
                                   THEN "pending" ELSE display[i]]
  /\ UNCHANGED <<piecesDone, doing, pickerVars, resultsCh, completed, failures>>

PieceStarted(i) == display' = [display EXCEPT ![i] = "active"] /\ UNCHANGED piecesDone

\* Mutant: every report counts.
PieceDoneAgain(i) ==
  display' = [display EXCEPT ![i] = "done"] /\ piecesDone' = piecesDone + 1

PieceDone(i) ==
  IF display[i] = "done"
    THEN UNCHANGED <<display, piecesDone>>
    ELSE display' = [display EXCEPT ![i] = "done"] /\ piecesDone' = piecesDone + 1

PieceFailed(i) == display' = [display EXCEPT ![i] = "pending"] /\ UNCHANGED piecesDone

-----------------------------------------------------------------------------
(* The callers. *)

Proceed(w, step) == doing' = [doing EXCEPT ![w] = step]

AllTaken == Shown \subseteq inflight \cup finished /\ Shown # finished

\* picker.Pick: a piece in flight only in endgame, which the same call may enter.
PickShown(w, i) ==
  /\ doing[w] = <<>> /\ i \notin finished /\ display[i] # "empty"
  /\ i \in inflight => endgame \/ AllTaken
  /\ endgame' = (endgame \/ i \in inflight) /\ shared' = (shared \/ i \in inflight)
  /\ inflight' = inflight \cup {i} /\ Proceed(w, <<"start", i>>)
  /\ UNCHANGED <<display, piecesDone, finished, resultsCh, completed, failures>>

\* Endgame begins with a peer that has none of the pieces in flight.
PickNothing(w) ==
  /\ doing[w] = <<>> /\ ~endgame /\ AllTaken
  /\ endgame' = TRUE
  /\ UNCHANGED <<display, piecesDone, doing, inflight, finished, shared, resultsCh,
                 completed, failures>>

ReportStart(w, i) ==
  /\ doing[w] = <<"start", i>>
  /\ PieceStarted(i) /\ Proceed(w, <<"fetch", i>>)
  /\ UNCHANGED <<pickerVars, resultsCh, completed, failures>>

\* picker.Abort; an error result is to be sent.
FetchFails(w, i) ==
  /\ doing[w] = <<"fetch", i>> /\ failures < MaxFailures
  /\ failures' = failures + 1
  /\ inflight' = inflight \ {i} /\ Proceed(w, <<"err", i>>)
  /\ UNCHANGED <<display, piecesDone, finished, endgame, shared, resultsCh, completed>>

\* The session ends with the piece in its pipeline: picker.Abort and no report.
SessionDies(w, i) ==
  /\ doing[w] = <<"fetch", i>> /\ Proceed(w, <<>>)
  /\ inflight' = inflight \ {i}
  /\ UNCHANGED <<display, piecesDone, finished, endgame, shared, resultsCh, completed,
                 failures>>

\* A session drops a piece that another worker has finished, or that its own
\* sender has picked again.
SkipDuplicate(w, i) ==
  /\ doing[w] = <<"fetch", i>> /\ Proceed(w, <<>>)
  /\ i \in finished \/ \E v \in Loaders \ {w} : doing[v] = <<"fetch", i>>
  /\ UNCHANGED <<display, piecesDone, pickerVars, resultsCh, completed, failures>>

\* picker.Finish, also when another worker has finished the piece: a web seed
\* does not look, a session looks before it computes the hash.
FetchSucceeds(w, i) ==
  /\ doing[w] = <<"fetch", i>> /\ Proceed(w, <<"ok", i>>)
  /\ finished' = finished \cup {i} /\ inflight' = inflight \ {i}
  /\ UNCHANGED <<display, piecesDone, endgame, shared, resultsCh, completed, failures>>

SendShown(w, i, r) ==
  /\ doing[w] = <<r, i>> /\ Len(resultsCh) < ResultsCap
  /\ resultsCh' = Append(resultsCh, <<i, r>>) /\ Proceed(w, <<"report", i, r>>)
  /\ UNCHANGED <<display, piecesDone, pickerVars, completed, failures>>

Report(i, r) == IF r = "ok" THEN PieceDone(i) ELSE PieceFailed(i)

ReportEnd(w, i, r) ==
  /\ doing[w] = <<"report", i, r>>
  /\ Report(i, r) /\ Proceed(w, <<>>)
  /\ UNCHANGED <<pickerVars, resultsCh, completed, failures>>

\* File leaves its loop at the last of as many results as there are pieces.
CollectResult ==
  /\ resultsCh # <<>> /\ completed < Cardinality(Shown)
  /\ Report(Head(resultsCh)[1], Head(resultsCh)[2]) /\ resultsCh' = Tail(resultsCh)
  /\ completed' = completed + (IF Head(resultsCh)[2] = "ok" THEN 1 ELSE 0)
  /\ UNCHANGED <<doing, pickerVars, failures>>

ProgressNext ==
  \/ \E bits \in SUBSET Shown : PeerConnected(bits)
  \/ CollectResult
  \/ \E w \in Loaders : PickNothing(w)
  \/ \E w \in Loaders, i \in Shown :
       \/ PickShown(w, i) \/ ReportStart(w, i)
       \/ FetchFails(w, i) \/ SessionDies(w, i) \/ SkipDuplicate(w, i) \/ FetchSucceeds(w, i)
       \/ \E r \in {"ok", "err"} : SendShown(w, i, r) \/ ReportEnd(w, i, r)

ProgressSpec == ProgressInit /\ [][ProgressNext]_progressVars

-----------------------------------------------------------------------------
\* Every finished piece is reported twice, by its worker and by the collector,
\* in either order, and sessions may end without any report.  Only two things
\* let the counter run ahead of the pieces shown as done: an error result, whose
\* late PieceFailed turns a piece that is done since back into a pending one, and
\* a piece shared in endgame, whose late PieceStarted makes it an active one.
CountedOnce ==
  /\ piecesDone >= Cardinality({i \in Shown : display[i] = "done"})
  /\ failures = 0 /\ ~shared =>
       piecesDone = Cardinality({i \in Shown : display[i] = "done"})
=============================================================================
