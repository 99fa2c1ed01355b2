------------------------------- MODULE PeerPool -------------------------------
(***************************************************************************)
(* The peer pool of download/pool.go: a manager goroutine (run) that keeps *)
(* worker slots filled, recycles peers until they strike out, and rotates  *)
(* dead and slow workers; one worker goroutine per address (runWorker)     *)
(* that reports its exit on the bounded channel doneCh.                    *)
(*                                                                         *)
(* Only the manager touches untried and active, so each of its handlers is *)
(* one action.  Time is abstract: a tick, the end of a grace period, a     *)
(* timer may come at any moment, and speeds may rank the workers in any    *)
(* order.  A session is one step whose details are Pipeline.tla's.         *)
(***************************************************************************)
EXTENDS Naturals, Sequences, FiniteSets, SequencesExt, FiniteSetsExt

CONSTANTS
  PeerList,     \* cfg.Peers, without repetitions
  MaxSlots,     \* worker slots, also the capacity of doneCh
  MaxRetries,   \* fruitless sessions in a row before a worker exits
  MaxStrikes    \* worker exits before a peer is dropped

Addr == Range(PeerList)

ASSUME PoolAssumption ==
  /\ PeerList \in Seq(Addr) /\ IsInjective(PeerList)
  /\ {MaxSlots, MaxRetries, MaxStrikes} \subseteq Nat \ {0}

\* newPeerPool: a tenth of the slots, at least one.
rotateCount == Max({1, MaxSlots \div 10})

VARIABLES
  untried,    \* addresses waiting for a slot, oldest first
  active,     \* addresses that occupy a slot
  strikes,    \* strikes[a]: worker exits since a last finished a session well
  doneCh,     \* exit reports the manager has not read
  ppc,        \* manager: "start", "select", "wait" (wg.Wait) or "returned"
  ctxDone,    \* the context given to run has been cancelled
  wpc,        \* wpc[a]: where the worker of a stands; "none": never started
  retries,    \* wpc's worker: fruitless sessions in a row
  cancelled,  \* ... its own context has been cancelled by evaluate
  graced,     \* ... it is older than the grace period
  got         \* ... what it received: "nothing", "bytes" or a whole "piece"

workerVars == <<wpc, retries, cancelled, graced, got>>
vars == <<untried, active, strikes, doneCh, ppc, ctxDone, workerVars>>

Init ==
  /\ untried = SubSeq(PeerList, MaxSlots + 1, Len(PeerList))
  /\ active = {}
  /\ strikes = [a \in Addr |-> 0]
  /\ doneCh = <<>>
  /\ ppc = "start"
  /\ ctxDone = FALSE
  /\ wpc = [a \in Addr |-> "none"]
  /\ retries = [a \in Addr |-> 0]
  /\ cancelled = [a \in Addr |-> FALSE]
  /\ graced = [a \in Addr |-> FALSE]
  /\ got = [a \in Addr |-> "nothing"]

Running(a) == wpc[a] \notin {"none", "exited"}

\* startWorker for each address of S, in slots left by `kept'; the workers of
\* C have just been cancelled.
StartWorkers(S, kept, C) ==
  LET fresh(f, v) == [a \in Addr |-> IF a \in S THEN v ELSE f[a]]
  IN  /\ active' = kept \cup S
      /\ wpc' = fresh(wpc, "check")
      /\ retries' = fresh(retries, 0)
      /\ graced' = fresh(graced, FALSE)
      /\ got' = fresh(got, "nothing")
      /\ cancelled' = [a \in Addr |->
                         IF a \in S THEN FALSE ELSE cancelled[a] \/ a \in C]

\* Up to n calls of pickUntried on the queue q: who is popped, what remains.
Popped(q, n) == {q[k] : k \in 1..Min({n, Len(q)})}
\* Mutant: pickUntried returns the head and leaves it queued.
RestKeepsHead(q, n) == q

Rest(q, n) == SubSeq(q, n + 1, Len(q))

-----------------------------------------------------------------------------
(* The manager goroutine. *)

StartInitial ==
  /\ ppc = "start"
  /\ StartWorkers(Popped(PeerList, MaxSlots), {}, {})
  /\ ppc' = "select"
  /\ UNCHANGED <<untried, strikes, doneCh, ctxDone>>

\* What handleWorkerExit does when it counts the members of `occupied' as taken.
WorkerExit(occupied) ==
  /\ ppc = "select"
  /\ doneCh # <<>>
  /\ LET addr  == Head(doneCh)
         kept  == active \ {addr}
         queue == IF addr \in active /\ strikes[addr] + 1 < MaxStrikes
                    THEN Append(untried, addr) ELSE untried
         n     == Max({0, MaxSlots - Cardinality(occupied)})
     IN  /\ strikes' = IF addr \in active THEN [strikes EXCEPT ![addr] = @ + 1]
                       ELSE strikes
         /\ untried' = Rest(queue, n)
         /\ StartWorkers(Popped(queue, n), kept, {})
  /\ doneCh' = Tail(doneCh)
  /\ UNCHANGED <<ppc, ctxDone>>

\* Mutant: the slot count is taken before the exit, so nothing is backfilled.
handleWorkerExitStale == WorkerExit(active)

\* A peer is recycled until its last permitted strike; then the free slots,
\* if any, are filled from the head of the queue.
handleWorkerExit == doneCh # <<>> /\ WorkerExit(active \ {Head(doneCh)})

\* evaluate, on a tick: cancel every dead worker and the slowest few of the
\* live ones, and start a replacement for each.  The cancelled ones stay in
\* active until they report.
evaluate ==
  /\ ppc = "select"
  /\ LET past == {a \in active : graced[a]}
         dead == {a \in past : got[a] = "nothing"}
         live == past \ dead
         spare == Len(untried) - Cardinality(dead)
         budget == IF spare > 0
                     THEN Min({rotateCount, spare, Cardinality(live)}) ELSE 0
     IN  \E slowest \in kSubset(budget, live) :
           LET toCancel == dead \cup slowest
               n == Cardinality(toCancel)
           IN  /\ untried' = Rest(untried, n)
               /\ StartWorkers(Popped(untried, n), active, toCancel)
  /\ UNCHANGED <<strikes, doneCh, ppc, ctxDone>>

\* case <-ctx.Done(): return, which runs the deferred wg.Wait.
NoticeCancel ==
  /\ ppc = "select"
  /\ ctxDone
  /\ ppc' = "wait"
  /\ UNCHANGED <<untried, active, strikes, doneCh, ctxDone, workerVars>>

WaitDone ==
  /\ ppc = "wait"
  /\ \A a \in Addr : ~Running(a)
  /\ ppc' = "returned"
  /\ UNCHANGED <<untried, active, strikes, doneCh, ctxDone, workerVars>>

-----------------------------------------------------------------------------
(* The worker goroutine of address a. *)

\* Mutant: the worker's context is not derived from run's.
CtxOverOwn(a) == cancelled[a]

CtxOver(a) == ctxDone \/ cancelled[a]

\* The check at the head of runWorker's loop.
CheckCtx(a) ==
  /\ wpc[a] = "check"
  /\ wpc' = [wpc EXCEPT ![a] = IF CtxOver(a) THEN "report" ELSE "session"]
  /\ UNCHANGED <<untried, active, strikes, doneCh, ppc, ctxDone, retries,
                 cancelled, graced, got>>

\* onBlock: the first bytes arrive.
BlockReceived(a) ==
  /\ wpc[a] = "session" /\ got[a] = "nothing"
  /\ got' = [got EXCEPT ![a] = "bytes"]
  /\ UNCHANGED <<untried, active, strikes, doneCh, ppc, ctxDone, wpc, retries,
                 cancelled, graced>>

\* Mutant: strikes are kept.
ProductiveSessionStruck(a) ==
  /\ wpc[a] = "session" /\ got[a] # "nothing"
  /\ wpc' = [wpc EXCEPT ![a] = "backoff"]
  /\ got' = [got EXCEPT ![a] = "piece"]
  /\ retries' = [retries EXCEPT ![a] = 0]
  /\ UNCHANGED <<untried, active, strikes, doneCh, ppc, ctxDone, cancelled, graced>>

\* runWorkerSession returns downloaded > 0.  It does not watch the context.
ProductiveSession(a) ==
  /\ wpc[a] = "session" /\ got[a] # "nothing"
  /\ wpc' = [wpc EXCEPT ![a] = "backoff"]
  /\ got' = [got EXCEPT ![a] = "piece"]
  /\ retries' = [retries EXCEPT ![a] = 0]
  /\ strikes' = [strikes EXCEPT ![a] = 0]
  /\ UNCHANGED <<untried, active, doneCh, ppc, ctxDone, cancelled, graced>>

\* runWorkerSession returns 0: no connection, no unchoke, or no whole piece.
FruitlessSession(a) ==
  /\ wpc[a] = "session"
  /\ wpc' = [wpc EXCEPT ![a] = "backoff"]
  /\ retries' = [retries EXCEPT ![a] = @ + 1]
  /\ UNCHANGED <<untried, active, strikes, doneCh, ppc, ctxDone, cancelled,
                 graced, got>>

\* The select on ctx.Done and the backoff timer, then the loop condition.
BackOff(a) ==
  /\ wpc[a] = "backoff"
  /\ \/ wpc' = [wpc EXCEPT ![a] =
                  IF retries[a] < MaxRetries THEN "check" ELSE "report"]
     \/ CtxOver(a) /\ wpc' = [wpc EXCEPT ![a] = "report"]
  /\ UNCHANGED <<untried, active, strikes, doneCh, ppc, ctxDone, retries,
                 cancelled, graced, got>>

\* Mutant: doneCh has no capacity limit.
ReportUnbounded(a) ==
  /\ wpc[a] = "report"
  /\ doneCh' = Append(doneCh, a)
  /\ wpc' = [wpc EXCEPT ![a] = "exited"]
  /\ UNCHANGED <<untried, active, strikes, ppc, ctxDone, retries, cancelled,
                 graced, got>>

\* The send on doneCh, which blocks while the channel is full; then wg.Done.
Report(a) ==
  /\ wpc[a] = "report"
  /\ Len(doneCh) < MaxSlots
  /\ doneCh' = Append(doneCh, a)
  /\ wpc' = [wpc EXCEPT ![a] = "exited"]
  /\ UNCHANGED <<untried, active, strikes, ppc, ctxDone, retries, cancelled,
                 graced, got>>

-----------------------------------------------------------------------------
(* Time and the caller. *)

GraceOver(a) ==
  /\ a \in active /\ ~graced[a]
  /\ graced' = [graced EXCEPT ![a] = TRUE]
  /\ UNCHANGED <<untried, active, strikes, doneCh, ppc, ctxDone, wpc, retries,
                 cancelled, got>>

Cancel ==
  /\ ~ctxDone
  /\ ctxDone' = TRUE
  /\ UNCHANGED <<untried, active, strikes, doneCh, ppc, workerVars>>

\* run has returned and nothing is left to do.
Stopped == ppc = "returned" /\ UNCHANGED vars

WorkerStep(a) ==
  \/ CheckCtx(a) \/ ProductiveSession(a) \/ FruitlessSession(a)
  \/ BackOff(a) \/ Report(a)

Next ==
  \/ StartInitial \/ handleWorkerExit \/ evaluate \/ NoticeCancel \/ WaitDone
  \/ \E a \in Addr : WorkerStep(a) \/ BlockReceived(a) \/ GraceOver(a)
  \/ Cancel \/ Stopped

Spec == Init /\ [][Next]_vars

\* Sessions end (Pipeline's SessionEnds), timers fire, and select does not
\* ignore a ready ctx.Done for ever.
Fairness ==
  /\ WF_vars(StartInitial) /\ WF_vars(NoticeCancel) /\ WF_vars(WaitDone)
  /\ \A a \in Addr : WF_vars(WorkerStep(a))

FairSpec == Spec /\ Fairness

-----------------------------------------------------------------------------
TypeOK ==
  /\ untried \in Seq(Addr)
  /\ active \subseteq Addr
  /\ strikes \in [Addr -> 0..MaxStrikes]
  /\ doneCh \in Seq(Addr) /\ Len(doneCh) <= MaxSlots
  /\ ppc \in {"start", "select", "wait", "returned"}
  /\ ctxDone \in BOOLEAN
  /\ wpc \in [Addr -> {"none", "check", "session", "backoff", "report", "exited"}]
  /\ retries \in [Addr -> 0..MaxRetries]
  /\ cancelled \in [Addr -> BOOLEAN]
  /\ graced \in [Addr -> BOOLEAN]
  /\ got \in [Addr -> {"nothing", "bytes", "piece"}]

\* No peer is lost or started twice, whatever order exits, ticks and recycling
\* come in: an address is in a slot, or queued once, or has struck out; a live
\* worker owns a slot, and each exit is reported once.
EachPeerOnce ==
  ppc # "start" =>
    /\ IsInjective(untried) /\ IsInjective(doneCh)
    /\ active \cap Range(untried) = {}
    /\ \A a \in Addr \ (active \cup Range(untried)) : strikes[a] = MaxStrikes
    /\ \A a \in Addr : Running(a) => a \in active
    /\ \A a \in Addr : a \in Range(doneCh) <=> a \in active /\ ~Running(a)

\* While the manager waits for events, a peer is queued only if every slot is
\* taken: exits and rotations never leave a slot idle.
SlotsFilled ==
  ppc = "select" /\ untried # <<>> => Cardinality(active) >= MaxSlots

\* "Reset strikes for productive peers so they get unlimited recycling": a peer
\* whose last worker completed a piece is never dropped.
ProductivePeersStay ==
  \A a \in Addr : got[a] = "piece" => a \in active \cup Range(untried)

\* A cancelled pool stops working: every worker gets to its exit report.
WorkersStop ==
  ctxDone ~> [](\A a \in Addr : Running(a) => wpc[a] = "report")

\* "Blocks until ctx is canceled.  Waits for all workers to finish": run
\* returns after its context is cancelled.
RunReturns == ctxDone ~> ppc = "returned"
=============================================================================
