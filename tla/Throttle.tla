------------------------------- MODULE Throttle --------------------------------
(***************************************************************************)
(* throttle/throttle.go: readers and writers that share a token bucket.    *)
(* Time is counted in the time it takes to earn one token, so the rate is  *)
(* 1 and the burst, a second's worth, is Burst ticks.  Tokens are added    *)
(* lazily, by whoever calls Wait next.                                     *)
(***************************************************************************)
EXTENDS Naturals, FiniteSets

CONSTANTS
  Users,   \* goroutines that read or write through the limiter
  Burst,   \* bytes per second, and tokens the bucket holds
  MaxIO    \* bound: bytes of one Write

ASSUME ThrottleAssumption == Burst \in Nat \ {0} /\ MaxIO \in Nat /\ IsFiniteSet(Users)

VARIABLES
  tokens,   \* as of the last refill
  elapsed,  \* time since the last refill, counted up to Burst
  left,     \* left[u]: bytes of u's Write not written yet
  need,     \* need[u]: argument of the Wait u is in, 0 outside
  asleep,   \* asleep[u]: time u still sleeps
  level     \* history: bytes let through, draining at the rate

throttleVars == <<tokens, elapsed, left, need, asleep, level>>

Lesser(a, b) == IF a < b THEN a ELSE b

ThrottleInit ==
  /\ tokens = Burst /\ elapsed = 0 /\ level = 0
  /\ left = [u \in Users |-> 0] /\ need = [u \in Users |-> 0]
  /\ asleep = [u \in Users |-> 0]

\* A read returns up to a burst, then waits for what it got.
ThrottledRead(u) ==
  /\ need[u] = 0 /\ left[u] = 0
  /\ \E n \in 1..Lesser(MaxIO, Burst) : need' = [need EXCEPT ![u] = n]
  /\ UNCHANGED <<tokens, elapsed, left, asleep, level>>

StartWrite(u) ==
  /\ need[u] = 0 /\ left[u] = 0
  /\ \E n \in 1..MaxIO : left' = [left EXCEPT ![u] = n]
  /\ UNCHANGED <<tokens, elapsed, need, asleep, level>>

\* Mutant: the whole buffer is waited for at once.
WriteAll(n) == n

\* What one round of the write loop asks for.
WriteChunk(n) == Lesser(n, Burst)

NextChunk(u) ==
  /\ need[u] = 0 /\ left[u] > 0
  /\ need' = [need EXCEPT ![u] = WriteChunk(left[u])]
  /\ UNCHANGED <<tokens, elapsed, left, asleep, level>>

refill == Lesser(tokens + elapsed, Burst)

\* Wait consumes its tokens and the bytes go through.  A write that fails
\* stops.
Granted(u) ==
  /\ need[u] > 0 /\ asleep[u] = 0 /\ refill >= need[u]
  /\ tokens' = refill - need[u] /\ elapsed' = 0
  /\ level' = level + need[u]
  /\ need' = [need EXCEPT ![u] = 0]
  /\ left' \in {[left EXCEPT ![u] = IF @ < need[u] THEN 0 ELSE @ - need[u]],
                [left EXCEPT ![u] = 0]}
  /\ UNCHANGED asleep

\* Too few tokens: Wait sleeps until they would be there if nobody took any.
Sleep(u) ==
  /\ need[u] > 0 /\ asleep[u] = 0 /\ refill < need[u]
  /\ tokens' = refill /\ elapsed' = 0
  /\ asleep' = [asleep EXCEPT ![u] = need[u] - refill]
  /\ UNCHANGED <<left, need, level>>

Tick ==
  /\ elapsed' = Lesser(elapsed + 1, Burst)
  /\ asleep' = [u \in Users |-> IF asleep[u] > 0 THEN asleep[u] - 1 ELSE 0]
  /\ level' = IF level > 0 THEN level - 1 ELSE 0
  /\ UNCHANGED <<tokens, left, need>>

ThrottleNext ==
  \/ \E u \in Users : \/ ThrottledRead(u) \/ StartWrite(u) \/ NextChunk(u)
                      \/ Granted(u) \/ Sleep(u)
  \/ Tick

ThrottleSpec == ThrottleInit /\ [][ThrottleNext]_throttleVars

\* Time passes and runnable goroutines run.
ThrottleFairness ==
  /\ WF_throttleVars(Tick)
  /\ \A u \in Users : WF_throttleVars(NextChunk(u) \/ Granted(u) \/ Sleep(u))

-----------------------------------------------------------------------------
\* What was let through beyond the rate never exceeds a burst.
WithinBurst == level <= Burst

\* Over every interval of time at most a burst and the interval's worth of
\* tokens goes through, although refills are lazy and users interleave; and the
\* limiter never holds up everybody for ever: while users wait, time and again
\* one of them is let through.
RateKept ==
  /\ []WithinBurst
  /\ <>[](\E u \in Users : need[u] > 0) => []<><<\E u \in Users : Granted(u)>>_throttleVars
=============================================================================
