------------------------------ MODULE UdpTracker ------------------------------
(***************************************************************************)
(* The UDP tracker client of tracker/udp.go: a connect and an announce     *)
(* round trip on one socket, each repeated with the same request until its *)
(* reply, a longer deadline each time, gives up after maxRetries.          *)
(*                                                                         *)
(* The tracker answers the requests that reach it; the network may lose,   *)
(* reorder and duplicate.  Replies stay in the socket until they are read. *)
(***************************************************************************)
EXTENDS Naturals

CONSTANTS
  maxRetries,
  MaxCopies    \* bound: datagrams that the network duplicates

ASSUME UdpAssumption == maxRetries \in Nat \ {0} /\ MaxCopies \in Nat

VARIABLES
  ustage,   \* "connect" or "announce" in progress, or "ok" or "failed"
  reading,  \* blocked in conn.Read
  attempt,  \* n of udpRoundTrip: deadlines passed in this round trip
  out,      \* out[k]: answers to request k that may still arrive
  sock,     \* sock[k]: unread replies; an "error" reply fits any request
  cause,    \* why ustage is "failed"
  copies,   \* datagrams the network has duplicated
  doubled   \* history: a connect request was sent again, or it or its reply was
            \* duplicated

udpVars == <<ustage, reading, attempt, out, sock, cause, copies, doubled>>

NoRequests == [connect |-> 0, announce |-> 0]
NoReplies == [connect |-> 0, announce |-> 0, error |-> 0]

UdpInit ==
  /\ ustage = "connect" /\ reading = FALSE /\ attempt = 0
  /\ out = NoRequests /\ sock = NoReplies
  /\ cause = "none" /\ copies = 0 /\ doubled = FALSE

UdpBusy == ustage \in {"connect", "announce"}

\* The deferred Close discards what the socket holds and what arrives later.
UdpClose == reading' = FALSE /\ attempt' = 0 /\ out' = NoRequests /\ sock' = NoReplies

UdpFail(why) == ustage' = "failed" /\ cause' = why /\ UdpClose /\ UNCHANGED <<copies, doubled>>

UdpWrite ==
  /\ UdpBusy /\ ~reading /\ attempt < maxRetries
  /\ out' = [out EXCEPT ![ustage] = @ + 1]
  /\ reading' = TRUE
  /\ doubled' = (doubled \/ (ustage = "connect" /\ attempt > 0))
  /\ UNCHANGED <<ustage, attempt, sock, cause, copies>>

\* The read deadline of this attempt passes.
UdpDeadline ==
  /\ reading
  /\ attempt' = attempt + 1 /\ reading' = FALSE
  /\ UNCHANGED <<ustage, out, sock, cause, copies, doubled>>

UdpGiveUp == UdpBusy /\ ~reading /\ attempt = maxRetries /\ UdpFail("no response")

\* Resolving, dialling, writing or reading fails.
UdpError == UdpBusy /\ UdpFail("io")

\* A reply, or an error message (action 3) in its place, reaches the socket.
UdpArrive(k) ==
  /\ UdpBusy /\ out[k] > 0
  /\ out' = [out EXCEPT ![k] = @ - 1]
  /\ \E r \in {k, "error"} : sock' = [sock EXCEPT ![r] = @ + 1]
  /\ UNCHANGED <<ustage, reading, attempt, cause, copies, doubled>>

\* The network duplicates a request or its reply: one more answer may arrive.
UdpDuplicate(k) ==
  /\ UdpBusy /\ out[k] > 0 /\ copies < MaxCopies
  /\ copies' = copies + 1 /\ out' = [out EXCEPT ![k] = @ + 1]
  /\ doubled' = (doubled \/ k = "connect")
  /\ UNCHANGED <<ustage, reading, attempt, sock, cause>>

\* Read returns the reply that the round trip waits for.
UdpConnected ==
  /\ reading /\ ustage = "connect" /\ sock.connect > 0
  /\ ustage' = "announce" /\ reading' = FALSE /\ attempt' = 0
  /\ sock' = [sock EXCEPT !.connect = @ - 1]
  /\ UNCHANGED <<out, cause, copies, doubled>>

UdpAnnounced ==
  /\ reading /\ ustage = "announce" /\ sock.announce > 0
  /\ ustage' = "ok" /\ UdpClose
  /\ UNCHANGED <<cause, copies, doubled>>

UdpRefused == reading /\ sock.error > 0 /\ UdpFail("refused")

\* Mutant: udpConnect asks for the 20 bytes of an announce response, too.
UdpTooShortForBoth == reading /\ sock.connect > 0 /\ UdpFail("too short")

\* Read returns a second reply to the connect request.  Its 16 bytes are fewer
\* than an announce response has, and the announce fails.
UdpTooShort ==
  /\ reading /\ ustage = "announce" /\ sock.connect > 0
  /\ UdpFail("too short")

UdpStep ==
  \/ UdpWrite \/ UdpDeadline \/ UdpGiveUp \/ UdpError
  \/ UdpConnected \/ UdpAnnounced \/ UdpRefused \/ UdpTooShort
  \/ \E k \in {"connect", "announce"} : UdpArrive(k) \/ UdpDuplicate(k)

-----------------------------------------------------------------------------
\* An announce to a tracker that answers is lost to a stale reply only when a
\* second answer to the connect request was under way, because its deadline had
\* passed and it was sent again or because the network duplicated a datagram:
\* the answer left unread is then taken for the announce response.
StaleReplyNeedsCopy == cause = "too short" => doubled
=============================================================================
