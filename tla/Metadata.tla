------------------------------- MODULE Metadata -------------------------------
(***************************************************************************)
(* magnet/metadata.go: FetchMetadata requests every piece of the info      *)
(* dictionary from one peer, as many as the peer has said there are, and   *)
(* assembles the replies, which come in any order, more than once, wrong,  *)
(* or not at all.                                                          *)
(***************************************************************************)
EXTENDS Naturals, FiniteSets

CONSTANT NumMeta   \* pieces of the metadata
ASSUME MetadataAssumption == NumMeta \in Nat \ {0}

VARIABLES
  fetch,     \* "none", "writing", "reading", or how the last fetch ended
  received,  \* pieces whose flag is set
  pending,   \* pieces counted as missing
  wrong      \* some stored piece is not what the info hash stands for

metaVars == <<fetch, received, pending, wrong>>

MetaInit == fetch = "none" /\ received = {} /\ pending = 0 /\ wrong = FALSE

\* The peer has named the size of the metadata.
MetaStart ==
  /\ fetch' = "writing"
  /\ received' = {} /\ pending' = NumMeta /\ wrong' = FALSE

\* The requests are written and flushed, or a write fails.
MetaWrite ==
  /\ fetch = "writing"
  /\ fetch' \in {"reading", "failed"}
  /\ UNCHANGED <<received, pending, wrong>>

\* The peer stops reading.  No deadline has been set for the writes.
MetaWriteBlocks ==
  /\ fetch = "writing"
  /\ fetch' = "stalled"
  /\ UNCHANGED <<received, pending, wrong>>

\* Mutant: a piece that comes twice is counted twice.
MetaDataTwice(i, good) ==
  /\ fetch = "reading" /\ pending > 0
  /\ received' = received \cup {i} /\ pending' = pending - 1
  /\ wrong' = (wrong \/ ~good)
  /\ UNCHANGED fetch

\* A data message for piece i; a duplicate is skipped.
MetaData(i, good) ==
  /\ fetch = "reading" /\ pending > 0
  /\ i \notin received
  /\ received' = received \cup {i} /\ pending' = pending - 1
  /\ wrong' = (wrong \/ ~good)
  /\ UNCHANGED fetch

\* All pieces are there: the hash of the buffer decides.
MetaVerify ==
  /\ fetch = "reading" /\ pending = 0
  /\ fetch' = IF ~wrong /\ received = 1..NumMeta THEN "ok" ELSE "mismatch"
  /\ UNCHANGED <<received, pending, wrong>>

\* A reject, a piece of the wrong length, a read error or 30 silent seconds.
MetaFail ==
  /\ fetch = "reading" /\ pending > 0
  /\ fetch' = "failed"
  /\ UNCHANGED <<received, pending, wrong>>

\* The peer sends other messages for ever; each of them renews the deadline.
MetaStall ==
  /\ fetch = "reading" /\ pending > 0
  /\ fetch' = "stalled"
  /\ UNCHANGED <<received, pending, wrong>>

MetaStep ==
  \/ MetaWrite \/ MetaWriteBlocks \/ MetaVerify \/ MetaFail \/ MetaStall
  \/ \E i \in 1..NumMeta, good \in BOOLEAN : MetaData(i, good)

-----------------------------------------------------------------------------
\* Pieces may come in any order and more than once: the metadata of a peer that
\* only sends right pieces never fails the hash check.
HonestPeerVerifies == fetch = "mismatch" => wrong
=============================================================================
