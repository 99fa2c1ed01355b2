------------------------------ MODULE TorrentData ------------------------------
(***************************************************************************)
(* Files on disk and the piece hashes made of them: torrent/create.go      *)
(* hashes a file or the files of a directory, torrent/torrent.go says how  *)
(* long each piece is, and seed/verify.go reads pieces back across file    *)
(* boundaries.  Between the two the files may be overwritten, truncated or *)
(* extended.  A hash is the sequence of bytes it was made of.              *)
(***************************************************************************)
EXTENDS Naturals, Sequences, SequencesExt

CONSTANTS
  Octets,      \* values of a byte
  Dirs,        \* directories: sequences of files, in order of their paths
  PieceLens,   \* piece lengths
  ReadMax      \* bound: bytes one Read of hashMultiFiles returns

ASSUME DataAssumption ==
  /\ Dirs \subseteq Seq(Seq(Octets))
  /\ PieceLens \subseteq Nat \ {0}
  /\ ReadMax \in Nat

VARIABLES
  tpc,      \* "new", "hash", "created", "verified" or "failed"
  disk,     \* disk[f]: bytes of file f
  original, \* history: original[f], the bytes it had when it was hashed
  layout,   \* layout[f]: length of file f in the torrent
  plen,     \* its piece length
  reader,   \* hashMultiFiles: the file being read and the bytes read of it
  digest,   \* bytes written to h since the last Reset
  hashes,   \* the torrent's piece hashes
  valid     \* VerifyData: pieces found valid

dataVars == <<tpc, disk, original, layout, plen, reader, digest, hashes, valid>>

DataInit ==
  /\ tpc = "new" /\ disk = <<>> /\ original = <<>> /\ layout = <<>> /\ plen = 1
  /\ reader = <<1, 0>> /\ digest = <<>> /\ hashes = <<>> /\ valid = {}

Ceil(n, d) == (n + d - 1) \div d
\* s in pieces of n, the last one possibly shorter.
Chunks(s, n) ==
  [k \in 1..Ceil(Len(s), n) |->
     SubSeq(s, (k - 1) * n + 1, IF k * n < Len(s) THEN k * n ELSE Len(s))]

-----------------------------------------------------------------------------
(* Create. *)

\* The walk appends the files it meets, except the empty ones.
KeptFiles(files) ==
  LET kept[k \in 0..Len(files)] ==
        IF k = 0 THEN <<>>
        ELSE IF files[k] = <<>> THEN kept[k - 1] ELSE Append(kept[k - 1], files[k])
  IN  kept[Len(files)]

\* The torrent is about these files.
Described(files) ==
  /\ disk' = files /\ original' = files
  /\ layout' = [f \in DOMAIN files |-> Len(files[f])]

\* buildMultiFileInfo: a directory without a file that is kept is an error.
Walk ==
  /\ tpc = "new"
  /\ \E d \in Dirs, p \in PieceLens :
       /\ Described(KeptFiles(d)) /\ plen' = p
       /\ tpc' = IF KeptFiles(d) = <<>> THEN "failed" ELSE "hash"
  /\ UNCHANGED <<reader, digest, hashes, valid>>

\* buildSingleFileInfo, of an empty file too.  hashFile's ReadFull fills the
\* buffer whatever the reads return.
hashFile ==
  /\ tpc = "new"
  /\ \E d \in Dirs, p \in PieceLens : \E f \in DOMAIN d :
       Described(<<d[f]>>) /\ plen' = p /\ hashes' = Chunks(d[f], p)
  /\ tpc' = "created"
  /\ UNCHANGED <<reader, digest, valid>>

\* One Read of the current file returns n bytes, which fill up pieces.
hashMultiFiles(n) ==
  /\ tpc = "hash" /\ reader[1] <= Len(disk) /\ reader[2] + n <= Len(disk[reader[1]])
  /\ LET data == digest \o SubSeq(disk[reader[1]], reader[2] + 1, reader[2] + n)
         full == Len(data) \div plen
     IN  /\ hashes' = hashes \o SubSeq(Chunks(data, plen), 1, full)
         /\ digest' = SubSeq(data, full * plen + 1, Len(data))
  /\ reader' = [reader EXCEPT ![2] = @ + n]
  /\ UNCHANGED <<tpc, disk, original, layout, plen, valid>>

NextFile ==
  /\ tpc = "hash" /\ reader[1] <= Len(disk) /\ reader[2] = Len(disk[reader[1]])
  /\ reader' = <<reader[1] + 1, 0>>
  /\ UNCHANGED <<tpc, disk, original, layout, plen, digest, hashes, valid>>

\* Mutant: what is left in h is appended even if that is nothing.
LastPieceAlways == <<digest>>

LastPiece == IF digest # <<>> THEN <<digest>> ELSE <<>>

Flush ==
  /\ tpc = "hash" /\ reader[1] = Len(disk) + 1
  /\ hashes' = hashes \o LastPiece /\ digest' = <<>> /\ tpc' = "created"
  /\ UNCHANGED <<disk, original, layout, plen, reader, valid>>

-----------------------------------------------------------------------------
(* VerifyData. *)

\* Somebody else rewrites a file, shorter, longer or as long as it was.
Damage(f) ==
  /\ tpc = "created" /\ disk[f] = original[f]
  /\ \E n \in 0..layout[f] + 1 : \E s \in [1..n -> Octets] :
       disk' = [disk EXCEPT ![f] = s]
  /\ UNCHANGED <<tpc, original, layout, plen, reader, digest, hashes, valid>>

\* Where file f starts; the end of the last file is the length of all.
Offset(f) ==
  LET off[g \in 0..Len(layout)] == IF g = 0 THEN 0 ELSE off[g - 1] + layout[g]
  IN  off[f - 1]
TotalLength == Offset(Len(layout) + 1)

PieceLen(i) ==
  LET end == (i + 1) * plen
  IN  (IF end > TotalLength THEN TotalLength ELSE end) - i * plen

\* One turn of the loop in ReadPiece: if the span of file f ends after the
\* current offset, as much is read as the span, the buffer of size bytes and the
\* file on disk allow.
ReadFile(r, f, size) ==
  LET from == IF r.offset > Offset(f) THEN r.offset - Offset(f) ELSE 0
      rest == size - Len(r.data)
      want == IF layout[f] - from < rest THEN layout[f] - from ELSE rest
      got == SubSeq(disk[f], from + 1,
                    IF from + want < Len(disk[f]) THEN from + want ELSE Len(disk[f]))
  IN  IF r.offset >= Offset(f) + layout[f]
        THEN r
        ELSE [data |-> r.data \o got, offset |-> r.offset + Len(got)]

ReadPiece(i) ==
  LET read[f \in 0..Len(layout)] ==
        IF f = 0 THEN [data |-> <<>>, offset |-> i * plen]
        ELSE ReadFile(read[f - 1], f, PieceLen(i))
  IN  read[Len(layout)].data

\* A short read and a wrong hash both make a piece invalid.
VerifyData ==
  /\ tpc = "created"
  /\ tpc' = "verified"
  /\ valid' = {i \in 0..Len(hashes) - 1 : ReadPiece(i) = hashes[i + 1]}
  /\ UNCHANGED <<disk, original, layout, plen, reader, digest, hashes>>

DataNext ==
  \/ Walk \/ hashFile \/ NextFile \/ Flush \/ VerifyData
  \/ \E n \in 1..ReadMax : hashMultiFiles(n)
  \/ \E f \in DOMAIN disk : Damage(f)
DataSpec == DataInit /\ [][DataNext]_dataVars

\* Files one after the other.
Joined(files) ==
  LET joined[f \in 0..Len(files)] ==
        IF f = 0 THEN <<>> ELSE joined[f - 1] \o files[f]
  IN  joined[Len(files)]

\* Byte j of file f belongs to piece i; it is not in the file any more; every
\* byte of piece i is where it was hashed.
Holds(i, f, j) == i * plen < Offset(f) + j /\ Offset(f) + j <= (i + 1) * plen
Missing(f, j) == j > Len(disk[f])
Intact(i) ==
  \A f \in 1..Len(layout) : \A j \in 1..layout[f] :
    Holds(i, f, j) => ~Missing(f, j) /\ disk[f][j] = original[f][j]

-----------------------------------------------------------------------------
\* Wherever file and piece boundaries fall and however reads split the data, the
\* hashes are those of the files one after the other, cut into pieces, and every
\* piece whose bytes are all in place is found valid.  A piece is found valid by
\* mistake only if a file other than the last has lost a byte of it: ReadPiece
\* then fills the piece with bytes of the next file, and these may be equal.
VerifyIsExact ==
  tpc = "verified" =>
    /\ hashes = Chunks(Joined(original), plen)
    /\ \A i \in 0..Len(hashes) - 1 : Intact(i) => i \in valid
    /\ \A i \in valid :
         Intact(i) \/ \E f \in 1..Len(layout) - 1 : \E j \in 1..layout[f] :
                        Holds(i, f, j) /\ Missing(f, j)
=============================================================================
