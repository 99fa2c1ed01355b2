--------------------------------- MODULE Merkle --------------------------------
(***************************************************************************)
(* torrent/merkle.go: the BEP 52 hash tree over the blocks of a file, and  *)
(* the check of a block against the root.  A hash is the data it is of.    *)
(***************************************************************************)
EXTENDS Naturals, Sequences, SequencesExt, FiniteSetsExt

CONSTANT MaxBlocks   \* bound: blocks of a file
ASSUME MerkleAssumption == MaxBlocks \in Nat

VARIABLE blocks   \* the number of blocks in the file, MaxBlocks + 1 before
merkleVars == <<blocks>>

MerkleInit == blocks = MaxBlocks + 1

Zero == <<0>>        \* the padding hash
BlockHash(k) == <<k>>
hashPair(l, r) == <<l, r>>

\* 1 doubled until it is at least n.
nextPow2(n) ==
  LET p[k \in 0..n] == IF k = 0 THEN 1 ELSE 2 * p[k - 1]
  IN  p[Min({k \in 0..n : n <= p[k]})]

\* The leaf layer; no data at all counts as one empty block.
MerkleLeaves(n) ==
  IF n = 0 THEN <<BlockHash(1)>>
  ELSE [i \in 1..nextPow2(n) |-> IF i <= n THEN BlockHash(i) ELSE Zero]

HalfLayer(l) == [i \in 1..Len(l) \div 2 |-> hashPair(l[2 * i - 1], l[2 * i])]

\* The leaves, halved until one node is left.
MerkleLayers(leaves) ==
  LET layer[k \in 0..Len(leaves)] == IF k = 0 THEN leaves ELSE HalfLayer(layer[k - 1])
      height == Min({k \in 0..Len(leaves) : Len(layer[k]) <= 1})
  IN  [k \in 1..height + 1 |-> layer[k - 1]]

merkleRoot(leaves) == Last(MerkleLayers(leaves))[1]

Above(current, idx, uncle) ==
  IF idx % 2 = 0 THEN hashPair(current, uncle) ELSE hashPair(uncle, current)

\* Mutant: the side is that of the leaf at every level.
ClimbAsLeaf(at, uncle) == <<Above(at[1], at[2], uncle), at[2]>>

\* One turn of the loop over the proof: a node and its index, a level up.
Climb(at, uncle) == <<Above(at[1], at[2], uncle), at[2] \div 2>>

VerifyMerkleProof(root, leaf, leafIndex, proof) ==
  LET at[k \in 0..Len(proof)] ==
        IF k = 0 THEN <<leaf, leafIndex>> ELSE Climb(at[k - 1], proof[k])
  IN  at[Len(proof)][1] = root

BuildTree == blocks = MaxBlocks + 1 /\ blocks' \in 0..MaxBlocks
MerkleNext == BuildTree
MerkleSpec == MerkleInit /\ [][MerkleNext]_merkleVars

\* The uncle hashes of leaf idx, from its sibling upwards.
Sibling(i) == IF i % 2 = 0 THEN i + 1 ELSE i - 1
ProofOf(leaves, idx) ==
  LET layers == MerkleLayers(leaves)
      up[k \in 0..Len(layers)] == IF k = 0 THEN idx ELSE up[k - 1] \div 2
  IN  [k \in 1..Len(layers) - 1 |-> layers[k][Sibling(up[k - 1]) + 1]]

-----------------------------------------------------------------------------
\* For files of any number of blocks: the uncle hashes taken from the layers
\* prove each block at its place, and no other block and no other place, padding
\* included.
ProofsAreExact ==
  blocks <= MaxBlocks =>
    LET leaves == MerkleLeaves(blocks)
        N == IF blocks = 0 THEN 1 ELSE blocks
    IN  \A i \in 0..N - 1, j \in 0..Len(leaves) - 1, l \in Range(leaves) :
          VerifyMerkleProof(merkleRoot(leaves), l, j, ProofOf(leaves, i))
            <=> (j = i /\ l = leaves[i + 1])
=============================================================================
