------------------------------- MODULE Merkle -------------------------------
(***************************************************************************)
(* The hash tree of the transparency log (trust_crypto/transparency.py): a *)
(* level with an odd number of nodes hands its last node up unchanged.     *)
(*                                                                         *)
(* SHA-256 is taken to be free of collisions: a hash is the term it was    *)
(* computed from, and the 0x00 / 0x01 prefixes are the tags of the terms.  *)
(* Sequences of the code start at 0, those of TLA+ at 1; an index here is  *)
(* the code's.  A loop is a function of the number of turns made; a turn   *)
(* on a level of one node changes nothing, so that as many turns as there  *)
(* are leaves are enough.                                                  *)
(***************************************************************************)
EXTENDS Naturals, Sequences

LeafHash(body) == <<"leaf", body>>

NodeHash(left, right) == <<"node", left, right>>

\* One turn of the loop of _merkle_root.
Halve(level) ==
    [i \in 1..((Len(level) + 1) \div 2) |->
        IF 2 * i <= Len(level) THEN NodeHash(level[2*i - 1], level[2*i]) ELSE level[2*i - 1]]

\* Every level of the tree over the leaves.
Levels(leaves) ==
    LET level[k \in 0..Len(leaves)] == IF k = 0 THEN leaves ELSE Halve(level[k - 1])
    IN level

MerkleRoot(leaves) ==
    IF leaves = <<>> THEN <<"empty">> ELSE Levels(leaves)[Len(leaves)][1]

\* idx and size, level by level: idx //= 2, size = (size + 1) // 2.
Indexes(index, turns) ==
    LET idx[k \in 0..turns] == IF k = 0 THEN index ELSE idx[k - 1] \div 2
    IN idx

Widths(size) ==
    LET width[k \in 0..size] == IF k = 0 THEN size ELSE (width[k - 1] + 1) \div 2
    IN width

\* Mutant: a node without a sibling is paired with itself.
SiblingOrItself(level, idx) ==
    IF idx % 2 = 1 THEN <<level[idx]>>
    ELSE IF idx + 1 < Len(level) THEN <<level[idx + 2]>> ELSE <<level[idx + 1]>>

\* The proof's entry for one level: the sibling, if the node at idx has one.
Sibling(level, idx) ==
    IF idx % 2 = 1 THEN <<level[idx]>>
    ELSE IF idx + 1 < Len(level) THEN <<level[idx + 2]>> ELSE <<>>

\* The proof as it grows from leaf to root.
Siblings(leaves, index) ==
    LET proof[k \in 0..Len(leaves)] ==
          IF k = 0 THEN <<>>
          ELSE proof[k - 1]
                 \o Sibling(Levels(leaves)[k - 1], Indexes(index, Len(leaves))[k - 1])
    IN proof

InclusionProof(leaves, index) == Siblings(leaves, index)[Len(leaves)]

\* _verify_inclusion climbs from the leaf, with the size of every level known,
\* and uses up the whole proof.
IsRight(index, size, k) == Indexes(index, size)[k] % 2 = 1

IsPaired(index, size, k) ==
    IsRight(index, size, k) \/ Indexes(index, size)[k] + 1 < Widths(size)[k]

Used(index, size) ==
    LET proof_i[k \in 0..size] ==
          IF k = 0 THEN 0
          ELSE proof_i[k - 1] + (IF IsPaired(index, size, k - 1) THEN 1 ELSE 0)
    IN proof_i

Climb(leaf, index, size, proof) ==
    LET current[k \in 0..size] ==
          IF k = 0 THEN leaf
          ELSE IF ~IsPaired(index, size, k - 1) THEN current[k - 1]
          ELSE IF IsRight(index, size, k - 1)
          THEN NodeHash(proof[Used(index, size)[k]], current[k - 1])
          ELSE NodeHash(current[k - 1], proof[Used(index, size)[k]])
    IN current

VerifyInclusion(leaf, index, size, proof, root) ==
    /\ index < size
    /\ Used(index, size)[size] = Len(proof)
    /\ Climb(leaf, index, size, proof)[size] = root
=============================================================================
