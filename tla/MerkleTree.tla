----------------------------- MODULE MerkleTree -----------------------------
(***************************************************************************)
(* packages/shared/src/merkle.ts: the tree over the leaves of a batch, the *)
(* path that proves one leaf and the check of such a path.                 *)
(*                                                                         *)
(* Hashes are symbolic: a hash is the term that was hashed, with the       *)
(* prefix that keeps leaves and nodes apart, so two hashes are equal only  *)
(* if what they were computed from is.                                     *)
(***************************************************************************)
EXTENDS Integers, Sequences, FiniteSetsExt

HashLeaf(data) == <<"leaf", data>>
HashInternal(left, right) == <<"node", left, right>>

\* Faulty variant: a last node without a neighbour is paired with itself.
MutAbove(level) ==
    [i \in 1 .. (Len(level) + 1) \div 2 |->
        IF 2 * i <= Len(level) THEN HashInternal(level[2 * i - 1], level[2 * i])
                               ELSE HashInternal(level[2 * i - 1], level[2 * i - 1])]

\* The level above: neighbours are combined in order, and a last node without a
\* neighbour is promoted as it is.
Above(level) ==
    [i \in 1 .. (Len(level) + 1) \div 2 |->
        IF 2 * i <= Len(level) THEN HashInternal(level[2 * i - 1], level[2 * i])
                               ELSE level[2 * i - 1]]

\* buildMerkleTree: level 0 is the leaves, and the first level of one node is
\* the top.
Levels(leaves) ==
    LET level[k \in 0 .. Len(leaves)] ==
            IF k = 0 THEN leaves ELSE Above(level[k - 1])
    IN  level
Top(leaves) == Min({k \in 0 .. Len(leaves) : Len(Levels(leaves)[k]) = 1})

MerkleRoot(leaves) == Levels(leaves)[Top(leaves)][1]

\* merkleProof's loop, one level at a time: the neighbour and its side are
\* recorded, a promoted node has none; at is our place, counted from 1.
Sibling(at) == IF at % 2 = 0 THEN at - 1 ELSE at + 1
Recorded(level, at) ==
    [hash |-> level[Sibling(at)], side |-> IF at % 2 = 0 THEN "left" ELSE "right"]
Onward(walk, level) ==
    [at |-> (walk.at + 1) \div 2,
     proof |-> IF Sibling(walk.at) <= Len(level)
               THEN Append(walk.proof, Recorded(level, walk.at)) ELSE walk.proof]
Walk(leaves, index) ==
    LET walk[k \in 0 .. Len(leaves)] ==
            IF k = 0 THEN [at |-> index, proof |-> << >>]
                     ELSE Onward(walk[k - 1], Levels(leaves)[k - 1])
    IN  walk

\* The levels below the top are walked.
MerkleProof(leaves, index) == Walk(leaves, index)[Top(leaves)].proof

\* verifyMerkleProof: what a leaf and the steps of its path are combined to.
Combined(acc, step) == IF step.side = "left" THEN HashInternal(step.hash, acc)
                                             ELSE HashInternal(acc, step.hash)
Climb(leaf, proof) ==
    LET acc[n \in 0 .. Len(proof)] ==
            IF n = 0 THEN leaf ELSE Combined(acc[n - 1], proof[n])
    IN  acc

VerifyMerkleProof(leaf, proof, root) == Climb(leaf, proof)[Len(proof)] = root
=============================================================================
