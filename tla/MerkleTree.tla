------------------------------- MODULE MerkleTree -------------------------------
(***************************************************************************)
(* Merkle trees as the airdrop scripts build them, and the check their       *)
(* contracts make.                                                           *)
(*                                                                           *)
(* A hash is written as the term it is the hash of, in prefix notation: a     *)
(* leaf is <<n>> for some n > 0, and the hash of two nodes is 0 followed by    *)
(* the two.  Hashes are then equal only if they are hashes of the same thing,  *)
(* and the order of sequences stands for the order of their bytes.            *)
(***************************************************************************)
EXTENDS Integers, Sequences, FiniteSets, TLC, SequencesExt

\* Where b is not as a, up to the end of a.
Differ(a, b) == {i \in 1..Len(a) : i > Len(b) \/ a[i] # b[i]}

\* Buffer.compare
Precedes(a, b) ==
  IF Differ(a, b) = {} THEN Len(a) < Len(b)
  ELSE LET i == CHOOSE i \in Differ(a, b) : \A j \in Differ(a, b) : i <= j
       IN i <= Len(b) /\ a[i] < b[i]

\* What an index past the end of an array gives.
NoNode == << >>

\* Mutant: an element without a pair is hashed with itself.
CombinedHashDoubled(first, second) ==
  LET pair == IF second = NoNode THEN first ELSE second
  IN IF Precedes(first, pair) THEN <<0>> \o first \o pair ELSE <<0>> \o pair \o first

\* Sorted, so that whoever checks a proof need not know left from right.  An element
\* without a pair stays as it is.
CombinedHash(first, second) ==
  IF second = NoNode THEN first
  ELSE IF Precedes(first, second) THEN <<0>> \o first \o second ELSE <<0>> \o second \o first

At(layer, i) == IF i \in DOMAIN layer THEN layer[i] ELSE NoNode

NextLayer(layer) ==
  [i \in 1..((Len(layer) + 1) \div 2) |-> CombinedHash(layer[2 * i - 1], At(layer, 2 * i))]

\* The members of a set in an order: each comes after those that are less.
InOrder(S, less) ==
  [k \in 1..Cardinality(S) |-> CHOOSE x \in S : Cardinality({y \in S : <<y, x>> \in less}) = k - 1]

\* The layers from a first one that is not empty up to the root: there is another one
\* as long as the last has more than one node.
Layers(elements) ==
  LET pushed[n \in 0..Len(elements)] ==
        IF n = 0 THEN <<elements>>
        ELSE LET layers == pushed[n - 1]
             IN IF Len(Last(layers)) <= 1 THEN layers ELSE Append(layers, NextLayer(Last(layers)))
  IN pushed[Len(elements)]

\* MerkleTree of airdrop_scripts: the elements sorted, each once.
TreeOf(elements) ==
  LET nodes == Range(elements)
  IN Layers(InOrder(nodes, {p \in nodes \X nodes : Precedes(p[1], p[2])}))

\* MerkleTree of the library merkletreejs, with sortPairs: the leaves as they come.
LibraryTreeOf(leaves) == Layers(leaves)

Root(layers) == Last(layers)[1]

\* Where the element is in the first layer, counted from 0 as in the code.
IndexOf(layers, el) == (CHOOSE i \in DOMAIN layers[1] : layers[1][i] = el
                          /\ \A j \in 1..(i - 1) : layers[1][j] # el) - 1

PairIndex(idx) == IF idx % 2 = 0 THEN idx + 1 ELSE idx - 1

\* The pair of the element and of each node above it, where there is one.
Proof(layers, el) ==
  LET walk[k \in 0..Len(layers)] ==
        IF k = 0 THEN [idx |-> IndexOf(layers, el), proof |-> << >>]
        ELSE LET below == walk[k - 1]
                 pair == At(layers[k], PairIndex(below.idx) + 1)
             IN [idx |-> below.idx \div 2,
                 proof |-> IF pair = NoNode THEN below.proof ELSE Append(below.proof, pair)]
  IN walk[Len(layers)].proof

\* The hash above a node, when a proof gives the pairs on the way up.
HashAbove(node, proof) ==
  LET pair[i \in 0..Len(proof)] ==
        IF i = 0 THEN node ELSE LET below == pair[i - 1] IN CombinedHash(below, proof[i])
  IN pair[Len(proof)]

\* The check of balance-tree.ts and of OpenZeppelin's MerkleProof.
VerifyProof(node, proof, root) == HashAbove(node, proof) = root
=============================================================================
