----------------------------- MODULE MerkleTrees -----------------------------
(***************************************************************************)
(* The two other trees of crates/core/src/trees, over the leaves of         *)
(* Patricia.tla: smt.rs, a sparse tree with one place for every key, and    *)
(* dmt.rs, a dense one over a list of leaves.  The account state is         *)
(* committed to by the Patricia tree; these two are kept beside it, with    *)
(* the same use in mind: prove the leaves a batch touches, change them,     *)
(* compute the new root from the same proof.                                *)
(*                                                                         *)
(* A proof of either tree is a stream: the roots of the subtrees without a  *)
(* selected leaf, from left to right.  The sparse tree sends an empty       *)
(* subtree as a zero bit of a bitmap that is padded to whole bytes.         *)
(***************************************************************************)
EXTENDS Patricia

CONSTANT ByteBits       \* bits of a byte of the bitmap, 1 or more; 8 in the code

\* Fault: the hash of a leaf leaves its content out.
AccountHashWithoutContent(t, k) == [account |-> k]

AccountHash(t, k) == [account |-> k, value |-> t[k]]

-----------------------------------------------------------------------------
(* The sparse tree.                                                        *)

SparseNode(l, r) == [left |-> l, right |-> r]

\* EMPTY_HASHES_BY_HEIGHT, by depth: an empty leaf at the bottom, and above it
\* the node of two empty children.
EmptyHash[d \in 0..Bits] ==
    IF d = Bits THEN [emptyLeaf |-> TRUE] ELSE SparseNode(EmptyHash[d + 1], EmptyHash[d + 1])

ZerosAt(S, d) == {k \in S : ~Bit(k, d)}
OnesAt(S, d)  == {k \in S : Bit(k, d)}

\* subtree_root: the subtree at depth d that holds the keys S of t.
RECURSIVE SparseSubtree(_, _, _)
SparseSubtree(t, S, d) ==
    IF S = {} THEN EmptyHash[d]
    ELSE IF d = Bits THEN AccountHash(t, CHOOSE k \in S : TRUE)
    ELSE SparseNode(SparseSubtree(t, ZerosAt(S, d), d + 1), SparseSubtree(t, OnesAt(S, d), d + 1))

SparseRoot(t) == SparseSubtree(t, DOMAIN t, 0)

\* build_proof: the subtrees without a selected key, from left to right.
RECURSIVE Missing(_, _, _, _)
Missing(t, S, keys, d) ==
    IF keys = {} THEN <<[root |-> SparseSubtree(t, S, d), empty |-> SparseSubtree(t, S, d) = EmptyHash[d]]>>
    ELSE IF d = Bits THEN <<>>
    ELSE Missing(t, ZerosAt(S, d), ZerosAt(keys, d), d + 1)
         \o Missing(t, OnesAt(S, d), OnesAt(keys, d), d + 1)

\* ProofBuilder: a bit for each subtree, padded to whole bytes, and the roots
\* of those that are not empty.
Push(subtrees) ==
    [bitmap |-> [i \in 1..(ByteBits * ((Len(subtrees) + ByteBits - 1) \div ByteBits)) |->
                    i =< Len(subtrees) /\ ~subtrees[i].empty],
     sides  |-> LET kept == SelectSeq(subtrees, LAMBDA s : ~s.empty)
                IN  [i \in DOMAIN kept |-> kept[i].root]]

SparseMultiproof(t, keys) == [keys |-> keys] @@ Push(Missing(t, DOMAIN t, keys, 0))

\* Fault: looks the empty hash up by depth in the table of heights.
NextMissingByHeight(reader, d) ==
    IF reader.bitmap = <<>> THEN {}
    ELSE IF ~Head(reader.bitmap)
         THEN {[root |-> EmptyHash[Bits - d], reader |-> [reader EXCEPT !.bitmap = Tail(@)]]}
    ELSE IF reader.sides = <<>> THEN {}
    ELSE {[root   |-> Head(reader.sides),
           reader |-> [bitmap |-> Tail(reader.bitmap), sides |-> Tail(reader.sides)]]}

\* missing_subtree: the next bit of a proof, and its side node when it is set.
NextMissing(reader, d) ==
    IF reader.bitmap = <<>> THEN {}
    ELSE IF ~Head(reader.bitmap)
         THEN {[root |-> EmptyHash[d], reader |-> [reader EXCEPT !.bitmap = Tail(@)]]}
    ELSE IF reader.sides = <<>> THEN {}
    ELSE {[root   |-> Head(reader.sides),
           reader |-> [bitmap |-> Tail(reader.bitmap), sides |-> Tail(reader.sides)]]}

\* Fault: what is left of the bitmap is not looked at.
FinishAnyBitmap(reader) == reader.sides = <<>>

\* finish: less than a byte of the bitmap left, all of it zero, and no side node.
Finish(reader) ==
    /\ Len(reader.bitmap) < ByteBits
    /\ TRUE \notin ToSet(reader.bitmap)
    /\ reader.sides = <<>>

\* root_from_proof: the root over the selected keys at depth d and what is
\* left of the proof after it.
RECURSIVE ReadSparse(_, _, _, _)
ReadSparse(values, keys, d, reader) ==
    IF keys = {} THEN NextMissing(reader, d)
    ELSE IF d = Bits
         THEN {[root   |-> IF keys \subseteq DOMAIN values
                           THEN AccountHash(values, CHOOSE k \in keys : TRUE) ELSE EmptyHash[d],
                reader |-> reader]}
    ELSE UNION {{[root |-> SparseNode(l.root, r.root), reader |-> r.reader] :
                    r \in ReadSparse(values, OnesAt(keys, d), d + 1, l.reader)} :
                    l \in ReadSparse(values, ZerosAt(keys, d), d + 1, reader)}

\* compute_root_from_proof over the given values.
SparseRootFromProof(values, proof) ==
    IF proof.keys = {} \/ ~(DOMAIN values \subseteq proof.keys) THEN {}
    ELSE {out.root : out \in {o \in ReadSparse(values, proof.keys, 0,
                                               [bitmap |-> proof.bitmap, sides |-> proof.sides]) :
                                Finish(o.reader)}}

-----------------------------------------------------------------------------
(* The dense tree, over a list of leaf hashes.                             *)

DenseNode(l, r) == [dense |-> <<l, r>>]

\* Fault: no room for the last leaf of a full tree.
NarrowWidth(n) == Min({2^e : e \in 0..n} \ 0..(n - 2))

\* tree_width: the next power of two.
TreeWidth(n) == Min({2^e : e \in 0..n} \ 0..(n - 1))

\* build_levels: the hash over the places start..start + width - 1.
RECURSIVE DenseSubtree(_, _, _)
DenseSubtree(list, start, width) ==
    IF width = 1 THEN IF start < Len(list) THEN list[start + 1] ELSE [emptyPlace |-> TRUE]
    ELSE DenseNode(DenseSubtree(list, start, width \div 2),
                   DenseSubtree(list, start + width \div 2, width \div 2))

\* Fault: the number of leaves is not hashed.
DenseTopOfTree(count, tree) == [tree |-> tree]

\* The hash of Root.
DenseTop(count, tree) == [leafCount |-> count, tree |-> tree]

DenseRoot(list) == DenseTop(Len(list), DenseSubtree(list, 0, TreeWidth(Len(list))))

\* build_side_nodes: the subtrees without a selected place, from left to right.
RECURSIVE DenseSides(_, _, _, _)
DenseSides(list, indices, start, width) ==
    LET midpoint == start + width \div 2
        left     == {i \in indices : i < midpoint}
    IN  IF indices = {} THEN <<DenseSubtree(list, start, width)>>
        ELSE IF width = 1 THEN <<>>
        ELSE DenseSides(list, left, start, width \div 2)
             \o DenseSides(list, indices \ left, midpoint, width \div 2)

DenseMultiproof(list, indices) ==
    IF indices = {} \/ ~(indices \subseteq 0..(Len(list) - 1)) THEN {}
    ELSE {[count |-> Len(list), indices |-> indices,
           sides |-> DenseSides(list, indices, 0, TreeWidth(Len(list)))]}

\* tree_root_from_proof: the root over a range of places, with the leaves given
\* by index, and the side nodes left after it.
RECURSIVE ReadDense(_, _, _, _, _)
ReadDense(given, indices, start, width, sides) ==
    LET midpoint == start + width \div 2
        left     == {i \in indices : i < midpoint}
    IN  IF indices = {}
        THEN IF sides = <<>> THEN {} ELSE {[root |-> Head(sides), sides |-> Tail(sides)]}
        ELSE IF width = 1
             THEN IF indices = {start} THEN {[root |-> given[start], sides |-> sides]} ELSE {}
        ELSE UNION {{[root |-> DenseNode(l.root, r.root), sides |-> r.sides] :
                        r \in ReadDense(given, indices \ left, midpoint, width \div 2, l.sides)} :
                        l \in ReadDense(given, left, start, width \div 2, sides)}

\* compute_root_from_proof; given has a leaf for every index of the proof.
DenseRootFromProof(given, proof) ==
    IF proof.count = 0 \/ ~(proof.indices \subseteq 0..(proof.count - 1)) THEN {}
    ELSE {DenseTop(proof.count, out.root) :
            out \in {o \in ReadDense(given, proof.indices, 0, TreeWidth(proof.count), proof.sides) :
                       o.sides = <<>>}}

-----------------------------------------------------------------------------
(* Properties.                                                             *)

\* The sparse proof built for the old accounts gives the root of the new ones,
\* whatever accounts were changed or inserted under its keys (smt.rs:188-207,
\* 243-266; the test non_membership_proof_supports_insertion).
SparseProofFollowsChanges ==
    witness # <<>> =>
        SparseRootFromProof(witness.values, SparseMultiproof(leaves, witness.proof.keys))
            = {SparseRoot(Overlay(leaves, witness.values))}

Bitmaps(bytes) == UNION {[1..(ByteBits * n) -> BOOLEAN] : n \in 0..bytes}

\* Roots of subtrees of the sparse tree, those of empty ones included.
RECURSIVE SparseNodesOf(_, _, _)
SparseNodesOf(t, S, d) ==
    {SparseSubtree(t, S, d)} \cup
    (IF d = Bits THEN {}
     ELSE SparseNodesOf(t, ZerosAt(S, d), d + 1) \cup SparseNodesOf(t, OnesAt(S, d), d + 1))

\* The proofs somebody who knows the tree can put together for some keys, with a
\* bitmap of so many bytes at most: those that are read to their end, which the
\* accounts given with them do not decide.
SparseForgeries(keys, bytes) ==
    LET nodes == SparseNodesOf(leaves, DOMAIN leaves, 0)
    IN  {proof \in {[keys |-> keys, bitmap |-> b, sides |-> s] :
                       b \in Bitmaps(bytes), s \in BoundedSeq(nodes, Bits)} :
            SparseRootFromProof(<<>>, proof) # {}}

\* Whatever bits and side nodes a sparse proof is put together from, if it
\* gives the root then its accounts are the tree's and the keys it gives no
\* account for have none (smt.rs:209-266, 286-314, 341-353).
SparseProofsAreSound ==
    witness = <<>> /\ leaves # <<>> =>
        LET root == SparseRoot(leaves)
        IN  \A keys \in SUBSET Keys \ {{}} : \A proof \in SparseForgeries(keys, 1) :
            \A values \in Partials(keys) :
                root \in SparseRootFromProof(values, proof)
                    => values = [k \in keys \cap DOMAIN leaves |-> leaves[k]]

\* The bitmap can be written in one way only: a proof that gives the root and
\* sends no empty subtree as a side node is the one build_multiproof makes
\* (smt.rs:232-240).
SparseProofsAreCanonical ==
    witness = <<>> /\ leaves # <<>> =>
        LET root    == SparseRoot(leaves)
            empties == Range(EmptyHash)
        IN  \A keys \in SUBSET Keys \ {{}} :
            LET values == [k \in keys \cap DOMAIN leaves |-> leaves[k]]
                built  == SparseMultiproof(leaves, keys)
            IN  \A proof \in SparseForgeries(keys, 2) :
                    /\ proof # built
                    /\ ToSet(proof.sides) \cap empties = {}
                    => root \notin SparseRootFromProof(values, proof)

\* A root of the sparse tree commits to one set of accounts, and a statement
\* about it has one proof.
SparseTreeCommits == SparseProofsAreSound /\ SparseProofsAreCanonical

\* The accounts in key order, as a list of leaf hashes.
KeyList(t) == SetToSortSeq(DOMAIN t, LAMBDA j, k : j < k)
Listed(t)  == [i \in DOMAIN KeyList(t) |-> AccountHash(t, KeyList(t)[i])]
PlaceOf(t, k) == Cardinality({j \in DOMAIN t : j < k})

\* The dense proof of some places gives the root of the list after the leaves
\* at those places changed (dmt.rs:96-148, 184-225).
DenseProofFollowsChanges ==
    witness # <<>> /\ witness.values # <<>> /\ DOMAIN witness.values \subseteq DOMAIN leaves =>
        LET indices == {PlaceOf(leaves, k) : k \in DOMAIN witness.values}
            given   == [i \in indices |-> AccountHash(witness.values, KeyList(leaves)[i + 1])]
        IN  UNION {DenseRootFromProof(given, proof) : proof \in DenseMultiproof(Listed(leaves), indices)}
                = {DenseRoot(Listed(Overlay(leaves, witness.values)))}

RECURSIVE DenseNodesOf(_, _, _)
DenseNodesOf(list, start, width) ==
    {DenseSubtree(list, start, width)} \cup
    (IF width = 1 THEN {}
     ELSE DenseNodesOf(list, start, width \div 2)
          \cup DenseNodesOf(list, start + width \div 2, width \div 2))

\* Whatever side nodes a dense proof is put together from, if it gives the
\* root then it states the length of the list and the leaves at its indices,
\* never a place of the padding (dmt.rs:119-148, 199-225).
DenseProofsAreSound ==
    witness = <<>> /\ leaves # <<>> =>
        LET list  == Listed(leaves)
            root  == DenseRoot(list)
            nodes == DenseNodesOf(list, 0, TreeWidth(Len(list)))
        IN  \A count \in 1..(2^Bits) : \A indices \in SUBSET (0..(count - 1)) :
                Cardinality(indices) =< 2 =>
                \A sides \in BoundedSeq(nodes, Bits), given \in [indices -> Range(list)] :
                    root \in
                        DenseRootFromProof(given, [count |-> count, indices |-> indices, sides |-> sides])
                    => /\ count = Len(list)
                       /\ \A i \in indices : given[i] = list[i + 1]

\* A root of the dense tree commits to one list, and its proofs survive changes
\* of the leaves they prove.
DenseTreeCommits == DenseProofFollowsChanges /\ DenseProofsAreSound
=============================================================================
