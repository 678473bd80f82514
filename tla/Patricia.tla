------------------------------ MODULE Patricia ------------------------------
(***************************************************************************)
(* The commitment behind a state root: the Patricia tree of                *)
(* crates/core/src/trees/patricia.rs, its multiproofs as State::witness_for *)
(* and StateWitness::root use them, and the single-leaf verifier of         *)
(* contracts/src/PatriciaProof.sol.                                        *)
(*                                                                         *)
(* A key is a number of Bits bits, bit 0 the most significant.  SHA-256 is  *)
(* symbolic: a hash is the term it is computed from, so two hashes are      *)
(* equal exactly when they hash the same thing under the same domain.       *)
(* A partial function is the set of its results, empty on an error.         *)
(***************************************************************************)
EXTENDS Integers, Sequences, SequencesExt, FiniteSets, FiniteSetsExt

CONSTANTS
    Bits,       \* key width, 1 or more; 160 in the code
    Values      \* contents of a leaf: balances and nonce of an account

Keys == 0..(2^Bits - 1)

VARIABLES
    leaves,     \* the accounts of the host's State, by key
    witness     \* what the guest works on: [values, proof], <<>> when idle

vars == <<leaves, witness>>

-----------------------------------------------------------------------------
(* Nodes.                                                                  *)

Bit(k, i) == (k \div 2^(Bits - 1 - i)) % 2 = 1

\* The first bit two keys differ in; Bits when they are equal.
DifferingBit(a, b) ==
    IF a = b THEN Bits ELSE Min({i \in 0..(Bits - 1) : Bit(a, i) # Bit(b, i)})

\* Fault: the leaf hash leaves the account's content out.
LeafWithoutContent(k, v) == [root |-> [key |-> k], min |-> k, max |-> k]

Leaf(k, v) == [root |-> [key |-> k, value |-> v], min |-> k, max |-> k]

\* Fault: the branch hash leaves the key ranges of its children out.
BranchWithoutRanges(l, r) ==
    LET depth == DifferingBit(l.max, r.min)
    IN  IF l.max >= r.min \/ Bit(l.min, depth) \/ Bit(l.max, depth)
           \/ ~Bit(r.min, depth) \/ ~Bit(r.max, depth)
        THEN {}
        ELSE {[root |-> [depth |-> depth, left |-> l.root, right |-> r.root],
               min |-> l.min, max |-> r.max]}

Branch(l, r) ==
    LET depth == DifferingBit(l.max, r.min)
    IN  IF l.max >= r.min \/ Bit(l.min, depth) \/ Bit(l.max, depth)
           \/ ~Bit(r.min, depth) \/ ~Bit(r.max, depth)
        THEN {}
        ELSE {[root |-> [depth |-> depth, left |-> l, right |-> r], min |-> l.min, max |-> r.max]}

\* The hash of the whole tree; an empty one has a hash of its own.
Finalize(nodes) == IF nodes = {} THEN [empty |-> TRUE] ELSE [top |-> CHOOSE n \in nodes : TRUE]

\* Where a set of keys splits: the first bit in which its ends differ.
Split(S) == DifferingBit(Min(S), Max(S))
LeftOf(S)  == {k \in S : ~Bit(k, Split(S))}
RightOf(S) == {k \in S : Bit(k, Split(S))}

\* build: the subtree over the keys S of t, a set of at most one node.
RECURSIVE Subtree(_, _)
Subtree(t, S) ==
    IF Cardinality(S) =< 1 THEN {Leaf(k, t[k]) : k \in S}
    ELSE UNION {Branch(l, r) : l \in Subtree(t, LeftOf(S)), r \in Subtree(t, RightOf(S))}

ComputeRoot(t) == Finalize(Subtree(t, DOMAIN t))

-----------------------------------------------------------------------------
(* Multiproofs.                                                            *)

Covers(node, keys) == \E k \in keys : node.min =< k /\ k =< node.max

\* Fault: opens a branch for the keys in its range only.
NeverBelow(node, depth, k) == FALSE

\* A key outside the range of a branch still opens it when its leaf would be
\* inserted below the branch's own bit.
Below(node, depth, k) ==
    LET boundary == IF k < node.min THEN node.min ELSE node.max
    IN  k # boundary /\ DifferingBit(k, boundary) > depth

\* side_nodes: the subtrees of t no selected key touches.
RECURSIVE SideNodes(_, _, _)
SideNodes(t, S, keys) ==
    LET node == CHOOSE n \in Subtree(t, S) : TRUE
    IN  IF S = {} THEN {}
        ELSE IF Cardinality(S) = 1 THEN IF Covers(node, keys) THEN {} ELSE {node}
        ELSE IF Covers(node, keys) \/ \E k \in keys : Below(node, Split(S), k)
             THEN SideNodes(t, LeftOf(S), keys) \cup SideNodes(t, RightOf(S), keys)
        ELSE {node}

BuildMultiproof(t, keys) == [keys |-> keys, sides |-> SideNodes(t, DOMAIN t, keys)]

\* combine: {} when the nodes do not form a tree.
RECURSIVE Combine(_)
Combine(nodes) ==
    LET depth == DifferingBit(Min({n.min : n \in nodes}), Max({n.max : n \in nodes}))
        left  == {n \in nodes : ~Bit(n.max, depth)}
        right == nodes \ left
    IN  IF Cardinality(nodes) = 1 THEN nodes
        ELSE IF depth = Bits \/ left = {} \/ right = {} \/ (\E n \in left : Bit(n.min, depth))
                \/ (\E n \in right : ~Bit(n.min, depth))
        THEN {}
        ELSE UNION {Branch(l, r) : l \in Combine(left), r \in Combine(right)}

Disjoint(nodes) == \A m, n \in nodes : m = n \/ m.max < n.min \/ n.max < m.min

\* Fault: lets a side node cover a key of the proof.
RootWithCoveredKeys(values, proof) ==
    LET nodes == {Leaf(k, values[k]) : k \in DOMAIN values} \cup proof.sides
    IN  IF \/ proof.keys = {} \/ ~(DOMAIN values \subseteq proof.keys)
           \/ (\E n \in proof.sides : n.min > n.max)
           \/ ~Disjoint(nodes)
        THEN {}
        ELSE IF nodes = {} THEN {Finalize({})}
        ELSE {Finalize({n}) : n \in Combine(nodes)}

\* compute_root_from_proof over the given values.
RootFromProof(values, proof) ==
    LET nodes == {Leaf(k, values[k]) : k \in DOMAIN values} \cup proof.sides
    IN  IF \/ proof.keys = {} \/ ~(DOMAIN values \subseteq proof.keys)
           \/ (\E n \in proof.sides : n.min > n.max \/ Covers(n, proof.keys))
           \/ ~Disjoint(nodes)
        THEN {}
        ELSE IF nodes = {} THEN {Finalize({})}
        ELSE {Finalize({n}) : n \in Combine(nodes)}

-----------------------------------------------------------------------------
(* PatriciaProof.verifyAccount.                                            *)

BoundaryOf(id, n) == IF n.max < id THEN n.max ELSE n.min

DepthOf(id, n) == DifferingBit(id, BoundaryOf(id, n))

\* Fault: the path so far is always the right child.
FoldAsRight(S, n) == UNION {Branch(n, c) : c \in S}

\* Fault: the range does not grow with the path.
FoldKeepsRange(S, n) ==
    UNION {{[b EXCEPT !.min = c.min, !.max = c.max] :
              b \in IF n.max < c.min THEN Branch(n, c) ELSE Branch(c, n)} : c \in S}

\* One fold step: the branch of the path so far and the next side node.
FoldSide(S, n) == UNION {IF n.max < c.min THEN Branch(n, c) ELSE Branch(c, n) : c \in S}

VerifyAccount(id, value, sides) ==
    IF \/ (\E n \in sides : n.min > n.max \/ Covers(n, {id}))
       \/ ~Disjoint(sides)
       \/ (\E m, n \in sides : m # n /\ DepthOf(id, m) = DepthOf(id, n))
    THEN {}
    ELSE {Finalize({n}) : n \in
            FoldLeft(FoldSide, {Leaf(id, value)},
                     SetToSortSeq(sides, LAMBDA m, n : DepthOf(id, m) > DepthOf(id, n)))}

-----------------------------------------------------------------------------
(* The life of a tree: the host proves the keys a batch touches, the guest   *)
(* checks the witness, changes and inserts accounts, computes the new root   *)
(* from the same proof, and the host applies the accounts.                   *)

Overlay(t, u) == [k \in DOMAIN t \cup DOMAIN u |-> IF k \in DOMAIN u THEN u[k] ELSE t[k]]

Init == leaves = <<>> /\ witness = <<>>

WitnessFor(keys) ==
    /\ witness = <<>>
    /\ witness' = [values |-> [k \in keys \cap DOMAIN leaves |-> leaves[k]],
                   proof  |-> BuildMultiproof(leaves, keys)]
    /\ UNCHANGED leaves

\* The guest changes an account, or opens one under a key of the proof.
Change(k, v) ==
    /\ witness # <<>> /\ k \in witness.proof.keys
    /\ witness' = [witness EXCEPT !.values = Overlay(@, [j \in {k} |-> v])]
    /\ UNCHANGED leaves

Apply ==
    /\ witness # <<>>
    /\ leaves' = Overlay(leaves, witness.values)
    /\ witness' = <<>>

Next ==
    \/ \E keys \in SUBSET Keys \ {{}} : WitnessFor(keys)
    \/ \E k \in Keys, v \in Values : Change(k, v)
    \/ Apply

Spec == Init /\ [][Next]_vars

-----------------------------------------------------------------------------
(* Properties.                                                             *)

\* The proof built for the old tree gives the root of the new one, whatever
\* accounts the guest changed or inserted since (state.rs:69-81, 108-113,
\* patricia.rs:251-302).
ProofFollowsChanges ==
    witness # <<>> =>
        RootFromProof(witness.values, witness.proof) = {ComputeRoot(Overlay(leaves, witness.values))}

\* Nodes somebody who knows the tree can put into a proof.
RECURSIVE NodesOf(_, _)
NodesOf(t, S) ==
    IF S = {} THEN {}
    ELSE Subtree(t, S) \cup
         (IF Cardinality(S) = 1 THEN {} ELSE NodesOf(t, LeftOf(S)) \cup NodesOf(t, RightOf(S)))

\* The same nodes with another key range.
Restated(node) == {[node EXCEPT !.min = a, !.max = b] : a \in Keys, b \in Keys}

Partials(D) == UNION {[S -> Values] : S \in SUBSET D}

\* Whatever side nodes a proof is put together from, if it gives the root then
\* its accounts are the tree's, and a key without an account is absent from
\* the tree (patricia.rs:342-383).
ProofsAreSound ==
    witness = <<>> /\ leaves # <<>> =>
        LET root == ComputeRoot(leaves)
        IN  \A sides \in SUBSET NodesOf(leaves, DOMAIN leaves), keys \in SUBSET Keys \ {{}} :
            \A values \in Partials(keys) :
                root \in RootFromProof(values, [keys |-> keys, sides |-> sides])
                    => values = [k \in keys \cap DOMAIN leaves |-> leaves[k]]

\* A side node with a false key range gives no proof of the root.
RangesAreCommitted ==
    witness = <<>> /\ leaves # <<>> =>
        \A k \in DOMAIN leaves :
            LET root  == ComputeRoot(leaves)
                proof == BuildMultiproof(leaves, {k})
                value == [j \in {k} |-> leaves[k]]
            IN  \A node \in proof.sides : \A false \in Restated(node) \ {node} :
                    LET sides == (proof.sides \ {node}) \cup {false}
                    IN  /\ root \notin RootFromProof(value, [keys |-> {k}, sides |-> sides])
                        /\ root \notin VerifyAccount(k, leaves[k], sides)

\* The contract's fold and the guest's recursion never compute two roots from
\* one leaf and the same side nodes, and the fold gives the tree's root for the
\* tree's own leaves only, so escapeWithdraw pays what settle_batch committed
\* to.  Each refuses proofs the other takes: the fold a subtree taken apart, the
\* recursion a node whose range reaches past the leaf's bit (PatriciaProof.sol:36-85).
VerifierAgrees ==
    witness = <<>> /\ leaves # <<>> =>
        LET root == ComputeRoot(leaves)
        IN  \A id \in Keys, value \in Values, sides \in SUBSET NodesOf(leaves, DOMAIN leaves) :
            LET fold    == VerifyAccount(id, value, sides)
                general == RootFromProof([k \in {id} |-> value], [keys |-> {id}, sides |-> sides])
            IN  /\ fold # {} /\ general # {} => fold = general
                /\ root \in fold => id \in DOMAIN leaves /\ leaves[id] = value

\* A root commits to one ledger and to the key ranges of its nodes, before the
\* guest and before the contract.
PatriciaCommits == ProofsAreSound /\ RangesAreCommitted

\* Every account of a tree can be proved to the contract.
EveryLeafProvable ==
    witness = <<>> =>
        \A k \in DOMAIN leaves :
            VerifyAccount(k, leaves[k], BuildMultiproof(leaves, {k}).sides) = {ComputeRoot(leaves)}
=============================================================================
