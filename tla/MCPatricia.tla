----------------------------- MODULE MCPatricia -----------------------------
(***************************************************************************)
(* Two instances of the trees. Wide has keys of three bits and one         *)
(* content: every shape of tree over eight keys. Narrow has keys of two    *)
(* bits and two contents, few enough to try every proof that can be put    *)
(* together. The variable instance says which of the two a behaviour is of.*)
(***************************************************************************)
EXTENDS FiniteSets, Naturals

CONSTANTS
    v, w,               \* contents
    MaxLeaves,          \* bound: accounts in the tree
    ByteBits            \* bits of a byte of the sparse bitmap; 8 in the code

VARIABLES leaves, witness, instance

Wide   == INSTANCE MerkleTrees WITH Bits <- 3, Values <- {v}
Narrow == INSTANCE MerkleTrees WITH Bits <- 2, Values <- {v, w}

TreesInit == instance \in {"wide", "narrow"} /\ Wide!Init /\ Narrow!Init

WideNext ==
    /\ instance = "wide" /\ Wide!Next
    /\ Cardinality(DOMAIN leaves' \cup (IF witness' = <<>> THEN {} ELSE DOMAIN witness'.values))
          =< MaxLeaves

NarrowNext == instance = "narrow" /\ Narrow!Next

TreesSpec == TreesInit /\ [][(WideNext \/ NarrowNext) /\ UNCHANGED instance]_<<leaves, witness, instance>>

-----------------------------------------------------------------------------
(* What is asked of the trees, of both or, where every proof is tried, of    *)
(* the narrow ones.                                                        *)

InBoth(wide, narrow) == (instance = "wide" => wide) /\ (instance = "narrow" => narrow)

\* The proof built for the old tree gives the root of the new one, whatever
\* accounts the guest changed or inserted since (state.rs:69-81, 108-113,
\* patricia.rs:251-302).
ProofFollowsChanges == InBoth(Wide!ProofFollowsChanges, Narrow!ProofFollowsChanges)

\* Every account of a tree can be proved to the contract (PatriciaProof.sol:36-85).
EveryLeafProvable == InBoth(Wide!EveryLeafProvable, Narrow!EveryLeafProvable)

\* The contract's fold and the guest's recursion never compute two roots from
\* one leaf and the same side nodes, and the fold gives the tree's root for the
\* tree's own leaves only (PatriciaProof.sol:36-85, patricia.rs:281-383).
VerifierAgrees == InBoth(Wide!VerifierAgrees, Narrow!VerifierAgrees)

\* The sparse proof built for the old accounts gives the root of the new ones
\* (smt.rs:188-266).
SparseProofFollowsChanges == InBoth(Wide!SparseProofFollowsChanges, Narrow!SparseProofFollowsChanges)

\* A Patricia root commits to one ledger and to the key ranges of its nodes,
\* before the guest and before the contract (patricia.rs:342-383).
PatriciaCommits == instance = "narrow" => Narrow!PatriciaCommits

\* A root of the sparse tree commits to one set of accounts, and a statement
\* about it has one proof (smt.rs:209-353).
SparseTreeCommits == instance = "narrow" => Narrow!SparseTreeCommits

\* A root of the dense tree commits to one list, and its proofs survive changes
\* of the leaves they prove (dmt.rs:96-225).
DenseTreeCommits == instance = "narrow" => Narrow!DenseTreeCommits
=============================================================================
