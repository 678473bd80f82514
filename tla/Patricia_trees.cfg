SPECIFICATION TreesSpec
CONSTANTS
    v = v
    w = w
    MaxLeaves = 4
    ByteBits = 2
INVARIANTS ProofFollowsChanges EveryLeafProvable VerifierAgrees
INVARIANTS SparseProofFollowsChanges
INVARIANTS PatriciaCommits SparseTreeCommits DenseTreeCommits
