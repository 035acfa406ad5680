CONSTANT Lattices <- MCLattices
CONSTANT TruncationMasks <- MCTruncationMasks
CONSTANT NoResult = NoResult
SPECIFICATION FSpec
INVARIANT SymmetriesAreSymmetriesOfR
INVARIANT SymmetriesComplete
\* getSymmetries returns: its final state has no successor.
CHECK_DEADLOCK FALSE
