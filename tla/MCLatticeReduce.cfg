CONSTANT Lattices <- MCLattices
CONSTANT NoResult = NoResult
SPECIFICATION Spec
INVARIANT TypeOK
INVARIANT BasisChangeConsistent
PROPERTY ImplementsReduceAbstract
\* reduceLatticeVectors returns: its final state has no successor.
CHECK_DEADLOCK FALSE
