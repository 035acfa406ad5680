CONSTANT Inputs <- MCInputs
SPECIFICATION Spec
INVARIANT CMTypeOK
INVARIANT CoversWignerSeitz
INVARIANT WeightsPartitionUnity
\* getCellMap returns (or dies on its assertion) and takes no further step.
CHECK_DEADLOCK FALSE
