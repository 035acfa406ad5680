CONSTANT N <- MCN
CONSTANT Inputs <- MCInputs
CONSTANT NoResult = NoResult
SPECIFICATION Spec
INVARIANT STypeOK
INVARIANT MeshIsClosure
INVARIANT AcceptsExactlyShiftedLattices
INVARIANT SupercellCommensurate
\* The constructor returns (or dies) and has no further step.
CHECK_DEADLOCK FALSE
