CONSTANTS m1 = m1  m2 = m2  b1 = b1  b2 = b2  b3 = b3  matrixCat = matrixCat
CONSTANT Null = Null
CONSTANT NoCategory = NoCategory
CONSTANT Objs <- MCObjs
CONSTANT Bufs <- MCBufs
CONSTANT Categories = {matrixCat}
CONSTANT MatrixCat = matrixCat
CONSTANT MaxDim = 2
CONSTANT GpuEnabled = FALSE
CONSTANT CallersValid = TRUE
\* Lifecycle: construction, copies, moves and reshapes.
CONSTANT Ops = {"construct", "construct3", "copy", "copyAssign", "move", "reshape"}
SPECIFICATION Spec
INVARIANT MatTypeOK
INVARIANT OwnershipExact
INVARIANT UsageMatchesLive
INVARIANT ShapeMatchesStorage
SYMMETRY MCSymmetry
CONSTANT Indeterminate = Indeterminate
\* memcpy's size assertion may end the process, after which nothing runs.
CHECK_DEADLOCK FALSE
