CONSTANTS m1 = m1  m2 = m2  b1 = b1  b2 = b2  b3 = b3  matrixCat = matrixCat
CONSTANT Null = Null
CONSTANT NoCategory = NoCategory
CONSTANT Objs <- MCObjs
CONSTANT Bufs <- MCBufs
CONSTANT Categories = {matrixCat}
CONSTANT MatrixCat = matrixCat
CONSTANT MaxDim = 2
CONSTANT GpuEnabled = FALSE
CONSTANT CallersValid = TRUE
\* A client that constructs matrices and copy-assigns one to another.
CONSTANT Ops = {"construct", "copyAssign"}
SPECIFICATION Spec
INVARIANT MemcpySizesAgree
SYMMETRY MCSymmetry
CONSTANT Indeterminate = Indeterminate
