CONSTANTS m1 = m1  m2 = m2  b1 = b1  b2 = b2  b3 = b3  matrixCat = matrixCat
CONSTANT Null = Null
CONSTANT NoCategory = NoCategory
CONSTANT Objs <- MCObjs
CONSTANT Bufs <- MCBufs
CONSTANT Categories = {matrixCat}
CONSTANT MatrixCat = matrixCat
CONSTANT MaxDim = 2
CONSTANT GpuEnabled = TRUE
CONSTANT CallersValid = TRUE
\* Access: element and strided sub-matrix get and set on reshaped matrices.
CONSTANT Ops = {"construct", "reshape", "get", "set", "subGet", "subSet"}
SPECIFICATION Spec
INVARIANT OwnershipExact
INVARIANT AccessInBounds
SYMMETRY MCSymmetry
CONSTANT Indeterminate = Indeterminate
