CONSTANTS y1 = y1  y2 = y2  b1 = b1  b2 = b2  b3 = b3  cbCat = cbCat
CONSTANT Null = Null
CONSTANT NoCategory = NoCategory
CONSTANT Indeterminate = Indeterminate
CONSTANT Objs <- MCObjs
CONSTANT Bufs <- MCBufs
CONSTANT Categories = {cbCat}
CONSTANT CBCat = cbCat
CONSTANT MaxCols = 2
CONSTANT Lengths = {1, 2}
CONSTANT GpuEnabled = TRUE
\* Every operation: construction, copies, moves, similar, free, destruction
\* column ranges and the threaded operators, in a GPU build (dataPref may relocate).
CONSTANT Ops = {"construct", "data", "free", "copy", "copyAssign", "move", "similar", "getSub", "setSub", "threads"}
CONSTANT NProcsAvailable = 2
SPECIFICATION ThreadsSpec
INVARIANT CBTypeOK
INVARIANT OwnershipBetweenCalls
INVARIANT UsageMatchesLive
INVARIANT CBShapeMatchesStorage
INVARIANT CopySizesAgree
INVARIANT SubInBounds
SYMMETRY MCSymmetry
