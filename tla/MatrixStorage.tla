---------------------------- MODULE MatrixStorage ----------------------------
(***************************************************************************)
(* The storage side of class matrix (electronic/matrix.cpp): constructors, *)
(* copy and move, reshape, and element and strided sub-matrix access, all  *)
(* on top of ManagedMemory.  A matrix is column-major: element (i,j) is    *)
(* index(i,j) = nr*j + i of its nElements.                                 *)
(*                                                                         *)
(* The fields nr and nc have no initialiser in this repository, so the     *)
(* move constructor hands the moved-from matrix the indeterminate values   *)
(* the new object held: the model value Indeterminate, which TLC refuses   *)
(* to compute with, so a run shows they are never read.  Callers use a     *)
(* moved-from matrix only as the target of an assignment or to destroy it. *)
(* A                                                                       *)
(* myassert on arguments is the caller's obligation and appears as a      *)
(* guard; what the code then does is the action.                           *)
(***************************************************************************)
EXTENDS ManagedMemory

CONSTANTS
    MatrixCat,    \* the category string "matrix"
    Indeterminate,\* the value of an uninitialised int
    MaxDim,       \* largest dimension a caller passes
    Ops,          \* the operations the client calls
    CallersValid  \* whether callers keep column ranges inside the matrix

VARIABLES
    nr, nc,       \* matrix::nr, matrix::nc
    movedFrom,    \* objects whose contents were moved out
    outOfBounds   \* an element access fell outside the object's storage

vars == <<mmVars, nr, nc, movedFrom, outOfBounds>>

Dims == 0..MaxDim

(* C++ int division truncates toward zero.                                *)
CDiv(a, b) == IF a >= 0 THEN a \div b ELSE -((-a) \div b)

(* Mutant: ceildiv rounding one too far.                                  *)
CeilDivPlusOne(num, den) == CDiv(num, den) + 1

(* ceildiv and matrix::index are header functions (not in src/).           *)
CeilDiv(num, den) == CDiv(num + den - 1, den)

Index(rows, i, j) == rows * j + i

-----------------------------------------------------------------------------
(* Mutant: init that calls memInit whatever the size.                      *)
MatrixInitAlways(w, o, r, c, gpu) == MemInit(w, o, MatrixCat, r * c, gpu)

(* matrix::init: set the dimensions; memInit only when there is storage.   *)
MatrixInit(w, o, r, c, gpu) == IF r * c > 0 THEN MemInit(w, o, MatrixCat, r * c, gpu) ELSE w

(* Indices a strided copy touches: source index(i*iStep+iStart,            *)
(* j*jStep+jStart) and destination index(i,j), for i < iDelta, j < jDelta. *)
StridedOk(srcRows, srcN, dstRows, dstN, iStart, iStep, iDelta, jStart, jStep, jDelta) ==
    \A i \in 0..(iDelta - 1), j \in 0..(jDelta - 1) :
        /\ Index(srcRows, i * iStep + iStart, j * jStep + jStart) \in 0..(srcN - 1)
        /\ Index(dstRows, i, j) \in 0..(dstN - 1)

(* The asserts of the strided get and set, as written: the column asserts  *)
(* are disjunctions.                                                       *)
RangeAsserts(o, iStart, iStep, iStop, jStart, jStep, jStop) ==
    /\ iStart >= 0 /\ iStart < nr[o]
    /\ iStop > iStart /\ iStop <= nr[o]
    /\ iStep > 0
    /\ jStart >= 0 \/ jStart < nc[o]
    /\ jStop > jStart \/ jStop <= nc[o]
    /\ jStep > 0

(* The column range callers mean to pass.                                 *)
CallerRange(o, jStart, jStop) ==
    CallersValid => jStart >= 0 /\ jStart < nc[o] /\ jStop > jStart /\ jStop <= nc[o]

Usable(o) == Running /\ alive[o] /\ ~movedFrom[o]
Fresh(o)  == Running /\ ~alive[o]

Born(w, o) == [w EXCEPT !.alive[o] = TRUE, !.mm[o] = Empty]

-----------------------------------------------------------------------------
Init == /\ MMInit
        /\ nr = [o \in Objs |-> 0]
        /\ nc = [o \in Objs |-> 0]
        /\ movedFrom = [o \in Objs |-> FALSE]
        /\ outOfBounds = FALSE

(* matrix(nrows, ncols, onGpu)                                             *)
ConstructMatrix(o, r, c, gpu) ==
    /\ "construct" \in Ops /\ Fresh(o)
    /\ Commit(MatrixInit(Born(World, o), o, r, c, gpu))
    /\ nr' = [nr EXCEPT ![o] = r] /\ nc' = [nc EXCEPT ![o] = c]
    /\ movedFrom' = [movedFrom EXCEPT ![o] = FALSE]
    /\ UNCHANGED outOfBounds

(* matrix(const diagMatrix&) and matrix(const std::vector<complex>&):      *)
(* memInit, zero() through dataPref(), then data() for the diagonal.      *)
ConstructDiag(o, k) ==
    /\ "construct" \in Ops /\ Fresh(o)
    /\ LET w1 == Born(World, o)
           w2 == IF k = 0 THEN w1 ELSE MemInit(w1, o, MatrixCat, k * k, FALSE)
           w3 == IF k = 0 \/ ~Ok(w2) THEN w2 ELSE DataPref(w2, o)
       IN Commit(IF k = 0 \/ ~Ok(w3) THEN w3 ELSE Data(w3, o))
    /\ nr' = [nr EXCEPT ![o] = k] /\ nc' = [nc EXCEPT ![o] = k]
    /\ movedFrom' = [movedFrom EXCEPT ![o] = FALSE]
    /\ UNCHANGED outOfBounds

(* matrix(const matrix3<>&): a 3x3 matrix filled with set(i,j,...).        *)
Construct3(o) ==
    /\ "construct3" \in Ops /\ Fresh(o)
    /\ Commit(MemInit(Born(World, o), o, MatrixCat, 9, FALSE))
    /\ nr' = [nr EXCEPT ![o] = 3] /\ nc' = [nc EXCEPT ![o] = 3]
    /\ movedFrom' = [movedFrom EXCEPT ![o] = FALSE]
    /\ UNCHANGED outOfBounds

(* matrix(const matrix&) and operator=(const matrix&): init to the        *)
(* source's shape and location, then memcpy.                               *)
CopyInto(w, o, m1) == LET w1 == MatrixInit(w, o, nr[m1], nc[m1], w.mm[m1].onGpu)
                      IN IF Ok(w1) THEN Memcpy(w1, o, m1) ELSE w1

CopyConstruct(o, m1) ==
    /\ "copy" \in Ops /\ Fresh(o) /\ Usable(m1)
    /\ Commit(CopyInto(Born(World, o), o, m1))
    /\ nr' = [nr EXCEPT ![o] = nr[m1]] /\ nc' = [nc EXCEPT ![o] = nc[m1]]
    /\ movedFrom' = [movedFrom EXCEPT ![o] = FALSE]
    /\ UNCHANGED outOfBounds

CopyAssign(o, m1) ==
    /\ "copyAssign" \in Ops /\ Running /\ alive[o] /\ Usable(m1)
    /\ Commit(CopyInto(World, o, m1))
    /\ nr' = [nr EXCEPT ![o] = nr[m1]] /\ nc' = [nc EXCEPT ![o] = nc[m1]]
    /\ movedFrom' = [movedFrom EXCEPT ![o] = FALSE]
    /\ UNCHANGED outOfBounds

(* matrix(matrix&&): swap nr, nc (the new object's are uninitialised) and *)
(* memMove.                                                                *)
MoveConstruct(o, m1) ==
    /\ "move" \in Ops /\ Fresh(o) /\ Usable(m1)
    /\ Commit(MemMove(Born(World, o), o, m1))
    /\ nr' = [nr EXCEPT ![o] = nr[m1], ![m1] = Indeterminate]
    /\ nc' = [nc EXCEPT ![o] = nc[m1], ![m1] = Indeterminate]
    /\ movedFrom' = [movedFrom EXCEPT ![o] = FALSE, ![m1] = TRUE]
    /\ UNCHANGED outOfBounds

(* Mutant: move assignment that moves the storage but not the shape.      *)
MoveAssignStorageOnly(o, m1) ==
    /\ "move" \in Ops /\ Running /\ alive[o] /\ Usable(m1) /\ o # m1
    /\ Commit(MemMove(World, o, m1))
    /\ movedFrom' = [movedFrom EXCEPT ![o] = FALSE, ![m1] = TRUE]
    /\ UNCHANGED <<nr, nc, outOfBounds>>

(* operator=(matrix&&): swap nr, nc and memMove.                           *)
MoveAssign(o, m1) ==
    /\ "move" \in Ops /\ Running /\ alive[o] /\ Usable(m1) /\ o # m1
    /\ Commit(MemMove(World, o, m1))
    /\ nr' = [nr EXCEPT ![o] = nr[m1], ![m1] = nr[o]]
    /\ nc' = [nc EXCEPT ![o] = nc[m1], ![m1] = nc[o]]
    /\ movedFrom' = [movedFrom EXCEPT ![o] = FALSE, ![m1] = TRUE]
    /\ UNCHANGED outOfBounds

(* matrix::reshape: fill in a zero dimension from the current size; the   *)
(* asserts (the product is kept) are the caller's obligation.              *)
Reshape(o, r, c) ==
    /\ "reshape" \in Ops /\ Usable(o)
    /\ LET nProd == nr[o] * nc[o]
           r1 == IF r = 0 /\ c # 0 THEN CDiv(nProd, c) ELSE r
           c1 == IF c = 0 /\ r1 # 0 THEN CDiv(nProd, r1) ELSE c
       IN /\ r # 0 \/ c # 0
          /\ r1 * c1 = nProd
          /\ nr' = [nr EXCEPT ![o] = r1] /\ nc' = [nc EXCEPT ![o] = c1]
    /\ UNCHANGED <<mmVars, movedFrom, outOfBounds>>

(* operator()(i,j) const and set(i,j,m): dataGpu() when on the GPU, else  *)
(* data(); neither moves the block, which is already there.               *)
ElementAccess(o, i, j) ==
    /\ Usable(o)
    /\ i < nr[o] /\ i >= 0 /\ j < nc[o] /\ j >= 0
    /\ outOfBounds' = (outOfBounds \/ Index(nr[o], i, j) \notin 0..(mm[o].nElements - 1))
    /\ UNCHANGED <<mmVars, nr, nc, movedFrom>>

GetElement(o, i, j) == "get" \in Ops /\ ElementAccess(o, i, j)
SetElement(o, i, j) == "set" \in Ops /\ ElementAccess(o, i, j)

(* operator()(iStart,iStep,iStop, jStart,jStep,jStop) const into a new    *)
(* matrix d: the whole range returns a copy; otherwise ret(iDelta, jDelta, *)
(* isGpuEnabled()), both dataPref() pointers, and the strided copy.        *)
SubGet(o, d, iStart, iStep, iStop, jStart, jStep, jStop) ==
    /\ "subGet" \in Ops /\ Usable(o) /\ Fresh(d)
    /\ IF iStart = 0 /\ iStep = 1 /\ iStop = nr[o] /\ jStart = 0 /\ jStep = 1 /\ jStop = nc[o]
          THEN /\ Commit(CopyInto(Born(World, d), d, o))
               /\ nr' = [nr EXCEPT ![d] = nr[o]] /\ nc' = [nc EXCEPT ![d] = nc[o]]
               /\ UNCHANGED outOfBounds
          ELSE /\ RangeAsserts(o, iStart, iStep, iStop, jStart, jStep, jStop)
               /\ CallerRange(o, jStart, jStop)
               /\ LET iDelta == CeilDiv(iStop - iStart, iStep)
                      jDelta == CeilDiv(jStop - jStart, jStep)
                      w1 == MatrixInit(Born(World, d), d, iDelta, jDelta, GpuEnabled)
                      w2 == IF Ok(w1) THEN DataPref(w1, d) ELSE w1
                      w3 == IF Ok(w2) THEN DataPref(w2, o) ELSE w2
                  IN /\ Commit(w3)
                     /\ nr' = [nr EXCEPT ![d] = iDelta] /\ nc' = [nc EXCEPT ![d] = jDelta]
                     /\ outOfBounds' = (outOfBounds \/ ~StridedOk(nr[o], mm[o].nElements, iDelta,
                                           w3.mm[d].nElements, iStart, iStep, iDelta, jStart, jStep, jDelta))
    /\ movedFrom' = [movedFrom EXCEPT ![d] = FALSE]

(* set(iStart,iStep,iStop, jStart,jStep,jStop, m): the range must have    *)
(* m's shape; both dataPref() pointers, then the strided copy into *this. *)
SubSet(o, m, iStart, iStep, iStop, jStart, jStep, jStop) ==
    /\ "subSet" \in Ops /\ Usable(o) /\ Usable(m)
    /\ RangeAsserts(o, iStart, iStep, iStop, jStart, jStep, jStop)
    /\ CallerRange(o, jStart, jStop)
    /\ CeilDiv(iStop - iStart, iStep) = nr[m]
    /\ CeilDiv(jStop - jStart, jStep) = nc[m]
    /\ LET w1 == DataPref(World, m)
           w2 == IF Ok(w1) THEN DataPref(w1, o) ELSE w1
       IN /\ Commit(w2)
          /\ outOfBounds' = (outOfBounds \/ ~StridedOk(nr[m], mm[m].nElements, nr[o], mm[o].nElements,
                                                       0, 1, nr[m], 0, 1, nc[m])
                                         \/ ~StridedOk(nr[o], mm[o].nElements, nr[m], mm[m].nElements,
                                                       iStart, iStep, nr[m], jStart, jStep, nc[m]))
    /\ UNCHANGED <<nr, nc, movedFrom>>

(* ~matrix, then ~ManagedMemory: memFree.                                  *)
DestroyMatrix(o) ==
    /\ Running /\ alive[o]
    /\ Commit([MemFree(World, o) EXCEPT !.alive[o] = FALSE])
    /\ movedFrom' = [movedFrom EXCEPT ![o] = FALSE]
    /\ UNCHANGED <<nr, nc, outOfBounds>>

-----------------------------------------------------------------------------
(* Arguments callers pass: dimensions, strides 1 and 2, and row ranges    *)
(* the row asserts admit.  Column ranges are those inside the matrix when  *)
(* callers are valid, and any from one before to one past it otherwise.   *)
Steps == {1, 2}
Starts(n) == 0..(n - 1)
Stops(n, start) == (start + 1)..n
JStarts(o) == IF CallersValid THEN Starts(nc[o]) ELSE -1..(nc[o] + 1)
JStops(o, jStart) == IF CallersValid THEN Stops(nc[o], jStart) ELSE -1..(nc[o] + 1)

Next ==
    \/ \E o \in Objs, r, c \in Dims, gpu \in Gpus : ConstructMatrix(o, r, c, gpu)
    \/ \E o \in Objs, k \in Dims : ConstructDiag(o, k)
    \/ \E o \in Objs : Construct3(o) \/ DestroyMatrix(o)
    \/ \E o, m1 \in Objs : CopyConstruct(o, m1) \/ CopyAssign(o, m1)
                           \/ MoveConstruct(o, m1) \/ MoveAssign(o, m1)
    \/ \E o \in Objs, r, c \in Dims : Reshape(o, r, c)
    \/ \E o \in Objs, i, j \in Dims : GetElement(o, i, j) \/ SetElement(o, i, j)
    \/ \E o, d \in Objs : Usable(o) /\ \E iStart \in Starts(nr[o]), jStart \in JStarts(o) :
         \E iStop \in Stops(nr[o], iStart), jStop \in JStops(o, jStart), iStep, jStep \in Steps :
            SubGet(o, d, iStart, iStep, iStop, jStart, jStep, jStop)
            \/ SubSet(o, d, iStart, iStep, iStop, jStart, jStep, jStop)

Spec == Init /\ [][Next]_vars

-----------------------------------------------------------------------------
(* The only check that can end the process is memcpy's size assertion;    *)
(* no allocation fails with the blocks the objects need.                   *)
MatTypeOK ==
    /\ MMTypeOK
    /\ nr \in [Objs -> Int \cup {Indeterminate}] /\ nc \in [Objs -> Int \cup {Indeterminate}]
    /\ movedFrom \in [Objs -> BOOLEAN]
    /\ outOfBounds \in BOOLEAN
    /\ failed \in {"none", "memcpy"}

(* Every live matrix that was not moved from holds exactly nr*nc elements *)
(* of category "matrix" (none when nr*nc <= 0), and a block when it holds  *)
(* any: its shape and its storage agree after any sequence of             *)
(* constructions, copies, moves, reshapes and sub-matrix extractions.     *)
ShapeMatchesStorage ==
    Running =>
        \A o \in Objs : alive[o] /\ ~movedFrom[o] =>
            /\ mm[o].nElements = IF nr[o] * nc[o] > 0 THEN nr[o] * nc[o] ELSE 0
            /\ mm[o].nElements > 0 => mm[o].c # Null /\ mm[o].category = MatrixCat

(* No element access, single or strided, reads or writes outside the      *)
(* storage of the matrix it indexes.                                       *)
AccessInBounds == ~outOfBounds

(* memcpy's assertion a.nData() == b.nData() holds whenever a matrix is   *)
(* copied: init has just given the target the source's shape.              *)
MemcpySizesAgree == failed # "memcpy"
=============================================================================
