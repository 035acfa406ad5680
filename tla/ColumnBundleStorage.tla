------------------------ MODULE ColumnBundleStorage ------------------------
(***************************************************************************)
(* The storage side of class ColumnBundle (electronic/ColumnBundle.cpp):  *)
(* init and free, the constructors, copy and move assignment, similar(),  *)
(* and the column-range copies getSub and setSub, on top of               *)
(* ManagedMemory.  A bundle holds ncols columns of col_length elements,   *)
(* column i starting at index i*col_length.                                *)
(*                                                                         *)
(* basis and qnum are pointers that init, free and the moves assign       *)
(* together with ncols and col_length; no storage decision reads them, so *)
(* they are left out.  As for matrix, the move constructor swaps the      *)
(* fields with the new object's uninitialised ones, so the moved-from     *)
(* bundle gets Indeterminate.  A myassert on arguments is the caller's    *)
(* obligation and appears as a guard.                                      *)
(***************************************************************************)
EXTENDS ManagedMemory

CONSTANTS
    CBCat,         \* the category string "ColumnBundle"
    Indeterminate, \* the value of an uninitialised field
    MaxCols,       \* most columns a caller asks for
    Lengths,       \* non-zero column lengths callers pass
    Ops            \* the operations the client calls

VARIABLES
    ncols, colLength, \* ColumnBundle::ncols, ColumnBundle::col_length
    movedFrom,        \* objects whose contents were moved out
    outOfBounds       \* a column copy touched an index outside a storage

cbVars == <<mmVars, ncols, colLength, movedFrom, outOfBounds>>

Cols == 0..MaxCols

(* init asserts colLength() != 0 whenever there are columns.               *)
Shapes == { s \in Cols \X ({0} \cup Lengths) : s[1] # 0 => s[2] # 0 }

-----------------------------------------------------------------------------
(* Mutant: init that, like matrix::init, keeps the old storage when the   *)
(* new bundle has no columns.                                              *)
CBInitKeep(w, o, nc, len, gpu) == IF nc = 0 THEN w ELSE MemInit(w, o, CBCat, nc * len, gpu)

(* ColumnBundle::init: no columns frees the storage ("default constructor *)
(* or assignment to empty ColumnBundle"); otherwise memInit of nc*len.     *)
CBInit(w, o, nc, len, gpu) == IF nc = 0 THEN MemFree(w, o) ELSE MemInit(w, o, CBCat, nc * len, gpu)

(* Copy constructor and copy assignment: init to Y's shape and location,  *)
(* then memcpy if there is data.                                           *)
CBCopyInto(w, o, Y) ==
    LET w1 == CBInit(w, o, ncols[Y], colLength[Y], w.mm[Y].onGpu)
    IN IF Ok(w1) /\ w1.mm[o].nElements # 0 THEN Memcpy(w1, o, Y) ELSE w1

(* The dataPref() calls of one eblas_copy, in either order: the order in  *)
(* which C++ evaluates the arguments is unspecified.                       *)
BothDataPref(w, a, b, first) ==
    LET x == IF first = a THEN a ELSE b
        y == IF first = a THEN b ELSE a
        w1 == DataPref(w, x)
    IN IF Ok(w1) THEN DataPref(w1, y) ELSE w1

(* An eblas_copy of n elements from src at srcOff to dst at dstOff stays  *)
(* inside both storages.                                                   *)
CopyInBounds(w, dst, dstOff, src, srcOff, n) ==
    n = 0 \/ ( /\ dstOff >= 0 /\ dstOff + n <= w.mm[dst].nElements
               /\ srcOff >= 0 /\ srcOff + n <= w.mm[src].nElements )

(* Mutant: setSub copying all of Y's columns, without the clamp.           *)
SetSubCountNoClamp(o, Y, colStart) == ncols[Y]

(* setSub copies min(Y.nCols(), nCols()-colStart) columns.                 *)
SetSubCount(o, Y, colStart) ==
    IF ncols[Y] < ncols[o] - colStart THEN ncols[Y] ELSE ncols[o] - colStart

Usable(o) == Running /\ alive[o] /\ ~movedFrom[o]
Fresh(o)  == Running /\ ~alive[o]

Born(w, o) == [w EXCEPT !.alive[o] = TRUE, !.mm[o] = Empty]

-----------------------------------------------------------------------------
Init == /\ MMInit
        /\ ncols = [o \in Objs |-> 0]
        /\ colLength = [o \in Objs |-> 0]
        /\ movedFrom = [o \in Objs |-> FALSE]
        /\ outOfBounds = FALSE

SetShape(o, nc, len) ==
    /\ ncols' = [ncols EXCEPT ![o] = nc] /\ colLength' = [colLength EXCEPT ![o] = len]
    /\ movedFrom' = [movedFrom EXCEPT ![o] = FALSE]

(* ColumnBundle(nc, len, b, q, onGpu)                                      *)
ConstructCB(o, nc, len, gpu) ==
    /\ "construct" \in Ops /\ Fresh(o)
    /\ Commit(CBInit(Born(World, o), o, nc, len, gpu))
    /\ SetShape(o, nc, len)
    /\ UNCHANGED outOfBounds

(* ColumnBundle::free: zero the fields, then memFree.  It assigns every   *)
(* field, so a moved-from bundle may be freed.                             *)
Free(o) ==
    /\ "free" \in Ops /\ Running /\ alive[o]
    /\ Commit(MemFree(World, o))
    /\ SetShape(o, 0, 0)
    /\ UNCHANGED outOfBounds

CopyConstruct(o, Y) ==
    /\ "copy" \in Ops /\ Fresh(o) /\ Usable(Y)
    /\ Commit(CBCopyInto(Born(World, o), o, Y))
    /\ SetShape(o, ncols[Y], colLength[Y])
    /\ UNCHANGED outOfBounds

CopyAssign(o, Y) ==
    /\ "copyAssign" \in Ops /\ Running /\ alive[o] /\ Usable(Y)
    /\ Commit(CBCopyInto(World, o, Y))
    /\ SetShape(o, ncols[Y], colLength[Y])
    /\ UNCHANGED outOfBounds

(* ColumnBundle(ColumnBundle&&): swap the fields with the new object's    *)
(* uninitialised ones, then memMove.                                       *)
MoveConstruct(o, Y) ==
    /\ "move" \in Ops /\ Fresh(o) /\ Usable(Y)
    /\ Commit(MemMove(Born(World, o), o, Y))
    /\ ncols' = [ncols EXCEPT ![o] = ncols[Y], ![Y] = Indeterminate]
    /\ colLength' = [colLength EXCEPT ![o] = colLength[Y], ![Y] = Indeterminate]
    /\ movedFrom' = [movedFrom EXCEPT ![o] = FALSE, ![Y] = TRUE]
    /\ UNCHANGED outOfBounds

(* Mutant: move assignment that forgets to swap col_length.                *)
MoveAssignKeepLength(o, Y) ==
    /\ "move" \in Ops /\ Running /\ alive[o] /\ Usable(Y) /\ o # Y
    /\ Commit(MemMove(World, o, Y))
    /\ ncols' = [ncols EXCEPT ![o] = ncols[Y], ![Y] = ncols[o]]
    /\ movedFrom' = [movedFrom EXCEPT ![o] = FALSE, ![Y] = TRUE]
    /\ UNCHANGED <<colLength, outOfBounds>>

(* operator=(ColumnBundle&&): swap the fields, then memMove.               *)
MoveAssign(o, Y) ==
    /\ "move" \in Ops /\ Running /\ alive[o] /\ Usable(Y) /\ o # Y
    /\ Commit(MemMove(World, o, Y))
    /\ ncols' = [ncols EXCEPT ![o] = ncols[Y], ![Y] = ncols[o]]
    /\ colLength' = [colLength EXCEPT ![o] = colLength[Y], ![Y] = colLength[o]]
    /\ movedFrom' = [movedFrom EXCEPT ![o] = FALSE, ![Y] = TRUE]
    /\ UNCHANGED outOfBounds

(* similar(ncOverride): a new bundle of Y's column length and location,   *)
(* with ncOverride columns, or Y's when ncOverride < 0.                    *)
Similar(o, Y, ncOverride) ==
    /\ "similar" \in Ops /\ Fresh(o) /\ Usable(Y)
    /\ LET nc == IF ncOverride < 0 THEN ncols[Y] ELSE ncOverride
       IN /\ nc # 0 => colLength[Y] # 0
          /\ Commit(CBInit(Born(World, o), o, nc, colLength[Y], mm[Y].onGpu))
          /\ SetShape(o, nc, colLength[Y])
    /\ UNCHANGED outOfBounds

(* getSub(colStart, colStop) into the new bundle d: ret = similar(n),     *)
(* both dataPref() pointers, then one eblas_copy of n columns.             *)
GetSub(o, d, colStart, colStop, first) ==
    /\ "getSub" \in Ops /\ Usable(o) /\ Fresh(d)
    /\ colStart >= 0 /\ colStop <= ncols[o] /\ colStop - colStart > 0
    /\ LET n  == colStop - colStart
           w1 == CBInit(Born(World, d), d, n, colLength[o], mm[o].onGpu)
           w2 == IF Ok(w1) THEN BothDataPref(w1, d, o, first) ELSE w1
       IN /\ Commit(w2)
          /\ SetShape(d, n, colLength[o])
          /\ outOfBounds' = (outOfBounds \/ ~CopyInBounds(w2, d, 0, o, colStart * colLength[o], n * colLength[o]))

(* setSub(colStart, Y): copy the clamped number of Y's columns into this  *)
(* bundle from column colStart on.                                         *)
SetSub(o, Y, colStart, first) ==
    /\ "setSub" \in Ops /\ Usable(o) /\ Usable(Y)
    /\ colStart >= 0 /\ colStart < ncols[o] /\ colLength[o] = colLength[Y]
    /\ LET n  == SetSubCount(o, Y, colStart)
           w1 == BothDataPref(World, o, Y, first)
       IN /\ Commit(w1)
          /\ outOfBounds' = (outOfBounds \/ ~CopyInBounds(w1, o, colStart * colLength[o], Y, 0, n * colLength[o]))
    /\ UNCHANGED <<ncols, colLength, movedFrom>>

(* ~ColumnBundle, then ~ManagedMemory: memFree.                            *)
DestroyCB(o) ==
    /\ Running /\ alive[o]
    /\ Commit([MemFree(World, o) EXCEPT !.alive[o] = FALSE])
    /\ movedFrom' = [movedFrom EXCEPT ![o] = FALSE]
    /\ UNCHANGED <<ncols, colLength, outOfBounds>>

(* A caller reading the bundle's data through the inherited data() or    *)
(* dataGpu(): in a GPU build either may move the storage.                  *)
DataAccess(o) ==
    /\ "data" \in Ops
    /\ CallData(o) \/ CallDataGpu(o)
    /\ UNCHANGED <<ncols, colLength, movedFrom, outOfBounds>>

Next ==
    \/ \E o \in Objs : DataAccess(o)
    \/ \E o \in Objs, s \in Shapes, gpu \in Gpus : ConstructCB(o, s[1], s[2], gpu)
    \/ \E o \in Objs : Free(o) \/ DestroyCB(o)
    \/ \E o, Y \in Objs : CopyConstruct(o, Y) \/ CopyAssign(o, Y) \/ MoveConstruct(o, Y) \/ MoveAssign(o, Y)
    \/ \E o, Y \in Objs, k \in {-1} \cup Cols : Similar(o, Y, k)
    \/ \E o, Y \in Objs : Usable(o) /\ \E first \in {o, Y}, c1 \in 0..(ncols[o] - 1) :
          \/ \E c2 \in 1..ncols[o] : GetSub(o, Y, c1, c2, first)
          \/ SetSub(o, Y, c1, first)

Spec == Init /\ [][Next]_cbVars

-----------------------------------------------------------------------------
CBTypeOK ==
    /\ MMTypeOK
    /\ ncols \in [Objs -> Cols \cup {Indeterminate}]
    /\ colLength \in [Objs -> ({0} \cup Lengths) \cup {Indeterminate}]
    /\ movedFrom \in [Objs -> BOOLEAN]
    /\ outOfBounds \in BOOLEAN

(* Every live bundle that was not moved from holds exactly ncols*col_length *)
(* elements of category "ColumnBundle" in a block of its own, and none at  *)
(* all (no block, no category) when it has no columns: after any sequence  *)
(* of constructions, copies, moves, frees and sub-bundle extractions.      *)
CBShapeMatchesStorage ==
    Running =>
        \A o \in Objs : alive[o] /\ ~movedFrom[o] =>
            /\ mm[o].nElements = ncols[o] * colLength[o]
            /\ ncols[o] = 0 => mm[o].c = Null /\ mm[o].category = NoCategory
            /\ ncols[o] > 0 => mm[o].c # Null /\ mm[o].category = CBCat

(* Copying a bundle, into a new one or by assignment, never trips memcpy's *)
(* assertion a.nData() == b.nData(): init frees the target's storage when *)
(* the source has no columns.                                              *)
CopySizesAgree == failed # "memcpy"

(* getSub and setSub never read or write outside either bundle's storage. *)
SubInBounds == ~outOfBounds
=============================================================================
