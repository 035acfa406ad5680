--------------------------- MODULE MCMatrixStorage ---------------------------
(***************************************************************************)
(* Two matrices (every operation has at most two operands; a sub-matrix   *)
(* is extracted into the other, dead one), three blocks (one each and one  *)
(* more for a relocation), dimensions up to 2 and the 3x3 matrix3         *)
(* constructor.                                                            *)
(***************************************************************************)
EXTENDS MatrixStorage, TLC

CONSTANTS m1, m2, b1, b2, b3, matrixCat

MCObjs == {m1, m2}
MCBufs == {b1, b2, b3}

(* Matrices are interchangeable (nothing picks one with CHOOSE); blocks    *)
(* are not, since Malloc does.                                             *)
MCSymmetry == Permutations(MCObjs)
=============================================================================
