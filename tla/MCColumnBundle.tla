--------------------------- MODULE MCColumnBundle ---------------------------
(***************************************************************************)
(* Two bundles (getSub extracts into the other, dead one), three blocks   *)
(* (one each and one more for a relocation), up to 2 columns of length 1  *)
(* or 2.                                                                   *)
(***************************************************************************)
EXTENDS ColumnBundleThreads, TLC

CONSTANTS y1, y2, b1, b2, b3, cbCat

MCObjs == {y1, y2}
MCBufs == {b1, b2, b3}

(* Bundles are interchangeable; blocks are not, since Malloc picks one.    *)
MCSymmetry == Permutations(MCObjs)
=============================================================================
