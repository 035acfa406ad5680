-------------------------- MODULE MCColumnBundleIO --------------------------
(***************************************************************************)
(* Two processes and two k-points, so that a rank can hold none, one or    *)
(* both of them, in the writing run and, independently, in the reading    *)
(* one; one or two bands and column lengths 1 or 2, so that the band count *)
(* and the basis can each change between the runs.                         *)
(***************************************************************************)
EXTENDS ColumnBundleIO

CONSTANTS garbage, random, none
=============================================================================
