---------------------------- MODULE ReduceAbstract ----------------------------
(***************************************************************************)
(* What a lattice reduction promises (spec 4.1), with no loop in it: in   *)
(* one step the caller gets a lattice R*trans, where trans is an integer  *)
(* matrix with integer inverse transInv, such that adding at most one     *)
(* each of the other two basis vectors to any basis vector does not make  *)
(* the squared Frobenius norm smaller.  Lattices are metrics ~R*R.        *)
(***************************************************************************)
EXTENDS Integers, IntMatrix3

CONSTANTS Lattices, NoResult

VARIABLES lattice, result, trans, transInv

avars == <<lattice, result, trans, transInv>>

(* Column k plus c[r] times column r, for the two columns r other than k. *)
ColumnShear(k, c) ==
    [r \in Idx |-> [col \in Idx |-> IF col = k /\ r # k THEN c[r] ELSE Id[r][col]]]

LocallyMinimal(g) ==
    \A k \in Idx : \A c \in [Idx \ {k} -> -1..1] :
        Trace(Congruent(g, ColumnShear(k, c))) >= Trace(g)

AInit ==
    /\ lattice \in Lattices
    /\ result = NoResult
    /\ trans = Id
    /\ transInv = Id

Reduce ==
    /\ result = NoResult
    /\ Mul(trans', transInv') = Id
    /\ result' = Congruent(lattice, trans')
    /\ LocallyMinimal(result')
    /\ lattice' = lattice

(* The reduction returns: stated directly, since Reduce picks trans' from *)
(* an unbounded set and so has no enabledness TLC could evaluate.          *)
Spec == AInit /\ [][Reduce]_avars /\ <>(result # NoResult)
=============================================================================
