-------------------------- MODULE MCSymmetryFinder --------------------------
(***************************************************************************)
(* getSymmetries on lattices of known point group, each presented in      *)
(* several skewed bases, under three truncation masks (bulk, slab, wire). *)
(***************************************************************************)
EXTENDS SymmetryFinder, MCLatticeReduce, FiniteSets

MCTruncationMasks ==
    { <<FALSE, FALSE, FALSE>>, <<FALSE, FALSE, TRUE>>, <<TRUE, TRUE, FALSE>> }

(* Reference: the point group of each short basis H, found by search in  *)
(* H itself, where every symmetry has entries in {-1,0,1}.  Its orders    *)
(* are those of crystallography: m-3m (48) for the cubic lattices and     *)
(* 6/mmm (24) for the hexagonal one.                                      *)
PointGroup == [h \in ShortBases |-> { m \in SmallMatrices : Congruent(h, m) = h }]

ASSUME /\ Cardinality(PointGroup[Cubic]) = 48
       /\ Cardinality(PointGroup[FCC]) = 48
       /\ Cardinality(PointGroup[BCC]) = 48
       /\ Cardinality(PointGroup[Hexagon]) = 24

(* The point group of the input ~B*H*B, in its own coordinates: the       *)
(* matrices B^-1 * g * B for g in the point group of H.                   *)
ReferenceGroup(g) ==
    LET hb == CHOOSE hb \in ShortBases \X Skews : Congruent(hb[1], hb[2]) = g
    IN { Mul(InvUnimodular(hb[2]), Mul(m, hb[2])) : m \in PointGroup[hb[1]] }

(* A symmetry of a slab or wire may not mix periodic and truncated        *)
(* directions: it maps each of the two subspaces to itself.               *)
KeepsSubspaces(m, trunc) == \A r, c \in Idx : trunc[r] # trunc[c] => m[r][c] = 0

(* getSymmetries finds every symmetry of the lattice that is compatible   *)
(* with the truncation, whatever basis the lattice is given in: the       *)
(* greedy reduction must reach a basis in which every symmetry has        *)
(* entries in {-1,0,1} (spec 4.2, step 3), else symmetries are missed.    *)
SymmetriesComplete ==
    Found => sym = { m \in ReferenceGroup(R) : KeepsSubspaces(m, isTruncated) }
=============================================================================
