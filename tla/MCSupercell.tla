----------------------------- MODULE MCSupercell -----------------------------
(***************************************************************************)
(* Bounded inputs for SupercellBuilder.  k-points are numerators over     *)
(* N = 4, so meshes of 1, 2, 4 and 8 points per direction pair occur.     *)
(* Each lattice comes with the symmetry vector getSymmetries returns for  *)
(* it (in its loop order), or with the identity alone.                    *)
(***************************************************************************)
EXTENDS SupercellBuilder, FiniteSets

MCN == 4

Cubic        == Id
Orthorhombic == [r \in Idx |-> [c \in Idx |-> IF r = c THEN r ELSE 0]]
Tetragonal   == [r \in Idx |-> [c \in Idx |-> IF r = c THEN (IF r = 3 THEN 2 ELSE 1) ELSE 0]]
FCC          == <<<<2, 1, 1>>, <<1, 2, 1>>, <<1, 1, 2>>>>

(* The vectors getSymmetries returns for these (already reduced, so       *)
(* t = tInv = I) metrics, written out; the ASSUMEs below check that each  *)
(* is exactly the candidates of the loops that keep the metric, in loop   *)
(* order.                                                                  *)
SymOrthorhombic ==
    << <<<<-1, 0, 0>>, <<0, -1, 0>>, <<0, 0, -1>>>>, <<<<-1, 0, 0>>, <<0, -1, 0>>, <<0, 0, 1>>>>, <<<<-1, 0, 0>>, <<0, 1, 0>>, <<0, 0, -1>>>>,
       <<<<-1, 0, 0>>, <<0, 1, 0>>, <<0, 0, 1>>>>, <<<<1, 0, 0>>, <<0, -1, 0>>, <<0, 0, -1>>>>, <<<<1, 0, 0>>, <<0, -1, 0>>, <<0, 0, 1>>>>,
       <<<<1, 0, 0>>, <<0, 1, 0>>, <<0, 0, -1>>>>, <<<<1, 0, 0>>, <<0, 1, 0>>, <<0, 0, 1>>>> >>

SymTetragonal ==
    << <<<<-1, 0, 0>>, <<0, -1, 0>>, <<0, 0, -1>>>>, <<<<-1, 0, 0>>, <<0, -1, 0>>, <<0, 0, 1>>>>, <<<<-1, 0, 0>>, <<0, 1, 0>>, <<0, 0, -1>>>>,
       <<<<-1, 0, 0>>, <<0, 1, 0>>, <<0, 0, 1>>>>, <<<<0, -1, 0>>, <<-1, 0, 0>>, <<0, 0, -1>>>>, <<<<0, -1, 0>>, <<-1, 0, 0>>, <<0, 0, 1>>>>,
       <<<<0, -1, 0>>, <<1, 0, 0>>, <<0, 0, -1>>>>, <<<<0, -1, 0>>, <<1, 0, 0>>, <<0, 0, 1>>>>, <<<<0, 1, 0>>, <<-1, 0, 0>>, <<0, 0, -1>>>>,
       <<<<0, 1, 0>>, <<-1, 0, 0>>, <<0, 0, 1>>>>, <<<<0, 1, 0>>, <<1, 0, 0>>, <<0, 0, -1>>>>, <<<<0, 1, 0>>, <<1, 0, 0>>, <<0, 0, 1>>>>,
       <<<<1, 0, 0>>, <<0, -1, 0>>, <<0, 0, -1>>>>, <<<<1, 0, 0>>, <<0, -1, 0>>, <<0, 0, 1>>>>, <<<<1, 0, 0>>, <<0, 1, 0>>, <<0, 0, -1>>>>,
       <<<<1, 0, 0>>, <<0, 1, 0>>, <<0, 0, 1>>>> >>

SymCubic ==
    << <<<<-1, 0, 0>>, <<0, -1, 0>>, <<0, 0, -1>>>>, <<<<-1, 0, 0>>, <<0, -1, 0>>, <<0, 0, 1>>>>, <<<<-1, 0, 0>>, <<0, 0, -1>>, <<0, -1, 0>>>>,
       <<<<-1, 0, 0>>, <<0, 0, -1>>, <<0, 1, 0>>>>, <<<<-1, 0, 0>>, <<0, 0, 1>>, <<0, -1, 0>>>>, <<<<-1, 0, 0>>, <<0, 0, 1>>, <<0, 1, 0>>>>,
       <<<<-1, 0, 0>>, <<0, 1, 0>>, <<0, 0, -1>>>>, <<<<-1, 0, 0>>, <<0, 1, 0>>, <<0, 0, 1>>>>, <<<<0, -1, 0>>, <<-1, 0, 0>>, <<0, 0, -1>>>>,
       <<<<0, -1, 0>>, <<-1, 0, 0>>, <<0, 0, 1>>>>, <<<<0, -1, 0>>, <<0, 0, -1>>, <<-1, 0, 0>>>>, <<<<0, -1, 0>>, <<0, 0, -1>>, <<1, 0, 0>>>>,
       <<<<0, -1, 0>>, <<0, 0, 1>>, <<-1, 0, 0>>>>, <<<<0, -1, 0>>, <<0, 0, 1>>, <<1, 0, 0>>>>, <<<<0, -1, 0>>, <<1, 0, 0>>, <<0, 0, -1>>>>,
       <<<<0, -1, 0>>, <<1, 0, 0>>, <<0, 0, 1>>>>, <<<<0, 0, -1>>, <<-1, 0, 0>>, <<0, -1, 0>>>>, <<<<0, 0, -1>>, <<-1, 0, 0>>, <<0, 1, 0>>>>,
       <<<<0, 0, -1>>, <<0, -1, 0>>, <<-1, 0, 0>>>>, <<<<0, 0, -1>>, <<0, -1, 0>>, <<1, 0, 0>>>>, <<<<0, 0, -1>>, <<0, 1, 0>>, <<-1, 0, 0>>>>,
       <<<<0, 0, -1>>, <<0, 1, 0>>, <<1, 0, 0>>>>, <<<<0, 0, -1>>, <<1, 0, 0>>, <<0, -1, 0>>>>, <<<<0, 0, -1>>, <<1, 0, 0>>, <<0, 1, 0>>>>,
       <<<<0, 0, 1>>, <<-1, 0, 0>>, <<0, -1, 0>>>>, <<<<0, 0, 1>>, <<-1, 0, 0>>, <<0, 1, 0>>>>, <<<<0, 0, 1>>, <<0, -1, 0>>, <<-1, 0, 0>>>>,
       <<<<0, 0, 1>>, <<0, -1, 0>>, <<1, 0, 0>>>>, <<<<0, 0, 1>>, <<0, 1, 0>>, <<-1, 0, 0>>>>, <<<<0, 0, 1>>, <<0, 1, 0>>, <<1, 0, 0>>>>,
       <<<<0, 0, 1>>, <<1, 0, 0>>, <<0, -1, 0>>>>, <<<<0, 0, 1>>, <<1, 0, 0>>, <<0, 1, 0>>>>, <<<<0, 1, 0>>, <<-1, 0, 0>>, <<0, 0, -1>>>>,
       <<<<0, 1, 0>>, <<-1, 0, 0>>, <<0, 0, 1>>>>, <<<<0, 1, 0>>, <<0, 0, -1>>, <<-1, 0, 0>>>>, <<<<0, 1, 0>>, <<0, 0, -1>>, <<1, 0, 0>>>>,
       <<<<0, 1, 0>>, <<0, 0, 1>>, <<-1, 0, 0>>>>, <<<<0, 1, 0>>, <<0, 0, 1>>, <<1, 0, 0>>>>, <<<<0, 1, 0>>, <<1, 0, 0>>, <<0, 0, -1>>>>,
       <<<<0, 1, 0>>, <<1, 0, 0>>, <<0, 0, 1>>>>, <<<<1, 0, 0>>, <<0, -1, 0>>, <<0, 0, -1>>>>, <<<<1, 0, 0>>, <<0, -1, 0>>, <<0, 0, 1>>>>,
       <<<<1, 0, 0>>, <<0, 0, -1>>, <<0, -1, 0>>>>, <<<<1, 0, 0>>, <<0, 0, -1>>, <<0, 1, 0>>>>, <<<<1, 0, 0>>, <<0, 0, 1>>, <<0, -1, 0>>>>,
       <<<<1, 0, 0>>, <<0, 0, 1>>, <<0, 1, 0>>>>, <<<<1, 0, 0>>, <<0, 1, 0>>, <<0, 0, -1>>>>, <<<<1, 0, 0>>, <<0, 1, 0>>, <<0, 0, 1>>>> >>

SymFCC ==
    << <<<<-1, -1, -1>>, <<0, 0, 1>>, <<0, 1, 0>>>>, <<<<-1, -1, -1>>, <<0, 0, 1>>, <<1, 0, 0>>>>, <<<<-1, -1, -1>>, <<0, 1, 0>>, <<0, 0, 1>>>>,
       <<<<-1, -1, -1>>, <<0, 1, 0>>, <<1, 0, 0>>>>, <<<<-1, -1, -1>>, <<1, 0, 0>>, <<0, 0, 1>>>>, <<<<-1, -1, -1>>, <<1, 0, 0>>, <<0, 1, 0>>>>,
       <<<<-1, 0, 0>>, <<0, -1, 0>>, <<0, 0, -1>>>>, <<<<-1, 0, 0>>, <<0, -1, 0>>, <<1, 1, 1>>>>, <<<<-1, 0, 0>>, <<0, 0, -1>>, <<0, -1, 0>>>>,
       <<<<-1, 0, 0>>, <<0, 0, -1>>, <<1, 1, 1>>>>, <<<<-1, 0, 0>>, <<1, 1, 1>>, <<0, -1, 0>>>>, <<<<-1, 0, 0>>, <<1, 1, 1>>, <<0, 0, -1>>>>,
       <<<<0, -1, 0>>, <<-1, 0, 0>>, <<0, 0, -1>>>>, <<<<0, -1, 0>>, <<-1, 0, 0>>, <<1, 1, 1>>>>, <<<<0, -1, 0>>, <<0, 0, -1>>, <<-1, 0, 0>>>>,
       <<<<0, -1, 0>>, <<0, 0, -1>>, <<1, 1, 1>>>>, <<<<0, -1, 0>>, <<1, 1, 1>>, <<-1, 0, 0>>>>, <<<<0, -1, 0>>, <<1, 1, 1>>, <<0, 0, -1>>>>,
       <<<<0, 0, -1>>, <<-1, 0, 0>>, <<0, -1, 0>>>>, <<<<0, 0, -1>>, <<-1, 0, 0>>, <<1, 1, 1>>>>, <<<<0, 0, -1>>, <<0, -1, 0>>, <<-1, 0, 0>>>>,
       <<<<0, 0, -1>>, <<0, -1, 0>>, <<1, 1, 1>>>>, <<<<0, 0, -1>>, <<1, 1, 1>>, <<-1, 0, 0>>>>, <<<<0, 0, -1>>, <<1, 1, 1>>, <<0, -1, 0>>>>,
       <<<<0, 0, 1>>, <<-1, -1, -1>>, <<0, 1, 0>>>>, <<<<0, 0, 1>>, <<-1, -1, -1>>, <<1, 0, 0>>>>, <<<<0, 0, 1>>, <<0, 1, 0>>, <<-1, -1, -1>>>>,
       <<<<0, 0, 1>>, <<0, 1, 0>>, <<1, 0, 0>>>>, <<<<0, 0, 1>>, <<1, 0, 0>>, <<-1, -1, -1>>>>, <<<<0, 0, 1>>, <<1, 0, 0>>, <<0, 1, 0>>>>,
       <<<<0, 1, 0>>, <<-1, -1, -1>>, <<0, 0, 1>>>>, <<<<0, 1, 0>>, <<-1, -1, -1>>, <<1, 0, 0>>>>, <<<<0, 1, 0>>, <<0, 0, 1>>, <<-1, -1, -1>>>>,
       <<<<0, 1, 0>>, <<0, 0, 1>>, <<1, 0, 0>>>>, <<<<0, 1, 0>>, <<1, 0, 0>>, <<-1, -1, -1>>>>, <<<<0, 1, 0>>, <<1, 0, 0>>, <<0, 0, 1>>>>,
       <<<<1, 0, 0>>, <<-1, -1, -1>>, <<0, 0, 1>>>>, <<<<1, 0, 0>>, <<-1, -1, -1>>, <<0, 1, 0>>>>, <<<<1, 0, 0>>, <<0, 0, 1>>, <<-1, -1, -1>>>>,
       <<<<1, 0, 0>>, <<0, 0, 1>>, <<0, 1, 0>>>>, <<<<1, 0, 0>>, <<0, 1, 0>>, <<-1, -1, -1>>>>, <<<<1, 0, 0>>, <<0, 1, 0>>, <<0, 0, 1>>>>,
       <<<<1, 1, 1>>, <<-1, 0, 0>>, <<0, -1, 0>>>>, <<<<1, 1, 1>>, <<-1, 0, 0>>, <<0, 0, -1>>>>, <<<<1, 1, 1>>, <<0, -1, 0>>, <<-1, 0, 0>>>>,
       <<<<1, 1, 1>>, <<0, -1, 0>>, <<0, 0, -1>>>>, <<<<1, 1, 1>>, <<0, 0, -1>>, <<-1, 0, 0>>>>, <<<<1, 1, 1>>, <<0, 0, -1>>, <<0, -1, 0>>>> >>

(* Position of a candidate in the getSymmetries loops, m(0,0) outermost.   *)
LoopIndex(m) ==
    LET digit(r, c) == (m[r][c] + 1) * 3 ^ (9 - (3 * (r - 1) + c))
    IN  digit(1, 1) + digit(1, 2) + digit(1, 3) + digit(2, 1) + digit(2, 2)
      + digit(2, 3) + digit(3, 1) + digit(3, 2) + digit(3, 3)

IsSymmetryVector(g, s) ==
    /\ \A i \in DOMAIN s : Congruent(g, s[i]) = g
    /\ \A i \in 1..(Len(s) - 1) : LoopIndex(s[i]) < LoopIndex(s[i + 1])
    /\ Len(s) = Cardinality({ m \in SmallMatrices : Congruent(g, m) = g })

ASSUME /\ IsSymmetryVector(Orthorhombic, SymOrthorhombic)
       /\ IsSymmetryVector(Tetragonal, SymTetragonal)
       /\ IsSymmetryVector(Cubic, SymCubic)
       /\ IsSymmetryVector(FCC, SymFCC)

Lattice == << <<Orthorhombic, SymOrthorhombic>>,
              <<Tetragonal, SymTetragonal>>,
              <<Cubic, SymCubic>>,
              <<FCC, SymFCC>>,
              <<Orthorhombic, <<Id>> >>,
              <<Cubic, <<Id>> >> >>

(* Irreducible lists: one point with coordinates in {0, 1/4, 1/2}, and    *)
(* a few lists of two or three points.                                     *)
OnePoint == { <<k>> : k \in [Idx -> 0..2] }
Lists    == { << Zero, <<2, 0, 0>> >>,
              << <<2, 0, 0>>, Zero >>,
              << Zero, <<1, 1, 0>> >>,
              << Zero, <<2, 0, 0>>, <<0, 2, 0>> >> }

MCInputs ==
    { [GR |-> e[1], sym |-> e[2], kmeshReduced |-> k, invertList |-> v] :
          e \in Range(Lattice), k \in OnePoint \cup Lists, v \in {<<1>>, <<1, -1>>} }
=============================================================================
