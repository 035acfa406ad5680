--------------------------- MODULE MCLatticeReduce ---------------------------
(***************************************************************************)
(* Input lattices for reduceLatticeVectors, as metrics ~R*R.  Each is a   *)
(* Bravais lattice with a short basis metric H presented in a skewed      *)
(* basis B, i.e. ~B*H*B, so that several sweeps and every kind of shear   *)
(* occur.                                                                  *)
(***************************************************************************)
EXTENDS LatticeReduce

Cubic   == <<<<1, 0, 0>>, <<0, 1, 0>>, <<0, 0, 1>>>>
FCC     == <<<<2, 1, 1>>, <<1, 2, 1>>, <<1, 1, 2>>>>
BCC     == <<<<3, -1, -1>>, <<-1, 3, -1>>, <<-1, -1, 3>>>>
Hexagon == <<<<2, -1, 0>>, <<-1, 2, 0>>, <<0, 0, 3>>>>

ShortBases == {Cubic, FCC, BCC, Hexagon}

(* Columns (1,0,0), (10,1,0), (0,0,1) of spec scenario 2.                  *)
Skew10  == <<<<1, 10, 0>>, <<0, 1, 0>>, <<0, 0, 1>>>>
SkewA   == <<<<1, 0, 0>>, <<1, 1, 0>>, <<0, 1, 1>>>>
SkewB   == <<<<1, -2, 3>>, <<0, 1, 1>>, <<0, 0, 1>>>>

Skews == {Id, Skew10, SkewA, SkewB}

MCLattices == { Congruent(h, b) : h \in ShortBases, b \in Skews }
=============================================================================
