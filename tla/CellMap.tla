------------------------------- MODULE CellMap -------------------------------
(***************************************************************************)
(* getCellMap (core/LatticeUtils.cpp): the unit-cell lattice vectors that  *)
(* lie inside or on the Wigner-Seitz cell of a supercell, each with the    *)
(* weight 1 / (number of its images on that cell's boundary).              *)
(*                                                                         *)
(* Geometry is exact.  A unit lattice R is an integer matrix and the       *)
(* supercell is Rsup = R * S for an integer matrix S, so the code's        *)
(* superInv = inv(Rsup) * R is inv(S) and the Wigner-Seitz tests become    *)
(* integer comparisons in the metric G = ~R * R.  The Wigner-Seitz cell    *)
(* (an external collaborator, not in src/) is modelled by its definition:  *)
(* x is inside when 2 x.G.L < L.G.L for every supercell vector L = S*m     *)
(* with m in {-1,0,1}^3 \ {0}, on its boundary when all of those hold with *)
(* <= and one with =.                                                      *)
(***************************************************************************)
EXTENDS Integers, Sequences, SequencesExt, FiniteSets, IntMatrix3

CONSTANTS
    Inputs      \* a set of records [R |-> unit lattice, S |-> supercell matrix]

VARIABLES
    in,          \* the call's arguments
    pos,         \* index of iCell in the bounding-box loop
    iCellSurface,\* std::list of surface cells (a sequence)
    iCellMap,    \* std::map cell -> k, where the weight is 1/k
    iter,        \* position of the outer iterator in iCellSurface
    iter2,       \* position of the inner iterator in iCellSurface
    equiv,       \* cells found equivalent to *iter
    phase        \* "enumerate", "outer", "inner", "done" or "died"

vars == <<in, pos, iCellSurface, iCellMap, iter, iter2, equiv, phase>>

-----------------------------------------------------------------------------
(* The 26 supercell translations S*m that bound the Wigner-Seitz cell.     *)
NeighbourM == [k \in 1..26 |-> LET j == IF k <= 13 THEN k - 1 ELSE k
                               IN << j \div 9 - 1, ((j \div 3) % 3) - 1, (j % 3) - 1 >>]

(* WignerSeitz ws(Rsup): each face plane as 2 x.g = n, x in unit-lattice  *)
(* coordinates; x is inside when 2 x.g < n for every face.                 *)
Faces(e) == LET G == Mul(Transpose(e.R), e.R)
            IN [k \in 1..26 |-> LET L == MulV(e.S, NeighbourM[k])
                                IN [g |-> MulV(G, L), n |-> Dot(L, MulV(G, L))]]

(* A vertex lies on three faces a < b < c: x.g = n/2 for each, so by     *)
(* Cramer's rule x = w / d.                                                *)
Triples == UNION { UNION { { <<a, b, c>> : c \in (b + 1)..26 } : b \in (a + 1)..25 } : a \in 1..24 }

Vertex(f, t) ==
    LET g1 == f[t[1]].g   g2 == f[t[2]].g   g3 == f[t[3]].g
    IN [w |-> VAdd(VAdd(VScale(f[t[1]].n, Cross(g2, g3)), VScale(f[t[2]].n, Cross(g3, g1))),
                   VScale(f[t[3]].n, Cross(g1, g2))),
        d |-> 2 * Box(g1, g2, g3)]

VertexOfCell(f, v) == v.d # 0 /\ \A k \in 1..26 : 2 * Dot(v.w, f[k].g) * v.d <= f[k].n * v.d * v.d

(* The faces of every input, computed once.                               *)
FaceTable == [e \in Inputs |-> Faces(e)]

Vertices(e) == { v \in { Vertex(FaceTable[e], t) : t \in Triples } : VertexOfCell(FaceTable[e], v) }

(* ws.circumRadius()^2 as a fraction [p, q]: the largest |x|^2 over the   *)
(* vertices of the cell.                                                   *)
CircumRadiusSq(e) ==
    LET G  == Mul(Transpose(e.R), e.R)
        r2 == { [p |-> Dot(v.w, MulV(G, v.w)), q |-> v.d * v.d] : v \in Vertices(e) }
    IN CHOOSE x \in r2 : \A y \in r2 : x.p * y.q >= y.p * x.q

(* iCellMax[l] = 1 + ceil(Rmax * |invR.row(l)|).  invR = Adjugate(R)/det  *)
(* so the ceiling is the least k with k^2 * q * det^2 >= p * |adj row|^2. *)
CeilRadius(r, l, row) ==
    LET a == LengthSq(row)
        d == Det(r.R)
    IN CHOOSE k \in 0..20 : /\ k * k * r.q * d * d >= r.p * a
                            /\ \A j \in 0..(k - 1) : j * j * r.q * d * d < r.p * a

ICellMax(e) == LET rs == CircumRadiusSq(e)
                   r == [R |-> e.R, p |-> rs.p, q |-> rs.q]
               IN [l \in Idx |-> 1 + CeilRadius(r, l, Adjugate(e.R)[l])]

(* nCells = round(|1/det(superInv)|) = |det S|                            *)
NCells(e) == IF Det(e.S) < 0 THEN -Det(e.S) ELSE Det(e.S)

(* Everything the loops read, computed once per input.                     *)
Geometry == [e \in Inputs |-> [faces |-> FaceTable[e], max |-> ICellMax(e), nCells |-> NCells(e)]]

OnBoundary(e, x) == LET f == Geometry[e].faces
                    IN /\ \A k \in 1..26 : 2 * Dot(x, f[k].g) <= f[k].n
                       /\ \E k \in 1..26 : 2 * Dot(x, f[k].g) = f[k].n

Interior(e, x) == LET f == Geometry[e].faces IN \A k \in 1..26 : 2 * Dot(x, f[k].g) < f[k].n

(* round(superInv * (a - b), &err) has err < symmThreshold exactly when   *)
(* inv(S) * (a - b) is integral, i.e. adj(S) * (a - b) = 0 mod det S.     *)
Equivalent(e, a, b) == \A r \in Idx : MulV(Adjugate(e.S), VSub(a, b))[r] % NCells(e) = 0

-----------------------------------------------------------------------------
(* The bounding-box loop, iCell[2] fastest.                                *)
BoxSize(e) == LET m == Geometry[e].max IN (2*m[1] + 1) * (2*m[2] + 1) * (2*m[3] + 1)

BoxCell(e, p) == LET m == Geometry[e].max
                     n2 == 2*m[2] + 1
                     n3 == 2*m[3] + 1
                 IN << p \div (n2 * n3) - m[1], ((p \div n3) % n2) - m[2], (p % n3) - m[3] >>

Init == /\ in \in Inputs
        /\ pos = 0
        /\ iCellSurface = << >>
        /\ iCellMap = << >>
        /\ iter = 1
        /\ iter2 = 1
        /\ equiv = << >>
        /\ phase = "enumerate"

(* Mutant: the box loop runs one index past its end.                      *)
ClassifyPastBox ==
    /\ phase = "enumerate"
    /\ pos <= BoxSize(in)
    /\ LET c == BoxCell(in, pos)
       IN IF OnBoundary(in, c)
             THEN /\ iCellSurface' = Append(iCellSurface, c)
                  /\ UNCHANGED iCellMap
             ELSE /\ iCellMap' = IF Interior(in, c) THEN (c :> 1) @@ iCellMap ELSE iCellMap
                  /\ UNCHANGED iCellSurface
    /\ pos' = pos + 1
    /\ UNCHANGED <<in, iter, iter2, equiv, phase>>

(* One iteration of the box loop: surface cells are deferred, interior   *)
(* cells get weight 1, exterior cells are dropped.                         *)
Classify ==
    /\ phase = "enumerate"
    /\ pos < BoxSize(in)
    /\ LET c == BoxCell(in, pos)
       IN IF OnBoundary(in, c)
             THEN /\ iCellSurface' = Append(iCellSurface, c)
                  /\ UNCHANGED iCellMap
             ELSE /\ iCellMap' = IF Interior(in, c) THEN (c :> 1) @@ iCellMap ELSE iCellMap
                  /\ UNCHANGED iCellSurface
    /\ pos' = pos + 1
    /\ UNCHANGED <<in, iter, iter2, equiv, phase>>

EndBox ==
    /\ phase = "enumerate"
    /\ pos = BoxSize(in)
    /\ phase' = "outer"
    /\ UNCHANGED <<in, pos, iCellSurface, iCellMap, iter, iter2, equiv>>

(* for(iter...): start the inner scan at the element after iter.           *)
StartOuter ==
    /\ phase = "outer"
    /\ iter <= Len(iCellSurface)
    /\ iter2' = iter + 1
    /\ equiv' = << >>
    /\ phase' = "inner"
    /\ UNCHANGED <<in, pos, iCellSurface, iCellMap, iter>>

(* Mutant: erase(iter2) followed by iter2++, skipping the next cell.      *)
EraseThenAdvance ==
    /\ phase = "inner"
    /\ iter2 <= Len(iCellSurface)
    /\ Equivalent(in, iCellSurface[iter2], iCellSurface[iter])
    /\ equiv' = Append(equiv, iCellSurface[iter2])
    /\ iCellSurface' = RemoveAt(iCellSurface, iter2)
    /\ iter2' = iter2 + 1
    /\ UNCHANGED <<in, pos, iCellMap, iter, phase>>

(* An equivalent cell is collected and erased; iter2 = erase(iter2)        *)
(* leaves iter2 on the element that followed it.                           *)
EraseEquivalent ==
    /\ phase = "inner"
    /\ iter2 <= Len(iCellSurface)
    /\ Equivalent(in, iCellSurface[iter2], iCellSurface[iter])
    /\ equiv' = Append(equiv, iCellSurface[iter2])
    /\ iCellSurface' = RemoveAt(iCellSurface, iter2)
    /\ UNCHANGED <<in, pos, iCellMap, iter, iter2, phase>>

SkipInequivalent ==
    /\ phase = "inner"
    /\ iter2 <= Len(iCellSurface)
    /\ ~Equivalent(in, iCellSurface[iter2], iCellSurface[iter])
    /\ iter2' = iter2 + 1
    /\ UNCHANGED <<in, pos, iCellSurface, iCellMap, iter, equiv, phase>>

(* Mutant: the weight is stored for *iter only, not for the cells of equiv. *)
AssignWeightsIterOnly ==
    /\ phase = "inner"
    /\ iter2 > Len(iCellSurface)
    /\ iCellMap' = (iCellSurface[iter] :> 1 + Len(equiv)) @@ iCellMap
    /\ iter' = iter + 1
    /\ phase' = "outer"
    /\ UNCHANGED <<in, pos, iCellSurface, iter2, equiv>>

(* weight = 1/(1+equiv.size()) for *iter and every cell of equiv.          *)
AssignWeights ==
    /\ phase = "inner"
    /\ iter2 > Len(iCellSurface)
    /\ iCellMap' = [c \in {iCellSurface[iter]} \cup Range(equiv) |-> 1 + Len(equiv)] @@ iCellMap
    /\ iter' = iter + 1
    /\ phase' = "outer"
    /\ UNCHANGED <<in, pos, iCellSurface, iter2, equiv>>

(* myassert(fabs(weightSum / nCells - 1.) < symmThreshold), exactly.      *)
WeightSum(m) == MapThenSumSet(LAMBDA c : 720720 \div m[c], DOMAIN m)

CheckWeights ==
    /\ phase = "outer"
    /\ iter > Len(iCellSurface)
    /\ phase' = IF WeightSum(iCellMap) = 720720 * Geometry[in].nCells THEN "done" ELSE "died"
    /\ UNCHANGED <<in, pos, iCellSurface, iCellMap, iter, iter2, equiv>>

Next == \/ Classify \/ EndBox
        \/ StartOuter \/ EraseEquivalent \/ SkipInequivalent \/ AssignWeights
        \/ CheckWeights

Spec == Init /\ [][Next]_vars

-----------------------------------------------------------------------------
Cells == Int \X Int \X Int

CMTypeOK ==
    /\ in \in Inputs
    /\ pos \in 0..BoxSize(in)
    /\ iCellMap \in [DOMAIN iCellMap -> 1..16]
    /\ phase \in {"enumerate", "outer", "inner", "done", "died"}

(* The lattice vectors inside or on the Wigner-Seitz cell of each input,  *)
(* searched for in a box two cells wider than the one the code scans.      *)
WignerSeitzCells ==
    [e \in Inputs |->
        LET m == Geometry[e].max
            wide == { <<a, b, c>> : a \in -(m[1] + 2)..(m[1] + 2),
                                    b \in -(m[2] + 2)..(m[2] + 2),
                                    c \in -(m[3] + 2)..(m[3] + 2) }
        IN { x \in wide : Interior(e, x) \/ OnBoundary(e, x) }]

(* No cell is lost: from the end of the box loop on, every lattice vector  *)
(* inside or on the Wigner-Seitz cell is in the map, still in the surface  *)
(* list, or in equiv, so the result holds them all.  Both the bound        *)
(* 1 + ceil(Rmax * |invR.row(l)|) of the box loop and the moves from the   *)
(* list to the map must be right for this to hold.                         *)
CoversWignerSeitz ==
    phase \in {"outer", "inner", "done"} =>
        WignerSeitzCells[in] \subseteq DOMAIN iCellMap \cup Range(iCellSurface) \cup Range(equiv)

(* The returned weights partition unity: each cell's weight is 1/k where   *)
(* k is the number of returned cells that are supercell images of it, and  *)
(* the cells fall in exactly nCells image classes; so the weight-sum      *)
(* assertion never fires.  The erase-while-iterating grouping loop must    *)
(* neither skip a cell nor split a class for this to hold.                 *)
WeightsPartitionUnity ==
    /\ phase # "died"
    /\ phase = "done" =>
        LET keys == DOMAIN iCellMap
            Class(c) == { d \in keys : Equivalent(in, c, d) }
        IN /\ \A c \in keys : iCellMap[c] = Cardinality(Class(c))
           /\ Cardinality({ Class(c) : c \in keys }) = Geometry[in].nCells
=============================================================================
