--------------------------- MODULE SupercellBuilder ---------------------------
(***************************************************************************)
(* Supercell::Supercell (core/LatticeUtils.cpp): close the irreducible    *)
(* k-point list under the symmetries and inversions, find a basis of the  *)
(* closed mesh, check that the mesh is a (shifted) Bravais lattice, build *)
(* the integer supercell matrix, pivot its columns towards the diagonal   *)
(* and fix its handedness.  The two reduceLatticeVectors calls are the    *)
(* LatticeReduce machine, started by Start(g) and run to its return.      *)
(*                                                                         *)
(* Arithmetic is exact.  A k-point is the integer triple of its           *)
(* numerators over the common denominator N, so floor(0.5+k), the fuzzy   *)
(* PeriodicLookup and the round(..., &err) tests become exact integer     *)
(* tests.  A lattice R enters only through its metric GR = ~R*R.          *)
(* Sequence indices are 1-based, the code's are 0-based.                  *)
(***************************************************************************)
EXTENDS Integers, Sequences, SequencesExt, IntMatrix3

CONSTANTS
    N,          \* common denominator of all k-point coordinates
    Inputs,     \* records [GR, kmeshReduced, sym, invertList] callers pass
    NoResult    \* model value

ASSUME N \in Nat \ {0}

VARIABLES
    in,              \* the constructor's arguments
    phase,           \* which block of the constructor is running
    iter,            \* iteration of the closure loops (0-based)
    kmesh,           \* closed mesh, numerators
    kmeshTransform,  \* one record per kmesh entry
    kBasis,          \* the reduced k-point basis, numerators (columns)
    super,           \* the integer supercell matrix
    R, Rreduced, t, tInv, pos, changed, pc   \* reduceLatticeVectors

redVars == <<R, Rreduced, t, tInv, pos, changed, pc>>
scVars  == <<in, phase, iter, kmesh, kmeshTransform, kBasis, super>>
vars    == <<scVars, redVars>>

Reducer == INSTANCE LatticeReduce WITH Lattices <- {}

-----------------------------------------------------------------------------
(* The closure loops: for(invert) for(iReduced) for(iSym), innermost last. *)
NIter(x) == Len(x.invertList) * Len(x.kmeshReduced) * Len(x.sym)
LoopInvert(x, n)   == x.invertList[(n \div (Len(x.kmeshReduced) * Len(x.sym))) + 1]
LoopIReduced(x, n) == ((n \div Len(x.sym)) % Len(x.kmeshReduced)) + 1
LoopISym(x, n)     == (n % Len(x.sym)) + 1

(* Mutant: the wrap without its half shift, offset[i] = -floor(k[i]).     *)
CenterOffsetFloor(a) == [r \in Idx |-> -(a[r] \div N)]

(* offset[i] = -floor(0.5 + k[i]), with k[i] = a[i]/N.                    *)
CenterOffset(a) == [r \in Idx |-> -((N + 2 * a[r]) \div (2 * N))]

(* k = (~m) * kOrig * invert.                                              *)
Rotated(m, kOrig, invert) == VScale(invert, MulV(Transpose(m), kOrig))

(* Mutant: the point is inserted but its transform is not recorded.       *)
ClosureStepNoTransform ==
    /\ phase = "closure"
    /\ iter < NIter(in)
    /\ LET k  == Rotated(in.sym[LoopISym(in, iter)], in.kmeshReduced[LoopIReduced(in, iter)], LoopInvert(in, iter))
           kc == VAdd(k, VScale(N, CenterOffset(k)))
       IN /\ kmesh' = IF \E n \in DOMAIN kmesh : kmesh[n] = kc THEN kmesh ELSE Append(kmesh, kc)
          /\ UNCHANGED kmeshTransform
    /\ iter' = iter + 1
    /\ UNCHANGED <<in, phase, kBasis, super>>
    /\ UNCHANGED redVars

(* One iteration of the closure loops: wrap into the centred zone, insert  *)
(* if plook.find(k) finds no equal point, with its KmeshTransform.         *)
ClosureStep ==
    /\ phase = "closure"
    /\ iter < NIter(in)
    /\ LET iRed == LoopIReduced(in, iter)
           iSym == LoopISym(in, iter)
           inv  == LoopInvert(in, iter)
           k    == Rotated(in.sym[iSym], in.kmeshReduced[iRed], inv)
           off  == CenterOffset(k)
           kc   == VAdd(k, VScale(N, off))
       IN IF \E n \in DOMAIN kmesh : kmesh[n] = kc
          THEN UNCHANGED <<kmesh, kmeshTransform>>
          ELSE /\ kmesh' = Append(kmesh, kc)
               /\ kmeshTransform' = Append(kmeshTransform,
                      [iReduced |-> iRed, iSym |-> iSym, invert |-> inv, offset |-> off])
    /\ iter' = iter + 1
    /\ UNCHANGED <<in, phase, kBasis, super>>
    /\ UNCHANGED redVars

-----------------------------------------------------------------------------
(* kmesh333: the mesh, then its images in the 26 neighbouring zones, in    *)
(* the order of the iZone loops.                                           *)
ZoneOrder ==
    SelectSeq([p \in 1..27 |-> << ((p - 1) \div 9) - 1, (((p - 1) \div 3) % 3) - 1, ((p - 1) % 3) - 1 >>],
              LAMBDA z : z # Zero)

Mesh333(mesh) ==
    mesh \o FlattenSeq([z \in 1..26 |-> [n \in DOMAIN mesh |-> VAdd(mesh[n], VScale(N, ZoneOrder[z]))]])

(* dk = kmesh333[i] - kmesh333.front().                                   *)
Dk(m333, i) == VSub(m333[i], m333[1])

(* The loop "if(lengthSq < minLengthSq)" over the indices cand of the     *)
(* dk that pass the loop's test: the first dk of least length.             *)
ShortestDk(m333, cand) ==
    LET least == Min({ LengthSq(Dk(m333, i)) : i \in cand })
    IN Dk(m333, Min({ i \in cand : LengthSq(Dk(m333, i)) = least }))

(* v[0]: shortest dk, i >= 1; v[1]: shortest dk with cross(v[0],dk)       *)
(* nonzero; v[2]: shortest dk with box(v[0],v[1],dk) nonzero.              *)
PickBasisVectors(mesh) ==
    LET m333 == Mesh333(mesh)
        all  == 2..Len(m333)
        v0   == ShortestDk(m333, all)
        v1   == ShortestDk(m333, { i \in all : Cross(v0, Dk(m333, i)) # Zero })
        v2   == ShortestDk(m333, { i \in all : Box(v0, v1, Dk(m333, i)) # 0 })
    IN FromColumns(<<v0, v1, v2>>)

(* Closure done: pick the basis and call reduceLatticeVectors(kBasis).     *)
PickBasis ==
    /\ phase = "closure"
    /\ iter = NIter(in)
    /\ LET v == PickBasisVectors(kmesh)
       IN /\ kBasis' = v
          /\ Reducer!Start(Congruent(Id, v))
    /\ phase' = "reduceK"
    /\ UNCHANGED <<in, iter, kmesh, kmeshTransform, super>>

-----------------------------------------------------------------------------
(* x / d is an integer (d # 0; TLC's % wants a positive divisor).         *)
DividesBy(x, d) == x % (IF d < 0 THEN -d ELSE d) = 0
ExactQuotient(x, d) == IF d < 0 THEN -(x \div (-d)) ELSE x \div d

(* With kBasis = B/N, kBasisInv = N * Adjugate(B) / Det(B).                *)
(* round(kBasisInv * (k - front)) has no error: Adjugate(B)*(a - a0) is    *)
(* divisible by Det(B).                                                    *)
IntegralInBasis(b, a, a0) ==
    \A r \in Idx : DividesBy(MulV(Adjugate(b), VSub(a, a0))[r], Det(b))

(* |det(kBasisInv)| = N^3 / |Det(B)| equals the number of k-points.        *)
CoversZone(b, nk) == N * N * N = nk * (IF Det(b) < 0 THEN -Det(b) ELSE Det(b))

(* Mutant: the zone-coverage check dropped.                               *)
IsBravaisMeshNoCount(b, mesh) ==
    \A n \in DOMAIN mesh : IntegralInBasis(b, mesh[n], mesh[1])

IsBravaisMesh(b, mesh) ==
    /\ \A n \in DOMAIN mesh : IntegralInBasis(b, mesh[n], mesh[1])
    /\ CoversZone(b, Len(mesh))

(* gInfo.R * ~kBasisInv has metric (N/Det(B))^2 * Adj(B)*GR*~Adj(B); the  *)
(* positive factor does not change which shears reduce it.                 *)
SuperMetric(b, gr) == Mul(Adjugate(b), Mul(gr, Transpose(Adjugate(b))))

(* The first reduction returned: kBasis = kBasis*t, then the two Bravais   *)
(* checks (die), then reduceLatticeVectors(gInfo.R * ~kBasisInv).         *)
CheckBravais ==
    /\ phase = "reduceK"
    /\ pc = "done"
    /\ LET b == Mul(kBasis, t)
       IN /\ kBasis' = b
          /\ IF IsBravaisMesh(b, kmesh)
             THEN /\ phase' = "reduceS"
                  /\ Reducer!Start(SuperMetric(b, in.GR))
             ELSE /\ phase' = "died"
                  /\ UNCHANGED redVars
    /\ UNCHANGED <<in, iter, kmesh, kmeshTransform, super>>

(* superTemp = inv(R) * R * ~kBasisInv * t = N * ~Adj(B) * t / Det(B).     *)
SuperTempNumerator(b, tt) == Scale(N, Mul(Transpose(Adjugate(b)), tt))

(* The second reduction returned: round superTemp, die if not integral.    *)
SuperMatrix ==
    /\ phase = "reduceS"
    /\ pc = "done"
    /\ LET num == SuperTempNumerator(kBasis, t)
           d   == Det(kBasis)
       IN IF \A r, c \in Idx : DividesBy(num[r][c], d)
          THEN /\ super' = [r \in Idx |-> [c \in Idx |-> ExactQuotient(num[r][c], d)]]
               /\ phase' = "pivot"
          ELSE /\ phase' = "died"
               /\ UNCHANGED super
    /\ UNCHANGED <<in, iter, kmesh, kmeshTransform, kBasis>>
    /\ UNCHANGED redVars

-----------------------------------------------------------------------------
Permutation == << <<1, 2, 3>>, <<2, 3, 1>>, <<3, 1, 2>>, <<3, 2, 1>>, <<2, 1, 3>>, <<1, 3, 2>> >>

(* score = prod_k col[k]^2 / col.length_squared(), col = column perm[k],  *)
(* as the fraction num/den.                                                *)
Score(s, p) ==
    [num |-> s[1][p[1]]^2 * s[2][p[2]]^2 * s[3][p[3]]^2,
     den |-> LengthSq(Column(s, p[1])) * LengthSq(Column(s, p[2])) * LengthSq(Column(s, p[3]))]

(* maxScore starts at 0 and only a strictly larger score replaces pBest:   *)
(* the first permutation of greatest score, and the first one when all     *)
(* scores are 0.                                                           *)
BestPermutation(s) ==
    LET sc(p)        == Score(s, Permutation[p])
        Beats(p, q)  == sc(p).num * sc(q).den > sc(q).num * sc(p).den
    IN Min({ p \in 1..6 : \A q \in 1..6 : ~Beats(q, p) })

(* Mutant: the pivot without the handedness fix.                          *)
CanonicalizeNoSignFix ==
    /\ phase = "pivot"
    /\ LET p == Permutation[BestPermutation(super)]
       IN super' = [r \in Idx |-> [k \in Idx |-> super[r][p[k]]]]
    /\ phase' = "done"
    /\ UNCHANGED <<in, iter, kmesh, kmeshTransform, kBasis>>
    /\ UNCHANGED redVars

(* Pivot the columns, then super *= -1 if det(super) < 0.                  *)
Canonicalize ==
    /\ phase = "pivot"
    /\ LET p  == Permutation[BestPermutation(super)]
           s1 == [r \in Idx |-> [k \in Idx |-> super[r][p[k]]]]
       IN super' = IF Det(s1) < 0 THEN Scale(-1, s1) ELSE s1
    /\ phase' = "done"
    /\ UNCHANGED <<in, iter, kmesh, kmeshTransform, kBasis>>
    /\ UNCHANGED redVars

(* A step of whichever reduceLatticeVectors call is running.               *)
ReduceStep ==
    /\ phase \in {"reduceK", "reduceS"}
    /\ pc = "sweep"
    /\ Reducer!Next
    /\ UNCHANGED scVars

-----------------------------------------------------------------------------
Init ==
    /\ in \in Inputs
    /\ phase = "closure"
    /\ iter = 0
    /\ kmesh = << >>
    /\ kmeshTransform = << >>
    /\ kBasis = Id
    /\ super = Id
    /\ R = NoResult /\ Rreduced = NoResult /\ t = Id /\ tInv = Id
    /\ pos = 0 /\ changed = FALSE /\ pc = "done"

Next ==
    \/ ClosureStep
    \/ PickBasis
    \/ ReduceStep
    \/ CheckBravais
    \/ SuperMatrix
    \/ Canonicalize

(* The constructor runs on one thread to completion.                       *)
Spec == Init /\ [][Next]_vars /\ WF_vars(Next)

-----------------------------------------------------------------------------
STypeOK ==
    /\ DOMAIN in = {"GR", "kmeshReduced", "sym", "invertList"}
    /\ phase \in {"closure", "reduceK", "reduceS", "pivot", "done", "died"}
    /\ iter \in 0..NIter(in)
    /\ Len(kmeshTransform) = Len(kmesh)
    /\ \A m \in {kBasis, super} : m \in [Idx -> [Idx -> Int]]

(* Two k-points are the same point of the Brillouin zone.                  *)
Equivalent(a, b) == \A r \in Idx : (a[r] - b[r]) % N = 0

(* Once the closure loops are over, kmesh holds one representative in     *)
(* the centred zone [-1/2,1/2)^3 of every image of kmeshReduced under     *)
(* sym and invertList, and no point twice.                                 *)
MeshIsClosure ==
    phase # "closure" =>
        /\ \A n \in DOMAIN kmesh : \A r \in Idx : -N <= 2 * kmesh[n][r] /\ 2 * kmesh[n][r] < N
        /\ \A m, n \in DOMAIN kmesh : m # n => ~Equivalent(kmesh[m], kmesh[n])
        /\ \A i \in DOMAIN in.kmeshReduced, s \in DOMAIN in.sym, v \in DOMAIN in.invertList :
               \E n \in DOMAIN kmesh :
                   Equivalent(kmesh[n], VScale(in.invertList[v], MulV(Transpose(in.sym[s]), in.kmeshReduced[i])))

(* A finite set of k-points is a shifted Bravais lattice (mod the          *)
(* reciprocal lattice) when it holds a - b + c with any a, b, c.           *)
IsShiftedLattice(mesh) ==
    LET rep(a) == [r \in Idx |-> a[r] % N]
        S      == { rep(mesh[n]) : n \in DOMAIN mesh }
    IN \A a, b, c \in S : rep(VAdd(VSub(a, b), c)) \in S

(* The constructor dies ("not a Bravais lattice") exactly when the closed *)
(* mesh is not a shifted lattice, and otherwise goes on to the supercell. *)
AcceptsExactlyShiftedLattices ==
    /\ phase = "died" => ~IsShiftedLattice(kmesh)
    /\ phase = "done" => IsShiftedLattice(kmesh)

(* The returned supercell is commensurate with the mesh (spec 4.3 and     *)
(* "Supercell commensurability"): every mesh point is integral in the     *)
(* basis dual to super, relative to the first point, and det(super), the  *)
(* supercell volume in unit cells, is the number of k-points.              *)
SupercellCommensurate ==
    phase = "done" =>
        /\ Det(super) = Len(kmesh)
        /\ \A n \in DOMAIN kmesh : \A r \in Idx :
               DividesBy(MulV(Transpose(super), VSub(kmesh[n], kmesh[1]))[r], N)
=============================================================================
