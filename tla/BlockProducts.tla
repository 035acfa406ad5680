--------------------------- MODULE BlockProducts ---------------------------
(***************************************************************************)
(* The index layout of the block products: tiledBlockMatrix::operator*    *)
(* (electronic/matrix.cpp), and the spinor expansions of                   *)
(* ColumnBundle's Y*M and Y1^Y2 (electronic/ColumnBundle.cpp), which      *)
(* rearrange a product with strided sub-matrix get and set.               *)
(*                                                                         *)
(* A matrix is a record [nr, nc, e] with e its nr*nc elements in column-  *)
(* major order.  An element is a tag naming what the code computed there: *)
(* <<"P", r, c>> is entry (r,c) of a zgemm result, <<"M", r, c>> entry    *)
(* (r,c) of the input matrix, and <<"T", i, offs, j>> the product of row *)
(* i of the block with rows offs.. of column j of the other matrix.  Unset is *)
(* an element the constructor left uninitialised.  A failed myassert ends *)
(* the run in pc "died".                                                   *)
(*                                                                         *)
(* The "wannier" jobs are the sub-matrix layout of one k-point of         *)
(* WannierMinimizer (wannier/WannierMinimizer.cpp): B is nCenters x nIn,  *)
(* <<"B", r, c>> is its entry (r,c) and <<"B*", r, c>> that entry's       *)
(* conjugate; "zero" is an element zeroes() set; <<"G", r, c>> an element *)
(* of a gradient cis_grad computed, which no property reads the value of. *)
(***************************************************************************)
EXTENDS Integers, FiniteSets

CONSTANTS
    Jobs,   \* the calls to check: records with field kind "tiled", "dot", "times" or "wannier"
    Unset   \* an element no one has written

VARIABLES
    job,    \* the call being made
    pc,     \* the statement the call is at
    iBlock, \* the block loop counter of tiledBlockMatrix::operator*
    mats,   \* the matrices the call has built, by name
    oob     \* some zgemm touched an index outside its output

vars == <<job, pc, iBlock, mats, oob>>

(* C++ int division truncates toward zero; ceildiv is a header function.  *)
CDiv(a, b) == IF a >= 0 THEN a \div b ELSE -((-a) \div b)
CeilDiv(num, den) == CDiv(num + den - 1, den)

(* matrix::index: column-major.                                            *)
Index(rows, i, j) == rows * j + i

El(X, i, j) == X.e[Index(X.nr, i, j)]

MkMat(r, c, F(_, _)) == [nr |-> r, nc |-> c, e |-> [x \in 0..(r * c - 1) |-> F(x % r, x \div r)]]

(* matrix(nrows, ncols): storage the constructor does not initialise.     *)
NewMat(r, c) == MkMat(r, c, LAMBDA i, j : Unset)

-----------------------------------------------------------------------------
(* matrix::operator()(iStart,iStep,iStop, jStart,jStep,jStop) const: the  *)
(* whole range is a copy; otherwise the asserts (|| on the column range,  *)
(* as written) and the strided gather.                                     *)
WholeRange(X, iStart, iStep, iStop, jStart, jStep, jStop) ==
    iStart = 0 /\ iStep = 1 /\ iStop = X.nr /\ jStart = 0 /\ jStep = 1 /\ jStop = X.nc

RangeOk(X, iStart, iStep, iStop, jStart, jStep, jStop) ==
    /\ iStart >= 0 /\ iStart < X.nr
    /\ iStop > iStart /\ iStop <= X.nr
    /\ iStep > 0
    /\ jStart >= 0 \/ jStart < X.nc
    /\ jStop > jStart \/ jStop <= X.nc
    /\ jStep > 0

GetOk(X, iStart, iStep, iStop, jStart, jStep, jStop) ==
    \/ WholeRange(X, iStart, iStep, iStop, jStart, jStep, jStop)
    \/ RangeOk(X, iStart, iStep, iStop, jStart, jStep, jStop)

MatGet(X, iStart, iStep, iStop, jStart, jStep, jStop) ==
    IF WholeRange(X, iStart, iStep, iStop, jStart, jStep, jStop) THEN X
    ELSE MkMat(CeilDiv(iStop - iStart, iStep), CeilDiv(jStop - jStart, jStep),
               LAMBDA i, j : El(X, i * iStep + iStart, j * jStep + jStart))

(* matrix::set(iStart,iStep,iStop, jStart,jStep,jStop, m): the asserts,   *)
(* including that the range has m's shape, and the strided scatter.        *)
SetOk(X, iStart, iStep, iStop, jStart, jStep, jStop, M) ==
    /\ RangeOk(X, iStart, iStep, iStop, jStart, jStep, jStop)
    /\ CeilDiv(iStop - iStart, iStep) = M.nr
    /\ CeilDiv(jStop - jStart, jStep) = M.nc

Hits(k, start, step, delta) == k >= start /\ (k - start) % step = 0 /\ (k - start) \div step < delta

MatSet(X, iStart, iStep, iStop, jStart, jStep, jStop, M) ==
    MkMat(X.nr, X.nc, LAMBDA i, j :
        IF Hits(i, iStart, iStep, M.nr) /\ Hits(j, jStart, jStep, M.nc)
        THEN El(M, (i - iStart) \div iStep, (j - jStart) \div jStep)
        ELSE El(X, i, j))

(* One statement dst.set(sa..., src(ga...)): the get's asserts, the set's *)
(* asserts, then the copy; a failed assert ends the call.                  *)
SetFrom(dst, src, ga, sa, next) ==
    LET g == MatGet(mats[src], ga[1], ga[2], ga[3], ga[4], ga[5], ga[6])
    IN IF /\ GetOk(mats[src], ga[1], ga[2], ga[3], ga[4], ga[5], ga[6])
          /\ SetOk(mats[dst], sa[1], sa[2], sa[3], sa[4], sa[5], sa[6], g)
       THEN /\ mats' = [mats EXCEPT ![dst] = MatSet(@, sa[1], sa[2], sa[3], sa[4], sa[5], sa[6], g)]
            /\ pc' = next
       ELSE /\ pc' = "died"
            /\ UNCHANGED mats

-----------------------------------------------------------------------------
(* tiledBlockMatrix::operator*(other): other has mBlock.nCols()*nBlocks   *)
(* rows (asserted); result(mBlock.nRows()*nBlocks, other.nCols()).        *)
TiledStart ==
    /\ pc = "start" /\ job.kind = "tiled"
    /\ mats' = [mats EXCEPT !["ret"] = NewMat(job.mr * job.nb, job.oc)]
    /\ iBlock' = 0
    /\ pc' = "loop"
    /\ UNCHANGED <<job, oob>>

(* Mutant: the block loop stopping one block short.                        *)
MoreBlocksShort(i, nb) == i < nb - 1

(* Mutant: the block loop running one block too far.                      *)
MoreBlocksPast(i, nb) == i <= nb

MoreBlocks(i, nb) == i < nb

(* One block: offs = iBlock*mBlock.nCols(), and zgemm of mBlock with      *)
(* other+offs into result+offs, leading dimension result.nRows().          *)
TiledBlock ==
    /\ pc = "loop" /\ MoreBlocks(iBlock, job.nb)
    /\ LET offs == iBlock * job.mc
           ldc  == mats["ret"].nr
           R    == mats["ret"]
           Written(x) == \E i \in 0..(job.mr - 1), j \in 0..(job.oc - 1) : offs + i + j * ldc = x
       IN /\ mats' = [mats EXCEPT !["ret"] = [R EXCEPT !.e = [x \in DOMAIN R.e |->
                         IF Written(x)
                         THEN LET ij == CHOOSE ij \in (0..(job.mr - 1)) \X (0..(job.oc - 1)) :
                                            offs + ij[1] + ij[2] * ldc = x
                              IN <<"T", ij[1], offs, ij[2]>>
                         ELSE R.e[x]]]]
          /\ oob' = (oob \/ (job.oc > 0 /\ offs + (job.mr - 1) + (job.oc - 1) * ldc >= ldc * job.oc))
    /\ iBlock' = iBlock + 1
    /\ UNCHANGED <<job, pc>>

TiledEnd ==
    /\ pc = "loop" /\ ~MoreBlocks(iBlock, job.nb)
    /\ pc' = "done"
    /\ UNCHANGED <<job, iBlock, mats, oob>>

-----------------------------------------------------------------------------
(* Y1^Y2: the same column length is the standard mode; otherwise exactly  *)
(* one bundle is a spinor, and its columns count twice.  Y1dY2 is the     *)
(* zgemm result, of nCols1 x nCols2.                                       *)
DotGemm ==
    /\ pc = "start" /\ job.kind = "dot"
    /\ LET std   == job.s1 = job.s2
           nc1   == IF std THEN job.n1 ELSE job.n1 * job.s1
           nc2   == IF std THEN job.n2 ELSE job.n2 * job.s2
           P     == MkMat(nc1, nc2, LAMBDA r, c : <<"P", r, c>>)
       IN /\ mats' = [mats EXCEPT !["P"] = P,
                                  !["ret"] = CASE job.n1 # nc1 -> NewMat(job.n1, 2 * nc2)
                                               [] job.n2 # nc2 -> NewMat(2 * nc1, job.n2)
                                               [] OTHER        -> P]
          /\ pc' = CASE job.n1 # nc1 -> "y1a" [] job.n2 # nc2 -> "y2a" [] OTHER -> "done"
    /\ UNCHANGED <<job, iBlock, oob>>

(* Mutant: the spin-down copy into the spin-up columns.                    *)
Y1DownIntoUp == SetFrom("ret", "P", <<1, 2, mats["P"].nr, 0, 1, mats["P"].nc>>,
                                    <<0, 1, job.n1, 0, 2, mats["ret"].nc>>, "done")

(* Y1 is a spinor: out.set(0,1,n1, 0,2,2*nCols2, Y1dY2(0,2,nCols1, 0,1,nCols2)) *)
(* and the same from row 1 into column 1.                                  *)
Y1Up   == SetFrom("ret", "P", <<0, 2, mats["P"].nr, 0, 1, mats["P"].nc>>,
                              <<0, 1, job.n1, 0, 2, mats["ret"].nc>>, "y1b")
Y1Down == SetFrom("ret", "P", <<1, 2, mats["P"].nr, 0, 1, mats["P"].nc>>,
                              <<0, 1, job.n1, 1, 2, mats["ret"].nc>>, "done")

(* Y2 is a spinor: out.set(0,2,2*nCols1, 0,1,n2, Y1dY2(0,1,nCols1, 0,2,nCols2)) *)
(* and the same from column 1 into row 1.                                  *)
Y2Up   == SetFrom("ret", "P", <<0, 1, mats["P"].nr, 0, 2, mats["P"].nc>>,
                              <<0, 2, mats["ret"].nr, 0, 1, job.n2>>, "y2b")
Y2Down == SetFrom("ret", "P", <<0, 1, mats["P"].nr, 1, 2, mats["P"].nc>>,
                              <<1, 2, mats["ret"].nr, 0, 1, job.n2>>, "done")

DotStep ==
    /\ job.kind = "dot"
    /\ \/ pc = "y1a" /\ Y1Up
       \/ pc = "y1b" /\ Y1Down
       \/ pc = "y2a" /\ Y2Up
       \/ pc = "y2b" /\ Y2Down
    /\ UNCHANGED <<job, iBlock, oob>>
-----------------------------------------------------------------------------
(* Y*M for a non-spinor Y of n columns and M of rows x m: spinorMode when *)
(* 2n = rows (each column of Y counts as an up and a down spinor column). *)
(* The assert Y.nCols()==M.nRows() || spinorMode is the caller's          *)
(* obligation.  In spinorMode mIn = matrix(Mst) and Mtmp.init(n, 2m).     *)
SpinorMode(n, rows) == 2 * n = rows

TimesStart ==
    /\ pc = "start" /\ job.kind = "times"
    /\ IF SpinorMode(job.n, job.rows)
       THEN /\ mats' = [mats EXCEPT !["M"] = MkMat(job.rows, job.m, LAMBDA r, c : <<"M", r, c>>),
                                    !["ret"] = NewMat(job.n, 2 * job.m)]
            /\ pc' = "ma"
       ELSE /\ pc' = "done"
            /\ UNCHANGED mats
    /\ UNCHANGED <<job, iBlock, oob>>

(* Mtmp.set(0,1,n, 0,2,2m, mIn(0,2,rows, 0,1,m)) and the same from row 1  *)
(* into column 1; then myassert(!Y.isSpinor()) (Y is not a spinor here)   *)
(* and YM.init, which the layout does not depend on.                       *)
(* Mutant: the spin-up row range of Mtmp one past its end.                *)
MUpPastEnd == SetFrom("ret", "M", <<0, 2, mats["M"].nr, 0, 1, mats["M"].nc>>,
                                  <<0, 1, job.n + 1, 0, 2, mats["ret"].nc>>, "mb")

MUp == SetFrom("ret", "M", <<0, 2, mats["M"].nr, 0, 1, mats["M"].nc>>,
                           <<0, 1, job.n, 0, 2, mats["ret"].nc>>, "mb")

MDown == SetFrom("ret", "M", <<1, 2, mats["M"].nr, 0, 1, mats["M"].nc>>,
                             <<0, 1, job.n, 1, 2, mats["ret"].nc>>, "done")

TimesStep ==
    /\ job.kind = "times"
    /\ \/ pc = "ma" /\ MUp
       \/ pc = "mb" /\ MDown
    /\ UNCHANGED <<job, iBlock, oob>>

-----------------------------------------------------------------------------
(* A Wannier job: nc = nCenters, ni = nIn, nfx = nFixed, nfr = nFrozen.   *)
Zeroes(r, c) == MkMat(r, c, LAMBDA i, j : "zero")

Conj(t) == IF t[1] = "B" THEN <<"B*", t[2], t[3]>> ELSE t

(* dagger_symmetrize(X) = (X + X^)/2: an element is zero only where both  *)
(* X(i,j) and X(j,i) are.                                                  *)
DaggerSym(X) ==
    MkMat(X.nr, X.nc, LAMBDA i, j : IF El(X, i, j) = "zero" /\ El(X, j, i) = "zero" THEN "zero" ELSE <<"G", i, j>>)

WannierStart ==
    /\ pc = "start" /\ job.kind = "wannier"
    /\ mats' = [mats EXCEPT !["B"]  = MkMat(job.nc, job.ni, LAMBDA r, c : <<"B", r, c>>),
                            !["B1"] = Zeroes(job.ni, job.ni),
                            !["B2"] = Zeroes(job.nc, job.nc),
                            !["O1"] = MkMat(job.ni, job.ni, LAMBDA r, c : <<"G", r, c>>),
                            !["O2"] = MkMat(job.nc, job.nc, LAMBDA r, c : <<"G", r, c>>),
                            !["grad"] = Zeroes(job.nc, job.ni)]
    /\ pc' = IF job.ni > job.nc THEN "v1a" ELSE "b2"
    /\ UNCHANGED <<job, iBlock, oob>>

(* calc_V1 when nIn > nCenters: B1.set(nFixed,nCenters, nCenters,nIn,      *)
(* B(nFixed,nCenters, nCenters,nIn)), then the block's dagger at           *)
(* (nCenters,nIn, nFixed,nCenters); compute keeps cis(B1)(0,nIn, 0,nCenters). *)
V1Block == SetFrom("B1", "B", <<job.nfx, 1, job.nc, job.nc, 1, job.ni>>,
                              <<job.nfx, 1, job.nc, job.nc, 1, job.ni>>, "v1b")

V1Dagger ==
    LET blk == MatGet(mats["B"], job.nfx, 1, job.nc, job.nc, 1, job.ni)
        D   == MkMat(blk.nc, blk.nr, LAMBDA i, j : Conj(El(blk, j, i)))
    IN IF SetOk(mats["B1"], job.nc, 1, job.ni, job.nfx, 1, job.nc, D)
       THEN /\ mats' = [mats EXCEPT !["B1"] = MatSet(@, job.nc, 1, job.ni, job.nfx, 1, job.nc, D)]
            /\ pc' = "v1c"
       ELSE pc' = "died" /\ UNCHANGED mats

V1Keep ==
    /\ pc' = IF GetOk(mats["B1"], 0, 1, job.ni, 0, 1, job.nc) THEN "b2" ELSE "died"
    /\ UNCHANGED mats

(* Stage 2: B2.set(nFrozen,nCenters, nFrozen,nCenters, B(the same range)). *)
Stage2 == SetFrom("B2", "B", <<job.nfr, 1, job.nc, job.nfr, 1, job.nc>>,
                             <<job.nfr, 1, job.nc, job.nfr, 1, job.nc>>,
                             IF job.ni > job.nc THEN "g1" ELSE "g2")

(* The gradient, zeroes(nCenters, nIn): Omega_B1's block at stage 1's      *)
(* range, then Omega_B2's at stage 2's.                                    *)
Grad1 == SetFrom("grad", "O1", <<job.nfx, 1, job.nc, job.nc, 1, job.ni>>,
                               <<job.nfx, 1, job.nc, job.nc, 1, job.ni>>, "g2")

Grad2 == SetFrom("grad", "O2", <<job.nfr, 1, job.nc, job.nfr, 1, job.nc>>,
                               <<job.nfr, 1, job.nc, job.nfr, 1, job.nc>>, "con")

(* precondition calls constrain: grad.set(0,nCenters, 0,nCenters,          *)
(* dagger_symmetrize(grad(0,nCenters, 0,nCenters))).                       *)
Constrain ==
    IF GetOk(mats["grad"], 0, 1, job.nc, 0, 1, job.nc)
    THEN LET S == DaggerSym(MatGet(mats["grad"], 0, 1, job.nc, 0, 1, job.nc))
         IN IF SetOk(mats["grad"], 0, 1, job.nc, 0, 1, job.nc, S)
            THEN mats' = [mats EXCEPT !["grad"] = MatSet(@, 0, 1, job.nc, 0, 1, job.nc, S)] /\ pc' = "dot"
            ELSE pc' = "died" /\ UNCHANGED mats
    ELSE pc' = "died" /\ UNCHANGED mats

(* Mutant: the completion's columns starting one column early.             *)
DotRangeEarly(nr, ncl) ==
    IF nr > ncl THEN <<ncl, nr, 0, ncl>> ELSE <<0, nr, nr - 1, ncl>>

(* dot() of a rectangular matrix adds the part of its hermitian           *)
(* completion: rStart=cStop if rStop>cStop, else cStart=rStop.             *)
DotRange(nr, ncl) ==
    IF nr > ncl THEN <<ncl, nr, 0, ncl>> ELSE <<0, nr, nr, ncl>>

(* "W" records which positions the completion counts a second time.       *)
Dot ==
    LET X  == mats["grad"]
        rg == DotRange(X.nr, X.nc)
        Pos == MkMat(X.nr, X.nc, LAMBDA r, c : <<"P", r, c>>)
    IN IF X.nc = X.nr THEN pc' = "rand" /\ UNCHANGED mats
       ELSE IF GetOk(Pos, rg[1], 1, rg[2], rg[3], 1, rg[4])
       THEN mats' = [mats EXCEPT !["W"] = MatGet(Pos, rg[1], 1, rg[2], rg[3], 1, rg[4])] /\ pc' = "rand"
       ELSE pc' = "died" /\ UNCHANGED mats

(* randomize: the minDim square, then the rows or columns past it.        *)
Randomize ==
    LET X == mats["grad"]
        m == IF X.nr < X.nc THEN X.nr ELSE X.nc
    IN /\ pc' = IF /\ SetOk(X, 0, 1, m, 0, 1, m, Zeroes(m, m))
                   /\ X.nr > m => SetOk(X, m, 1, X.nr, 0, 1, m, Zeroes(X.nr - m, m))
                   /\ X.nc > m => SetOk(X, 0, 1, m, m, 1, X.nc, Zeroes(m, X.nc - m))
                THEN "done" ELSE "died"
       /\ UNCHANGED mats

WannierStep ==
    /\ job.kind = "wannier"
    /\ \/ pc = "v1a" /\ V1Block
       \/ pc = "v1b" /\ V1Dagger
       \/ pc = "v1c" /\ V1Keep
       \/ pc = "b2" /\ Stage2
       \/ pc = "g1" /\ Grad1
       \/ pc = "g2" /\ Grad2
       \/ pc = "con" /\ Constrain
       \/ pc = "dot" /\ Dot
       \/ pc = "rand" /\ Randomize
    /\ UNCHANGED <<job, iBlock, oob>>

-----------------------------------------------------------------------------
Init == /\ job \in Jobs
        /\ pc = "start"
        /\ iBlock = 0
        /\ mats = [m \in {"P", "M", "ret", "B", "B1", "B2", "O1", "O2", "grad", "W"} |-> NewMat(0, 0)]
        /\ oob = FALSE

Next == TiledStart \/ TiledBlock \/ TiledEnd \/ DotGemm \/ DotStep \/ TimesStart \/ TimesStep
        \/ WannierStart \/ WannierStep

Spec == Init /\ [][Next]_vars

-----------------------------------------------------------------------------
Tags == {Unset, "zero"} \cup ({"P", "M", "B", "B*", "G"} \X Int \X Int) \cup ({"T"} \X Int \X Int \X Int)

BPTypeOK ==
    /\ job \in Jobs
    /\ pc \in {"start", "loop", "y1a", "y1b", "y2a", "y2b", "ma", "mb", "done", "died",
              "v1a", "v1b", "v1c", "b2", "g1", "g2", "con", "dot", "rand"}
    /\ iBlock \in 0..job.nb
    /\ \A m \in DOMAIN mats : mats[m].nr \in Nat /\ mats[m].nc \in Nat
                              /\ \A x \in DOMAIN mats[m].e : mats[m].e[x] \in Tags
    /\ oob \in BOOLEAN

(* What tiledBlockMatrix promises: the block-diagonal matrix of nBlocks   *)
(* copies of mBlock times other, i.e. rows b*nRows.. of the result are    *)
(* mBlock times rows b*nCols.. of other.                                    *)
TiledReference(jb) ==
    MkMat(jb.mr * jb.nb, jb.oc, LAMBDA r, c : <<"T", r % jb.mr, (r \div jb.mr) * jb.mc, c>>)

(* When the product returns, every element of the result is the product  *)
(* of the right block row with the right rows of other, and no zgemm      *)
(* wrote past the result's storage.                                        *)
TiledProductCorrect ==
    /\ ~oob
    /\ job.kind = "tiled" /\ pc = "done" => mats["ret"] = TiledReference(job)

(* What the spinor expansions promise: Y1^Y2 with Y1 a spinor is          *)
(* n1 x 2n2 with out(b, 2j+s) = Y1dY2(2b+s, j) ("as if the non-spinor     *)
(* columnbundle had consecutive spinor columns with identical pure up and *)
(* down spinors"), symmetrically when Y2 is the spinor, and Y*M in        *)
(* spinorMode multiplies by Mtmp with Mtmp(i, 2k+s) = M(2i+s, k).          *)
SpinorReference(jb) ==
    CASE jb.kind = "dot" /\ jb.s1 = jb.s2 ->
            MkMat(jb.n1, jb.n2, LAMBDA r, c : <<"P", r, c>>)
      [] jb.kind = "dot" /\ jb.s1 = 2 ->
            MkMat(jb.n1, 2 * jb.n2, LAMBDA b, c : <<"P", 2 * b + (c % 2), c \div 2>>)
      [] jb.kind = "dot" /\ jb.s2 = 2 ->
            MkMat(2 * jb.n1, jb.n2, LAMBDA r, b : <<"P", r \div 2, 2 * b + (r % 2)>>)
      [] jb.kind = "times" ->
            MkMat(jb.n, 2 * jb.m, LAMBDA i, c : <<"M", 2 * i + (c % 2), c \div 2>>)

(* When Y1^Y2, or Y*M in spinorMode, returns, the matrix it built has    *)
(* the promised shape and every element in its promised place.             *)
SpinorLayoutCorrect ==
    pc = "done" /\ (job.kind = "dot" \/ (job.kind = "times" /\ SpinorMode(job.n, job.rows)))
        => mats["ret"] = SpinorReference(job)

(* No product dies in one of the sub-matrix asserts of its own strided    *)
(* copies.                                                                 *)
ProductsNeverAssert == pc # "died"
(* The entries of B the hermitian matrices B1 and B2 hold, by position,    *)
(* counting B1's block and its dagger each once.                           *)
Occurrences(r, c) ==
    LET In(X) == { x \in DOMAIN X.e : X.e[x] \in {<<"B", r, c>>, <<"B*", r, c>>} }
    IN Cardinality(In(mats["B1"])) + Cardinality(In(mats["B2"]))

DotWeight(r, c) == IF \E x \in DOMAIN mats["W"].e : mats["W"].e[x] = <<"P", r, c>> THEN 2 ELSE 1

(* After compute, precondition and dot of one k-point: the gradient is   *)
(* non-zero exactly at the entries of B that compute feeds into cis (so   *)
(* step moves every parameter and no other entry), and dot weighs each   *)
(* such entry as often as the hermitian matrices B1 and B2 hold it, which *)
(* is what its "hermitian completion" term is for.                         *)
WannierMetricConsistent ==
    job.kind = "wannier" /\ pc = "done" =>
        \A r \in 0..(job.nc - 1), c \in 0..(job.ni - 1) :
            /\ (El(mats["grad"], r, c) # "zero") = (Occurrences(r, c) > 0)
            /\ Occurrences(r, c) > 0 => DotWeight(r, c) = Occurrences(r, c)
====
