---------------------------- MODULE SymmetryFinder ----------------------------
(***************************************************************************)
(* getSymmetries (core/LatticeUtils.cpp): reduce the lattice, keep every  *)
(* integer matrix m with entries in {-1,0,1} that leaves the reduced      *)
(* metric invariant, map it back to the original lattice coordinates as   *)
(* t*m*tInv and drop those that connect a truncated lattice direction     *)
(* with an untruncated one.  The reduction is the LatticeReduce machine;  *)
(* the candidate loop has no branch that depends on earlier candidates,   *)
(* so it is one action that builds the whole list.                        *)
(*                                                                         *)
(* With an integer metric whose Frobenius norm is below 1/symmThreshold,  *)
(* nrm2(metric - ~m*metric*m) < symmThreshold*nrm2(metric) holds exactly  *)
(* when ~m*metric*m = metric.                                             *)
(***************************************************************************)
EXTENDS LatticeReduce

CONSTANT TruncationMasks   \* the isTruncated arguments callers pass

VARIABLES
    isTruncated,   \* the truncation mask argument
    sym            \* the returned symmetries (as a set), NoResult before

fvars == <<vars, isTruncated, sym>>

(* ~m * metric * m == metric: m leaves the metric invariant.              *)
LeavesMetricInvariant(metric, m) == Congruent(metric, m) = metric

(* Mutant: a nonzero entry on any truncated row or column breaks it.      *)
SymBrokenEitherTruncated(mOrig, trunc) ==
    \E r, c \in Idx : mOrig[r][c] # 0 /\ (trunc[r] \/ trunc[c])

(* mOrig(i,j) && isTruncated[i] != isTruncated[j]                          *)
SymBroken(mOrig, trunc) ==
    \E r, c \in Idx : mOrig[r][c] # 0 /\ trunc[r] # trunc[c]

(* Mutant: mapped back the wrong way round, tInv * m * t.                 *)
GetSymmetriesConjugatedBackwards(metric, tt, ttInv, trunc) ==
    LET mOrig(m) == Mul(ttInv, Mul(m, tt))
    IN { mOrig(m) : m \in { m \in SmallMatrices :
                               /\ LeavesMetricInvariant(metric, m)
                               /\ ~SymBroken(mOrig(m), trunc) } }

GetSymmetries(metric, tt, ttInv, trunc) ==
    LET mOrig(m) == Mul(tt, Mul(m, ttInv))
    IN { mOrig(m) : m \in { m \in SmallMatrices :
                               /\ LeavesMetricInvariant(metric, m)
                               /\ ~SymBroken(mOrig(m), trunc) } }

FInit ==
    /\ Init
    /\ isTruncated \in TruncationMasks
    /\ sym = NoResult

(* Step 1 of getSymmetries: reduceLatticeVectors(R, &t, &tInv).           *)
ReduceStep == Next /\ UNCHANGED <<isTruncated, sym>>

(* Steps 2-5: the 3^9 candidate loop, once the reduction has returned.    *)
FindSymmetries ==
    /\ pc = "done"
    /\ sym = NoResult
    /\ sym' = GetSymmetries(Rreduced, t, tInv, isTruncated)
    /\ UNCHANGED <<vars, isTruncated>>

FNext == ReduceStep \/ FindSymmetries

FSpec == FInit /\ [][FNext]_fvars /\ WF_fvars(FNext)

-----------------------------------------------------------------------------
Found == sym # NoResult

(* Spec 8: the returned set contains the identity, and every returned     *)
(* mOrig leaves the metric of the ORIGINAL lattice invariant.  Both       *)
(* depend on t and tInv, tracked by the reduction, being inverses.        *)
SymmetriesAreSymmetriesOfR ==
    Found => /\ Id \in sym
             /\ \A m \in sym : LeavesMetricInvariant(R, m)

=============================================================================
