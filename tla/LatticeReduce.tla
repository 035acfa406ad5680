---------------------------- MODULE LatticeReduce ----------------------------
(***************************************************************************)
(* reduceLatticeVectors (core/LatticeUtils.cpp): greedy reduction of a    *)
(* lattice basis by integer shears, tracking the transmission matrix t    *)
(* and its inverse tInv.                                                   *)
(*                                                                         *)
(* Abstraction: the loop only looks at R through nrm2(R*d), which is      *)
(* sqrt(Trace(~d * ~R*R * d)).  A lattice is therefore represented by its *)
(* metric tensor ~R*R, and Rreduced below is the metric of the code's     *)
(* Rreduced = R*t.  Metrics are integer matrices; for them the test       *)
(* nrm2(Rproposed) < nrm2(Rreduced) - symmThreshold is exactly            *)
(* Trace(proposed metric) < Trace(current metric) (see README).           *)
(*                                                                         *)
(* The nested loops k1 \in 0..2, i \in -1..1, j \in -1..1 of one sweep    *)
(* are the iteration counter pos \in 0..26; pos = 27 is the test          *)
(* "if(!changed) break" after the sweep.                                   *)
(***************************************************************************)
EXTENDS Integers, IntMatrix3

CONSTANTS
    Lattices,   \* the input lattices R, as metrics ~R*R
    NoResult    \* model value: no result returned yet

ASSUME \A g \in Lattices : Transpose(g) = g /\ Det(g) > 0

VARIABLES
    R,          \* the input lattice (its metric); never changes
    Rreduced,   \* metric of the working lattice Rreduced
    t,          \* transmission matrix: Rreduced = R*t
    tInv,       \* tracked inverse of t
    pos,        \* loop iteration within the current sweep, 27 = sweep done
    changed,    \* whether the current sweep applied a shear
    pc          \* "sweep" while in while(true), "done" once returned

vars == <<R, Rreduced, t, tInv, pos, changed, pc>>

SweepLength == 27

(* Loop indices of iteration p of a sweep (1-based k1, as in IntMatrix3). *)
K1(p) == (p \div 9) + 1
I(p)  == ((p \div 3) % 3) - 1
J(p)  == (p % 3) - 1
K2(k) == (k % 3) + 1
K3(k) == ((k + 1) % 3) + 1

(* d(k2,k1) = i; d(k3,k1) = j: add i times column k2 and j times column   *)
(* k3 to column k1.  dInv negates both entries.                            *)
Shear(k, x, y) == Add(Id, Add(Scale(x, Unit(K2(k), k)), Scale(y, Unit(K3(k), k))))
D(p)    == Shear(K1(p), I(p), J(p))
DInv(p) == Shear(K1(p), -I(p), -J(p))

(* Mutant: the comparison without its margin, so an equal norm counts.   *)
ImprovesOrEqual(g, d) == Trace(Congruent(g, d)) <= Trace(g)

(* nrm2(Rreduced * d) < nrm2(Rreduced) - symmThreshold                    *)
Improves(g, d) == Trace(Congruent(g, d)) < Trace(g)

Init ==
    /\ R \in Lattices
    /\ Rreduced = R
    /\ t = Id
    /\ tInv = Id
    /\ pos = 0
    /\ changed = FALSE
    /\ pc = "sweep"

(* Mutant: the inverse updated on the wrong side, tInv = tInv * dInv.     *)
ApplyShearInverseOnRight ==
    /\ pc = "sweep"
    /\ pos < SweepLength
    /\ Improves(Rreduced, D(pos))
    /\ changed' = TRUE
    /\ Rreduced' = Congruent(Rreduced, D(pos))
    /\ t' = Mul(t, D(pos))
    /\ tInv' = Mul(tInv, DInv(pos))
    /\ pos' = pos + 1
    /\ UNCHANGED <<R, pc>>

(* A call reduceLatticeVectors(g): the state Init sets up, entered by a   *)
(* caller's step.                                                          *)
Start(g) ==
    /\ R' = g
    /\ Rreduced' = g
    /\ t' = Id
    /\ tInv' = Id
    /\ pos' = 0
    /\ changed' = FALSE
    /\ pc' = "sweep"

(* The shear of this iteration reduces the lattice: apply it.              *)
ApplyShear ==
    /\ pc = "sweep"
    /\ pos < SweepLength
    /\ Improves(Rreduced, D(pos))
    /\ changed' = TRUE
    /\ Rreduced' = Congruent(Rreduced, D(pos))
    /\ t' = Mul(t, D(pos))
    /\ tInv' = Mul(DInv(pos), tInv)
    /\ pos' = pos + 1
    /\ UNCHANGED <<R, pc>>

(* Mutant: the loop bound off by one (i <= 1 written as i <= 2).           *)
SkipShearBoundInclusive ==
    /\ pc = "sweep"
    /\ pos <= SweepLength
    /\ ~Improves(Rreduced, D(pos))
    /\ pos' = pos + 1
    /\ UNCHANGED <<R, Rreduced, t, tInv, changed, pc>>

(* The shear of this iteration does not reduce the lattice.                *)
SkipShear ==
    /\ pc = "sweep"
    /\ pos < SweepLength
    /\ ~Improves(Rreduced, D(pos))
    /\ pos' = pos + 1
    /\ UNCHANGED <<R, Rreduced, t, tInv, changed, pc>>

(* End of a sweep that changed the basis: start another sweep.             *)
NextSweep ==
    /\ pc = "sweep"
    /\ pos = SweepLength
    /\ changed
    /\ pos' = 0
    /\ changed' = FALSE
    /\ UNCHANGED <<R, Rreduced, t, tInv, pc>>

(* End of a sweep that changed nothing: break and return.                  *)
Converged ==
    /\ pc = "sweep"
    /\ pos = SweepLength
    /\ ~changed
    /\ pc' = "done"
    /\ UNCHANGED <<R, Rreduced, t, tInv, pos, changed>>

Next == ApplyShear \/ SkipShear \/ NextSweep \/ Converged

(* The function runs on one thread to completion: weak fairness.           *)
Spec == Init /\ [][Next]_vars /\ WF_vars(Next)

-----------------------------------------------------------------------------
TypeOK ==
    /\ R \in Lattices
    /\ pos \in 0..SweepLength
    /\ changed \in BOOLEAN
    /\ pc \in {"sweep", "done"}
    /\ \A m \in {Rreduced, t, tInv} : m \in [Idx -> [Idx -> Int]]

(* At every step the working lattice is the input times t, and tInv is    *)
(* the inverse of t (t = t*d and tInv = dInv*tInv must stay in step).     *)
BasisChangeConsistent ==
    /\ Rreduced = Congruent(R, t)
    /\ Mul(t, tInv) = Id

(* Refinement mapping: the result, t and tInv become visible on return.   *)
Abstract == INSTANCE ReduceAbstract WITH
    lattice  <- R,
    result   <- IF pc = "done" THEN Rreduced ELSE NoResult,
    trans    <- IF pc = "done" THEN t ELSE Id,
    transInv <- IF pc = "done" THEN tInv ELSE Id

(* What reduceLatticeVectors promises: it returns, and what it returns is *)
(* R*t for a unimodular t with inverse tInv, at which no shear of the     *)
(* loop reduces the norm any further (spec: reduction fixpoint).          *)

ImplementsReduceAbstract == Abstract!Spec
=============================================================================
