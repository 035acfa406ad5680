-------------------------- MODULE MCBlockProducts --------------------------
(***************************************************************************)
(* The calls checked: tiled products of 1-3 blocks of 1x1 to 2x2, with     *)
(* other of 1-2 columns; Y1^Y2 with 0-2 columns on each side in the four  *)
(* spinor combinations; Y*M with Y of 0-2 columns and M of n or 2n rows   *)
(* and 0-2 columns; Wannier k-points of 1-2 centers and up to 3 bands.      *)
(***************************************************************************)
EXTENDS BlockProducts

Blank == [kind |-> "none", mr |-> 0, mc |-> 0, nb |-> 0, oc |-> 0,
          n1 |-> 0, n2 |-> 0, s1 |-> 1, s2 |-> 1, n |-> 0, rows |-> 0, m |-> 0,
          nc |-> 0, ni |-> 0, nfx |-> 0, nfr |-> 0]

TiledJobs == { [Blank EXCEPT !.kind = "tiled", !.mr = a, !.mc = b, !.nb = k, !.oc = c] :
               a \in 1..2, b \in 1..2, k \in 1..3, c \in 1..2 }

DotJobs == { [Blank EXCEPT !.kind = "dot", !.n1 = a, !.n2 = b, !.s1 = s[1], !.s2 = s[2]] :
             a \in 0..2, b \in 0..2, s \in {1, 2} \X {1, 2} }

TimesJobs == { [Blank EXCEPT !.kind = "times", !.n = a, !.rows = r, !.m = c] :
               a \in 0..2, r \in {1, 2}, c \in 0..2 }
             \* r is the factor: M has n (r = 1) or 2n (r = 2) rows
MCTimesJobs == { [j EXCEPT !.rows = j.rows * j.n] : j \in TimesJobs }

WannierJobs == { [Blank EXCEPT !.kind = "wannier", !.nc = c, !.ni = i, !.nfx = x, !.nfr = z] :
                 c \in 1..2, i \in 1..3, x \in 0..2, z \in 0..2 }

(* A k-point of the Wannier minimizer has nIn >= nCenters bands; nFrozen  *)
(* and nFixed are set up outside the repository; the operators need them  *)
(* below nCenters (B(nFrozen,nCenters, ...) of an empty range asserts).   *)
WannierShape(j) == j.ni >= j.nc /\ j.nfx < j.nc /\ j.nfr < j.nc

(* In spinor mode (one bundle a spinor) both bundles have columns.        *)
SpinorSideNonEmpty(j) == j.s1 # j.s2 => (j.n1 > 0 /\ j.n2 > 0)

(* Callers whose blocks are square, whose spinor-mode bundles have columns and  *)
(* whose Y*M has a non-empty Y.                                            *)
ValidJobs == { j \in TiledJobs : j.mr = j.mc }
             \cup { j \in DotJobs : SpinorSideNonEmpty(j) }
             \cup { j \in MCTimesJobs : j.n > 0 }
             \cup { j \in WannierJobs : WannierShape(j) }

=============================================================================
