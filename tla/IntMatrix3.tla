----------------------------- MODULE IntMatrix3 -----------------------------
(***************************************************************************)
(* Exact integer 3x3 matrix algebra.  It stands in for the matrix3<int>    *)
(* and matrix3<> arithmetic of core/matrix3.h (not part of src/), which    *)
(* LatticeUtils.cpp uses.  A matrix is a tuple of three rows, m[r][c], and *)
(* the code's 0-based index k is the index k+1 here.                       *)
(***************************************************************************)
EXTENDS Integers

Idx == 1..3

Id == [r \in Idx |-> [c \in Idx |-> IF r = c THEN 1 ELSE 0]]

Unit(r0, c0) == [r \in Idx |-> [c \in Idx |-> IF r = r0 /\ c = c0 THEN 1 ELSE 0]]

Add(a, b) == [r \in Idx |-> [c \in Idx |-> a[r][c] + b[r][c]]]

Sub(a, b) == [r \in Idx |-> [c \in Idx |-> a[r][c] - b[r][c]]]

Scale(x, a) == [r \in Idx |-> [c \in Idx |-> x * a[r][c]]]

Transpose(a) == [r \in Idx |-> [c \in Idx |-> a[c][r]]]

Mul(a, b) == [r \in Idx |-> [c \in Idx |->
                 a[r][1] * b[1][c] + a[r][2] * b[2][c] + a[r][3] * b[3][c]]]

Trace(a) == a[1][1] + a[2][2] + a[3][3]

Det(a) ==   a[1][1] * (a[2][2] * a[3][3] - a[2][3] * a[3][2])
          - a[1][2] * (a[2][1] * a[3][3] - a[2][3] * a[3][1])
          + a[1][3] * (a[2][1] * a[3][2] - a[2][2] * a[3][1])

(* Adjugate: a * Adjugate(a) = Det(a) * Id, so for det = +-1 the inverse  *)
(* of a is Det(a) * Adjugate(a).                                           *)
Adjugate(a) ==
    LET C(r, c) == LET rs == Idx \ {r}
                       cs == Idx \ {c}
                       r1 == CHOOSE x \in rs : \A y \in rs : x <= y
                       r2 == CHOOSE x \in rs : x # r1
                       c1 == CHOOSE x \in cs : \A y \in cs : x <= y
                       c2 == CHOOSE x \in cs : x # c1
                   IN (-1)^(r + c) * (a[r1][c1] * a[r2][c2] - a[r1][c2] * a[r2][c1])
    IN [r \in Idx |-> [c \in Idx |-> C(c, r)]]

InvUnimodular(a) == Scale(Det(a), Adjugate(a))

Column(a, c) == [r \in Idx |-> a[r][c]]

(* The metric tensor (~R)*R of the lattice R*t, given the metric g of R.   *)
Congruent(g, t) == Mul(Transpose(t), Mul(g, t))

(* vector3<int> / vector3<> helpers: a vector is a triple.                *)
VAdd(u, v)    == [r \in Idx |-> u[r] + v[r]]
VSub(u, v)    == [r \in Idx |-> u[r] - v[r]]
VScale(x, v)  == [r \in Idx |-> x * v[r]]
MulV(a, v)    == [r \in Idx |-> a[r][1] * v[1] + a[r][2] * v[2] + a[r][3] * v[3]]
Dot(u, v)     == u[1] * v[1] + u[2] * v[2] + u[3] * v[3]
LengthSq(v)   == Dot(v, v)
Cross(u, v)   == << u[2] * v[3] - u[3] * v[2],
                   u[3] * v[1] - u[1] * v[3],
                   u[1] * v[2] - u[2] * v[1] >>
Box(u, v, w)  == Dot(Cross(u, v), w)
Zero          == <<0, 0, 0>>

(* The matrix whose columns are the vectors c[1], c[2], c[3].             *)
FromColumns(c) == [r \in Idx |-> [k \in Idx |-> c[k][r]]]

(* All integer matrices whose entries are -1, 0 or 1 (3^9 of them).        *)
SmallMatrices == [Idx -> [Idx -> -1..1]]
=============================================================================
