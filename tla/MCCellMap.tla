------------------------------ MODULE MCCellMap ------------------------------
(***************************************************************************)
(* Bounded inputs for CellMap: integer unit lattices R and supercell       *)
(* matrices S whose lattice Rsup = R*S is reduced, so that its Wigner-     *)
(* Seitz faces come from translations S*m with m in {-1,0,1}^3.  The       *)
(* assumption below checks this: every vertex of that cell also lies      *)
(* inside the faces of all m in {-2..2}^3.                                 *)
(***************************************************************************)
EXTENDS CellMap

Diag(a, b, c) == << <<a, 0, 0>>, <<0, b, 0>>, <<0, 0, c>> >>

Sheared == << <<1, 1, 0>>, <<0, 1, 0>>, <<0, 0, 1>> >>

MCInputs ==
  { [R |-> Id, S |-> Diag(2, 1, 1)],                                \* spec scenario 4
    [R |-> Id, S |-> Diag(2, 2, 2)],                                \* corners shared by 8
    [R |-> Id, S |-> << <<0, 1, 1>>, <<1, 0, 1>>, <<1, 1, 0>> >>],   \* fcc supercell
    [R |-> Id, S |-> << <<-1, 1, 1>>, <<1, -1, 1>>, <<1, 1, -1>> >>],\* bcc supercell
    [R |-> Id, S |-> << <<1, 1, 0>>, <<-1, 1, 0>>, <<0, 0, 1>> >>],  \* rotated square
    [R |-> Diag(1, 1, 2), S |-> Diag(2, 2, 1)],
    [R |-> Sheared, S |-> << <<2, -1, 0>>, <<0, 1, 0>>, <<0, 0, 1>> >>] }

WideM == { <<a, b, c>> : a \in -2..2, b \in -2..2, c \in -2..2 } \ {Zero}

ASSUME \A e \in MCInputs :
    LET G == Mul(Transpose(e.R), e.R)
    IN \A v \in Vertices(e) :
         \A m \in WideM : LET L == MulV(e.S, m)
                         IN 2 * Dot(v.w, MulV(G, L)) * v.d <= Dot(L, MulV(G, L)) * v.d * v.d
=============================================================================
