--------------------------- MODULE CustomFillings ---------------------------
(***************************************************************************)
(* The custom fillings of ElecVars::setup (electronic/ElecVars.cpp): every *)
(* MPI process walks the list eInfo.customFillings of (q, offset from the  *)
(* HOMO, filling) twice.  The first loop checks each entry of one of its   *)
(* own k-points and pushes its band onto band_index; the second sets       *)
(* F[q][band_index[j]] for each of its own entries j.                      *)
(*                                                                         *)
(* findHOMO is in ElecInfo, not in this repository: HOMO[q] is any band.   *)
(* Reading band_index[j] past its end is undefined: the value read is any  *)
(* size_t, so a band in range or OutOfRange (a write past F[q], which       *)
(* corrupts the heap).  Fillings are model values; F[q][b] = Unfilled     *)
(* stands for the filling F had before.                                    *)
(***************************************************************************)
EXTENDS Integers, Sequences

CONSTANTS
    MaxProc,    \* MPI processes
    NQ,         \* k-points
    NBands,     \* F[q].size()
    Lists,      \* customFillings vectors: <<q, offset, filling>> entries
    Unfilled,   \* F[q][b] before setup
    OutOfRange  \* an index at or past F[q].size()

VARIABLES
    nProc, split, \* process count; rank r owns split[r]..split[r+1]-1
    HOMO,         \* findHOMO(q)
    list,         \* eInfo.customFillings
    pc,           \* per rank: "check", "apply", "done" or "died"
    j,            \* per rank: the loop index
    bandIndex,    \* per rank: the vector band_index
    F,            \* F[q][b]
    corrupt       \* some write went past the end of an F[q]

vars == <<nProc, split, HOMO, list, pc, j, bandIndex, F, corrupt>>

Procs == 0..(MaxProc - 1)
Qs    == 0..(NQ - 1)
Bands == 0..(NBands - 1)

IsMine(r, q) == split[r] <= q /\ q < split[r + 1]

Splits(n) == { s \in [0..n -> 0..NQ] : s[0] = 0 /\ s[n] = NQ /\ \A i \in 0..(n - 1) : s[i] <= s[i + 1] }

(* Entry k's band, std::get<1> + HOMO as a size_t: a negative sum wraps     *)
(* to a huge value.                                                        *)
BandOf(e) == e[2] + HOMO[e[1]]

BandOk(e) == BandOf(e) >= 0 /\ BandOf(e) < NBands

Init ==
    /\ nProc \in 1..MaxProc
    /\ split \in Splits(nProc)
    /\ HOMO \in [Qs -> Bands]
    /\ list \in Lists
    /\ pc = [r \in Procs |-> IF r < nProc THEN "check" ELSE "done"]
    /\ j = [r \in Procs |-> 1]
    /\ bandIndex = [r \in Procs |-> << >>]
    /\ F = [q \in Qs |-> [b \in Bands |-> Unfilled]]
    /\ corrupt = FALSE

(* One pass of the first loop: skip an entry of another process, die on a *)
(* band outside F[q], else push_back the band.                             *)
Check(r) ==
    /\ pc[r] = "check"
    /\ IF j[r] > Len(list)
       THEN pc' = [pc EXCEPT ![r] = "apply"] /\ j' = [j EXCEPT ![r] = 1] /\ UNCHANGED bandIndex
       ELSE LET e == list[j[r]]
            IN IF ~IsMine(r, e[1])
               THEN j' = [j EXCEPT ![r] = @ + 1] /\ UNCHANGED <<pc, bandIndex>>
               ELSE IF ~BandOk(e)
               THEN pc' = [pc EXCEPT ![r] = "died"] /\ UNCHANGED <<j, bandIndex>>
               ELSE /\ bandIndex' = [bandIndex EXCEPT ![r] = Append(@, BandOf(e))]
                    /\ j' = [j EXCEPT ![r] = @ + 1]
                    /\ UNCHANGED pc
    /\ UNCHANGED <<nProc, split, HOMO, list, F, corrupt>>

(* band_index[j], where j counts every entry of the list: past the end of  *)
(* the vector any value may be read.                                       *)
ReadBandIndex(r, k) ==
    IF k <= Len(bandIndex[r]) THEN {bandIndex[r][k]} ELSE Bands \cup {OutOfRange}

(* One pass of the second loop: F[qnum][band_index[j]] = std::get<2>.      *)
Apply(r) ==
    /\ pc[r] = "apply"
    /\ IF j[r] > Len(list)
       THEN pc' = [pc EXCEPT ![r] = "done"] /\ UNCHANGED <<j, F, corrupt>>
       ELSE LET e == list[j[r]]
            IN /\ j' = [j EXCEPT ![r] = @ + 1]
               /\ UNCHANGED pc
               /\ IF ~IsMine(r, e[1]) THEN UNCHANGED <<F, corrupt>>
                  ELSE \E b \in ReadBandIndex(r, j[r]) :
                          IF b = OutOfRange THEN corrupt' = TRUE /\ UNCHANGED F
                          ELSE F' = [F EXCEPT ![e[1]][b] = e[3]] /\ UNCHANGED corrupt
    /\ UNCHANGED <<nProc, split, HOMO, list, bandIndex>>

Next == \E r \in Procs : Check(r) \/ Apply(r)

Spec == Init /\ [][Next]_vars

-----------------------------------------------------------------------------
(* The filling the list asks for at band b of k-point q: that of the last *)
(* entry naming them, or none.                                             *)
Asked(q, b) ==
    LET ks == { k \in 1..Len(list) : list[k][1] = q /\ BandOk(list[k]) /\ BandOf(list[k]) = b }
    IN IF ks = {} THEN Unfilled ELSE list[CHOOSE k \in ks : \A k2 \in ks : k2 <= k][3]

(* Once a process is through both loops, each band of each of its         *)
(* k-points has the filling the list asks for (the custom one, or the one *)
(* it had), and no write went past an F[q]: the fillings are applied as    *)
(* the command gave them, whatever the process count.                      *)
FillingsApplied ==
    /\ ~corrupt
    /\ \A r \in Procs : pc[r] = "done" =>
          \A q \in Qs : IsMine(r, q) => \A b \in Bands : F[q][b] = Asked(q, b)
=============================================================================
