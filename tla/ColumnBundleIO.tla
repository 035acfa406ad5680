--------------------------- MODULE ColumnBundleIO ---------------------------
(***************************************************************************)
(* Reading and writing the wavefunction file (electronic/ColumnBundle.cpp  *)
(* write and read), by every MPI process at once, and the band            *)
(* initialisation ElecVars does right after the read (ElecVars.cpp).       *)
(*                                                                         *)
(* One run of the program writes the file with nProc processes; a later   *)
(* run, perhaps with another process count, another number of bands and   *)
(* another cutoff, reads it back.  Process r owns the k-points             *)
(* split[r]..split[r+1]-1 (eInfo.qStart/qStop: contiguous, ascending in    *)
(* rank).  A ColumnBundle of k-point q has nCols columns of len[q]         *)
(* elements (basis->nbasis * nSpinor).  Data are tags: element i of column *)
(* b of k-point q in the file is <<"F", q, b, i>>; a column of Y holds     *)
(* <<"F", q, b>> when it was read intact, <<"U", q, b>> while it is the    *)
(* uninitialised storage init() gave it, Garbage when it came from the    *)
(* wrong bytes and Random when randomize() filled it.  Byte counts are     *)
(* counted in complex elements.  bcast is blocking for the receivers; the *)
(* root may return at once.                                                *)
(***************************************************************************)
EXTENDS Integers, FiniteSets, FiniteSetsExt

CONSTANTS
    MaxProc,  \* most MPI processes of a run
    NQ,       \* number of k-points (eInfo.nStates)
    MaxCols,  \* most bands (eInfo.nBands)
    Lens,     \* column lengths nbasis*nSpinor a cutoff can give
    Garbage,  \* a column made of the wrong elements
    Random,   \* a column randomize() filled
    None      \* a null conversion pointer

VARIABLES
    job,     \* the file's writer, and the reader's bands, basis and conversion
    phase,   \* "write" or "read": which run the processes belong to
    nProc,   \* mpiUtil->nProcesses() of the current run
    split,   \* qStart of rank r is split[r], qStop is split[r+1]
    pc,      \* per rank: count, bcast, open, io, bands, done
    nBytes,  \* per rank: its copy of the vector nBytes
    iSrc,    \* per rank: the next bcast of the sync loop
    offset,  \* per rank: where its k-points start in the file
    fsize,   \* per rank: the expected file length
    q,       \* per rank: the k-point the io loop is at
    file,    \* set of <<position, element>> written so far
    Y,       \* Y[q][b]: what column b of the reader's Y[q] holds
    died     \* an assertion or a failed fopenRead ended the run

vars == <<job, phase, nProc, split, pc, nBytes, iSrc, offset, fsize, q, file, Y, died>>

Procs == 0..(MaxProc - 1)
Qs    == 0..(NQ - 1)
Cols  == 1..MaxCols

Ranks == 0..(nProc - 1)
QRange(r) == split[r]..(split[r + 1] - 1)

(* Ways eInfo can hand NQ k-points to n processes.                          *)
Splits(n) == { s \in [0..n -> 0..NQ] : s[0] = 0 /\ s[n] = NQ /\ \A i \in 0..(n - 1) : s[i] <= s[i + 1] }

(* A conversion: realSpace, nBandsOld (0: keep nBands) and whether EcutOld  *)
(* differs from Ecut; EcutOld is the writer's cutoff, so that the custom   *)
(* basis has the writer's len.                                             *)
Conversions ==
    {None} \cup [realSpace : BOOLEAN, nBandsOld : {0} \cup Cols, ecutChanged : BOOLEAN]

Jobs == [nColsW : Cols, lenW : [Qs -> Lens], nColsR : Cols, lenR : [Qs -> Lens], conv : Conversions]

-----------------------------------------------------------------------------
(* The reader's conversion, as read() derives it per k-point.              *)
Conv == job.conv

RealSpace == Conv # None /\ Conv.realSpace

BandsChange == Conv # None /\ Conv.nBandsOld # 0 /\ Conv.nBandsOld # job.nColsR

CustomBasis == Conv # None /\ Conv.ecutChanged

NeedTmp == BandsChange \/ CustomBasis

(* Ycur: the bundle fread fills, Ytmp when a conversion needs it, else Y.   *)
CurCols == IF BandsChange THEN Conv.nBandsOld ELSE job.nColsR

CurLen(k) == IF CustomBasis THEN job.lenW[k] ELSE job.lenR[k]
(* Mutant: nBandsInited taken as nBands whatever nBandsOld says.          *)
NBandsInitedIgnoringConversion == job.nColsR


(* nBandsInited in ElecVars::setup.                                        *)
NBandsInited == IF Conv # None /\ Conv.nBandsOld # 0 THEN Conv.nBandsOld ELSE job.nColsR

(* The conversion describes the file the writer produced.                  *)
Describes == CurCols = job.nColsW /\ \A k \in Qs : CurLen(k) = job.lenW[k]

(* Elements a rank writes or reads: its k-points' nData().                 *)
LocalBytes(r, cols, len) == MapThenSumSet(LAMBDA k : cols * len[k], QRange(r))

(* The element at a position, Garbage where nothing or several things were *)
(* written.                                                                *)
Cell(p) == LET S == { e[2] : e \in { e \in file : e[1] = p } }
           IN IF Cardinality(S) = 1 THEN CHOOSE t \in S : TRUE ELSE Garbage

(* Column b of a bundle of k-point k whose data start at file position at. *)
ColumnAt(k, b, len, at) ==
    IF \A i \in 0..(len - 1) : Cell(at + b * len + i) = <<"F", k, b, i>>
    THEN <<"F", k, b>> ELSE Garbage

(* The bands read() fills: min(nCols, nBandsOld) in real space, else     *)
(* min(nCols, Ycur.nCols()).                                               *)
ReadCols == Min({job.nColsR, CurCols})

FileLength == IF file = {} THEN 0 ELSE Max({ e[1] : e \in file }) + 1

-----------------------------------------------------------------------------
Init ==
    /\ job \in Jobs
    /\ phase = "write"
    /\ nProc \in 1..MaxProc
    /\ split \in Splits(nProc)
    /\ pc = [r \in Procs |-> IF r < nProc THEN "count" ELSE "done"]
    /\ nBytes = [r \in Procs |-> [s \in Procs |-> 0]]
    /\ iSrc = [r \in Procs |-> 0]
    /\ offset = [r \in Procs |-> 0]
    /\ fsize = [r \in Procs |-> 0]
    /\ q = [r \in Procs |-> 0]
    /\ file = {}
    /\ Y = [k \in Qs |-> [b \in 0..(job.nColsR - 1) |-> <<"U", k, b>>]]
    /\ died = FALSE
(* Mutant: a process without k-points skips the nBytes sync.             *)
CountSyncOnlyWithStates(r) ==
    /\ ~died /\ pc[r] = "count"
    /\ ~(phase = "read" /\ RealSpace)
    /\ LET n == IF phase = "write" THEN LocalBytes(r, job.nColsW, job.lenW)
                ELSE LocalBytes(r, CurCols, [k \in Qs |-> CurLen(k)])
       IN nBytes' = [nBytes EXCEPT ![r][r] = n]
    /\ pc' = [pc EXCEPT ![r] = IF nProc > 1 /\ split[r] < split[r + 1] THEN "bcast" ELSE "open"]
    /\ UNCHANGED <<job, phase, nProc, split, iSrc, offset, fsize, q, file, Y, died>>


(* The loop over qStart..qStop-1 that sums nData() of the local bundles   *)
(* (of Ycur when reading), then the sync when nProcesses() > 1.           *)
Count(r) ==
    /\ ~died /\ pc[r] = "count"
    /\ ~(phase = "read" /\ RealSpace)
    /\ LET n == IF phase = "write" THEN LocalBytes(r, job.nColsW, job.lenW)
                ELSE LocalBytes(r, CurCols, [k \in Qs |-> CurLen(k)])
       IN nBytes' = [nBytes EXCEPT ![r][r] = n]
    /\ pc' = [pc EXCEPT ![r] = IF nProc > 1 THEN "bcast" ELSE "open"]
    /\ UNCHANGED <<job, phase, nProc, split, iSrc, offset, fsize, q, file, Y, died>>

(* Rank s has entered its own bcast (it is the root of round s).           *)
Sent(s) == iSrc[s] > s \/ (pc[s] = "bcast" /\ iSrc[s] = s)
(* Mutant: the bcast loop that leaves nBytes unsynchronised.              *)
BcastSkipped(r) ==
    /\ ~died /\ pc[r] = "bcast"
    /\ iSrc' = [iSrc EXCEPT ![r] = @ + 1]
    /\ pc' = [pc EXCEPT ![r] = IF iSrc[r] + 1 = nProc THEN "open" ELSE "bcast"]
    /\ UNCHANGED <<job, phase, nProc, split, nBytes, offset, fsize, q, file, Y, died>>


(* mpiUtil->bcast(nBytes[iSrc], iSrc): a receiver waits for the root.      *)
Bcast(r) ==
    /\ ~died /\ pc[r] = "bcast"
    /\ LET s == iSrc[r]
       IN /\ s = r \/ Sent(s)
          /\ nBytes' = [nBytes EXCEPT ![r][s] = nBytes[s][s]]
          /\ iSrc' = [iSrc EXCEPT ![r] = s + 1]
          /\ pc' = [pc EXCEPT ![r] = IF s + 1 = nProc THEN "open" ELSE "bcast"]
    /\ UNCHANGED <<job, phase, nProc, split, offset, fsize, q, file, Y, died>>
(* Mutant: the offset counting the process's own bytes (iSrc <= iProcess). *)
OffsetOfInclusive(r) == MapThenSumSet(LAMBDA s : nBytes[r][s], { s \in Ranks : s <= r })


(* The offset of rank r: the bytes of the ranks before it.                 *)
OffsetOf(r) == MapThenSumSet(LAMBDA s : nBytes[r][s], { s \in Ranks : s < r })

(* Offset and file length, fopenWrite or fopenRead (which ends the run     *)
(* when the file's length is not fsize), and fseek to the offset.          *)
Open(r) ==
    /\ ~died /\ pc[r] = "open"
    /\ LET size == MapThenSumSet(LAMBDA s : nBytes[r][s], Ranks)
       IN /\ offset' = [offset EXCEPT ![r] = OffsetOf(r)]
          /\ fsize' = [fsize EXCEPT ![r] = size]
          /\ IF phase = "read" /\ FileLength # size
             THEN died' = TRUE /\ UNCHANGED pc
             ELSE UNCHANGED died /\ pc' = [pc EXCEPT ![r] = "io"]
    /\ q' = [q EXCEPT ![r] = split[r]]
    /\ UNCHANGED <<job, phase, nProc, split, nBytes, iSrc, file, Y>>

(* fwrite of Y[q]: nData() elements at the file pointer, which advances.  *)
WriteQ(r) ==
    /\ ~died /\ phase = "write" /\ pc[r] = "io" /\ q[r] < split[r + 1]
    /\ LET k == q[r]
           len == job.lenW[k]
       IN /\ file' = file \cup { <<offset[r] + b * len + i, <<"F", k, b, i>>>> :
                                 b \in 0..(job.nColsW - 1), i \in 0..(len - 1) }
          /\ offset' = [offset EXCEPT ![r] = @ + job.nColsW * len]
    /\ q' = [q EXCEPT ![r] = @ + 1]
    /\ UNCHANGED <<job, phase, nProc, split, pc, nBytes, iSrc, fsize, Y, died>>
(* Mutant: setSub and getSub chosen the wrong way round.                  *)
ConvertedSwapped(k, at) ==
    LET tmp == [b \in 0..(MaxCols - 1) |-> ColumnAt(k, b, CurLen(k), at)]
        old == Y[k]
    IN IF ~NeedTmp THEN [b \in DOMAIN old |-> tmp[b]]
       ELSE IF CustomBasis
            THEN [b \in DOMAIN old |-> IF b < Min({job.nColsR, CurCols}) THEN tmp[b] ELSE old[b]]
       ELSE IF CurCols > job.nColsR
            THEN [b \in DOMAIN old |-> IF b < CurCols THEN tmp[b] ELSE old[b]]
       ELSE [b \in DOMAIN old |-> tmp[b]]


(* After fread into Ycur: Y[k] itself, or the conversion from Ytmp[k]:     *)
(* column by column through G-space when the basis differs, else          *)
(* Y.setSub(0, Ytmp) when Ytmp has fewer columns and Ytmp.getSub(0, nCols) *)
(* otherwise.                                                              *)
Converted(k, at) ==
    LET tmp == [b \in 0..(MaxCols - 1) |-> ColumnAt(k, b, CurLen(k), at)]
        old == Y[k]
    IN IF ~NeedTmp THEN [b \in DOMAIN old |-> tmp[b]]
       ELSE IF CustomBasis
            THEN [b \in DOMAIN old |-> IF b < Min({job.nColsR, CurCols}) THEN tmp[b] ELSE old[b]]
       ELSE IF CurCols < job.nColsR
            THEN [b \in DOMAIN old |-> IF b < CurCols THEN tmp[b] ELSE old[b]]
       ELSE [b \in DOMAIN old |-> tmp[b]]

(* fread of Ycur's nData() elements, then the conversion; Ytmp is freed.   *)
ReadQ(r) ==
    /\ ~died /\ phase = "read" /\ pc[r] = "io" /\ q[r] < split[r + 1]
    /\ LET k == q[r]
       IN /\ Y' = [Y EXCEPT ![k] = Converted(k, offset[r])]
          /\ offset' = [offset EXCEPT ![r] = @ + CurCols * CurLen(k)]
    /\ q' = [q EXCEPT ![r] = @ + 1]
    /\ UNCHANGED <<job, phase, nProc, split, pc, nBytes, iSrc, fsize, file, died>>

(* fclose when the loop is over; a reader goes on to ElecVars's bands.    *)
Close(r) ==
    /\ ~died /\ pc[r] = "io" /\ q[r] = split[r + 1]
    /\ pc' = [pc EXCEPT ![r] = IF phase = "write" THEN "done" ELSE "bands"]
    /\ UNCHANGED <<job, phase, nProc, split, nBytes, iSrc, offset, fsize, q, file, Y, died>>

(* The realSpace branch: returns at once without k-points, else loads     *)
(* column b (spinor s) of k-point q from its own file, for the first      *)
(* min(nCols, nBandsOld) columns.  No collective call.                     *)
ReadRealSpace(r) ==
    /\ ~died /\ phase = "read" /\ pc[r] = "count" /\ RealSpace
    /\ Y' = [k \in Qs |-> IF k \in QRange(r)
                          THEN [b \in DOMAIN Y[k] |-> IF b < ReadCols THEN <<"F", k, b>> ELSE Y[k][b]]
                          ELSE Y[k]]
    /\ pc' = [pc EXCEPT ![r] = "bands"]
    /\ UNCHANGED <<job, phase, nProc, split, nBytes, iSrc, offset, fsize, q, file, died>>

(* ElecVars::setup after read: Y[q].randomize(nBandsInited, nBands) when   *)
(* fewer bands were read than there are; orthonormalising the read bands  *)
(* and projecting them out of the random ones keeps what each holds.      *)
InitBands(r) ==
    /\ ~died /\ pc[r] = "bands"
    /\ Y' = [k \in Qs |-> IF k \in QRange(r) /\ NBandsInited < job.nColsR
                          THEN [b \in DOMAIN Y[k] |-> IF b >= NBandsInited THEN Random ELSE Y[k][b]]
                          ELSE Y[k]]
    /\ pc' = [pc EXCEPT ![r] = "done"]
    /\ UNCHANGED <<job, phase, nProc, split, nBytes, iSrc, offset, fsize, q, file, died>>

(* The writing run has ended; a reading run starts with its own process   *)
(* count and k-point split.                                                *)
StartRead ==
    /\ ~died /\ phase = "write" /\ \A r \in Procs : pc[r] = "done"
    /\ phase' = "read"
    /\ \E n \in 1..MaxProc :
          /\ nProc' = n
          /\ split' \in Splits(n)
          /\ pc' = [r \in Procs |-> IF r < n THEN "count" ELSE "done"]
    /\ nBytes' = [r \in Procs |-> [s \in Procs |-> 0]]
    /\ iSrc' = [r \in Procs |-> 0]
    /\ UNCHANGED <<job, offset, fsize, q, file, Y, died>>

Next ==
    \/ StartRead
    \/ \E r \in Procs : \/ Count(r) \/ Bcast(r) \/ Open(r) \/ WriteQ(r) \/ ReadQ(r)
                        \/ Close(r) \/ ReadRealSpace(r) \/ InitBands(r)

(* Every MPI process runs its own program: each is weakly fair.            *)
Fairness ==
    \A r \in Procs : WF_vars(Count(r) \/ Bcast(r) \/ Open(r) \/ WriteQ(r) \/ ReadQ(r)
                             \/ Close(r) \/ ReadRealSpace(r) \/ InitBands(r))

Spec == Init /\ [][Next]_vars /\ Fairness

-----------------------------------------------------------------------------
Tags == ({"F"} \X Qs \X (0..(MaxCols - 1)) \X Nat) \cup ({"F", "U"} \X Qs \X (0..(MaxCols - 1)))
        \cup {Garbage, Random}

MaxFile == NQ * MaxCols * Max(Lens)

IOTypeOK ==
    /\ job \in Jobs
    /\ phase \in {"write", "read"}
    /\ nProc \in 1..MaxProc /\ split \in Splits(nProc)
    /\ pc \in [Procs -> {"count", "bcast", "open", "io", "bands", "done"}]
    /\ nBytes \in [Procs -> [Procs -> 0..MaxFile]]
    /\ iSrc \in [Procs -> 0..MaxProc]
    /\ offset \in [Procs -> 0..MaxFile] /\ fsize \in [Procs -> 0..MaxFile]
    /\ q \in [Procs -> 0..NQ]
    /\ file \subseteq (0..(MaxFile - 1)) \X Tags
    /\ Y \in [Qs -> [0..(job.nColsR - 1) -> Tags]]
    /\ died \in BOOLEAN

(* Where write() should put element i of column b of k-point q: after all  *)
(* of the k-points before q, whichever processes held them.                *)
FilePos(k, b, i) ==
    MapThenSumSet(LAMBDA kk : job.nColsW * job.lenW[kk], 0..(k - 1)) + b * job.lenW[k] + i

Layout ==
    { <<FilePos(e[1], e[2], e[3]), <<"F", e[1], e[2], e[3]>>>> :
        e \in { e \in Qs \X (0..(job.nColsW - 1)) \X (0..(Max(Lens) - 1)) : e[3] < job.lenW[e[1]] } }

(* The processes of write() never put an element anywhere but its place   *)
(* in the k-point order, and once all of them have closed the file it     *)
(* holds exactly the bundles of every k-point, whatever the number of      *)
(* processes and the split: the offsets from the bcast of nBytes are right. *)
WriteLayout ==
    /\ file \subseteq Layout
    /\ phase = "read" => file = Layout

(* A read() whose conversion describes the file (or in real space) never   *)
(* dies, and when a process leaves read() each of its Y[q] holds column b  *)
(* of k-point q of the file in its first min(nBands, nBandsOld) columns    *)
(* and is untouched above them: across another process count, split,     *)
(* band count and cutoff.                                                  *)
ReadRoundTrip ==
    (Describes \/ RealSpace) =>
        /\ ~died
        /\ \A r \in Ranks : phase = "read" /\ pc[r] = "bands" =>
              \A k \in QRange(r) : \A b \in DOMAIN Y[k] :
                  Y[k][b] = IF b < ReadCols THEN <<"F", k, b>> ELSE <<"U", k, b>>

(* Once ElecVars has initialised the bands after a good read, no band of  *)
(* the process's k-points is left uninitialised or garbage: each was read *)
(* or randomized.                                                          *)
BandsComplete ==
    (Describes \/ RealSpace) =>
        \A r \in Ranks : phase = "read" /\ pc[r] = "done" =>
            \A k \in QRange(r) : \A b \in DOMAIN Y[k] :
                Y[k][b] = IF b < ReadCols THEN <<"F", k, b>> ELSE Random

(* Every run of write() and of read() ends on every process, or the run   *)
(* dies: no process waits forever in the bcast loop.                       *)
RunEnds(ph) == phase = ph /\ (died \/ \A r \in Procs : pc[r] = "done")

Termination ==
    /\ <>(RunEnds("write") \/ phase = "read")
    /\ phase = "read" ~> (died \/ RunEnds("read"))

=============================================================================
