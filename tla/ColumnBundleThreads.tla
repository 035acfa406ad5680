------------------------ MODULE ColumnBundleThreads ------------------------
(***************************************************************************)
(* The threaded ColumnBundle operators of electronic/operators.cpp that    *)
(* share one bundle between threads: diagouterI, whose threads each read   *)
(* their range of X's columns, and Idag_DiagV_I, whose threads read C's    *)
(* columns and write those of VC = C.similar().  Each column goes through *)
(* getColumn / setColumn (ColumnBundle.cpp), whose dataPref() may move the *)
(* bundle's storage: in a GPU build toGpu() is not atomic, so it is split *)
(* into its steps (check, cudaMalloc, cudaMemcpy, fftw_free, assign).      *)
(*                                                                         *)
(* While a call runs, its launching thread waits in threadLaunch, so no    *)
(* other operation of ColumnBundleStorage interleaves with the workers.    *)
(* threadLaunch and isGpuMine (core/, not in the repository) are modelled  *)
(* by what operators.cpp relies on: nThreads = 0 asks for every available *)
(* thread, the column ranges are those diagouterI_sub computes, thread 0   *)
(* is the one that owns the GPU and whether another one does is open.      *)
(***************************************************************************)
EXTENDS ColumnBundleStorage, Sequences

CONSTANT NProcsAvailable  \* threads threadLaunch may start

VARIABLES
    call,  \* the running operator: [op, X, VC, nt, mine], or op = "none"
    thr    \* per thread: pc, column range, current column, step, blocks

thrVars == <<call, thr>>
vars    == <<cbVars, thrVars>>

Threads == 0..(NProcsAvailable - 1)

Idle == [pc |-> "idle", col |-> 0, stop |-> 0, k |-> 1, new |-> Null, ptr |-> Null]

NoCall == [op |-> "none"]

(* nThreads = isGpuEnabled() ? 1 : nProcsAvailable, and the same through  *)
(* threadLaunch(isGpuEnabled()?1:0, ...) in Idag_DiagV_I.                  *)
NThreads == IF GpuEnabled THEN 1 ELSE NProcsAvailable

(* Thread t of nt covers columns t*n/nt .. (t+1)*n/nt - 1.                 *)
ColStart(t, n, nt) == (t * n) \div nt

(* The bundles one column touches, in call order: getColumn reads X;       *)
(* Idag_DiagV_I's setColumn calls VC's dataPref() in eblas_zero and again  *)
(* in accumColumn.                                                         *)
Touches(c) == IF c.op = "diagouterI" THEN <<c.X>> ELSE <<c.X, c.VC, c.VC>>

Transition(t, from, to) == thr[t].pc = from /\ thr' = [thr EXCEPT ![t].pc = to]

Workers(nt, n) ==
    [t \in Threads |-> IF t < nt
                       THEN [Idle EXCEPT !.pc = "col", !.col = ColStart(t, n, nt), !.stop = ColStart(t + 1, n, nt)]
                       ELSE Idle]

Launch(op, X, VC, w, n) ==
    \E mine \in { m \in [Threads -> BOOLEAN] : m[0] } :
        /\ call' = [op |-> op, X |-> X, VC |-> VC, nt |-> NThreads, mine |-> mine]
        /\ thr' = Workers(NThreads, n)
        /\ Commit(w)

(* diagouterI(F, X, ...): one thread per range of X's columns, each        *)
(* accumulating into its own nSub[iThread].                                *)
DiagouterI(X) ==
    /\ "threads" \in Ops /\ call = NoCall /\ Usable(X)
    /\ Launch("diagouterI", X, X, World, ncols[X])
    /\ UNCHANGED <<ncols, colLength, movedFrom, outOfBounds>>

(* Idag_DiagV_I(C, V): VC = C.similar(), then the threads over C's columns. *)
IdagDiagVI(C, VC) ==
    /\ "threads" \in Ops /\ call = NoCall /\ Usable(C) /\ Fresh(VC) /\ ncols[C] > 0
    /\ LET w == CBInit(Born(World, VC), VC, ncols[C], colLength[C], mm[C].onGpu)
       IN Ok(w) /\ Launch("Idag", C, VC, w, ncols[C])
    /\ SetShape(VC, ncols[C], colLength[C])
    /\ UNCHANGED outOfBounds

-----------------------------------------------------------------------------
Obj(t) == Touches(call)[thr[t].k]

(* The loop over the thread's columns.                                     *)
NextCol(t) ==
    /\ thr[t].pc = "col"
    /\ thr' = [thr EXCEPT ![t].pc = IF thr[t].col < thr[t].stop THEN "check" ELSE "done", ![t].k = 1]
    /\ UNCHANGED <<mmVars, call>>

(* dataPref(): toGpu returns at once if onGpu or !c (and data() does      *)
(* nothing in a CPU build); otherwise myassert(isGpuMine()) and cudaMalloc.*)
Check(t) ==
    /\ thr[t].pc = "check" /\ Running
    /\ LET o == Obj(t)
       IN IF ~GpuEnabled \/ mm[o].onGpu \/ mm[o].c = Null
          THEN thr' = [thr EXCEPT ![t].pc = "use", ![t].ptr = mm[o].c] /\ UNCHANGED mmVars
          ELSE IF ~call.mine[t]
          THEN failed' = "gpuMine" /\ UNCHANGED <<alive, mm, heap, usageMap, usageTotal, thr>>
          ELSE LET w == Malloc(World, "gpu", mm[o].nElements)
               IN /\ Commit(w)
                  /\ thr' = [thr EXCEPT ![t].pc = "copy", ![t].new = w.got]
    /\ UNCHANGED call

(* A block the thread uses must still be where it expects it; anything    *)
(* else is a use of freed or moved memory.                                 *)
Touch(t, b, where, to) ==
    IF heap[b] = where THEN Transition(t, thr[t].pc, to) /\ UNCHANGED failed
    ELSE failed' = "race" /\ UNCHANGED thr

(* cudaMemcpy(cGpu, c, ..., cudaMemcpyHostToDevice) reads c now.          *)
CopyIn(t) ==
    /\ thr[t].pc = "copy" /\ Running
    /\ Touch(t, mm[Obj(t)].c, "cpu", "free")
    /\ UNCHANGED <<alive, mm, heap, usageMap, usageTotal, call>>

(* fftw_free(c) frees whatever c holds now.                                *)
FreeOld(t) ==
    /\ thr[t].pc = "free" /\ Running
    /\ Touch(t, mm[Obj(t)].c, "cpu", "set")
    /\ heap' = IF heap[mm[Obj(t)].c] = "cpu" THEN [heap EXCEPT ![mm[Obj(t)].c] = "free"] ELSE heap
    /\ UNCHANGED <<alive, mm, usageMap, usageTotal, call>>

(* c = cGpu; onGpu = true; dataPref() returns c.                           *)
SetPtr(t) ==
    /\ thr[t].pc = "set" /\ Running
    /\ mm' = [mm EXCEPT ![Obj(t)].c = thr[t].new, ![Obj(t)].onGpu = TRUE]
    /\ thr' = [thr EXCEPT ![t].pc = "use", ![t].ptr = thr[t].new, ![t].new = Null]
    /\ UNCHANGED <<alive, heap, usageMap, usageTotal, failed, call>>

(* The eblas call on the returned pointer (scatter, zero or gather), then *)
(* the next bundle of this column or the next column.                      *)
Use(t) ==
    /\ thr[t].pc = "use" /\ Running
    /\ IF heap[thr[t].ptr] = (IF GpuEnabled THEN "gpu" ELSE "cpu")
       THEN /\ thr' = IF thr[t].k < Len(Touches(call))
                      THEN [thr EXCEPT ![t].pc = "check", ![t].k = @ + 1]
                      ELSE [thr EXCEPT ![t].pc = "col", ![t].col = @ + 1]
            /\ UNCHANGED failed
       ELSE failed' = "race" /\ UNCHANGED thr
    /\ UNCHANGED <<alive, mm, heap, usageMap, usageTotal, call>>

(* threadLaunch returns when every thread has; diagouterI's collect step  *)
(* only adds the per-thread densities, which are not ManagedMemory of X.   *)
Join ==
    /\ call # NoCall /\ Running
    /\ \A t \in Threads : thr[t].pc \in {"idle", "done"}
    /\ call' = NoCall /\ thr' = [t \in Threads |-> Idle]
    /\ UNCHANGED cbVars

ThreadStep(t) ==
    /\ call # NoCall
    /\ \/ NextCol(t) \/ Check(t) \/ CopyIn(t) \/ FreeOld(t) \/ SetPtr(t) \/ Use(t)
    /\ UNCHANGED <<ncols, colLength, movedFrom, outOfBounds>>

ThreadsInit == Init /\ call = NoCall /\ thr = [t \in Threads |-> Idle]

ThreadsNext ==
    \/ call = NoCall /\ Next /\ UNCHANGED thrVars
    \/ \E o \in Objs : DiagouterI(o)
    \/ \E o, v \in Objs : IdagDiagVI(o, v)
    \/ \E t \in Threads : ThreadStep(t)
    \/ Join

ThreadsSpec == ThreadsInit /\ [][ThreadsNext]_vars

-----------------------------------------------------------------------------
(* Between operator calls, ownership is exact (ManagedMemory's             *)
(* OwnershipExact): a relocation in progress holds its new block in a     *)
(* local variable, so the invariant is stated where no worker runs.       *)
OwnershipBetweenCalls == call = NoCall => OwnershipExact

=============================================================================
