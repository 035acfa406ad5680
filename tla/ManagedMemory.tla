---------------------------- MODULE ManagedMemory ----------------------------
(***************************************************************************)
(* ManagedMemory (core/ManagedMemory.cpp): the storage every matrix and    *)
(* column bundle derives from, and MemUsageReport, the per-category usage  *)
(* counters memInit and memFree keep.                                      *)
(*                                                                         *)
(* Objects are model values.  A buffer is one of a few model values; the   *)
(* heap says whether it is free or allocated on the CPU or the GPU.  The   *)
(* member functions are written as operators from a world record to the   *)
(* next one, so that callers (the matrix module) compose them in the order *)
(* the code calls them.  nData() (header, not in src/) is nElements.      *)
(* A myassert or die_alone that fires ends the process: "failed" records   *)
(* which one and no step follows.                                          *)
(***************************************************************************)
EXTENDS Integers, FiniteSets, FiniteSetsExt, Functions

CONSTANTS
    Objs,        \* the ManagedMemory objects
    Bufs,        \* the memory blocks malloc/cudaMalloc can hand out
    Null,        \* the null pointer
    NoCategory,  \* the empty category string
    Categories,  \* category strings callers pass to memInit
    GpuEnabled   \* whether the build defines GPU_ENABLED

VARIABLES
    alive,       \* objects whose lifetime has begun and not ended
    mm,          \* mm[o] = [category, nElements, onGpu, c]
    heap,        \* heap[b] \in {"free", "cpu", "gpu"}
    usageMap,    \* usageMap[cat] = [current, peak]
    usageTotal,  \* [current, peak]
    failed       \* "none", or the check that ended the process

mmVars == <<alive, mm, heap, usageMap, usageTotal, failed>>

(* The world the member functions act on; "got" is the block the last    *)
(* allocation returned.                                                    *)
World == [alive |-> alive, mm |-> mm, heap |-> heap, um |-> usageMap, ut |-> usageTotal,
          failed |-> failed, got |-> Null]

Commit(w) == /\ alive' = w.alive /\ mm' = w.mm /\ heap' = w.heap
             /\ usageMap' = w.um /\ usageTotal' = w.ut /\ failed' = w.failed

(* The ManagedMemory() constructor: nElements(0), c(0), onGpu(false).      *)
Empty == [category |-> NoCategory, nElements |-> 0, onGpu |-> FALSE, c |-> Null]

-----------------------------------------------------------------------------
(* MemUsageReport::manager, Add and Remove, under usageLock.               *)
AddUsage(u, n)    == [current |-> u.current + n,
                      peak    |-> IF u.current + n > u.peak THEN u.current + n ELSE u.peak]
RemoveUsage(u, n) == [u EXCEPT !.current = @ - n]

ReportAdd(w, cat, n) ==
    [w EXCEPT !.um[cat] = AddUsage(@, n), !.ut = AddUsage(@, n),
              !.failed = IF cat = NoCategory THEN "category" ELSE @]

ReportRemove(w, cat, n) ==
    [w EXCEPT !.um[cat] = RemoveUsage(@, n), !.ut = RemoveUsage(@, n),
              !.failed = IF cat = NoCategory THEN "category" ELSE @]

(* fftw_malloc / cudaMalloc of n elements: some free block, or death      *)
(* (die_alone, or gpuErrorCheck) when there is none.  fftw_malloc(0)       *)
(* returns a block of its own (FFTW allocates at least one byte);          *)
(* cudaMalloc of 0 bytes returns the null pointer.                         *)
Malloc(w, where, n) ==
    IF where = "gpu" /\ n = 0 THEN [w EXCEPT !.got = Null]
    ELSE IF \E b \in Bufs : w.heap[b] = "free"
       THEN LET b == CHOOSE b \in Bufs : w.heap[b] = "free"
            IN [w EXCEPT !.heap[b] = where, !.got = b]
    ELSE [w EXCEPT !.failed = "oom"]

Ok(w) == w.failed = "none"

FreeBlock(w, b) == IF b = Null THEN w ELSE [w EXCEPT !.heap[b] = "free"]

-----------------------------------------------------------------------------
(* Mutant: memFree that does not reset nElements.                          *)
MemFreeNoReset(w, o) ==
    IF w.mm[o].nElements = 0 THEN w
    ELSE LET w1 == ReportRemove(FreeBlock(w, w.mm[o].c), w.mm[o].category, w.mm[o].nElements)
         IN [w1 EXCEPT !.mm[o] = [@ EXCEPT !.c = Null, !.category = NoCategory]]

(* Mutant: memFree that clears the fields before reporting the removal.   *)
MemFreeClearFirst(w, o) ==
    IF w.mm[o].nElements = 0 THEN w
    ELSE LET w1 == [FreeBlock(w, w.mm[o].c) EXCEPT
                       !.mm[o] = [@ EXCEPT !.c = Null, !.nElements = 0, !.category = NoCategory]]
         IN ReportRemove(w1, w.mm[o].category, w1.mm[o].nElements)

(* memFree: nothing when nElements is 0; otherwise free c, report the      *)
(* removal, and clear c, nElements and category.                           *)
MemFree(w, o) ==
    IF w.mm[o].nElements = 0 THEN w
    ELSE LET w1 == ReportRemove(FreeBlock(w, w.mm[o].c), w.mm[o].category, w.mm[o].nElements)
         IN [w1 EXCEPT !.mm[o] = [@ EXCEPT !.c = Null, !.nElements = 0, !.category = NoCategory]]

(* memInit: nothing if already in the required state; else memFree, set   *)
(* the fields, allocate (dying when the allocation fails) and report.      *)
MemInit(w, o, cat, n, gpu) ==
    IF cat = w.mm[o].category /\ n = w.mm[o].nElements /\ gpu = w.mm[o].onGpu THEN w
    ELSE LET w1 == MemFree(w, o)
             w2 == [w1 EXCEPT !.mm[o] = [@ EXCEPT !.category = cat, !.nElements = n, !.onGpu = gpu]]
             w3 == IF gpu /\ ~GpuEnabled THEN [w2 EXCEPT !.failed = "gpu"]
                   ELSE Malloc(w2, IF gpu THEN "gpu" ELSE "cpu", n)
         IN IF ~Ok(w3) THEN w3 ELSE ReportAdd([w3 EXCEPT !.mm[o].c = w3.got], cat, n)

(* Mutant: memMove that copies the other object's fields instead of       *)
(* swapping them.                                                          *)
MemMoveCopy(w, o, other) == [w EXCEPT !.mm[o] = w.mm[other]]

(* memMove: swap all four fields with the other object.                    *)
MemMove(w, o, other) == [w EXCEPT !.mm[o] = w.mm[other], !.mm[other] = w.mm[o]]

(* Mutant: a relocation that never frees the block it copied from.        *)
RelocateKeepOld(w, o, gpu) ==
    IF w.mm[o].onGpu = gpu \/ w.mm[o].c = Null THEN w
    ELSE LET w1 == Malloc(w, IF gpu THEN "gpu" ELSE "cpu", w.mm[o].nElements)
         IN IF ~Ok(w1) THEN w1
            ELSE [w1 EXCEPT !.mm[o] = [@ EXCEPT !.c = w1.got, !.onGpu = gpu]]

(* toCpu / toGpu: allocate on the other side, copy, free the old block.   *)
Relocate(w, o, gpu) ==
    IF w.mm[o].onGpu = gpu \/ w.mm[o].c = Null THEN w
    ELSE LET w1 == Malloc(w, IF gpu THEN "gpu" ELSE "cpu", w.mm[o].nElements)
         IN IF ~Ok(w1) THEN w1
            ELSE [FreeBlock(w1, w.mm[o].c) EXCEPT !.mm[o] = [@ EXCEPT !.c = w1.got, !.onGpu = gpu]]

ToCpu(w, o) == Relocate(w, o, FALSE)
ToGpu(w, o) == Relocate(w, o, TRUE)

(* data() calls toCpu under GPU_ENABLED; dataGpu() calls toGpu.            *)
Data(w, o)     == IF GpuEnabled THEN ToCpu(w, o) ELSE w
DataGpu(w, o)  == ToGpu(w, o)
DataPref(w, o) == IF GpuEnabled THEN DataGpu(w, o) ELSE Data(w, o)

(* memcpy(a, b): assert equal sizes; nothing to copy when empty; else     *)
(* fetch both pointers where the copy runs.                                *)
Memcpy(w, a, b) ==
    IF w.mm[a].nElements # w.mm[b].nElements THEN [w EXCEPT !.failed = "memcpy"]
    ELSE IF w.mm[a].nElements = 0 THEN w
    ELSE IF GpuEnabled THEN LET w1 == DataGpu(w, a) IN IF Ok(w1) THEN DataGpu(w1, b) ELSE w1
    ELSE w

-----------------------------------------------------------------------------
(* The object's API as derived classes call it.  Every call needs a live  *)
(* object and a process that has not died.                                 *)
Running == failed = "none"

MMInit == /\ alive = [o \in Objs |-> FALSE]
          /\ mm = [o \in Objs |-> Empty]
          /\ heap = [b \in Bufs |-> "free"]
          /\ usageMap = [cat \in Categories |-> [current |-> 0, peak |-> 0]]
          /\ usageTotal = [current |-> 0, peak |-> 0]
          /\ failed = "none"

(* The public accessors data() and dataGpu(), called on a live object.     *)
CallData(o) == Running /\ alive[o] /\ Commit(Data(World, o))

CallDataGpu(o) == Running /\ GpuEnabled /\ alive[o] /\ Commit(DataGpu(World, o))

Gpus == IF GpuEnabled THEN BOOLEAN ELSE {FALSE}

-----------------------------------------------------------------------------
(* size_t counters: a negative value is an unsigned wrap-around.           *)
MMTypeOK ==
    /\ alive \in [Objs -> BOOLEAN]
    /\ mm \in [Objs -> [category : Categories \cup {NoCategory}, nElements : Nat,
                        onGpu : BOOLEAN, c : Bufs \cup {Null}]]
    /\ heap \in [Bufs -> {"free", "cpu", "gpu"}]
    /\ usageMap \in [Categories -> [current : Nat, peak : Nat]]
    /\ usageTotal \in [current : Nat, peak : Nat]

(* Every allocated block has exactly one live owner, whose c points to it *)
(* and whose onGpu says where it lives: no leak (a block no live object    *)
(* holds, as after memFree returns early or a move loses a pointer), no    *)
(* block shared by two objects (a double free at their destructors) and   *)
(* no pointer to a freed block.                                            *)
OwnershipExact ==
    Running =>
        /\ \A b \in Bufs : heap[b] # "free" <=> \E o \in Objs : alive[o] /\ mm[o].c = b
        /\ \A o, p \in Objs : alive[o] /\ alive[p] /\ o # p /\ mm[o].c # Null => mm[o].c # mm[p].c
        /\ \A o \in Objs : alive[o] /\ mm[o].c # Null =>
               heap[mm[o].c] = IF mm[o].onGpu THEN "gpu" ELSE "cpu"

(* MemUsageReport agrees with the objects: each category's current usage,  *)
(* and the total, is the sum of nElements of the live objects of that     *)
(* category, and no peak is below its current value.                       *)
LiveElements(cats) ==
    MapThenSumSet(LAMBDA o : mm[o].nElements, { o \in Objs : alive[o] /\ mm[o].category \in cats })

UsageMatchesLive ==
    Running =>
        /\ \A cat \in Categories : usageMap[cat].current = LiveElements({cat})
        /\ usageTotal.current = LiveElements(Categories)
        /\ \A cat \in Categories : usageMap[cat].peak >= usageMap[cat].current
        /\ usageTotal.peak >= usageTotal.current
=============================================================================
