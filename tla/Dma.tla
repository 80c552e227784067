-------------------------------- MODULE Dma --------------------------------
(***************************************************************************)
(* The dynamic memory allocator of src/Project3/dma.c: application threads *)
(* that call dma_alloc and dma_free on the bitmap heap of DmaLayout.       *)
(*                                                                         *)
(* In the bitmap a free unit is the word pair 11, the first unit of a      *)
(* block is 01 and its other units are 00.  The words of unit u are fst[u] *)
(* and snd[u].  A step reads one word pair or writes at most one word, so  *)
(* that a reader which does not take the lock (DmaPrint) sees every        *)
(* intermediate bitmap.                                                    *)
(***************************************************************************)
EXTENDS DmaLayout, FiniteSets

CONSTANTS Threads,    (* the threads of the application                     *)
          NoThread,   (* the holder of an unlocked mutex                    *)
          Requests,   (* the sizes, in bytes, that the application asks for *)
          MaxFrag     (* bound: no dma_alloc once frag_amount exceeds it    *)

ASSUME DmaAssumption ==
    /\ NoThread \notin Threads
    /\ Requests \subseteq Int
    /\ MaxFrag \in Nat

VARIABLES
    fst, snd,     \* the bitmap
    lock,         \* holder of segment_lock
    frag_amount,  \* the global of that name
    unmapped,     \* pages removed by munmap, by their first unit
    held,         \* the blocks the application holds: pointer and length
    pc,           \* per thread: where it is in the library
    size,         \* dma_alloc: its argument
    i,            \* the loop index of either function, in units
    isStarted, start_idx, x,   \* dma_alloc: its other locals
    block         \* dma_free: the block whose pointer was passed

bitmap == <<fst, snd>>
frame  == <<size, i, isStarted, start_idx, x, block>>
vars   == <<bitmap, lock, frag_amount, unmapped, held, pc, frame>>

NullBlock == [ptr |-> Null, len |-> 0]

\* The units of the block whose application pointer is b.ptr.
Covers(b, u) == LocOf(b.ptr) <= u /\ u < LocOf(b.ptr) + b.len

PCs == {"idle", "alloc_lock", "scan", "mark_fst", "mark_snd", "alloc_null",
        "free_lock", "clear_fst", "clear_snd", "free_null"}

\* Where a thread is between locking and unlocking segment_lock.
Critical == PCs \ {"idle", "alloc_lock", "free_lock"}

Init ==
    /\ fst = [u \in 0 .. LastUnit |-> IF u < First THEN 0 ELSE 1]
    /\ snd = [u \in 0 .. LastUnit |->
                IF u < First /\ u \notin {0, BitmapUnits} THEN 0 ELSE 1]
    /\ lock = NoThread
    /\ frag_amount = 0
    /\ unmapped = {}
    /\ held = {}
    /\ pc = [t \in Threads |-> "idle"]
    /\ size = [t \in Threads |-> 0]
    /\ i = [t \in Threads |-> 0]
    /\ isStarted = [t \in Threads |-> FALSE]
    /\ start_idx = [t \in Threads |-> 0]
    /\ x = [t \in Threads |-> 0]
    /\ block = [t \in Threads |-> NullBlock]

-----------------------------------------------------------------------------
(* Variants.  Each is an operator below with one plausible mistake; a check *)
(* that uses it in the operator's place shows that a property can fail.     *)

\* Taking the mutex without waiting for it.
AcquireAtOnce(t, label) ==
    /\ lock' = t
    /\ pc' = [pc EXCEPT ![t] = label]

\* Setting frag_amount instead of adding to it.
AllocBeginSetsFrag(t) ==
    /\ pc[t] = "alloc_lock"
    /\ ~TooLarge(size[t])
    /\ AcquireAtOnce(t, "scan") /\ lock = NoThread
    /\ frag_amount' = AllocSize(size[t]) - size[t]
    /\ isStarted' = [isStarted EXCEPT ![t] = FALSE]
    /\ start_idx' = [start_idx EXCEPT ![t] = 0]
    /\ i' = [i EXCEPT ![t] = 0]
    /\ UNCHANGED <<bitmap, unmapped, held, size, x, block>>

\* A scan that moves by two word pairs.
AdvanceTwice(t) ==
    /\ i' = [i EXCEPT ![t] = i[t] + 2]
    /\ UNCHANGED <<bitmap, lock, frag_amount, unmapped, held, pc,
                   size, start_idx, x, block>>

\* A loop that forgets to move, as the one of dma_print_page does.
AdvanceNever(t) ==
    UNCHANGED <<bitmap, lock, frag_amount, unmapped, held, pc,
                size, i, start_idx, x, block>>

\* Comparing with the size before it is rounded.
RunFitsUnrounded(t) == 16 * (i[t] - start_idx[t]) = size[t]

\* Leaving isStarted set when a block ends the run.
ScanRunStaysOpen(t) ==
    /\ pc[t] = "scan" /\ i[t] < Units
    /\ isStarted[t]
    /\ fst[i[t]] = 0 /\ snd[i[t]] = 1
    /\ 16 * (i[t] - start_idx[t]) # AllocSize(size[t])
    /\ i' = [i EXCEPT ![t] = i[t] + 1]
    /\ UNCHANGED <<bitmap, lock, frag_amount, unmapped, held, pc,
                   size, isStarted, start_idx, x, block>>

\* Starting to mark one word pair late.
SecondToMark(t) == start_idx[t] + 2

\* Going on with the next block when it begins right behind.
MoreZeroHeads(t) == i[t] < Units /\ fst[i[t]] = 0

-----------------------------------------------------------------------------
Goto(t, label) == pc' = [pc EXCEPT ![t] = label]

\* pthread_mutex_lock, on the way to label.
Acquire(t, label) ==
    /\ lock = NoThread
    /\ lock' = t
    /\ Goto(t, label)

\* Unlock and return; the locals are gone.
ReleaseAndReturn(t) ==
    /\ lock' = NoThread
    /\ Goto(t, "idle")
    /\ size' = [size EXCEPT ![t] = 0]
    /\ i' = [i EXCEPT ![t] = 0]
    /\ isStarted' = [isStarted EXCEPT ![t] = FALSE]
    /\ start_idx' = [start_idx EXCEPT ![t] = 0]
    /\ x' = [x EXCEPT ![t] = 0]
    /\ block' = [block EXCEPT ![t] = NullBlock]

-----------------------------------------------------------------------------
(* dma_alloc *)

AllocCall(t) ==
    /\ pc[t] = "idle"
    /\ frag_amount <= MaxFrag
    /\ \E n \in Requests : size' = [size EXCEPT ![t] = n]
    /\ Goto(t, "alloc_lock")
    /\ UNCHANGED <<bitmap, lock, frag_amount, unmapped, held,
                   i, isStarted, start_idx, x, block>>

AllocTooLarge(t) ==
    /\ pc[t] = "alloc_lock"
    /\ TooLarge(size[t])
    /\ Acquire(t, "alloc_null")
    /\ UNCHANGED <<bitmap, frag_amount, unmapped, held, frame>>

AllocBegin(t) ==
    /\ pc[t] = "alloc_lock"
    /\ ~TooLarge(size[t])
    /\ Acquire(t, "scan")
    /\ frag_amount' = frag_amount + AllocSize(size[t]) - size[t]
    /\ isStarted' = [isStarted EXCEPT ![t] = FALSE]
    /\ start_idx' = [start_idx EXCEPT ![t] = 0]
    /\ i' = [i EXCEPT ![t] = 0]
    /\ UNCHANGED <<bitmap, unmapped, held, size, x, block>>

Scanning(t) == pc[t] = "scan" /\ i[t] < Units

Advance(t) ==
    /\ i' = [i EXCEPT ![t] = i[t] + 1]
    /\ UNCHANGED <<bitmap, lock, frag_amount, unmapped, held, pc,
                   size, start_idx, x, block>>

\* A run of free units begins.
ScanRunStarts(t) ==
    /\ Scanning(t)
    /\ fst[i[t]] = 1 /\ snd[i[t]] = 1
    /\ ~isStarted[t]
    /\ isStarted' = [isStarted EXCEPT ![t] = TRUE]
    /\ start_idx' = [start_idx EXCEPT ![t] = i[t]]
    /\ i' = [i EXCEPT ![t] = i[t] + 1]
    /\ UNCHANGED <<bitmap, lock, frag_amount, unmapped, held, pc,
                   size, x, block>>

\* The run up to the current word pair has exactly the size asked for.
RunFits(t) == 16 * (i[t] - start_idx[t]) = AllocSize(size[t])

\* The head of the block is marked with the match, the rest from here on.
FirstToMark(t) == start_idx[t] + 1

ScanMatches(t) ==
    /\ Scanning(t)
    /\ isStarted[t]
    /\ snd[i[t]] = 1
    /\ RunFits(t)
    /\ fst' = [fst EXCEPT ![start_idx[t]] = 0]
    /\ x' = [x EXCEPT ![t] = FirstToMark(t)]
    /\ Goto(t, "mark_fst")
    /\ UNCHANGED <<snd, lock, frag_amount, unmapped, held,
                   size, i, isStarted, start_idx, block>>

ScanRunGoesOn(t) ==
    /\ Scanning(t)
    /\ isStarted[t]
    /\ fst[i[t]] = 1 /\ snd[i[t]] = 1
    /\ ~RunFits(t)
    /\ UNCHANGED isStarted
    /\ Advance(t)

\* A block begins behind a run that is too short.
ScanRunEnds(t) ==
    /\ Scanning(t)
    /\ isStarted[t]
    /\ fst[i[t]] = 0 /\ snd[i[t]] = 1
    /\ ~RunFits(t)
    /\ isStarted' = [isStarted EXCEPT ![t] = FALSE]
    /\ Advance(t)

\* A block: its first unit, no run being open, or one of its other units.
ScanSkips(t) ==
    /\ Scanning(t)
    /\ \/ snd[i[t]] = 0
       \/ fst[i[t]] = 0 /\ ~isStarted[t]
    /\ UNCHANGED isStarted
    /\ Advance(t)

ScanFails(t) ==
    /\ pc[t] = "scan"
    /\ i[t] >= Units
    /\ Goto(t, "alloc_null")
    /\ UNCHANGED <<bitmap, lock, frag_amount, unmapped, held, frame>>

AllocReturnNull(t) ==
    /\ pc[t] = "alloc_null"
    /\ ReleaseAndReturn(t)
    /\ UNCHANGED <<bitmap, frag_amount, unmapped, held>>

MarkFst(t) ==
    /\ pc[t] = "mark_fst"
    /\ x[t] < i[t]
    /\ fst' = [fst EXCEPT ![x[t]] = 0]
    /\ Goto(t, "mark_snd")
    /\ UNCHANGED <<snd, lock, frag_amount, unmapped, held, frame>>

MarkSnd(t) ==
    /\ pc[t] = "mark_snd"
    /\ snd' = [snd EXCEPT ![x[t]] = 0]
    /\ x' = [x EXCEPT ![t] = x[t] + 1]
    /\ Goto(t, "mark_fst")
    /\ UNCHANGED <<fst, lock, frag_amount, unmapped, held,
                   size, i, isStarted, start_idx, block>>

\* The block that dma_alloc is carving out of the run it found.
Carved(t) == [ptr |-> PtrOf(start_idx[t]), len |-> i[t] - start_idx[t]]

AllocReturn(t) ==
    /\ pc[t] = "mark_fst"
    /\ x[t] >= i[t]
    /\ held' = held \cup {Carved(t)}
    /\ ReleaseAndReturn(t)
    /\ UNCHANGED <<bitmap, frag_amount, unmapped>>

-----------------------------------------------------------------------------
(* dma_free *)

\* Any thread may give back a block the application holds, or pass NULL.
FreeCall(t) ==
    /\ pc[t] = "idle"
    /\ \E b \in held \cup {NullBlock} :
          /\ held' = held \ {b}
          /\ block' = [block EXCEPT ![t] = b]
    /\ Goto(t, "free_lock")
    /\ UNCHANGED <<bitmap, lock, frag_amount, unmapped,
                   size, i, isStarted, start_idx, x>>

FreeNull(t) ==
    /\ pc[t] = "free_lock"
    /\ block[t].ptr = Null
    /\ Acquire(t, "free_null")
    /\ UNCHANGED <<bitmap, frag_amount, unmapped, held, frame>>

FreeReturnNull(t) ==
    /\ pc[t] = "free_null"
    /\ ReleaseAndReturn(t)
    /\ UNCHANGED <<bitmap, frag_amount, unmapped, held>>

FreeBegin(t) ==
    /\ pc[t] = "free_lock"
    /\ block[t].ptr # Null
    /\ Acquire(t, "clear_fst")
    /\ fst' = [fst EXCEPT ![LocOf(block[t].ptr)] = 1]
    /\ i' = [i EXCEPT ![t] = LocOf(block[t].ptr) + 1]
    /\ UNCHANGED <<snd, frag_amount, unmapped, held,
                   size, isStarted, start_idx, x, block>>

\* The next unit belongs to the block too.
MoreToClear(t) == i[t] < Units /\ fst[i[t]] = 0 /\ snd[i[t]] = 0

ClearFst(t) ==
    /\ pc[t] = "clear_fst"
    /\ MoreToClear(t)
    /\ fst' = [fst EXCEPT ![i[t]] = 1]
    /\ Goto(t, "clear_snd")
    /\ UNCHANGED <<snd, lock, frag_amount, unmapped, held, frame>>

ClearSnd(t) ==
    /\ pc[t] = "clear_snd"
    /\ snd' = [snd EXCEPT ![i[t]] = 1]
    /\ i' = [i EXCEPT ![t] = i[t] + 1]
    /\ Goto(t, "clear_fst")
    /\ UNCHANGED <<fst, lock, frag_amount, unmapped, held,
                   size, isStarted, start_idx, x, block>>

\* munmap(p, size) fails unless p is the start of a page; otherwise it takes
\* every page that its range touches.  size is the number of bitmap words of
\* the n units just cleared, and munmap reads it as bytes: 2n of 16 per unit.
Munmap(ptr, n) ==
    unmapped' = IF ptr % PageUnits # 0 THEN unmapped
                ELSE unmapped \cup {ptr + k * PageUnits :
                                       k \in 0 .. ((n - 1) \div (8 * PageUnits))}

FreeReturn(t) ==
    /\ pc[t] = "clear_fst"
    /\ ~MoreToClear(t)
    /\ Munmap(block[t].ptr, i[t] - LocOf(block[t].ptr))
    /\ ReleaseAndReturn(t)
    /\ UNCHANGED <<bitmap, frag_amount, held>>

-----------------------------------------------------------------------------
AllocLocked(t) ==
    \/ ScanRunStarts(t) \/ ScanMatches(t) \/ ScanRunGoesOn(t)
    \/ ScanRunEnds(t) \/ ScanSkips(t) \/ ScanFails(t) \/ AllocReturnNull(t)
    \/ MarkFst(t) \/ MarkSnd(t) \/ AllocReturn(t)

FreeLocked(t) ==
    \/ FreeReturnNull(t) \/ ClearFst(t) \/ ClearSnd(t) \/ FreeReturn(t)

\* A step of a thread that has the lock.
Locked(t) == AllocLocked(t) \/ FreeLocked(t)

\* A step that waits for the lock.
Waiting(t) ==
    \/ AllocTooLarge(t) \/ AllocBegin(t) \/ FreeNull(t) \/ FreeBegin(t)

Next == \E t \in Threads :
            AllocCall(t) \/ FreeCall(t) \/ Waiting(t) \/ Locked(t)

Spec == Init /\ [][Next]_vars

\* A thread inside the library runs: the holder goes on, and the mutex is
\* given to some waiting thread when it is free.
Fairness == \A t \in Threads : WF_vars(Locked(t)) /\ WF_vars(Waiting(t))

FairSpec == Spec /\ Fairness

-----------------------------------------------------------------------------
(* Properties *)

TypeOK ==
    /\ fst \in [0 .. LastUnit -> {0, 1}]
    /\ snd \in [0 .. LastUnit -> {0, 1}]
    /\ lock \in Threads \cup {NoThread}
    /\ frag_amount \in Nat
    /\ unmapped \subseteq Nat
    /\ held \subseteq [ptr : Nat, len : Nat]
    /\ pc \in [Threads -> PCs]
    /\ size \in [Threads -> Requests \cup {0}]
    /\ i \in [Threads -> 0 .. Units]
    /\ isStarted \in [Threads -> BOOLEAN]
    /\ start_idx \in [Threads -> 0 .. LastUnit]
    /\ x \in [Threads -> 0 .. Units]
    /\ block \in [Threads -> [ptr : Nat, len : Nat]]

\* The block a call in progress is carving or has been given to free.
Working(t) ==
    IF pc[t] \in {"mark_fst", "mark_snd"} THEN Carved(t) ELSE block[t]

Disjoint(b, c) == \A u \in 0 .. LastUnit : ~(Covers(b, u) /\ Covers(c, u))

\* No two threads are ever inside the library's critical sections.
MutualExclusion ==
    \A t \in Threads : pc[t] \in Critical => lock = t

\* No byte is ever given out twice: the blocks the application holds and the
\* blocks of the calls in progress (dma.c:126-135, 142-151) are disjoint, and
\* none of them reaches into the system blocks or past the last unit.
BlocksDisjoint ==
    /\ \A b, c \in held : b # c => Disjoint(b, c)
    /\ \A t \in Threads : \A b \in held : Disjoint(Working(t), b)
    /\ \A s, t \in Threads : s # t => Disjoint(Working(s), Working(t))
    /\ \A b \in held : First <= LocOf(b.ptr) /\ LocOf(b.ptr) + b.len <= LastUnit

\* Whenever segment_lock is free the bitmap encodes exactly the blocks that
\* are not free: the two system blocks, the blocks the application holds and
\* those whose dma_free still waits for the lock (dma.c:58-74, 127-129,
\* 144-146, 185-196).  No unit is lost and none is free while in use.
BitmapEncodesBlocks ==
    lock = NoThread =>
        LET blocks == held \cup {block[t] : t \in Threads}
            starts == {0, BitmapUnits} \cup
                      {LocOf(b.ptr) : b \in blocks \ {NullBlock}}
        IN \A u \in 0 .. LastUnit :
              /\ fst[u] = 0 <=> u < First \/ \E b \in blocks : Covers(b, u)
              /\ snd[u] = 0 <=> fst[u] = 0 /\ u \notin starts

\* The munmap of dma_free (dma.c:197) never removes a page of the segment,
\* where the bitmap itself lies.
SegmentStaysMapped ==
    \A page \in unmapped : page >= Units

\* Whatever a thread writes into the bitmap, it writes nothing into the words
\* of a block that the application keeps holding; dma_free walks on from its
\* block without being told the length (dma.c:188-195).
HeldBlocksUntouched ==
    [][\A b \in held \cap held' : \A u \in 0 .. LastUnit :
          Covers(b, u) => fst'[u] = fst[u] /\ snd'[u] = snd[u]]_vars

\* Every critical section comes to its unlock: neither the scan nor the loops
\* that mark and clear run forever with segment_lock held.
LockReleased ==
    \A t \in Threads : lock = t ~> lock # t

\* The allocator does what DmaHeap promises.  An allocation takes effect when
\* the scan matches or fails, a deallocation when it unlocks.
KindAt ==
    [idle |-> "idle", alloc_lock |-> "asking", scan |-> "asking",
     mark_fst |-> "granted", mark_snd |-> "granted", alloc_null |-> "refused",
     free_lock |-> "freeing", clear_fst |-> "freeing",
     clear_snd |-> "freeing", free_null |-> "freeing"]

HeapBlock(b) ==
    [start |-> IF b.ptr = Null THEN Null ELSE LocOf(b.ptr), len |-> b.len]

Heap == INSTANCE DmaHeap WITH
    owned <- {HeapBlock(b) : b \in held},
    op    <- [t \in Threads |->
                [kind  |-> KindAt[pc[t]],
                 size  |-> IF KindAt[pc[t]] = "asking" THEN size[t] ELSE 0,
                 block |-> HeapBlock(Working(t))]]

\* Atomic, first-fit allocation, NULL only when nothing fits (dma.c:118-162).
HeapSpec == Heap!Spec
=============================================================================
