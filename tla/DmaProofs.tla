----------------------------- MODULE DmaProofs -----------------------------
(***************************************************************************)
(* Proofs about the allocator of Dma, for any number of threads, any heap  *)
(* geometry that DmaLayout admits and any requests.                        *)
(*                                                                         *)
(* TypeOK, BlocksDisjoint and BitmapEncodesBlocks are not inductive.  The  *)
(* inductive invariant IInv says of every stage of a critical section      *)
(* which words of the bitmap are already written (FstZero, SndZero), what  *)
(* the scan has seen (ScanInv) and, in arithmetic form, that blocks are    *)
(* inside the allocation area and apart from one another.                  *)
(***************************************************************************)
EXTENDS Dma, TLAPS

Marking  == {"mark_fst", "mark_snd"}
Clearing == {"clear_fst", "clear_snd"}

\* The unit behind a block.
EndOf(b) == LocOf(b.ptr) + b.len

Placed(b) == b.len >= 1 /\ First <= LocOf(b.ptr) /\ EndOf(b) <= LastUnit

Apart(b, c) == EndOf(b) <= LocOf(c.ptr) \/ EndOf(c) <= LocOf(b.ptr)

\* A thread is in a critical section exactly when it holds segment_lock.
LockInv == \A t \in Threads : pc[t] \in Critical <=> lock = t

\* The locals of a call in progress.
Local(t) ==
    /\ pc[t] = "scan" /\ isStarted[t] =>
          First <= start_idx[t] /\ start_idx[t] < i[t]
    /\ pc[t] \in Marking =>
          /\ First <= start_idx[t] /\ start_idx[t] < x[t]
          /\ x[t] <= i[t] /\ i[t] <= LastUnit
    /\ pc[t] = "mark_snd" => x[t] < i[t]
    /\ pc[t] \in Clearing =>
          LocOf(block[t].ptr) < i[t] /\ i[t] <= EndOf(block[t])
    /\ pc[t] = "clear_snd" => i[t] < EndOf(block[t])

LocalInv == \A t \in Threads : Local(t)

\* Which threads have a block to free, and that every block lies in the
\* allocation area.
PlacedInv ==
    /\ \A b \in held : Placed(b)
    /\ \A t \in Threads :
          /\ block[t] = NullBlock \/ Placed(block[t])
          /\ block[t] # NullBlock => pc[t] \in Clearing \cup {"free_lock"}
          /\ pc[t] \in Clearing => block[t] # NullBlock

\* No two blocks share a unit.
ApartInv ==
    /\ \A b, c \in held : b = c \/ Apart(b, c)
    /\ \A t \in Threads : \A b \in held :
          block[t] = NullBlock \/ Apart(block[t], b)
    /\ \A s, t \in Threads :
          \/ s = t \/ block[s] = NullBlock \/ block[t] = NullBlock
          \/ Apart(block[s], block[t])

\* The run that the scan is in, or that it has matched, is apart from them.
CarveInv ==
    \A t \in Threads : pc[t] \in Marking =>
        /\ \A b \in held : Apart(Carved(t), b)
        /\ \A s \in Threads : block[s] = NullBlock \/ Apart(Carved(t), block[s])

\* The words that are 0 on behalf of thread t.
FstZero(t, u) ==
    \/ pc[t] = "free_lock" /\ Covers(block[t], u)
    \/ pc[t] = "clear_fst" /\ i[t] <= u /\ u < EndOf(block[t])
    \/ pc[t] = "clear_snd" /\ i[t] < u /\ u < EndOf(block[t])
    \/ pc[t] = "mark_fst" /\ start_idx[t] <= u /\ u < x[t]
    \/ pc[t] = "mark_snd" /\ start_idx[t] <= u /\ u <= x[t]

SndZero(t, u) ==
    \/ pc[t] = "free_lock" /\ Covers(block[t], u) /\ u # LocOf(block[t].ptr)
    \/ pc[t] \in Clearing /\ i[t] <= u /\ u < EndOf(block[t])
    \/ pc[t] \in Marking /\ start_idx[t] < u /\ u < x[t]

\* The two words of every unit.
BitmapInv ==
    \A u \in 0 .. LastUnit :
        /\ fst[u] = 0 <=> \/ u < First
                          \/ \E b \in held : Covers(b, u)
                          \/ \E t \in Threads : FstZero(t, u)
        /\ snd[u] = 0 <=> \/ u < First /\ u # 0 /\ u # BitmapUnits
                          \/ \E b \in held : Covers(b, u) /\ u # LocOf(b.ptr)
                          \/ \E t \in Threads : SndZero(t, u)

\* The run that the scan is in consists of free units.
ScanInv ==
    \A t \in Threads : pc[t] = "scan" /\ isStarted[t] =>
        \A u \in start_idx[t] .. (i[t] - 1) : fst[u] = 1 /\ snd[u] = 1

IInv == /\ TypeOK /\ LockInv /\ LocalInv /\ PlacedInv
        /\ ApartInv /\ CarveInv /\ BitmapInv /\ ScanInv
-----------------------------------------------------------------------------
(* Facts about the constants and the pointer arithmetic. *)

\* The two system blocks are there, the units after them begin inside the
\* bitmap, and the allocation area begins behind the segment.
LEMMA Layout ==
    /\ Units \in Nat /\ BitmapUnits \in Nat /\ ReservedUnits \in Nat
    /\ BitmapUnits >= 1 /\ ReservedUnits >= 1
    /\ First \in Nat /\ LastUnit \in Nat /\ AllocStart \in Nat
    /\ 2 <= First /\ First <= LastUnit /\ LastUnit = Units - 1
    /\ Units < AllocStart
    /\ PageUnits \in Nat /\ PageUnits >= 1
  BY LayoutAssumption DEF First, LastUnit, AllocStart

\* LocOf undoes PtrOf, and the pointers of the allocation area are not null.
LEMMA Pointers ==
    /\ \A p \in Int : LocOf(p) \in Int
    /\ \A s \in Int : PtrOf(s) \in Int /\ LocOf(PtrOf(s)) = s
    /\ \A p \in Int : LocOf(p) >= First => p >= Units /\ p # Null
  BY LayoutAssumption DEF LocOf, PtrOf, AllocStart, First, Null

\* The null block is typed like any other.
LEMMA NullBlockType == NullBlock \in [ptr : Nat, len : Nat]
  BY DEF NullBlock, Null

\* Rounding up never makes a size smaller.
LEMMA Rounding == \A n \in Int : AllocSize(n) \in Int /\ AllocSize(n) >= n
  BY DEF AllocSize

\* What Placed says in arithmetic, for a block with a typed pointer.
LEMMA PlacedFacts ==
    ASSUME NEW b \in [ptr : Nat, len : Nat], Placed(b)
    PROVE  /\ LocOf(b.ptr) \in Nat /\ EndOf(b) \in Nat
           /\ First <= LocOf(b.ptr) /\ LocOf(b.ptr) < EndOf(b)
           /\ EndOf(b) <= LastUnit /\ Units <= b.ptr /\ b.ptr # Null
  <1>1. b.ptr \in Int /\ b.len \in Nat /\ b.len >= 1
    BY DEF Placed
  <1>2. LocOf(b.ptr) \in Int
    BY <1>1, Pointers
  <1>3. QED
    BY <1>1, <1>2, Layout, Pointers DEF Placed, EndOf

\* The block that a thread was given to free.
LEMMA BlockFacts ==
    ASSUME TypeOK, PlacedInv, NEW t \in Threads,
           block[t] # NullBlock \/ block[t].ptr # Null \/ pc[t] \in Clearing
    PROVE  block[t] # NullBlock /\ Placed(block[t])
  BY DEF PlacedInv, NullBlock

\* A null pointer is no block.
LEMMA NullFacts ==
    ASSUME TypeOK, PlacedInv, NEW t \in Threads, block[t].ptr = Null
    PROVE  block[t] = NullBlock
  <1>1. block[t] \in [ptr : Nat, len : Nat]
    BY DEF TypeOK
  <1>2. QED
    BY <1>1, PlacedFacts DEF PlacedInv

\* The new block of dma_alloc.
LEMMA CarvedFacts ==
    ASSUME TypeOK, LocalInv, NEW t \in Threads, pc[t] \in Marking
    PROVE  /\ Carved(t) \in [ptr : Nat, len : Nat]
           /\ LocOf(Carved(t).ptr) = start_idx[t]
           /\ EndOf(Carved(t)) = i[t]
           /\ Placed(Carved(t))
  <1>1. /\ start_idx[t] \in Int /\ i[t] \in Int /\ x[t] \in Int
        /\ First <= start_idx[t] /\ start_idx[t] < i[t] /\ i[t] <= LastUnit
    BY Layout DEF TypeOK, LocalInv, Local
  <1>2. /\ PtrOf(start_idx[t]) \in Int
        /\ LocOf(PtrOf(start_idx[t])) = start_idx[t]
    BY <1>1, Pointers
  <1>3. PtrOf(start_idx[t]) \in Nat
    BY <1>1, <1>2, Pointers, Layout
  <1>4. Carved(t) \in [ptr : Nat, len : Nat]
    BY <1>1, <1>3 DEF Carved
  <1>5. QED
    BY <1>1, <1>2, <1>4 DEF Carved, EndOf, Placed

\* A request is a number of bytes, and what is added up is not negative.
LEMMA RequestFacts ==
    ASSUME TypeOK, NEW t \in Threads
    PROVE  /\ size[t] \in Int
           /\ AllocSize(size[t]) \in Int /\ AllocSize(size[t]) >= size[t]
  <1>1. size[t] \in Requests \cup {0}
    BY DEF TypeOK
  <1>2. size[t] \in Int
    <2>1. 0 \in Int
      OBVIOUS
    <2>2. QED
      BY <1>1, <2>1, DmaAssumption, Zenon
  <1>3. QED
    BY <1>2, Rounding

\* The types of what a return resets.
LEMMA ReturnTypes ==
    ASSUME TypeOK, NEW t \in Threads, ReleaseAndReturn(t)
    PROVE  /\ lock' \in Threads \cup {NoThread}
           /\ pc' \in [Threads -> PCs]
           /\ size' \in [Threads -> Requests \cup {0}]
           /\ i' \in [Threads -> 0 .. Units]
           /\ isStarted' \in [Threads -> BOOLEAN]
           /\ start_idx' \in [Threads -> 0 .. LastUnit]
           /\ x' \in [Threads -> 0 .. Units]
           /\ block' \in [Threads -> [ptr : Nat, len : Nat]]
  <1>1. /\ lock' \in Threads \cup {NoThread}
        /\ pc' \in [Threads -> PCs]
        /\ size' \in [Threads -> Requests \cup {0}]
    BY DEF ReleaseAndReturn, Goto, TypeOK, PCs
  <1>2. 0 \in 0 .. Units /\ 0 \in 0 .. LastUnit
    BY Layout
  <1>3. /\ i' \in [Threads -> 0 .. Units]
        /\ isStarted' \in [Threads -> BOOLEAN]
        /\ start_idx' \in [Threads -> 0 .. LastUnit]
        /\ x' \in [Threads -> 0 .. Units]
    BY <1>2 DEF ReleaseAndReturn, TypeOK
  <1>4. block' \in [Threads -> [ptr : Nat, len : Nat]]
    BY NullBlockType DEF ReleaseAndReturn, TypeOK
  <1>5. QED
    BY <1>1, <1>3, <1>4

\* A null pointer covers nothing.
LEMMA NullCovers == \A u \in Int : ~Covers(NullBlock, u)
  <1>1. Null \in Int /\ LocOf(Null) \in Int
    BY Pointers DEF Null
  <1>2. QED
    BY <1>1 DEF Covers, NullBlock

\* While t is in a critical section the others are outside.
LEMMA Alone ==
    ASSUME LockInv, NEW t \in Threads, pc[t] \in Critical,
           NEW s \in Threads, s # t
    PROVE  pc[s] \notin Critical
  BY DEF LockInv

\* The clearing loop of dma_free stops at the end of its own block.
LEMMA ClearStops ==
    ASSUME TypeOK, LockInv, LocalInv, PlacedInv, ApartInv, BitmapInv,
           NEW t \in Threads, pc[t] = "clear_fst"
    PROVE  MoreToClear(t) <=> i[t] < EndOf(block[t])
  <1>1. /\ block[t] \in [ptr : Nat, len : Nat]
        /\ block[t] # NullBlock /\ Placed(block[t])
    BY BlockFacts DEF TypeOK, Clearing
  <1>2. /\ LocOf(block[t].ptr) \in Nat /\ EndOf(block[t]) \in Nat
        /\ First <= LocOf(block[t].ptr) /\ EndOf(block[t]) <= LastUnit
    BY <1>1, PlacedFacts
  <1>3. /\ i[t] \in 0 .. LastUnit /\ i[t] < Units
        /\ LocOf(block[t].ptr) < i[t] /\ i[t] <= EndOf(block[t])
    BY <1>2, Layout DEF TypeOK, LocalInv, Local, Clearing
  <1>4. ASSUME i[t] < EndOf(block[t]) PROVE MoreToClear(t)
    <2>1. FstZero(t, i[t]) /\ SndZero(t, i[t])
      BY <1>3, <1>4 DEF FstZero, SndZero, Clearing
    <2>2. QED
      BY <1>3, <2>1 DEF BitmapInv, MoreToClear
  <1>5. ASSUME i[t] = EndOf(block[t]), snd[i[t]] = 0 PROVE FALSE
    <2>1. ~(i[t] < First)
      BY <1>2, <1>3, Layout
    <2>2. ASSUME NEW c \in held, Covers(c, i[t]), i[t] # LocOf(c.ptr)
          PROVE  FALSE
      <3>1. /\ c \in [ptr : Nat, len : Nat] /\ Placed(c)
            /\ Apart(block[t], c)
        BY <1>1 DEF TypeOK, PlacedInv, ApartInv
      <3>2. QED
        BY <1>2, <1>3, <1>5, <2>2, <3>1, PlacedFacts DEF Covers, Apart, EndOf
    <2>3. ASSUME NEW s \in Threads, SndZero(s, i[t]) PROVE FALSE
      <3>1. s # t
        BY <1>3, <1>5, <2>3 DEF SndZero, Marking, Clearing
      <3>2. pc[s] \notin Critical
        BY <3>1, Alone DEF Critical, PCs
      <3>3. Covers(block[s], i[t]) /\ i[t] # LocOf(block[s].ptr)
        BY <2>3, <3>2 DEF SndZero, Critical, PCs, Clearing, Marking
      <3>4. block[s] # NullBlock
        BY <1>3, <3>3, NullCovers
      <3>5. /\ block[s] \in [ptr : Nat, len : Nat] /\ Placed(block[s])
            /\ Apart(block[t], block[s])
        BY <1>1, <3>1, <3>4 DEF TypeOK, PlacedInv, ApartInv
      <3>6. QED
        BY <1>2, <1>3, <1>5, <3>3, <3>5, PlacedFacts DEF Covers, Apart, EndOf
    <2>4. QED
      BY <1>3, <1>5, <2>1, <2>2, <2>3 DEF BitmapInv
  <1>6. QED
    BY <1>2, <1>3, <1>4, <1>5 DEF MoreToClear

\* A free unit lies behind the system blocks.
LEMMA FreeUnit ==
    ASSUME TypeOK, BitmapInv, NEW u \in 0 .. LastUnit, fst[u] = 1
    PROVE  First <= u
  BY Layout DEF BitmapInv

\* The state of a thread's call.
Frame(t) ==
    <<pc[t], size[t], i[t], isStarted[t], start_idx[t], x[t], block[t]>>

\* A thread changes no other thread's locals.
LEMMA OthersUnchanged ==
    ASSUME TypeOK, NEW t \in Threads, NEW s \in Threads, s # t,
           AllocCall(t) \/ FreeCall(t) \/ Waiting(t) \/ Locked(t)
    PROVE  Frame(s)' = Frame(s)
  <1> USE DEF Frame, TypeOK, bitmap, frame, Goto
  <1>1. CASE AllocCall(t) \/ FreeCall(t)
    BY <1>1 DEF AllocCall, FreeCall
  <1>2. CASE AllocTooLarge(t) \/ AllocBegin(t)
    BY <1>2 DEF AllocTooLarge, AllocBegin, Acquire
  <1>3. CASE FreeNull(t) \/ FreeBegin(t)
    BY <1>3 DEF FreeNull, FreeBegin, Acquire
  <1>4. CASE ScanRunStarts(t) \/ ScanMatches(t)
    BY <1>4 DEF ScanRunStarts, ScanMatches
  <1>5. CASE ScanRunGoesOn(t) \/ ScanRunEnds(t) \/ ScanSkips(t)
    BY <1>5 DEF ScanRunGoesOn, ScanRunEnds, ScanSkips, Advance
  <1>6. CASE ScanFails(t) \/ MarkFst(t) \/ MarkSnd(t)
    BY <1>6 DEF ScanFails, MarkFst, MarkSnd
  <1>7. CASE \/ AllocReturnNull(t) \/ AllocReturn(t)
             \/ FreeReturnNull(t) \/ FreeReturn(t)
    BY <1>7 DEF AllocReturnNull, AllocReturn, FreeReturnNull, FreeReturn,
       ReleaseAndReturn
  <1>8. CASE ClearFst(t) \/ ClearSnd(t)
    BY <1>8 DEF ClearFst, ClearSnd
  <1>9. QED
    BY <1>1, <1>2, <1>3, <1>4, <1>5, <1>6, <1>7, <1>8
       DEF Waiting, Locked, AllocLocked, FreeLocked

\* The locals of a call stay what Local says: one case per action.
LEMMA LocalStep ==
    ASSUME IInv, NEW t \in Threads,
           AllocCall(t) \/ FreeCall(t) \/ Waiting(t) \/ Locked(t)
    PROVE  LocalInv'
  <1> USE DEF IInv
  <1> SUFFICES ASSUME NEW s \in Threads PROVE Local(s)'
    BY DEF LocalInv
  <1>1. CASE s # t
    BY <1>1, OthersUnchanged DEF Frame, Local, LocalInv, EndOf
  <1>2. ASSUME s = t PROVE Local(t)'
    <2> USE DEF Local, Marking, Clearing
    <2>0. /\ i[t] \in Int /\ x[t] \in Int /\ start_idx[t] \in Int
          /\ start_idx[t] <= LastUnit /\ 0 <= i[t] /\ Local(t)
      BY Layout DEF TypeOK, LocalInv
    <2>1. CASE AllocCall(t) \/ FreeCall(t)
      BY <2>1 DEF AllocCall, FreeCall, Goto, TypeOK
    <2>2. CASE AllocTooLarge(t) \/ AllocBegin(t) \/ FreeNull(t)
      BY <2>2 DEF AllocTooLarge, AllocBegin, FreeNull, Acquire, Goto, TypeOK
    <2>3. CASE FreeBegin(t)
      <3>1. block[t] \in [ptr : Nat, len : Nat] /\ Placed(block[t])
        BY <2>3, BlockFacts DEF FreeBegin, TypeOK
      <3>2. /\ LocOf(block[t].ptr) \in Int /\ EndOf(block[t]) \in Int
            /\ LocOf(block[t].ptr) < EndOf(block[t])
        BY <3>1, PlacedFacts
      <3>3. QED
        BY <2>3, <3>2 DEF FreeBegin, Acquire, Goto, TypeOK, EndOf
    <2>4. CASE ScanRunStarts(t)
      <3>1. i[t] \in 0 .. LastUnit /\ fst[i[t]] = 1
        BY <2>0, <2>4, Layout DEF ScanRunStarts, Scanning
      <3>2. First <= i[t]
        BY <3>1, FreeUnit
      <3>3. QED
        BY <2>0, <2>4, <3>2 DEF ScanRunStarts, Scanning, TypeOK
    <2>5. CASE ScanMatches(t)
      <3>1. /\ First <= start_idx[t] /\ start_idx[t] < i[t]
            /\ i[t] <= LastUnit
        BY <2>0, <2>5, Layout DEF ScanMatches, Scanning
      <3>2. x'[t] = start_idx[t] + 1 /\ pc'[t] = "mark_fst"
        BY <2>5 DEF ScanMatches, FirstToMark, Goto, TypeOK
      <3>3. QED
        BY <2>0, <2>5, <3>1, <3>2 DEF ScanMatches
    <2>6. CASE ScanRunGoesOn(t) \/ ScanRunEnds(t) \/ ScanSkips(t)
      BY <2>0, <2>6 DEF ScanRunGoesOn, ScanRunEnds, ScanSkips, Scanning,
                        Advance, TypeOK
    <2>7. CASE ScanFails(t) \/ MarkFst(t)
      BY <2>0, <2>7 DEF ScanFails, MarkFst, Goto, TypeOK, frame
    <2>8. CASE MarkSnd(t)
      BY <2>0, <2>8 DEF MarkSnd, Goto, TypeOK
    <2>9. CASE AllocReturnNull(t) \/ AllocReturn(t) \/ FreeReturnNull(t)
               \/ FreeReturn(t)
      BY <2>9 DEF AllocReturnNull, AllocReturn, FreeReturnNull, FreeReturn,
                  ReleaseAndReturn, Goto, TypeOK
    <2>10. CASE ClearFst(t)
      <3>1. i[t] < EndOf(block[t])
        BY <2>10, ClearStops DEF ClearFst
      <3>2. QED
        BY <2>0, <2>10, <3>1 DEF ClearFst, Goto, TypeOK, frame
    <2>11. CASE ClearSnd(t)
      <3>1. block[t] \in [ptr : Nat, len : Nat] /\ Placed(block[t])
        BY <2>11, BlockFacts DEF ClearSnd, TypeOK
      <3>2. LocOf(block[t].ptr) \in Int /\ EndOf(block[t]) \in Int
        BY <3>1, PlacedFacts
      <3>3. i'[t] = i[t] + 1 /\ pc'[t] = "clear_fst" /\ block' = block
        BY <2>11 DEF ClearSnd, Goto, TypeOK
      <3>4. i[t] < EndOf(block[t]) /\ LocOf(block[t].ptr) < i[t]
        BY <2>0, <2>11 DEF ClearSnd
      <3>5. QED
        BY <2>0, <3>2, <3>3, <3>4
    <2>12. QED
      BY <2>1, <2>2, <2>3, <2>4, <2>5, <2>6, <2>7, <2>8, <2>9, <2>10, <2>11
         DEF Waiting, Locked, AllocLocked, FreeLocked
  <1>3. QED
    BY <1>1, <1>2

\* A critical section is entered with the lock and left without it.
LEMMA LockStep ==
    ASSUME TypeOK, LockInv, NEW t \in Threads,
           AllocCall(t) \/ FreeCall(t) \/ Waiting(t) \/ Locked(t)
    PROVE  LockInv'
  <1> USE DmaAssumption DEF LockInv, TypeOK, PCs, Critical, Goto
  <1>1. CASE AllocCall(t) \/ FreeCall(t)
    BY <1>1 DEF AllocCall, FreeCall
  <1>2. CASE Waiting(t)
    BY <1>2 DEF Waiting, AllocTooLarge, AllocBegin, FreeNull, FreeBegin,
       Acquire
  <1>3. CASE \/ ScanRunStarts(t) \/ ScanRunGoesOn(t) \/ ScanRunEnds(t)
             \/ ScanSkips(t) \/ ScanFails(t) \/ ScanMatches(t)
    <2>1. CASE \/ ScanRunStarts(t) \/ ScanRunGoesOn(t) \/ ScanRunEnds(t)
               \/ ScanSkips(t)
      <3>1. pc' = pc /\ lock' = lock
        BY <2>1 DEF ScanRunStarts, ScanRunGoesOn, ScanRunEnds, ScanSkips, Advance
      <3>2. QED
        BY <3>1
    <2>2. CASE ScanFails(t) \/ ScanMatches(t)
      <3>1. PICK p \in {"alloc_null", "mark_fst"} :
               pc[t] = "scan" /\ pc' = [pc EXCEPT ![t] = p] /\ lock' = lock
        BY <2>2 DEF ScanFails, Scanning, ScanMatches
      <3>2. QED
        BY <3>1
    <2>3. QED
      BY <1>3, <2>1, <2>2
  <1>4. CASE MarkFst(t) \/ MarkSnd(t) \/ ClearFst(t) \/ ClearSnd(t)
    <2>1. PICK p \in Critical :
             pc[t] \in Critical /\ pc' = [pc EXCEPT ![t] = p] /\ lock' = lock
      <3>1. CASE MarkFst(t)
        BY <3>1, Zenon DEF MarkFst
      <3>2. CASE MarkSnd(t)
        BY <3>2, Zenon DEF MarkSnd
      <3>3. CASE ClearFst(t)
        BY <3>3, Zenon DEF ClearFst
      <3>4. CASE ClearSnd(t)
        BY <3>4, Zenon DEF ClearSnd
      <3>5. QED
        BY <1>4, <3>1, <3>2, <3>3, <3>4, Zenon
    <2>2. QED
      BY <2>1
  <1>5. CASE \/ AllocReturnNull(t) \/ AllocReturn(t)
             \/ FreeReturnNull(t) \/ FreeReturn(t)
    BY <1>5 DEF AllocReturnNull, AllocReturn, FreeReturnNull, FreeReturn,
                ReleaseAndReturn
  <1>6. QED
    BY <1>1, <1>2, <1>3, <1>4, <1>5 DEF Waiting, Locked, AllocLocked,
       FreeLocked

\* The types, and with them that no index leaves the bitmap.
LEMMA TypeStep ==
    ASSUME TypeOK, LocalInv, PlacedInv, NEW t \in Threads,
           AllocCall(t) \/ FreeCall(t) \/ Waiting(t) \/ Locked(t)
    PROVE  TypeOK'
  <1>1. CASE AllocCall(t)
    <2>1. size' \in [Threads -> Requests \cup {0}]
      BY <1>1, Layout DEF AllocCall, Goto, TypeOK
    <2>2. QED
      BY <1>1, <2>1, Layout, NullBlockType DEF AllocCall, Goto, TypeOK, PCs,
         bitmap, frame
  <1>2. CASE FreeCall(t)
    <2>1. held' \subseteq [ptr : Nat, len : Nat]
      BY <1>2 DEF FreeCall, Goto, TypeOK
    <2>2. block' \in [Threads -> [ptr : Nat, len : Nat]]
      BY <1>2, NullBlockType DEF FreeCall, Goto, TypeOK
    <2>3. QED
      BY <1>2, <2>1, <2>2, Layout, NullBlockType DEF FreeCall, Goto, TypeOK,
         PCs, bitmap, frame
  <1>3. CASE AllocTooLarge(t)
    BY <1>3, Layout, NullBlockType DEF AllocTooLarge, Acquire, Goto, TypeOK,
       PCs, bitmap, frame
  <1>4. CASE AllocBegin(t)
    <2>1. frag_amount' \in Nat
      <3>1. frag_amount' = frag_amount + AllocSize(size[t]) - size[t]
        BY <1>4 DEF AllocBegin
      <3>2. frag_amount \in Nat
        BY DEF TypeOK
      <3>3. QED
        BY <3>1, <3>2, RequestFacts
    <2>2. /\ i' \in [Threads -> 0 .. Units]
          /\ start_idx' \in [Threads -> 0 .. LastUnit]
          /\ isStarted' \in [Threads -> BOOLEAN]
      BY <1>4, Layout DEF AllocBegin, TypeOK
    <2>3. QED
      BY <1>4, <2>1, <2>2 DEF AllocBegin, Acquire, Goto, TypeOK, PCs, bitmap,
         frame
  <1>5. CASE FreeNull(t)
    BY <1>5, Layout, NullBlockType DEF FreeNull, Acquire, Goto, TypeOK, PCs,
       bitmap, frame
  <1>6. CASE FreeBegin(t)
    <2>a. block[t] \in [ptr : Nat, len : Nat] /\ Placed(block[t])
      BY <1>6, BlockFacts DEF FreeBegin, TypeOK
    <2>0. LocOf(block[t].ptr) \in Nat /\ LocOf(block[t].ptr) + 1 <= LastUnit
      BY <2>a, PlacedFacts, Layout
    <2>1. fst' \in [0 .. LastUnit -> {0, 1}]
      BY <1>6, Layout DEF FreeBegin, Acquire, Goto, TypeOK
    <2>2. i' \in [Threads -> 0 .. Units]
      BY <1>6, <2>0, Layout DEF FreeBegin, Acquire, Goto, TypeOK
    <2>3. QED
      BY <1>6, <2>1, <2>2, Layout, NullBlockType DEF FreeBegin, Acquire, Goto,
         TypeOK, PCs, bitmap, frame
  <1>7. CASE ScanRunStarts(t)
    <2>1. start_idx' \in [Threads -> 0 .. LastUnit]
      BY <1>7, Layout DEF ScanRunStarts, Scanning, TypeOK
    <2>2. i' \in [Threads -> 0 .. Units]
      BY <1>7, Layout DEF ScanRunStarts, Scanning, TypeOK
    <2>3. QED
      BY <1>7, <2>1, <2>2, Layout, NullBlockType DEF ScanRunStarts, Scanning,
         TypeOK, PCs, bitmap, frame
  <1>8. CASE ScanMatches(t)
    <2>1. fst' \in [0 .. LastUnit -> {0, 1}]
      BY <1>8, Layout DEF ScanMatches, Goto, Scanning, FirstToMark, TypeOK
    <2>2. x' \in [Threads -> 0 .. Units]
      BY <1>8, Layout DEF ScanMatches, Goto, Scanning, FirstToMark, TypeOK
    <2>3. QED
      BY <1>8, <2>1, <2>2, Layout, NullBlockType DEF ScanMatches, Goto,
         Scanning, FirstToMark, TypeOK, PCs, bitmap, frame
  <1>9. CASE ScanRunGoesOn(t)
    <2>1. i' \in [Threads -> 0 .. Units]
      BY <1>9, Layout DEF ScanRunGoesOn, Scanning, Advance, TypeOK
    <2>2. QED
      BY <1>9, <2>1, Layout, NullBlockType DEF ScanRunGoesOn, Scanning,
         Advance, TypeOK, PCs, bitmap, frame
  <1>10. CASE ScanRunEnds(t)
    <2>1. i' \in [Threads -> 0 .. Units]
      BY <1>10, Layout DEF ScanRunEnds, Scanning, Advance, TypeOK
    <2>2. QED
      BY <1>10, <2>1, Layout, NullBlockType DEF ScanRunEnds, Scanning,
         Advance, TypeOK, PCs, bitmap, frame
  <1>11. CASE ScanSkips(t)
    <2>1. i' \in [Threads -> 0 .. Units]
      BY <1>11, Layout DEF ScanSkips, Scanning, Advance, TypeOK
    <2>2. QED
      BY <1>11, <2>1, Layout, NullBlockType DEF ScanSkips, Scanning, Advance,
         TypeOK, PCs, bitmap, frame
  <1>12. CASE ScanFails(t)
    BY <1>12, Layout, NullBlockType DEF ScanFails, Goto, TypeOK, PCs, bitmap,
       frame
  <1>13. CASE AllocReturnNull(t)
    BY <1>13, ReturnTypes DEF AllocReturnNull, TypeOK, bitmap
  <1>14. CASE MarkFst(t)
    BY <1>14, Layout, NullBlockType DEF MarkFst, Goto, TypeOK, PCs, bitmap,
       frame
  <1>15. CASE MarkSnd(t)
    <2>1. snd' \in [0 .. LastUnit -> {0, 1}]
      BY <1>15, Layout DEF MarkSnd, Goto, TypeOK
    <2>2. x' \in [Threads -> 0 .. Units]
      BY <1>15, Layout DEF MarkSnd, Goto, TypeOK, LocalInv, Local, Marking
    <2>3. QED
      BY <1>15, <2>1, <2>2, Layout, NullBlockType DEF MarkSnd, Goto, TypeOK,
         PCs, bitmap, frame
  <1>16. CASE AllocReturn(t)
    <2>0. Carved(t) \in [ptr : Nat, len : Nat]
      BY <1>16, CarvedFacts DEF AllocReturn, Marking
    <2>1. held' \subseteq [ptr : Nat, len : Nat]
      BY <1>16, <2>0 DEF AllocReturn, ReleaseAndReturn, Goto, Carved, TypeOK
    <2>2. QED
      BY <1>16, <2>1, ReturnTypes DEF AllocReturn, Carved, TypeOK, bitmap
  <1>17. CASE FreeReturnNull(t)
    BY <1>17, ReturnTypes DEF FreeReturnNull, TypeOK, bitmap
  <1>18. CASE ClearFst(t)
    BY <1>18, Layout, NullBlockType DEF ClearFst, Goto, MoreToClear, TypeOK,
       PCs, bitmap, frame
  <1>19. CASE ClearSnd(t)
    <2>0. i[t] < EndOf(block[t]) /\ EndOf(block[t]) \in Nat
          /\ EndOf(block[t]) <= LastUnit
      BY <1>19, BlockFacts, PlacedFacts
         DEF ClearSnd, TypeOK, LocalInv, Local, Clearing
    <2>1. snd' \in [0 .. LastUnit -> {0, 1}]
      BY <1>19, Layout DEF ClearSnd, Goto, TypeOK
    <2>2. i' \in [Threads -> 0 .. Units]
      BY <1>19, <2>0, Layout DEF ClearSnd, Goto, TypeOK
    <2>3. QED
      BY <1>19, <2>1, <2>2, Layout, NullBlockType DEF ClearSnd, Goto, TypeOK,
         PCs, bitmap, frame
  <1>20. CASE FreeReturn(t)
    <2>a. block[t].ptr \in Nat
      BY DEF TypeOK
    <2>b. \A k \in Nat : block[t].ptr + k * PageUnits \in Nat
      BY <2>a, Layout
    <2>0. \A m : {block[t].ptr + k * PageUnits : k \in 0 .. m} \subseteq Nat
      BY <2>b
    <2>1. unmapped' \subseteq Nat
      BY <1>20, <2>0, Layout DEF FreeReturn, ReleaseAndReturn, Goto, Munmap,
         MoreToClear, TypeOK
    <2>2. QED
      BY <1>20, <2>1, ReturnTypes DEF FreeReturn, Munmap, MoreToClear, TypeOK,
         bitmap
  <1>21. QED
    BY <1>1, <1>2, <1>3, <1>4, <1>5, <1>6, <1>7, <1>8, <1>9, <1>10, <1>11,
       <1>12, <1>13, <1>14, <1>15, <1>16, <1>17, <1>18, <1>19, <1>20
       DEF Waiting, Locked, AllocLocked, FreeLocked

\* Who owns a block changes when the application frees it, when dma_alloc
\* returns it and when dma_free has returned, and only then.
LEMMA Ownership ==
    ASSUME TypeOK, NEW t \in Threads,
           AllocCall(t) \/ FreeCall(t) \/ Waiting(t) \/ Locked(t)
    PROVE  \/ FreeCall(t)
           \/ AllocReturn(t)
           \/ held' = held /\ block' = block
           \/ held' = held /\ block' = [block EXCEPT ![t] = NullBlock]
  BY DEF Waiting, Locked, AllocLocked, FreeLocked, AllocCall, AllocTooLarge,
         AllocBegin, FreeNull, FreeBegin, ScanRunStarts, ScanMatches,
         ScanRunGoesOn, ScanRunEnds, ScanSkips, Advance, ScanFails,
         AllocReturnNull, MarkFst, MarkSnd, FreeReturnNull, ClearFst,
         ClearSnd, FreeReturn, ReleaseAndReturn, frame

\* Blocks stay inside the allocation area.
LEMMA PlacedStep ==
    ASSUME TypeOK, LocalInv, PlacedInv, NEW t \in Threads,
           AllocCall(t) \/ FreeCall(t) \/ Waiting(t) \/ Locked(t)
    PROVE  PlacedInv'
  <1>1. ASSUME NEW b \in held' PROVE Placed(b)
    <2>1. CASE FreeCall(t)
      BY <2>1 DEF FreeCall, PlacedInv
    <2>2. CASE AllocReturn(t)
      BY <2>2, CarvedFacts DEF AllocReturn, PlacedInv, Marking
    <2>3. QED
      BY <2>1, <2>2, Ownership DEF PlacedInv
  <1>2. ASSUME NEW s \in Threads
        PROVE  /\ block'[s] = NullBlock \/ Placed(block'[s])
               /\ block'[s] # NullBlock => pc'[s] \in Clearing \cup {"free_lock"}
               /\ pc'[s] \in Clearing => block'[s] # NullBlock
    <2>1. CASE s # t
      BY <2>1, OthersUnchanged DEF Frame, PlacedInv
    <2>2. CASE s = t
      <3> USE <2>2 DEF PlacedInv, Clearing, TypeOK
      <3>1. CASE AllocCall(t) \/ FreeCall(t)
        BY <3>1 DEF AllocCall, FreeCall, Goto
      <3>2. CASE AllocTooLarge(t) \/ AllocBegin(t)
        BY <3>2 DEF AllocTooLarge, AllocBegin, Acquire, Goto, frame
      <3>3. CASE FreeNull(t)
        BY <3>3, NullFacts DEF FreeNull, Acquire, Goto, frame
      <3>4. CASE FreeBegin(t)
        BY <3>4, BlockFacts DEF FreeBegin, Acquire, Goto
      <3>5. CASE ScanRunStarts(t) \/ ScanMatches(t) \/ ScanFails(t)
        BY <3>5 DEF ScanRunStarts, ScanMatches, ScanFails, Scanning, Goto,
           frame
      <3>6. CASE ScanRunGoesOn(t) \/ ScanRunEnds(t) \/ ScanSkips(t)
        BY <3>6 DEF ScanRunGoesOn, ScanRunEnds, ScanSkips, Scanning, Advance
      <3>7. CASE MarkFst(t) \/ MarkSnd(t) \/ ClearFst(t) \/ ClearSnd(t)
        BY <3>7 DEF MarkFst, MarkSnd, ClearFst, ClearSnd, Goto, frame
      <3>8. CASE \/ AllocReturnNull(t) \/ AllocReturn(t)
                 \/ FreeReturnNull(t) \/ FreeReturn(t)
        BY <3>8 DEF AllocReturnNull, AllocReturn, FreeReturnNull, FreeReturn,
                    ReleaseAndReturn, Goto
      <3>9. QED
        BY <3>1, <3>2, <3>3, <3>4, <3>5, <3>6, <3>7, <3>8
           DEF Waiting, Locked, AllocLocked, FreeLocked
    <2>3. QED
      BY <2>1, <2>2
  <1>3. QED
    BY <1>1, <1>2 DEF PlacedInv

\* Blocks stay apart: a new one comes from CarveInv.
LEMMA ApartStep ==
    ASSUME TypeOK, LocalInv, PlacedInv, ApartInv, CarveInv, NEW t \in Threads,
           AllocCall(t) \/ FreeCall(t) \/ Waiting(t) \/ Locked(t)
    PROVE  ApartInv'
  <1>0. \A b, c : Apart(b, c) => Apart(c, b)
    BY DEF Apart
  <1>1. CASE FreeCall(t)
    <2>1. PICK b \in held \cup {NullBlock} :
             held' = held \ {b} /\ block' = [block EXCEPT ![t] = b]
      BY <1>1 DEF FreeCall
    <2>2. QED
      BY <1>0, <2>1 DEF ApartInv, TypeOK
  <1>2. CASE AllocReturn(t)
    <2>1. /\ \A b \in held : Apart(Carved(t), b)
          /\ \A s \in Threads :
                block[s] = NullBlock \/ Apart(Carved(t), block[s])
      BY <1>2 DEF AllocReturn, CarveInv, Marking
    <2>2. /\ held' = held \cup {Carved(t)}
          /\ block' = [block EXCEPT ![t] = NullBlock]
      BY <1>2 DEF AllocReturn, ReleaseAndReturn
    <2>3. QED
      BY <1>0, <2>1, <2>2 DEF ApartInv, TypeOK
  <1>3. CASE held' = held /\ block' = block
    BY <1>3 DEF ApartInv
  <1>4. CASE held' = held /\ block' = [block EXCEPT ![t] = NullBlock]
    BY <1>4 DEF ApartInv, TypeOK
  <1>5. QED
    BY <1>1, <1>2, <1>3, <1>4, Ownership

\* Free units belong to no block.
LEMMA FreeRunApart ==
    ASSUME NEW b \in [ptr : Nat, len : Nat], Placed(b),
           NEW c \in [ptr : Nat, len : Nat], Placed(c),
           \A u \in Nat : ~(Covers(b, u) /\ Covers(c, u))
    PROVE  Apart(b, c)
  <1> USE DEF EndOf
  <1>1. /\ LocOf(b.ptr) \in Nat /\ EndOf(b) \in Nat
        /\ LocOf(c.ptr) \in Nat /\ EndOf(c) \in Nat
        /\ LocOf(b.ptr) < EndOf(b) /\ LocOf(c.ptr) < EndOf(c)
    BY PlacedFacts
  <1>2. CASE LocOf(b.ptr) <= LocOf(c.ptr)
    BY <1>1, <1>2 DEF Apart, Covers
  <1>3. CASE LocOf(c.ptr) <= LocOf(b.ptr)
    BY <1>1, <1>3 DEF Apart, Covers
  <1>4. QED
    BY <1>1, <1>2, <1>3

\* A scan inside a run of free units meets the head of a block, if anything.
LEMMA ScanMeetsHead ==
    ASSUME TypeOK, LockInv, LocalInv, PlacedInv, BitmapInv, ScanInv,
           NEW t \in Threads, pc[t] = "scan", isStarted[t], i[t] < Units
    PROVE  snd[i[t]] = 1
  <1>1. /\ i[t] \in 0 .. LastUnit /\ start_idx[t] \in Int
        /\ First <= start_idx[t] /\ start_idx[t] < i[t]
        /\ i[t] - 1 \in 0 .. LastUnit
    BY Layout DEF TypeOK, LocalInv, Local
  <1>2. fst[i[t] - 1] = 1
    BY <1>1 DEF ScanInv
  <1>3. ASSUME NEW c \in [ptr : Nat, len : Nat], Placed(c) \/ c = NullBlock,
               Covers(c, i[t]), i[t] # LocOf(c.ptr)
        PROVE  Covers(c, i[t] - 1)
    <2>1. Placed(c)
      BY <1>1, <1>3, NullCovers
    <2>2. QED
      BY <1>1, <1>3, <2>1, PlacedFacts DEF Covers, EndOf
  <1>4. ASSUME snd[i[t]] = 0 PROVE FALSE
    <2>1. ASSUME NEW c \in held, Covers(c, i[t]), i[t] # LocOf(c.ptr)
          PROVE  FALSE
      <3>1. c \in [ptr : Nat, len : Nat] /\ Placed(c)
        BY DEF TypeOK, PlacedInv
      <3>2. Covers(c, i[t] - 1)
        BY <1>3, <2>1, <3>1
      <3>3. QED
        BY <1>1, <1>2, <3>2 DEF BitmapInv
    <2>2. ASSUME NEW s \in Threads, SndZero(s, i[t]) PROVE FALSE
      <3>1. pc[s] \notin Critical
        BY <2>2, Alone DEF SndZero, Critical, PCs, Clearing, Marking
      <3>2. /\ pc[s] = "free_lock"
            /\ Covers(block[s], i[t]) /\ i[t] # LocOf(block[s].ptr)
        BY <2>2, <3>1 DEF SndZero, Critical, PCs, Clearing, Marking
      <3>3. Covers(block[s], i[t] - 1)
        BY <1>3, <3>2 DEF TypeOK, PlacedInv
      <3>4. FstZero(s, i[t] - 1)
        BY <3>2, <3>3 DEF FstZero
      <3>5. QED
        BY <1>1, <1>2, <3>4 DEF BitmapInv
    <2>3. QED
      BY <1>1, <1>4, <2>1, <2>2, Layout DEF BitmapInv
  <1>5. QED
    BY <1>1, <1>4 DEF TypeOK

\* A match is made of free units, so the new block is apart from all others.
LEMMA CarveStep ==
    ASSUME IInv, NEW t \in Threads,
           AllocCall(t) \/ FreeCall(t) \/ Waiting(t) \/ Locked(t)
    PROVE  CarveInv'
  <1> USE DEF IInv
  <1> SUFFICES ASSUME NEW r \in Threads, (pc[r] \in Marking)'
               PROVE  /\ \A b \in held' : Apart(Carved(r)', b)
                      /\ \A s \in Threads : \/ block'[s] = NullBlock
                                            \/ Apart(Carved(r)', block'[s])
    BY DEF CarveInv
  <1>1. CASE ScanMatches(t) /\ r = t
    <2>1. /\ Carved(t)' = Carved(t) /\ held' = held /\ block' = block
      BY <1>1 DEF ScanMatches, Carved
    <2>2. /\ start_idx[t] \in Nat /\ i[t] \in Nat
          /\ First <= start_idx[t] /\ start_idx[t] < i[t] /\ i[t] <= LastUnit
          /\ \A u \in start_idx[t] .. (i[t] - 1) : fst[u] = 1
      BY <1>1, Layout
         DEF ScanMatches, Scanning, TypeOK, LocalInv, Local, ScanInv
    <2>3. /\ PtrOf(start_idx[t]) \in Nat
          /\ LocOf(PtrOf(start_idx[t])) = start_idx[t]
      BY <2>2, Pointers, Layout
    <2>4. /\ Carved(t) \in [ptr : Nat, len : Nat] /\ Placed(Carved(t))
          /\ \A u \in Nat : Covers(Carved(t), u) =>
                u \in 0 .. LastUnit /\ fst[u] = 1
      BY <2>2, <2>3, Layout DEF Carved, Placed, EndOf, Covers
    <2>5. ASSUME NEW b \in held PROVE Apart(Carved(t), b)
      <3>1. b \in [ptr : Nat, len : Nat] /\ Placed(b)
        BY DEF TypeOK, PlacedInv
      <3>2. \A u \in 0 .. LastUnit : Covers(b, u) => fst[u] = 0
        BY DEF BitmapInv
      <3>3. QED
        BY <2>4, <3>1, <3>2, FreeRunApart
    <2>6. ASSUME NEW s \in Threads, block[s] # NullBlock
          PROVE  Apart(Carved(t), block[s])
      <3>1. block[s] \in [ptr : Nat, len : Nat] /\ Placed(block[s])
        BY <2>6 DEF TypeOK, PlacedInv
      <3>2. pc[s] = "free_lock"
        BY <1>1, <2>6, Alone
           DEF ScanMatches, Scanning, PlacedInv, Critical, PCs, Clearing
      <3>3. \A u \in 0 .. LastUnit : Covers(block[s], u) => fst[u] = 0
        BY <3>2 DEF BitmapInv, FstZero
      <3>4. QED
        BY <2>4, <3>1, <3>3, FreeRunApart
    <2>7. QED
      BY <1>1, <2>1, <2>5, <2>6
  <1>2. CASE ~(ScanMatches(t) /\ r = t)
    <2>1. pc[r] \in Marking /\ Carved(r)' = Carved(r)
      <3>1. CASE r # t
        BY <3>1, OthersUnchanged DEF Frame, Carved
      <3>2. CASE r = t
        <4> USE <3>2 DEF Marking, TypeOK, Carved
        <4>1. CASE AllocCall(t) \/ FreeCall(t)
          BY <4>1 DEF AllocCall, FreeCall, Goto
        <4>2. CASE Waiting(t)
          BY <4>2 DEF Waiting, AllocTooLarge, AllocBegin, FreeNull, FreeBegin,
                      Acquire, Goto
        <4>3. CASE \/ ScanRunStarts(t) \/ ScanRunGoesOn(t) \/ ScanRunEnds(t)
                   \/ ScanSkips(t) \/ ScanFails(t)
          BY <4>3 DEF ScanRunStarts, ScanRunGoesOn, ScanRunEnds, ScanSkips,
                      Advance, Scanning, ScanFails, Goto
        <4>4. CASE MarkFst(t) \/ MarkSnd(t)
          BY <4>4 DEF MarkFst, MarkSnd, Goto, frame
        <4>5. CASE \/ AllocReturnNull(t) \/ AllocReturn(t)
                   \/ FreeReturnNull(t) \/ FreeReturn(t)
          BY <4>5 DEF AllocReturnNull, AllocReturn, FreeReturnNull,
             FreeReturn,
                      ReleaseAndReturn, Goto
        <4>6. CASE ClearFst(t) \/ ClearSnd(t)
          BY <4>6 DEF ClearFst, ClearSnd, Goto
        <4>7. QED
          BY <1>2, <4>1, <4>2, <4>3, <4>4, <4>5, <4>6
             DEF Locked, AllocLocked, FreeLocked
      <3>3. QED
        BY <3>1, <3>2
    <2>2. CASE FreeCall(t)
      <3>1. PICK b \in held \cup {NullBlock} :
               held' = held \ {b} /\ block' = [block EXCEPT ![t] = b]
        BY <2>2 DEF FreeCall
      <3>2. /\ \A c \in held : Apart(Carved(r), c)
            /\ \A s \in Threads : \/ block[s] = NullBlock
                                  \/ Apart(Carved(r), block[s])
        BY <2>1 DEF CarveInv
      <3>3. \A s \in Threads : block'[s] = IF s = t THEN b ELSE block[s]
        BY <3>1 DEF TypeOK
      <3>4. QED
        BY <2>1, <3>1, <3>2, <3>3
    <2>3. CASE AllocReturn(t)
      <3>1. pc[t] \in Critical /\ pc'[t] = "idle" /\ pc[r] \in Critical
        BY <2>1, <2>3 DEF AllocReturn, ReleaseAndReturn, Goto, TypeOK,
                          Critical, PCs, Marking
      <3>2. QED
        BY <3>1, Alone DEF Marking
    <2>4. CASE held' = held /\ block' = block
      BY <2>1, <2>4 DEF CarveInv
    <2>5. CASE held' = held /\ block' = [block EXCEPT ![t] = NullBlock]
      BY <2>1, <2>5 DEF CarveInv, TypeOK
    <2>6. QED
      BY <2>2, <2>3, <2>4, <2>5, Ownership
  <1>3. QED
    BY <1>1, <1>2

\* What the scan has seen stays free while it holds segment_lock.
LEMMA ScanStep ==
    ASSUME IInv, NEW t \in Threads,
           AllocCall(t) \/ FreeCall(t) \/ Waiting(t) \/ Locked(t)
    PROVE  ScanInv'
  <1> USE DEF IInv
  <1> SUFFICES ASSUME NEW r \in Threads, (pc[r] = "scan" /\ isStarted[r])'
               PROVE  \A u \in start_idx'[r] .. (i'[r] - 1) :
                         fst'[u] = 1 /\ snd'[u] = 1
    BY DEF ScanInv
  <1>1. CASE r # t
    <2>1. /\ pc[r] = "scan" /\ isStarted[r]
          /\ start_idx'[r] = start_idx[r] /\ i'[r] = i[r]
      BY <1>1, OthersUnchanged DEF Frame
    <2>2. lock = r
      BY <2>1 DEF LockInv, Critical, PCs
    <2>3. pc[t] \notin Critical /\ lock # NoThread
      BY <1>1, <2>2, DmaAssumption DEF LockInv
    <2>4. fst' = fst /\ snd' = snd
      <3>1. ~Waiting(t)
        BY <2>3 DEF Waiting, AllocTooLarge, AllocBegin, FreeNull, FreeBegin,
                    Acquire
      <3>2. ~Locked(t)
        BY <2>3 DEF Locked, AllocLocked, FreeLocked, ScanRunStarts,
                    ScanMatches, ScanRunGoesOn, ScanRunEnds, ScanSkips,
                    Scanning, ScanFails, AllocReturnNull, MarkFst, MarkSnd,
                    AllocReturn, FreeReturnNull, ClearFst, ClearSnd,
                    FreeReturn, Critical, PCs
      <3>3. QED
        BY <3>1, <3>2 DEF AllocCall, FreeCall, bitmap
    <2>5. QED
      BY <2>1, <2>4 DEF ScanInv
  <1>2. CASE r = t
    <2> USE <1>2
    <2>0. i[t] \in Int /\ start_idx[t] \in Int
      BY DEF TypeOK
    <2>1. CASE ScanRunStarts(t)
      BY <2>0, <2>1 DEF ScanRunStarts, TypeOK, bitmap
    <2>2. CASE ScanRunGoesOn(t)
      BY <2>0, <2>2 DEF ScanRunGoesOn, Advance, TypeOK, bitmap, ScanInv,
         Scanning
    <2>3. CASE ScanRunEnds(t)
      BY <2>3 DEF ScanRunEnds, TypeOK
    <2>4. CASE ScanSkips(t)
      BY <2>4, ScanMeetsHead DEF ScanSkips, Scanning, Advance, TypeOK
    <2>5. CASE AllocBegin(t)
      BY <2>5 DEF AllocBegin, TypeOK
    <2>6. CASE \/ ScanMatches(t) \/ ScanFails(t) \/ MarkFst(t) \/ MarkSnd(t)
               \/ ClearFst(t) \/ ClearSnd(t)
      BY <2>6 DEF ScanMatches, ScanFails, MarkFst, MarkSnd, ClearFst,
         ClearSnd,
                  Goto, TypeOK
    <2>7. CASE \/ AllocReturnNull(t) \/ AllocReturn(t)
               \/ FreeReturnNull(t) \/ FreeReturn(t)
      BY <2>7 DEF AllocReturnNull, AllocReturn, FreeReturnNull, FreeReturn,
                  ReleaseAndReturn, Goto, TypeOK
    <2>8. CASE \/ AllocCall(t) \/ FreeCall(t) \/ AllocTooLarge(t)
               \/ FreeNull(t) \/ FreeBegin(t)
      BY <2>8 DEF AllocCall, FreeCall, AllocTooLarge, FreeNull, FreeBegin,
                  Acquire, Goto, TypeOK
    <2>9. QED
      BY <2>1, <2>2, <2>3, <2>4, <2>5, <2>6, <2>7, <2>8
         DEF Waiting, Locked, AllocLocked, FreeLocked
  <1>3. QED
    BY <1>1, <1>2
-----------------------------------------------------------------------------
(* The bitmap.  Seen from the thread that takes a step, a word is 0 on its *)
(* own behalf or on behalf of all the others.                              *)

OthersFst(t, u) ==
    \/ u < First
    \/ \E b \in held : Covers(b, u)
    \/ \E s \in Threads : s # t /\ FstZero(s, u)

OthersSnd(t, u) ==
    \/ u < First /\ u # 0 /\ u # BitmapUnits
    \/ \E b \in held : Covers(b, u) /\ u # LocOf(b.ptr)
    \/ \E s \in Threads : s # t /\ SndZero(s, u)

BitmapFor(t) ==
    \A u \in 0 .. LastUnit :
        /\ fst[u] = 0 <=> OthersFst(t, u) \/ FstZero(t, u)
        /\ snd[u] = 0 <=> OthersSnd(t, u) \/ SndZero(t, u)

\* BitmapInv, with the share of one thread set apart.
LEMMA BitmapSplit ==
    ASSUME NEW t \in Threads
    PROVE  BitmapInv <=> BitmapFor(t)
  BY DEF BitmapInv, BitmapFor, OthersFst, OthersSnd

\* A step leaves what the other threads account for as it is.
LEMMA OthersZero ==
    ASSUME TypeOK, NEW t \in Threads,
           AllocCall(t) \/ FreeCall(t) \/ Waiting(t) \/ Locked(t),
           NEW s \in Threads, s # t, NEW u \in Int
    PROVE  /\ FstZero(s, u)' <=> FstZero(s, u)
           /\ SndZero(s, u)' <=> SndZero(s, u)
  BY OthersUnchanged DEF Frame, FstZero, SndZero, EndOf, Covers, Marking,
     Clearing

\* While held stays the same, so does the share of everyone else.
LEMMA OthersSame ==
    ASSUME TypeOK, NEW t \in Threads,
           AllocCall(t) \/ FreeCall(t) \/ Waiting(t) \/ Locked(t),
           held' = held, NEW u \in 0 .. LastUnit
    PROVE  /\ OthersFst(t, u)' <=> OthersFst(t, u)
           /\ OthersSnd(t, u)' <=> OthersSnd(t, u)
  BY OthersZero DEF OthersFst, OthersSnd

\* While nobody else is in a critical section, nobody else accounts for a
\* unit of the block that t was given to free.
LEMMA OwnUnits ==
    ASSUME TypeOK, PlacedInv, ApartInv, NEW t \in Threads,
           block[t] # NullBlock,
           \A s \in Threads : s # t => pc[s] \notin Critical,
           NEW u \in 0 .. LastUnit, Covers(block[t], u)
    PROVE  ~OthersFst(t, u) /\ ~OthersSnd(t, u)
  <1>1. block[t] \in [ptr : Nat, len : Nat] /\ Placed(block[t])
    BY BlockFacts DEF TypeOK
  <1>2. ~(u < First)
    BY <1>1, PlacedFacts, Layout DEF Covers
  <1>3. ASSUME NEW b \in held, Covers(b, u) PROVE FALSE
    <2>1. b \in [ptr : Nat, len : Nat] /\ Placed(b) /\ Apart(block[t], b)
      BY DEF TypeOK, PlacedInv, ApartInv
    <2>2. QED
      BY <1>1, <1>3, <2>1, PlacedFacts DEF Apart, Covers, EndOf
  <1>4. ASSUME NEW s \in Threads, s # t, FstZero(s, u) \/ SndZero(s, u)
        PROVE  FALSE
    <2>1. Covers(block[s], u)
      BY <1>4 DEF FstZero, SndZero, Critical, PCs, Marking, Clearing
    <2>2. block[s] # NullBlock
      BY <2>1, NullCovers
    <2>3. /\ block[s] \in [ptr : Nat, len : Nat] /\ Placed(block[s])
          /\ Apart(block[t], block[s])
      BY <1>4, <2>2 DEF TypeOK, PlacedInv, ApartInv
    <2>4. QED
      BY <1>1, <2>1, <2>3, PlacedFacts DEF Apart, Covers, EndOf
  <1>5. QED
    BY <1>2, <1>3, <1>4 DEF OthersFst, OthersSnd

\* Every write into the bitmap is matched by a step of the thread that makes
\* it: one case per action.
LEMMA BitmapStep ==
    ASSUME IInv, NEW t \in Threads,
           AllocCall(t) \/ FreeCall(t) \/ Waiting(t) \/ Locked(t)
    PROVE  BitmapInv'
  <1> USE DEF IInv
  <1>0. BitmapFor(t)
    BY BitmapSplit
  <1>p. BitmapFor(t)' => BitmapInv'
    BY DEF BitmapInv, BitmapFor, OthersFst, OthersSnd
  <1> SUFFICES ASSUME NEW u \in 0 .. LastUnit
               PROVE  /\ (fst[u] = 0 <=> OthersFst(t, u) \/ FstZero(t, u))'
                      /\ (snd[u] = 0 <=> OthersSnd(t, u) \/ SndZero(t, u))'
    BY <1>p DEF BitmapFor
  <1>a. /\ fst[u] = 0 <=> OthersFst(t, u) \/ FstZero(t, u)
        /\ snd[u] = 0 <=> OthersSnd(t, u) \/ SndZero(t, u)
    BY <1>0 DEF BitmapFor
  <1>b. u \in Int /\ i[t] \in Int /\ x[t] \in Int /\ start_idx[t] \in Int
    BY DEF TypeOK
  <1>1. CASE FreeCall(t)
    <2>1. PICK b \in held \cup {NullBlock} :
             held' = held \ {b} /\ block' = [block EXCEPT ![t] = b]
      BY <1>1 DEF FreeCall
    <2>2. /\ fst' = fst /\ snd' = snd /\ pc[t] = "idle"
          /\ pc'[t] = "free_lock" /\ block'[t] = b
      BY <1>1, <2>1 DEF FreeCall, bitmap, Goto, TypeOK
    <2>3. ~FstZero(t, u) /\ ~SndZero(t, u)
      BY <2>2 DEF FstZero, SndZero, Marking, Clearing
    <2>4. /\ FstZero(t, u)' <=> Covers(b, u)
          /\ SndZero(t, u)' <=> Covers(b, u) /\ u # LocOf(b.ptr)
      BY <2>2 DEF FstZero, SndZero, Marking, Clearing, Covers
    <2>5. b \in held \/ ~Covers(b, u)
      BY <1>b, <2>1, NullCovers
    <2>6. /\ OthersFst(t, u)' \/ Covers(b, u) <=> OthersFst(t, u)
               \/ Covers(b, u)
          /\ OthersSnd(t, u)' \/ (Covers(b, u) /\ u # LocOf(b.ptr))
               <=> OthersSnd(t, u) \/ (Covers(b, u) /\ u # LocOf(b.ptr))
      BY <1>1, <1>b, <2>1, OthersZero DEF OthersFst, OthersSnd, Covers
    <2>7. /\ Covers(b, u) => OthersFst(t, u)
          /\ Covers(b, u) /\ u # LocOf(b.ptr) => OthersSnd(t, u)
      BY <2>5 DEF OthersFst, OthersSnd
    <2>8. QED
      BY <1>a, <2>2, <2>3, <2>4, <2>6, <2>7
  <1>2. CASE AllocReturn(t)
    <2>1. /\ fst' = fst /\ snd' = snd /\ pc[t] = "mark_fst" /\ x[t] = i[t]
          /\ pc'[t] = "idle" /\ held' = held \cup {Carved(t)}
      BY <1>2, <1>b DEF AllocReturn, ReleaseAndReturn, Goto, bitmap, TypeOK,
                        LocalInv, Local, Marking
    <2>2. ~FstZero(t, u)' /\ ~SndZero(t, u)'
      BY <2>1 DEF FstZero, SndZero, Marking, Clearing
    <2>3. LocOf(Carved(t).ptr) = start_idx[t] /\ EndOf(Carved(t)) = i[t]
      BY <2>1, CarvedFacts DEF Marking
    <2>4. /\ FstZero(t, u) <=> Covers(Carved(t), u)
          /\ SndZero(t, u) <=> /\ Covers(Carved(t), u)
                               /\ u # LocOf(Carved(t).ptr)
      BY <1>b, <2>1, <2>3
         DEF FstZero, SndZero, Marking, Clearing, Covers, EndOf
    <2>5. /\ OthersFst(t, u)' <=> OthersFst(t, u) \/ Covers(Carved(t), u)
          /\ OthersSnd(t, u)' <=> \/ OthersSnd(t, u)
                                  \/ /\ Covers(Carved(t), u)
                                     /\ u # LocOf(Carved(t).ptr)
      BY <1>2, <1>b, <2>1, OthersZero DEF OthersFst, OthersSnd
    <2>6. QED
      BY <1>a, <2>1, <2>2, <2>4, <2>5
  <1>3. CASE ScanMatches(t)
    <2>1. /\ snd' = snd /\ held' = held /\ pc[t] = "scan"
          /\ fst' = [fst EXCEPT ![start_idx[t]] = 0]
          /\ start_idx'[t] = start_idx[t] /\ x'[t] = start_idx[t] + 1
          /\ pc'[t] = "mark_fst"
      BY <1>3 DEF ScanMatches, Scanning, FirstToMark, Goto, TypeOK
    <2>2. /\ ~FstZero(t, u) /\ ~SndZero(t, u) /\ ~SndZero(t, u)'
          /\ FstZero(t, u)' <=> u = start_idx[t]
      BY <1>b, <2>1 DEF FstZero, SndZero, Marking, Clearing
    <2>3. QED
      BY <1>3, <1>a, <2>1, <2>2, OthersSame DEF TypeOK
  <1>4. CASE MarkFst(t)
    <2>1. /\ snd' = snd /\ held' = held /\ pc[t] = "mark_fst"
          /\ fst' = [fst EXCEPT ![x[t]] = 0] /\ frame' = frame
          /\ pc'[t] = "mark_snd" /\ start_idx[t] < x[t]
      BY <1>4 DEF MarkFst, Goto, TypeOK, LocalInv, Local, Marking
    <2>2. /\ SndZero(t, u)' <=> SndZero(t, u)
          /\ FstZero(t, u)' <=> FstZero(t, u) \/ u = x[t]
      BY <1>b, <2>1 DEF FstZero, SndZero, Marking, Clearing, frame
    <2>3. QED
      BY <1>4, <1>a, <2>1, <2>2, OthersSame DEF TypeOK
  <1>5. CASE MarkSnd(t)
    <2>1. /\ fst' = fst /\ held' = held /\ pc[t] = "mark_snd"
          /\ snd' = [snd EXCEPT ![x[t]] = 0]
          /\ start_idx' = start_idx /\ x'[t] = x[t] + 1
          /\ pc'[t] = "mark_fst" /\ start_idx[t] < x[t]
      BY <1>5 DEF MarkSnd, Goto, TypeOK, LocalInv, Local, Marking
    <2>2. /\ FstZero(t, u)' <=> FstZero(t, u)
          /\ SndZero(t, u)' <=> SndZero(t, u) \/ u = x[t]
      BY <1>b, <2>1 DEF FstZero, SndZero, Marking, Clearing
    <2>3. QED
      BY <1>5, <1>a, <2>1, <2>2, OthersSame DEF TypeOK
  <1>6. CASE FreeBegin(t)
    <2>1. /\ block[t] \in [ptr : Nat, len : Nat]
          /\ block[t] # NullBlock /\ Placed(block[t])
      BY <1>6, BlockFacts DEF FreeBegin, TypeOK
    <2>2. /\ LocOf(block[t].ptr) \in 0 .. LastUnit /\ EndOf(block[t]) \in Nat
          /\ LocOf(block[t].ptr) < EndOf(block[t])
      BY <2>1, PlacedFacts, Layout
    <2>3. /\ snd' = snd /\ held' = held /\ pc[t] = "free_lock"
          /\ fst' = [fst EXCEPT ![LocOf(block[t].ptr)] = 1]
          /\ i'[t] = LocOf(block[t].ptr) + 1
          /\ pc'[t] = "clear_fst" /\ block' = block /\ lock = NoThread
      BY <1>6 DEF FreeBegin, Acquire, Goto, TypeOK
    <2>4. \A s \in Threads : pc[s] \notin Critical
      BY <2>3, DmaAssumption DEF LockInv
    <2>5. u = LocOf(block[t].ptr) => ~OthersFst(t, u)
      BY <2>1, <2>2, <2>4, OwnUnits DEF Covers, EndOf
    <2>6. /\ SndZero(t, u)' <=> SndZero(t, u)
          /\ FstZero(t, u)' <=> FstZero(t, u) /\ u # LocOf(block[t].ptr)
      BY <1>b, <2>2, <2>3 DEF FstZero, SndZero, Marking, Clearing, Covers,
         EndOf
    <2>7. QED
      BY <1>6, <1>a, <2>2, <2>3, <2>5, <2>6, OthersSame DEF TypeOK
  <1>7. CASE ClearFst(t)
    <2>1. /\ snd' = snd /\ held' = held /\ pc[t] = "clear_fst"
          /\ fst' = [fst EXCEPT ![i[t]] = 1] /\ frame' = frame
          /\ pc'[t] = "clear_snd" /\ i[t] < EndOf(block[t])
          /\ LocOf(block[t].ptr) < i[t]
      BY <1>7, ClearStops DEF ClearFst, Goto, TypeOK, LocalInv, Local,
         Clearing
    <2>2. \A s \in Threads : s # t => pc[s] \notin Critical
      BY <2>1, Alone DEF Critical, PCs
    <2>3. block[t] # NullBlock
      BY <2>1, BlockFacts DEF Clearing
    <2>4. u = i[t] => ~OthersFst(t, u)
      <3>1. block[t] \in [ptr : Nat, len : Nat] /\ Placed(block[t])
        BY <2>3, BlockFacts DEF TypeOK
      <3>2. Covers(block[t], i[t])
        BY <1>b, <2>1, <3>1, PlacedFacts DEF Covers, EndOf
      <3>3. QED
        BY <2>2, <2>3, <3>2, OwnUnits
    <2>5. /\ SndZero(t, u)' <=> SndZero(t, u)
          /\ FstZero(t, u)' <=> FstZero(t, u) /\ u # i[t]
      BY <1>b, <2>1 DEF FstZero, SndZero, Marking, Clearing, frame
    <2>6. QED
      BY <1>7, <1>a, <2>1, <2>4, <2>5, OthersSame DEF TypeOK
  <1>8. CASE ClearSnd(t)
    <2>1. /\ fst' = fst /\ held' = held /\ pc[t] = "clear_snd"
          /\ snd' = [snd EXCEPT ![i[t]] = 1] /\ i'[t] = i[t] + 1
          /\ pc'[t] = "clear_fst" /\ block' = block
          /\ i[t] < EndOf(block[t]) /\ LocOf(block[t].ptr) < i[t]
      BY <1>8 DEF ClearSnd, Goto, TypeOK, LocalInv, Local, Clearing
    <2>2. \A s \in Threads : s # t => pc[s] \notin Critical
      BY <2>1, Alone DEF Critical, PCs
    <2>3. block[t] # NullBlock
      BY <2>1, BlockFacts DEF Clearing
    <2>4. u = i[t] => ~OthersSnd(t, u)
      <3>1. block[t] \in [ptr : Nat, len : Nat] /\ Placed(block[t])
        BY <2>3, BlockFacts DEF TypeOK
      <3>2. Covers(block[t], i[t])
        BY <1>b, <2>1, <3>1, PlacedFacts DEF Covers, EndOf
      <3>3. QED
        BY <2>2, <2>3, <3>2, OwnUnits
    <2>5. /\ FstZero(t, u)' <=> FstZero(t, u)
          /\ SndZero(t, u)' <=> SndZero(t, u) /\ u # i[t]
      BY <1>b, <2>1 DEF FstZero, SndZero, Marking, Clearing
    <2>6. QED
      <3>1. snd'[u] = IF u = i[t] THEN 1 ELSE snd[u]
        BY <2>1 DEF TypeOK
      <3>2. /\ OthersFst(t, u)' <=> OthersFst(t, u)
            /\ OthersSnd(t, u)' <=> OthersSnd(t, u)
        BY <1>8, <2>1, OthersSame
      <3>3. QED
        BY <1>a, <2>1, <2>4, <2>5, <3>1, <3>2
  <1>9. CASE FreeReturn(t)
    <2>1. /\ fst' = fst /\ snd' = snd /\ held' = held /\ pc[t] = "clear_fst"
          /\ pc'[t] = "idle" /\ ~(i[t] < EndOf(block[t]))
      BY <1>9, ClearStops
         DEF FreeReturn, ReleaseAndReturn, Goto, bitmap, TypeOK
    <2>2. block[t] \in [ptr : Nat, len : Nat] /\ Placed(block[t])
      BY <2>1, BlockFacts DEF Clearing, TypeOK
    <2>3. EndOf(block[t]) \in Int
      BY <2>2, PlacedFacts
    <2>4. /\ ~FstZero(t, u) /\ ~SndZero(t, u)
          /\ ~FstZero(t, u)' /\ ~SndZero(t, u)'
      BY <1>b, <2>1, <2>3 DEF FstZero, SndZero, Marking, Clearing
    <2>5. QED
      BY <1>9, <1>a, <2>1, <2>4, OthersSame
  <1>10. CASE FreeNull(t)
    <2>1. /\ fst' = fst /\ snd' = snd /\ held' = held
          /\ pc[t] = "free_lock" /\ pc'[t] = "free_null"
          /\ block[t] = NullBlock
      BY <1>10, NullFacts DEF FreeNull, Acquire, Goto, bitmap, TypeOK
    <2>2. /\ ~FstZero(t, u) /\ ~SndZero(t, u)
          /\ ~FstZero(t, u)' /\ ~SndZero(t, u)'
      BY <1>b, <2>1, NullCovers DEF FstZero, SndZero, Marking, Clearing
    <2>3. QED
      BY <1>10, <1>a, <2>1, <2>2, OthersSame
  <1>11. CASE \/ AllocCall(t) \/ AllocTooLarge(t) \/ AllocBegin(t)
              \/ ScanRunStarts(t) \/ ScanRunGoesOn(t) \/ ScanRunEnds(t)
              \/ ScanSkips(t) \/ ScanFails(t) \/ AllocReturnNull(t)
              \/ FreeReturnNull(t)
    <2>1. /\ fst' = fst /\ snd' = snd /\ held' = held
          /\ pc[t] \notin Marking \cup Clearing \cup {"free_lock"}
          /\ pc'[t] \notin Marking \cup Clearing \cup {"free_lock"}
      BY <1>11 DEF AllocCall, AllocTooLarge, AllocBegin, ScanRunStarts,
           ScanRunGoesOn, ScanRunEnds, ScanSkips, Scanning, Advance,
           ScanFails, AllocReturnNull, FreeReturnNull, ReleaseAndReturn,
           Acquire, Goto, bitmap, TypeOK, Marking, Clearing
    <2>2. /\ ~FstZero(t, u) /\ ~SndZero(t, u)
          /\ ~FstZero(t, u)' /\ ~SndZero(t, u)'
      BY <2>1 DEF FstZero, SndZero, Marking, Clearing
    <2>3. QED
      BY <1>11, <1>a, <2>1, <2>2, OthersSame
  <1>12. QED
    BY <1>1, <1>2, <1>3, <1>4, <1>5, <1>6, <1>7, <1>8, <1>9, <1>10, <1>11
       DEF Waiting, Locked, AllocLocked, FreeLocked
-----------------------------------------------------------------------------
(* The invariant. *)

\* The heap that dma_init leaves satisfies the invariant.
LEMMA InitInv == Init => IInv
  <1> SUFFICES ASSUME Init PROVE IInv
    OBVIOUS
  <1> USE DEF Init
  <1>1. TypeOK
    <2>1. 0 \in 0 .. Units /\ 0 \in 0 .. LastUnit
      BY Layout
    <2>2. /\ fst \in [0 .. LastUnit -> {0, 1}]
          /\ snd \in [0 .. LastUnit -> {0, 1}]
          /\ i \in [Threads -> 0 .. Units] /\ x \in [Threads -> 0 .. Units]
          /\ start_idx \in [Threads -> 0 .. LastUnit]
      BY <2>1
    <2>3. block \in [Threads -> [ptr : Nat, len : Nat]]
      BY NullBlockType
    <2>4. QED
      BY <2>2, <2>3 DEF TypeOK, PCs
  <1>2. LockInv
    BY DmaAssumption DEF LockInv, Critical, PCs
  <1>3. LocalInv /\ PlacedInv /\ ApartInv /\ CarveInv /\ ScanInv
    BY DEF LocalInv, Local, PlacedInv, ApartInv, CarveInv, ScanInv, Marking,
           Clearing
  <1>4. BitmapInv
    <2>1. \A t \in Threads, u \in Int : ~FstZero(t, u) /\ ~SndZero(t, u)
      BY DEF FstZero, SndZero, Marking, Clearing
    <2>2. QED
      BY <2>1, Layout DEF BitmapInv
  <1>5. QED
    BY <1>1, <1>2, <1>3, <1>4 DEF IInv

\* Every step preserves it.
LEMMA StepInv == IInv /\ [Next]_vars => IInv'
  <1> SUFFICES ASSUME IInv, [Next]_vars PROVE IInv'
    OBVIOUS
  <1>1. CASE UNCHANGED vars
    BY <1>1 DEF vars, bitmap, frame, IInv, TypeOK, LockInv, LocalInv, Local,
         PlacedInv, ApartInv, CarveInv, Carved, BitmapInv, FstZero, SndZero,
         ScanInv
  <1>2. ASSUME NEW t \in Threads,
               AllocCall(t) \/ FreeCall(t) \/ Waiting(t) \/ Locked(t)
        PROVE  IInv'
    BY <1>2, TypeStep, LockStep, LocalStep, PlacedStep, ApartStep, CarveStep,
       BitmapStep, ScanStep DEF IInv
  <1>3. QED
    BY <1>1, <1>2 DEF Next

\* The inductive invariant holds in every reachable state of dma_alloc and
\* dma_free.
THEOREM Invariance == Spec => []IInv
  BY InitInv, StepInv, PTL DEF Spec

\* Every variable keeps its type, the indices into the bitmap included.
THEOREM TypeCorrectness == Spec => []TypeOK
  <1>1. IInv => TypeOK
    BY DEF IInv
  <1>2. QED
    BY <1>1, Invariance, PTL

\* At most one thread is inside the critical sections of dma_alloc and
\* dma_free.
THEOREM MutualExclusionHolds == Spec => []MutualExclusion
  <1>1. IInv => MutualExclusion
    BY DEF IInv, LockInv, MutualExclusion
  <1>2. QED
    BY <1>1, Invariance, PTL

\* Blocks apart in the sense of ApartInv share no unit.
LEMMA ApartDisjoint ==
    ASSUME NEW b \in [ptr : Nat, len : Nat], Placed(b),
           NEW c \in [ptr : Nat, len : Nat], Placed(c), Apart(b, c)
    PROVE  Disjoint(b, c) /\ Disjoint(c, b)
  BY PlacedFacts DEF Apart, Disjoint, Covers, EndOf

\* The null block shares no unit with any other.
LEMMA NullDisjoint ==
    ASSUME NEW b
    PROVE  Disjoint(NullBlock, b) /\ Disjoint(b, NullBlock)
  BY NullCovers DEF Disjoint

\* What a thread is working on is its new block, the block it frees, or none.
LEMMA WorkingFacts ==
    ASSUME IInv, NEW t \in Threads
    PROVE  /\ Working(t) \in [ptr : Nat, len : Nat]
           /\ Working(t) = NullBlock \/ Placed(Working(t))
           /\ \A b \in held : Working(t) = NullBlock \/ Apart(Working(t), b)
  <1> USE DEF IInv
  <1>1. CASE pc[t] \in Marking
    BY <1>1, CarvedFacts DEF Working, Marking, CarveInv
  <1>2. CASE pc[t] \notin Marking
    BY <1>2 DEF Working, Marking, PlacedInv, ApartInv, TypeOK
  <1>3. QED
    BY <1>1, <1>2

\* No byte of the heap is ever given out twice, and no block reaches into the
\* bitmap, the reserved area or the last unit.
THEOREM Disjointness == Spec => []BlocksDisjoint
  <1>1. IInv => BlocksDisjoint
    <2> SUFFICES ASSUME IInv PROVE BlocksDisjoint
      OBVIOUS
    <2> USE DEF IInv
    <2>1. \A b \in held : b \in [ptr : Nat, len : Nat] /\ Placed(b)
      BY DEF TypeOK, PlacedInv
    <2>2. ASSUME NEW b \in held, NEW c \in held, b # c PROVE Disjoint(b, c)
      BY <2>1, <2>2, ApartDisjoint DEF ApartInv
    <2>3. ASSUME NEW t \in Threads, NEW b \in held
          PROVE  Disjoint(Working(t), b)
      BY <2>1, WorkingFacts, ApartDisjoint, NullDisjoint
    <2>4. ASSUME NEW s \in Threads, NEW t \in Threads, s # t
          PROVE  Disjoint(Working(s), Working(t))
      <3>1. CASE Working(s) = NullBlock \/ Working(t) = NullBlock
        BY <3>1, NullDisjoint
      <3>2. CASE Working(s) # NullBlock /\ Working(t) # NullBlock
        <4>1. Apart(Working(s), Working(t)) \/ Apart(Working(t), Working(s))
          <5>1. CASE pc[s] \in Marking
            <6>1. pc[t] \notin Marking
              BY <2>4, <5>1, Alone DEF Marking, Critical, PCs
            <6>2. QED
              BY <3>2, <5>1, <6>1 DEF Working, Marking, CarveInv
          <5>2. CASE pc[t] \in Marking /\ pc[s] \notin Marking
            BY <3>2, <5>2 DEF Working, Marking, CarveInv
          <5>3. CASE pc[t] \notin Marking /\ pc[s] \notin Marking
            BY <2>4, <3>2, <5>3 DEF Working, Marking, ApartInv
          <5>4. QED
            BY <5>1, <5>2, <5>3
        <4>2. QED
          BY <3>2, <4>1, WorkingFacts, ApartDisjoint
      <3>3. QED
        BY <3>1, <3>2
    <2>5. QED
      BY <2>1, <2>2, <2>3, <2>4 DEF BlocksDisjoint, Placed, EndOf
  <1>2. QED
    BY <1>1, Invariance, PTL

\* Whenever segment_lock is free, the bitmap encodes exactly the blocks that
\* the application holds or is about to free, and the two system blocks.
THEOREM BitmapEncoding == Spec => []BitmapEncodesBlocks
  <1> DEFINE blocks == held \cup {block[t] : t \in Threads}
             starts == {0, BitmapUnits} \cup
                       {LocOf(b.ptr) : b \in blocks \ {NullBlock}}
  <1>1. ASSUME IInv, lock = NoThread, NEW u \in 0 .. LastUnit
        PROVE  /\ fst[u] = 0 <=> u < First \/ \E b \in blocks : Covers(b, u)
               /\ snd[u] = 0 <=> fst[u] = 0 /\ u \notin starts
    <2> USE DEF IInv
    <2>0. u \in Int
      OBVIOUS
    <2>1. \A t \in Threads : pc[t] \notin Critical
      BY <1>1, DmaAssumption DEF LockInv
    <2>2. \A t \in Threads : block[t] # NullBlock => pc[t] = "free_lock"
      BY <1>1, <2>1 DEF PlacedInv, Critical, PCs, Clearing
    <2>3. ASSUME NEW t \in Threads
          PROVE  /\ FstZero(t, u) <=> Covers(block[t], u)
                 /\ SndZero(t, u) <=> /\ Covers(block[t], u)
                                      /\ u # LocOf(block[t].ptr)
      BY <2>0, <2>1, <2>2, NullCovers
         DEF FstZero, SndZero, Critical, PCs, Marking, Clearing
    <2>4. /\ fst[u] = 0 <=> u < First \/ \E b \in blocks : Covers(b, u)
          /\ snd[u] = 0 <=> \/ u < First /\ u # 0 /\ u # BitmapUnits
                            \/ \E b \in blocks : /\ Covers(b, u)
                                                 /\ u # LocOf(b.ptr)
      BY <1>1, <2>3 DEF BitmapInv
    <2>5. ASSUME NEW b \in blocks, b # NullBlock
          PROVE  /\ b \in [ptr : Nat, len : Nat] /\ Placed(b)
                 /\ \A c \in blocks : c = NullBlock \/ c = b \/ Apart(b, c)
                                      \/ Apart(c, b)
      BY <1>1, <2>5 DEF TypeOK, PlacedInv, ApartInv
    <2>6. ASSUME NEW b \in blocks, Covers(b, u)
          PROVE  /\ b # NullBlock /\ First <= u
                 /\ LocOf(b.ptr) \in starts
                 /\ u # LocOf(b.ptr) => u \notin starts
      <3>1. b # NullBlock
        BY <2>0, <2>6, NullCovers
      <3>2. /\ b \in [ptr : Nat, len : Nat] /\ Placed(b)
            /\ First <= u /\ u # 0 /\ u # BitmapUnits
        BY <2>5, <2>6, <3>1, PlacedFacts, Layout, LayoutAssumption
           DEF Covers, First
      <3>3. ASSUME NEW c \in blocks \ {NullBlock}, u = LocOf(c.ptr)
            PROVE  u = LocOf(b.ptr)
        <4>1. /\ c \in [ptr : Nat, len : Nat] /\ Placed(c)
              /\ b = c \/ Apart(b, c) \/ Apart(c, b)
          BY <2>5, <3>1
        <4>2. QED
          BY <2>6, <3>2, <3>3, <4>1, PlacedFacts DEF Apart, Covers, EndOf
      <3>4. QED
        BY <3>1, <3>2, <3>3
    <2>7. u \in starts => \/ u = 0 \/ u = BitmapUnits
                          \/ \E b \in blocks : Covers(b, u) /\ u = LocOf(b.ptr)
      <3>1. ASSUME NEW b \in blocks \ {NullBlock}, u = LocOf(b.ptr)
            PROVE  Covers(b, u)
        BY <2>0, <2>5, <3>1, PlacedFacts DEF Covers, EndOf
      <3>2. QED
        BY <3>1
    <2>8. u = 0 \/ u = BitmapUnits => u < First
      BY LayoutAssumption DEF First
    <2>9. QED
      <3>1. snd[u] = 0 => fst[u] = 0 /\ u \notin starts
        <4>1. CASE u < First /\ u # 0 /\ u # BitmapUnits
          <5>1. ~ \E b \in blocks : Covers(b, u)
            BY <2>0, <2>6, <4>1, Layout
          <5>2. QED
            BY <2>4, <2>7, <4>1, <5>1
        <4>2. CASE \E b \in blocks : Covers(b, u) /\ u # LocOf(b.ptr)
          BY <2>4, <2>6, <4>2
        <4>3. QED
          BY <2>4, <4>1, <4>2
      <3>2. fst[u] = 0 /\ u \notin starts => snd[u] = 0
        BY <2>4, <2>6
      <3>3. QED
        BY <2>4, <3>1, <3>2
  <1>2. IInv => BitmapEncodesBlocks
    BY <1>1 DEF BitmapEncodesBlocks
  <1>3. QED
    BY <1>2, Invariance, PTL

\* dma_free never unmaps a page of the segment, which holds the bitmap.
THEOREM SegmentMapped == Spec => []SegmentStaysMapped
  <1>1. Init => SegmentStaysMapped
    BY DEF Init, SegmentStaysMapped
  <1>2. IInv /\ SegmentStaysMapped /\ [Next]_vars => SegmentStaysMapped'
    <2> SUFFICES ASSUME IInv, SegmentStaysMapped, [Next]_vars
                 PROVE  SegmentStaysMapped'
      OBVIOUS
    <2> USE DEF IInv
    <2>1. ASSUME NEW t \in Threads, FreeReturn(t) PROVE SegmentStaysMapped'
      <3>1. block[t] \in [ptr : Nat, len : Nat] /\ Placed(block[t])
        BY <2>1, BlockFacts DEF FreeReturn, TypeOK, Clearing
      <3>2. block[t].ptr \in Nat /\ Units <= block[t].ptr
        BY <3>1, PlacedFacts
      <3>3. \A k \in Nat : block[t].ptr + k * PageUnits >= Units
        BY <3>2, Layout
      <3>4. \A m : \A page \in {block[t].ptr + k * PageUnits : k \in 0 .. m} :
               page >= Units
        BY <3>3
      <3>5. QED
        BY <2>1, <3>4 DEF FreeReturn, Munmap, SegmentStaysMapped
    <2>2. ASSUME NEW t \in Threads, ~FreeReturn(t),
                 AllocCall(t) \/ FreeCall(t) \/ Waiting(t) \/ Locked(t)
          PROVE  unmapped' = unmapped
      BY <2>2 DEF Waiting, Locked, AllocLocked, FreeLocked, AllocCall,
         FreeCall, AllocTooLarge, AllocBegin, FreeNull, FreeBegin,
         ScanRunStarts, ScanMatches, ScanRunGoesOn, ScanRunEnds, ScanSkips,
         Advance, ScanFails, AllocReturnNull, MarkFst, MarkSnd, AllocReturn,
         FreeReturnNull, ClearFst, ClearSnd
    <2>3. CASE UNCHANGED vars
      BY <2>3 DEF vars, SegmentStaysMapped
    <2>4. QED
      BY <2>1, <2>2, <2>3 DEF Next, SegmentStaysMapped
  <1>3. QED
    BY <1>1, <1>2, Invariance, PTL DEF Spec

\* What a thread marks belongs to the block it carves, before and after the
\* match, and what it clears to the block it was given.
LEMMA WritesOwn ==
    ASSUME IInv, NEW t \in Threads,
           AllocCall(t) \/ FreeCall(t) \/ Waiting(t) \/ Locked(t),
           NEW u \in 0 .. LastUnit, fst'[u] # fst[u] \/ snd'[u] # snd[u],
           NEW b \in held
    PROVE  ~Covers(b, u)
  <1> USE DEF IInv
  <1>0. /\ b \in [ptr : Nat, len : Nat] /\ Placed(b)
        /\ LocOf(b.ptr) \in Int /\ EndOf(b) \in Int
    BY PlacedFacts DEF TypeOK, PlacedInv
  <1>1. CASE ScanMatches(t) \/ MarkFst(t) \/ MarkSnd(t)
    <2>1. u = IF ScanMatches(t) THEN start_idx[t] ELSE x[t]
      BY <1>1 DEF ScanMatches, Scanning, MarkFst, MarkSnd, TypeOK
    <2>2. CASE ScanMatches(t)
      <3>1. fst[u] = 1
        BY <2>1, <2>2 DEF ScanMatches, Scanning, ScanInv, LocalInv, Local,
                          TypeOK
      <3>2. QED
        BY <3>1 DEF BitmapInv
    <2>3. CASE ~ScanMatches(t)
      <3>1. pc[t] \in Marking /\ u = x[t] /\ x[t] < i[t] /\ start_idx[t] < x[t]
        BY <1>1, <2>1, <2>3 DEF MarkFst, MarkSnd, Marking, LocalInv, Local
      <3>2. /\ Apart(Carved(t), b)
            /\ LocOf(Carved(t).ptr) = start_idx[t] /\ EndOf(Carved(t)) = i[t]
        BY <3>1, CarvedFacts DEF CarveInv
      <3>3. QED
        BY <1>0, <3>1, <3>2 DEF Apart, Covers, EndOf, TypeOK
    <2>4. QED
      BY <2>2, <2>3
  <1>2. CASE FreeBegin(t) \/ ClearFst(t) \/ ClearSnd(t)
    <2>1. /\ block[t] \in [ptr : Nat, len : Nat] /\ Placed(block[t])
          /\ block[t] # NullBlock /\ Apart(block[t], b)
      BY <1>2, BlockFacts
         DEF FreeBegin, ClearFst, ClearSnd, Clearing, TypeOK, ApartInv
    <2>2. /\ LocOf(block[t].ptr) \in Nat /\ EndOf(block[t]) \in Nat
          /\ LocOf(block[t].ptr) < EndOf(block[t])
      BY <2>1, PlacedFacts
    <2>3. LocOf(block[t].ptr) <= u /\ u < EndOf(block[t])
      <3>1. CASE FreeBegin(t)
        BY <2>2, <3>1 DEF FreeBegin, TypeOK
      <3>2. CASE ClearFst(t)
        <4>1. u = i[t] /\ i[t] < EndOf(block[t]) /\ LocOf(block[t].ptr) < i[t]
          BY <3>2, ClearStops DEF ClearFst, TypeOK, LocalInv, Local, Clearing
        <4>2. QED
          BY <2>2, <4>1
      <3>3. CASE ClearSnd(t)
        <4>1. u = i[t] /\ i[t] < EndOf(block[t]) /\ LocOf(block[t].ptr) < i[t]
          BY <3>3 DEF ClearSnd, TypeOK, LocalInv, Local, Clearing
        <4>2. QED
          BY <2>2, <4>1
      <3>4. QED
        BY <1>2, <3>1, <3>2, <3>3
    <2>4. QED
      BY <1>0, <2>1, <2>2, <2>3 DEF Apart, Covers, EndOf
  <1>3. CASE fst' = fst /\ snd' = snd
    BY <1>3
  <1>4. QED
    BY <1>1, <1>2, <1>3 DEF Waiting, Locked, AllocLocked, FreeLocked, AllocCall,
       FreeCall, AllocTooLarge, AllocBegin, FreeNull, ScanRunStarts,
       ScanRunGoesOn, ScanRunEnds, ScanSkips, Advance, ScanFails,
       AllocReturnNull, AllocReturn, FreeReturnNull, FreeReturn, bitmap

\* No step writes the bitmap words of a block that stays with the
\* application, so a block cannot be freed or cut by a call for another one.
THEOREM HeldUntouched == Spec => HeldBlocksUntouched
  <1>1. IInv /\ [Next]_vars =>
            [\A b \in held \cap held' : \A u \in 0 .. LastUnit :
                Covers(b, u) => fst'[u] = fst[u] /\ snd'[u] = snd[u]]_vars
    BY WritesOwn DEF Next
  <1>2. QED
    BY <1>1, Invariance, PTL DEF Spec, HeldBlocksUntouched
=============================================================================
