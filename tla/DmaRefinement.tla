--------------------------- MODULE DmaRefinement ---------------------------
(***************************************************************************)
(* The allocator of Dma implements DmaHeap: dma_alloc and dma_free are     *)
(* atomic, first fit, and refuse only what does not fit.                   *)
(*                                                                         *)
(* IInv of DmaProofs does not say where the scan has been.  ScanSeen adds  *)
(* it: every start behind the scan has a unit in use too close for the     *)
(* request, and an open run is never longer than the request, so that the  *)
(* exact comparison of the scan is met at the first fit.                   *)
(***************************************************************************)
EXTENDS DmaProofs

\* A unit that the scan has passed keeps the request from starting at s.
Blocked(t, s) ==
    \E u \in s .. i[t] - 1 : 16 * (u - s) < AllocSize(size[t]) /\ fst[u] = 0

\* The starts that the scan of thread t has left behind are before this one.
Frontier(t) == IF isStarted[t] THEN start_idx[t] ELSE i[t]

ScanSeen(t) ==
    /\ ~TooLarge(size[t])
    /\ size[t] > 0 =>
         /\ isStarted[t] => 16 * (i[t] - start_idx[t]) <= AllocSize(size[t])
         /\ \A s \in First .. Frontier(t) - 1 : Blocked(t, s)

FirstFitInv == \A t \in Threads : pc[t] = "scan" => ScanSeen(t)
-----------------------------------------------------------------------------
(* Facts about the sizes and the bitmap. *)

\* A rounded size is a whole number of units.
LEMMA WholeUnits ==
    ASSUME NEW n \in Int
    PROVE  /\ AllocSize(n) \in Int /\ AllocSize(n) >= n
           /\ AllocSize(n) \div 16 \in Int
           /\ AllocSize(n) = 16 * (AllocSize(n) \div 16)
  BY DEF AllocSize

\* The geometry of the abstract heap is that of the detailed one.
LEMMA SameLayout ==
    /\ Heap!First = First /\ Heap!LastUnit = LastUnit /\ Heap!Null = Null
    /\ \A n : Heap!AllocSize(n) = AllocSize(n) /\ Heap!TooLarge(n) = TooLarge(n)
  BY DEF Heap!First, First, Heap!LastUnit, LastUnit, Heap!Null, Null,
         Heap!AllocSize, AllocSize, Heap!TooLarge, TooLarge, Heap!SegSize, SegSize

\* The scan runs with the lock: no other call touches the bitmap.
LEMMA ScanUndisturbed ==
    ASSUME IInv, NEW t \in Threads, NEW s \in Threads, s # t, pc[s] = "scan",
           AllocCall(t) \/ FreeCall(t) \/ Waiting(t) \/ Locked(t)
    PROVE  fst' = fst /\ snd' = snd
  <1> USE DEF IInv
  <1>1. lock = s /\ s # NoThread
    BY DmaAssumption DEF LockInv, Critical, PCs
  <1>2. ~Waiting(t)
    BY <1>1 DEF Waiting, AllocTooLarge, AllocBegin, FreeNull, FreeBegin, Acquire
  <1>3. pc[t] \notin Critical
    BY <1>1 DEF LockInv
  <1>4. ~Locked(t)
    BY <1>3 DEF Locked, AllocLocked, FreeLocked, ScanRunStarts, ScanMatches,
       ScanRunGoesOn, ScanRunEnds, ScanSkips, Scanning, ScanFails,
       AllocReturnNull, MarkFst, MarkSnd, AllocReturn, FreeReturnNull,
       ClearFst, ClearSnd, FreeReturn, Critical, PCs
  <1>5. QED
    BY <1>2, <1>4 DEF AllocCall, FreeCall, bitmap

\* While a thread scans, a word pair whose second word is 0 has a first word
\* that is 0: nobody is half way through clearing it.
LEMMA SecondWord ==
    ASSUME IInv, NEW t \in Threads, pc[t] = "scan",
           NEW u \in 0 .. LastUnit, snd[u] = 0
    PROVE  fst[u] = 0
  <1> USE DEF IInv
  <1>1. ASSUME NEW s \in Threads, SndZero(s, u) PROVE FstZero(s, u)
    <2>1. s # t
      BY <1>1 DEF SndZero, Marking, Clearing
    <2>2. pc[s] \notin Critical
      BY <2>1, Alone DEF Critical, PCs
    <2>3. QED
      BY <1>1, <2>2 DEF SndZero, FstZero, Marking, Clearing, Critical, PCs
  <1>2. QED
    BY <1>1 DEF BitmapInv

\* A scan that moves on past a unit in use, or past a run that this unit
\* ends, leaves nothing behind where the request fits.
LEMMA ScanSeenStep ==
    ASSUME IInv, NEW t \in Threads, pc[t] = "scan", ScanSeen(t),
           ScanRunStarts(t) \/ ScanRunGoesOn(t) \/ ScanRunEnds(t) \/ ScanSkips(t)
    PROVE  ScanSeen(t)'
  <1> USE DEF IInv
  <1>1. /\ i[t] \in 0 .. LastUnit /\ size[t] \in Int /\ start_idx[t] \in Int
        /\ isStarted[t] => First <= start_idx[t] /\ start_idx[t] < i[t]
        /\ AllocSize(size[t]) \in Int /\ AllocSize(size[t]) >= size[t]
        /\ First \in Int
    <2>1. First \in Int /\ LastUnit \in Int /\ Units \in Int /\ LastUnit = Units - 1
      BY Layout DEF LastUnit
    <2>2. Local(t)
      BY DEF LocalInv
    <2>3. /\ i[t] \in 0 .. Units /\ start_idx[t] \in 0 .. LastUnit
      BY DEF TypeOK
    <2>4. i[t] < Units
      BY DEF ScanRunStarts, ScanRunGoesOn, ScanRunEnds, ScanSkips, Scanning
    <2>5. isStarted[t] => First <= start_idx[t] /\ start_idx[t] < i[t]
      BY <2>2 DEF Local
    <2>6. /\ size[t] \in Int
          /\ AllocSize(size[t]) \in Int /\ AllocSize(size[t]) >= size[t]
      BY RequestFacts
    <2>7. QED
      BY <2>1, <2>3, <2>4, <2>5, <2>6
  <1>2. PICK k \in Int : AllocSize(size[t]) = 16 * k
    BY <1>1, WholeUnits
  <1>3. /\ size'[t] = size[t] /\ i'[t] = i[t] + 1 /\ fst' = fst
        /\ isStarted' \in [Threads -> BOOLEAN]
    BY DEF TypeOK, ScanRunStarts, ScanRunGoesOn, ScanRunEnds, ScanSkips, Advance,
           bitmap
  <1>4. ~TooLarge(size[t])'
    BY <1>3 DEF ScanSeen, TooLarge
  <1>5. ASSUME NEW s \in Int, Blocked(t, s)
        PROVE  Blocked(t, s)'
    BY <1>1, <1>3, <1>5 DEF Blocked, AllocSize
  <1>6. ASSUME NEW s \in Int, s <= i[t], 16 * (i[t] - s) < AllocSize(size[t]),
               fst[i[t]] = 0
        PROVE  Blocked(t, s)'
    BY <1>1, <1>3, <1>6 DEF Blocked, AllocSize
  <1>7. ASSUME size[t] > 0
        PROVE  /\ isStarted'[t] =>
                    16 * (i'[t] - start_idx'[t]) <= AllocSize(size[t])
               /\ \A s \in First .. Frontier(t)' - 1 : Blocked(t, s)'
    <2> USE DEF ScanSeen, Frontier
    <2>1. CASE ScanRunStarts(t)
      <3>1. isStarted'[t] = TRUE /\ start_idx'[t] = i[t] /\ ~isStarted[t]
        BY <2>1 DEF ScanRunStarts, TypeOK
      <3>2. QED
        BY <1>1, <1>2, <1>3, <1>5, <1>7, <3>1
    <2>2. CASE ScanRunGoesOn(t)
      <3>1. /\ isStarted'[t] /\ start_idx'[t] = start_idx[t] /\ isStarted[t]
            /\ 16 * (i[t] - start_idx[t]) # AllocSize(size[t])
        BY <2>2 DEF ScanRunGoesOn, Advance, RunFits
      <3>2. QED
        BY <1>1, <1>2, <1>3, <1>5, <1>7, <3>1
    <2>3. CASE ScanRunEnds(t)
      <3>1. /\ ~isStarted'[t] /\ isStarted[t] /\ fst[i[t]] = 0
            /\ 16 * (i[t] - start_idx[t]) # AllocSize(size[t])
        BY <2>3 DEF ScanRunEnds, RunFits, TypeOK
      <3>2. ASSUME NEW s \in First .. i[t] PROVE Blocked(t, s)'
        <4>1. CASE s < start_idx[t]
          BY <1>1, <1>5, <1>7, <3>1, <4>1
        <4>2. CASE s >= start_idx[t]
          BY <1>1, <1>6, <1>7, <3>1, <4>2
        <4>3. QED
          BY <1>1, <4>1, <4>2
      <3>3. QED
        BY <1>1, <1>3, <3>1, <3>2
    <2>4. CASE ScanSkips(t)
      <3>1. isStarted' = isStarted /\ start_idx' = start_idx
        BY <2>4 DEF ScanSkips, Advance
      <3>2. fst[i[t]] = 0 /\ ~isStarted[t]
        BY <1>1, <2>4, SecondWord, ScanMeetsHead DEF ScanSkips, Scanning
      <3>3. ASSUME NEW s \in First .. i[t] PROVE Blocked(t, s)'
        BY <1>1, <1>5, <1>6, <1>7, <3>2, <3>3
      <3>4. QED
        BY <1>1, <1>3, <3>1, <3>2, <3>3
    <2>5. QED
      BY <2>1, <2>2, <2>3, <2>4
  <1>8. AllocSize(size[t])' = AllocSize(size[t])
    BY <1>3 DEF AllocSize
  <1>9. QED
    BY <1>3, <1>4, <1>7, <1>8 DEF ScanSeen
\* The scan of every thread keeps what it has left behind: a step of another
\* thread neither moves the scan nor writes the bitmap.
LEMMA FirstFitStep ==
    ASSUME IInv, FirstFitInv, NEW t \in Threads,
           AllocCall(t) \/ FreeCall(t) \/ Waiting(t) \/ Locked(t)
    PROVE  FirstFitInv'
  <1> SUFFICES ASSUME NEW s \in Threads, pc'[s] = "scan" PROVE ScanSeen(s)'
    BY DEF FirstFitInv
  <1>1. CASE s # t
    <2>1. Frame(s)' = Frame(s)
      BY <1>1, OthersUnchanged DEF IInv
    <2>2. pc[s] = "scan" /\ fst' = fst
      BY <1>1, <2>1, ScanUndisturbed DEF Frame
    <2>3. QED
      BY <2>1, <2>2
         DEF FirstFitInv, ScanSeen, Frontier, Blocked, Frame, AllocSize, TooLarge
  <1>2. CASE s = t
    <2>1. CASE AllocBegin(t)
      <3>1. /\ size' = size /\ ~isStarted'[t] /\ i'[t] = 0 /\ ~TooLarge(size[t])
        BY <2>1 DEF AllocBegin, IInv, TypeOK
      <3>2. QED
        BY <1>2, <3>1, Layout DEF ScanSeen, Frontier, TooLarge
    <2>2. CASE pc[t] = "scan"
      <3>1. \/ ScanRunStarts(t) \/ ScanRunGoesOn(t) \/ ScanRunEnds(t)
            \/ ScanSkips(t)
        BY <1>2, <2>2 DEF AllocCall, FreeCall, Waiting, Locked, AllocLocked,
           FreeLocked, AllocTooLarge, AllocBegin, FreeNull, FreeBegin,
           ScanMatches, ScanFails, AllocReturnNull, MarkFst, MarkSnd,
           AllocReturn, FreeReturnNull, ClearFst, ClearSnd, FreeReturn, Goto,
           IInv, TypeOK
      <3>2. QED
        BY <1>2, <2>2, <3>1, ScanSeenStep DEF FirstFitInv
    <2>3. CASE ~AllocBegin(t) /\ pc[t] # "scan"
      <3>1. pc'[t] # "scan"
        BY <2>3 DEF AllocCall, FreeCall, Waiting, Locked, AllocLocked,
           FreeLocked, AllocTooLarge, FreeNull, FreeBegin, ScanRunStarts,
           ScanRunGoesOn, ScanRunEnds, ScanSkips, Scanning,
           ScanMatches, ScanFails, AllocReturnNull, MarkFst, MarkSnd,
           AllocReturn, FreeReturnNull, ClearFst, ClearSnd, FreeReturn,
           ReleaseAndReturn, Acquire, Goto, IInv, TypeOK
      <3>2. QED
        BY <1>2, <3>1
    <2>4. QED
      BY <2>1, <2>2, <2>3
  <1>3. QED
    BY <1>1, <1>2

\* IInv and FirstFitInv together are an invariant of the allocator.
THEOREM FirstFit == Spec => [](IInv /\ FirstFitInv)
  <1>1. Init => FirstFitInv
    BY DEF Init, FirstFitInv
  <1>2. IInv /\ FirstFitInv /\ [Next]_vars => FirstFitInv'
    <2>1. UNCHANGED vars /\ FirstFitInv => FirstFitInv'
      BY DEF vars, bitmap, frame, FirstFitInv, ScanSeen, Frontier, Blocked,
             AllocSize, TooLarge
    <2>2. QED
      BY <2>1, FirstFitStep DEF Next
  <1>3. QED
    BY <1>1, <1>2, Invariance, PTL DEF Spec
-----------------------------------------------------------------------------
(* The state of the abstract heap, as Dma maps it. *)

Op(t) ==
    [kind  |-> KindAt[pc[t]],
     size  |-> IF KindAt[pc[t]] = "asking" THEN size[t] ELSE 0,
     block |-> HeapBlock(Working(t))]

HeapOp == [t \in Threads |-> Op(t)]
Owned  == {HeapBlock(b) : b \in held}

\* A step of one thread changes the abstract state of no other thread.
LEMMA OpStep ==
    ASSUME IInv, NEW t \in Threads,
           AllocCall(t) \/ FreeCall(t) \/ Waiting(t) \/ Locked(t)
    PROVE  HeapOp' = [HeapOp EXCEPT ![t] = Op(t)']
  <1>1. ASSUME NEW s \in Threads, s # t PROVE Op(s)' = Op(s)
    BY <1>1, OthersUnchanged
       DEF Frame, Op, HeapBlock, Working, Carved, PtrOf, LocOf, IInv
  <1>2. QED
    BY <1>1 DEF HeapOp

\* The block of a thread on the heap's side: none while it only asks.
LEMMA WorkingBlock ==
    ASSUME IInv, NEW t \in Threads
    PROVE  /\ pc[t] \in {"idle", "alloc_lock", "scan", "alloc_null", "free_null"}
                 => block[t] = NullBlock /\ Working(t) = NullBlock
           /\ pc[t] \notin Marking => Working(t) = block[t]
           /\ pc[t] \in Marking => Working(t) = Carved(t)
  BY DEF IInv, PlacedInv, Working, Marking, Clearing

\* What HeapBlock makes of the null block and of a block in the area.
LEMMA HeapBlocks ==
    /\ HeapBlock(NullBlock) = [start |-> 0, len |-> 0]
    /\ \A b \in [ptr : Nat, len : Nat] :
          Placed(b) => HeapBlock(b) = [start |-> LocOf(b.ptr), len |-> b.len]
  <1>1. ASSUME NEW b \in [ptr : Nat, len : Nat], Placed(b)
        PROVE  HeapBlock(b) = [start |-> LocOf(b.ptr), len |-> b.len]
    BY <1>1, PlacedFacts DEF HeapBlock
  <1>2. QED
    BY <1>1 DEF HeapBlock, NullBlock, Null

\* While a thread scans, a unit of the allocation area is 0 in the bitmap
\* exactly when the abstract heap counts it as used.
LEMMA UsedUnits ==
    ASSUME IInv, NEW t \in Threads, pc[t] = "scan", NEW u \in First .. LastUnit
    PROVE  u \in Heap!Used <=> fst[u] = 0
  <1> USE DEF IInv
  <1>0. u \in 0 .. LastUnit /\ u \in Int /\ ~(u < First)
    BY Layout
  <1> DEFINE Units_(b) == b.start .. (b.start + b.len - 1)
  <1>1. u \in Heap!Used <=> \/ \E b \in held : u \in Units_(HeapBlock(b))
                           \/ \E s \in Threads : u \in Units_(HeapBlock(Working(s)))
    BY DEF Heap!Used
  <1>2. ASSUME NEW b \in [ptr : Nat, len : Nat], b = NullBlock \/ Placed(b)
        PROVE  u \in Units_(HeapBlock(b)) <=> Covers(b, u)
    <2>1. CASE b = NullBlock
      BY <1>0, <2>1, HeapBlocks, NullCovers
    <2>2. CASE Placed(b)
      BY <1>0, <2>2, HeapBlocks, PlacedFacts DEF Covers, EndOf
    <2>3. QED
      BY <1>2, <2>1, <2>2
  <1>3. ASSUME NEW b \in held
        PROVE  u \in Units_(HeapBlock(b)) <=> Covers(b, u)
    BY <1>2 DEF TypeOK, PlacedInv
  <1>4. ASSUME NEW s \in Threads
        PROVE  u \in Units_(HeapBlock(Working(s))) <=> FstZero(s, u)
    <2>1. u \in Units_(HeapBlock(Working(s))) <=> Covers(Working(s), u)
      BY <1>2, WorkingFacts
    <2>2. s = t \/ pc[s] \notin Critical
      BY Alone DEF Critical, PCs
    <2>3. Working(s) = block[s]
      BY <2>2, WorkingBlock DEF Marking, Critical, PCs
    <2>4. block[s] # NullBlock => pc[s] = "free_lock"
      BY <2>2 DEF PlacedInv, Clearing, Critical, PCs
    <2>5. FstZero(s, u) <=> Covers(block[s], u)
      BY <1>0, <2>2, <2>4, NullCovers DEF FstZero, Critical, PCs
    <2>6. QED
      BY <2>1, <2>3, <2>5
  <1>5. QED
    BY <1>0, <1>1, <1>3, <1>4 DEF BitmapInv

\* What it is for a request to fit at s, in the terms of the bitmap.
LEMMA FitsFacts ==
    ASSUME IInv, NEW t \in Threads, pc[t] = "scan", NEW s
    PROVE  s \in Heap!Fits(size[t]) <=>
             /\ ~TooLarge(size[t]) /\ size[t] # 0
             /\ s \in First .. LastUnit
             /\ 16 * s + AllocSize(size[t]) <= 16 * LastUnit
             /\ \A u \in s .. LastUnit :
                   16 * (u - s) < AllocSize(size[t]) => fst[u] # 0
  <1>1. ASSUME s \in First .. LastUnit, NEW u \in s .. LastUnit
        PROVE  u \notin Heap!Used <=> fst[u] # 0
    BY <1>1, UsedUnits, Layout
  <1>2. s \in Heap!Fits(size[t]) <=>
          /\ ~TooLarge(size[t]) /\ size[t] # 0
          /\ s \in First .. LastUnit
          /\ 16 * s + AllocSize(size[t]) <= 16 * LastUnit
          /\ \A u \in s .. LastUnit :
                16 * (u - s) < AllocSize(size[t]) => u \notin Heap!Used
    BY SameLayout DEF Heap!Fits
  <1>3. QED
    BY <1>1, <1>2

\* A request fits nowhere behind the scan.
LEMMA NothingBehind ==
    ASSUME IInv, FirstFitInv, NEW t \in Threads, pc[t] = "scan",
           NEW s \in Heap!Fits(size[t])
    PROVE  /\ s \in First .. LastUnit /\ Frontier(t) <= s
           /\ size[t] > 0 /\ 16 * s + AllocSize(size[t]) <= 16 * LastUnit
  <1>1. /\ i[t] \in 0 .. Units /\ start_idx[t] \in Int /\ size[t] \in Int
        /\ isStarted[t] => start_idx[t] < i[t]
        /\ AllocSize(size[t]) \in Int
        /\ First \in Int /\ LastUnit = Units - 1 /\ Units \in Int
    <2>1. TypeOK /\ LocalInv
      BY DEF IInv
    <2>2. First \in Int /\ LastUnit \in Int /\ LastUnit = Units - 1 /\ Units \in Int
      BY Layout
    <2>3. i[t] \in 0 .. Units /\ start_idx[t] \in 0 .. LastUnit
      BY <2>1 DEF TypeOK
    <2>4. start_idx[t] \in Int
      BY <2>3
    <2>5. isStarted[t] => start_idx[t] < i[t]
      BY <2>1 DEF LocalInv, Local
    <2>6. size[t] \in Int /\ AllocSize(size[t]) \in Int
      BY <2>1, RequestFacts
    <2>7. QED
      BY <2>2, <2>3, <2>4, <2>5, <2>6
  <1>2. /\ ~TooLarge(size[t]) /\ size[t] # 0
        /\ s \in First .. LastUnit
        /\ 16 * s + AllocSize(size[t]) <= 16 * LastUnit
        /\ \A u \in s .. LastUnit :
              16 * (u - s) < AllocSize(size[t]) => fst[u] # 0
    BY FitsFacts
  <1>3. size[t] > 0
    BY <1>1, <1>2 DEF TooLarge
  <1>4. ASSUME s < Frontier(t) PROVE FALSE
    <2>1. s \in First .. Frontier(t) - 1
      BY <1>1, <1>2, <1>4 DEF Frontier
    <2>2. Blocked(t, s)
      BY <1>3, <2>1 DEF FirstFitInv, ScanSeen
    <2>3. PICK u \in s .. i[t] - 1 :
             16 * (u - s) < AllocSize(size[t]) /\ fst[u] = 0
      BY <2>2 DEF Blocked
    <2>4. u \in s .. LastUnit
      BY <1>1, <1>2, <2>3
    <2>5. QED
      BY <1>2, <2>3, <2>4
  <1>5. Frontier(t) \in Int
    BY <1>1 DEF Frontier
  <1>6. QED
    BY <1>2, <1>3, <1>4, <1>5, <1>1

\* When the scan matches, the request fits at the start of the run.
LEMMA MatchFits ==
    ASSUME IInv, FirstFitInv, NEW t \in Threads, ScanMatches(t)
    PROVE  /\ start_idx[t] \in Heap!Fits(size[t])
           /\ \A r \in Heap!Fits(size[t]) : start_idx[t] <= r
           /\ i[t] - start_idx[t] = AllocSize(size[t]) \div 16
  <1>1. /\ pc[t] = "scan" /\ isStarted[t]
        /\ 16 * (i[t] - start_idx[t]) = AllocSize(size[t])
    BY DEF ScanMatches, Scanning, RunFits
  <1>2. /\ i[t] \in 0 .. LastUnit /\ start_idx[t] \in Int /\ size[t] \in Int
        /\ First <= start_idx[t] /\ start_idx[t] < i[t]
        /\ First \in Int /\ LastUnit \in Int
    <2>1. First \in Int /\ LastUnit \in Int /\ Units \in Int /\ LastUnit = Units - 1
      BY Layout DEF LastUnit
    <2>2. TypeOK /\ Local(t)
      BY DEF IInv, LocalInv
    <2>3. size[t] \in Int
      BY <2>2, RequestFacts
    <2>4. /\ i[t] \in 0 .. Units /\ start_idx[t] \in 0 .. LastUnit
      BY <2>2 DEF TypeOK
    <2>5. i[t] < Units
      BY DEF ScanMatches, Scanning
    <2>6. First <= start_idx[t] /\ start_idx[t] < i[t]
      BY <1>1, <2>2 DEF Local
    <2>7. QED
      BY <2>1, <2>3, <2>4, <2>5, <2>6
  <1>3. \A u \in start_idx[t] .. (i[t] - 1) : fst[u] = 1
    BY <1>1 DEF IInv, ScanInv
  <1>4. ~TooLarge(size[t]) /\ size[t] # 0
    BY <1>1, <1>2 DEF FirstFitInv, ScanSeen, AllocSize
  <1>5. start_idx[t] \in Heap!Fits(size[t])
    <2>1. ASSUME NEW u \in start_idx[t] .. LastUnit,
                 16 * (u - start_idx[t]) < AllocSize(size[t])
          PROVE  fst[u] # 0
      BY <1>1, <1>2, <1>3, <2>1
    <2>2. 16 * start_idx[t] + AllocSize(size[t]) <= 16 * LastUnit
      BY <1>1, <1>2
    <2>3. QED
      BY <1>1, <1>2, <1>4, <2>1, <2>2, FitsFacts
  <1>6. ASSUME NEW r \in Heap!Fits(size[t]) PROVE start_idx[t] <= r
    BY <1>1, NothingBehind DEF Frontier
  <1>7. i[t] - start_idx[t] = AllocSize(size[t]) \div 16
    BY <1>1, <1>2
  <1>8. QED
    BY <1>5, <1>6, <1>7

\* When the scan comes to the end of the bitmap, the request fits nowhere.
LEMMA FailFits ==
    ASSUME IInv, FirstFitInv, NEW t \in Threads, ScanFails(t)
    PROVE  Heap!Fits(size[t]) = {}
  <1> SUFFICES ASSUME NEW s \in Heap!Fits(size[t]) PROVE FALSE
    OBVIOUS
  <1>1. /\ pc[t] = "scan" /\ i[t] = Units
        /\ start_idx[t] \in Int /\ AllocSize(size[t]) \in Int
        /\ isStarted[t] => start_idx[t] < i[t]
        /\ LastUnit = Units - 1 /\ Units \in Int /\ First \in Int
    BY RequestFacts, Layout DEF ScanFails, IInv, TypeOK, LocalInv, Local
  <1>2. /\ s \in First .. LastUnit /\ Frontier(t) <= s
        /\ size[t] > 0 /\ 16 * s + AllocSize(size[t]) <= 16 * LastUnit
    BY <1>1, NothingBehind
  <1>3. isStarted[t] => 16 * (i[t] - start_idx[t]) <= AllocSize(size[t])
    BY <1>1, <1>2 DEF FirstFitInv, ScanSeen
  <1>4. QED
    BY <1>1, <1>2, <1>3 DEF Frontier
-----------------------------------------------------------------------------
(* Every step of the allocator is a step of the heap or leaves it alone. *)

\* A step that leaves the thread's own abstract state and the blocks of the
\* application alone is a stuttering step of the heap.
LEMMA Stutter ==
    ASSUME IInv, NEW t \in Threads,
           AllocCall(t) \/ FreeCall(t) \/ Waiting(t) \/ Locked(t),
           held' = held, Op(t)' = Op(t)
    PROVE  UNCHANGED Heap!vars
  <1>1. HeapOp' = HeapOp
    BY OpStep DEF HeapOp
  <1>2. Owned' = Owned
    BY DEF Owned
  <1>3. QED
    BY <1>1, <1>2 DEF Heap!vars, HeapOp, Owned, Op

\* Giving a thread the first place where its request fits is a Grant.
LEMMA GrantStep ==
    ASSUME NEW t \in Threads, Op(t).kind = "asking", held' = held,
           NEW s \in Heap!Fits(Op(t).size),
           \A r \in Heap!Fits(Op(t).size) : s <= r,
           HeapOp' = [HeapOp EXCEPT ![t] =
                        Heap!Granted([start |-> s,
                                      len |-> Heap!AllocSize(Op(t).size) \div 16])]
    PROVE  Heap!Grant(t)
  <1>1. HeapOp[t] = Op(t)
    BY DEF HeapOp
  <1>2. Owned' = Owned
    BY DEF Owned
  <1>3. HeapOp[t].kind = "asking" /\ HeapOp[t].size = Op(t).size
    BY <1>1
  <1>4. /\ HeapOp[t].kind = "asking"
        /\ \E q \in Heap!Fits(HeapOp[t].size) :
              /\ \A r \in Heap!Fits(HeapOp[t].size) : q <= r
              /\ HeapOp' = [HeapOp EXCEPT ![t] =
                     Heap!Granted([start |-> q,
                         len |-> Heap!AllocSize(HeapOp[t].size) \div 16])]
        /\ UNCHANGED Owned
    BY <1>2, <1>3
  <1>5. QED
    BY <1>4 DEF Heap!Grant, HeapOp, Op, Owned

\* dma_alloc: the call, and the steps that take the lock.
LEMMA CallImplements ==
    ASSUME IInv, NEW t \in Threads,
           AllocCall(t) \/ AllocTooLarge(t) \/ AllocBegin(t)
    PROVE  [Heap!Next]_Heap!vars
  <1> USE DEF IInv
  <1>0. /\ HeapOp' = [HeapOp EXCEPT ![t] = Op(t)']
        /\ HeapOp[t] = Op(t) /\ held' = held
        /\ Working(t) = NullBlock
    BY OpStep, WorkingBlock
       DEF Waiting, HeapOp, AllocCall, AllocTooLarge, AllocBegin
  <1>1. Working(t)' = NullBlock
    BY <1>0, WorkingBlock DEF AllocCall, AllocTooLarge, AllocBegin, Acquire, Goto,
       TypeOK, Working, Carved, frame
  <1>2. CASE AllocCall(t)
    <2>1. PICK n \in Requests : size' = [size EXCEPT ![t] = n]
      BY <1>2 DEF AllocCall
    <2>2. Op(t) = Heap!Idle /\ Op(t)' = Heap!Asking(n)
      BY <1>0, <1>1, <1>2, <2>1, HeapBlocks
         DEF AllocCall, Goto, TypeOK, Op, KindAt, Heap!Idle, Heap!Asking,
             Heap!NoBlock, Heap!Null
    <2>3. Heap!Call(t)
      BY <1>0, <2>2 DEF Heap!Call, HeapOp, Op
    <2>4. QED
      BY <2>3 DEF Heap!Next
  <1>3. CASE AllocTooLarge(t)
    <2>1. /\ Op(t).kind = "asking" /\ Op(t).size = size[t]
          /\ Op(t)' = Heap!Refused
      BY <1>0, <1>1, <1>3, HeapBlocks
         DEF AllocTooLarge, Acquire, Goto, TypeOK, Op, KindAt, Heap!Refused,
             Heap!NoBlock, Heap!Null
    <2>2. Heap!Fits(size[t]) = {}
      BY <1>3, SameLayout DEF AllocTooLarge, Heap!Fits
    <2>3. Heap!Refuse(t)
      BY <1>0, <2>1, <2>2 DEF Heap!Refuse, HeapOp, Op
    <2>4. QED
      BY <2>3 DEF Heap!Next
  <1>4. CASE AllocBegin(t)
    <2>1. Op(t)' = Op(t)
      BY <1>0, <1>1, <1>4 DEF AllocBegin, Acquire, Goto, TypeOK, Op, KindAt
    <2>2. QED
      BY <1>0, <1>4, <2>1, Stutter DEF Waiting
  <1>5. QED
    BY <1>2, <1>3, <1>4

\* dma_alloc: the steps that hold the lock.
LEMMA AllocImplements ==
    ASSUME IInv, FirstFitInv, NEW t \in Threads, AllocLocked(t)
    PROVE  [Heap!Next]_Heap!vars
  <1> USE DEF IInv
  <1>0. /\ HeapOp' = [HeapOp EXCEPT ![t] = Op(t)']
        /\ HeapOp[t] = Op(t)
    BY OpStep DEF Locked, HeapOp
  <1>1. CASE ScanMatches(t)
    <2>1. /\ pc[t] = "scan" /\ pc'[t] = "mark_fst" /\ held' = held
          /\ start_idx' = start_idx /\ i' = i /\ start_idx[t] \in Int
          /\ First <= start_idx[t]
      BY <1>1, Layout
         DEF ScanMatches, Scanning, Goto, TypeOK, LocalInv, Local
    <2>2. Op(t)' = Heap!Granted([start |-> start_idx[t],
                                len   |-> AllocSize(size[t]) \div 16])
      BY <1>1, <2>1, MatchFits, Pointers, Layout
         DEF Op, KindAt, HeapBlock, Working, Carved, Heap!Granted
    <2>3. Op(t).kind = "asking" /\ Op(t).size = size[t]
      BY <2>1 DEF Op, KindAt
    <2>4. Heap!Grant(t)
      BY <1>0, <1>1, <2>1, <2>2, <2>3, MatchFits, SameLayout, GrantStep
    <2>5. QED
      BY <2>4 DEF Heap!Next
  <1>2. CASE ScanFails(t)
    <2>1. /\ pc[t] = "scan" /\ pc'[t] = "alloc_null" /\ held' = held
          /\ block' = block
      BY <1>2 DEF ScanFails, Goto, TypeOK, frame
    <2>2. /\ Op(t).kind = "asking" /\ Op(t).size = size[t]
          /\ Op(t)' = Heap!Refused
      BY <2>1, HeapBlocks, WorkingBlock
         DEF Op, KindAt, Working, Heap!Refused, Heap!NoBlock, Heap!Null
    <2>3. Heap!Refuse(t)
      BY <1>0, <1>2, <2>1, <2>2, FailFits DEF Heap!Refuse, HeapOp, Op
    <2>4. QED
      BY <2>3 DEF Heap!Next
  <1>3. CASE AllocReturnNull(t)
    <2>1. /\ pc[t] = "alloc_null" /\ pc'[t] = "idle" /\ held' = held
          /\ block'[t] = NullBlock
      BY <1>3 DEF AllocReturnNull, ReleaseAndReturn, Goto, TypeOK
    <2>2. Op(t).kind = "refused" /\ Op(t)' = Heap!Idle
      BY <2>1, HeapBlocks
         DEF Op, KindAt, Working, Heap!Idle, Heap!NoBlock, Heap!Null
    <2>3. Heap!Return(t)
      BY <1>0, <2>1, <2>2 DEF Heap!Return, HeapOp, Op
    <2>4. QED
      BY <2>3 DEF Heap!Next
  <1>4. CASE AllocReturn(t)
    <2>1. /\ pc[t] = "mark_fst" /\ pc'[t] = "idle"
          /\ held' = held \cup {Carved(t)} /\ block'[t] = NullBlock
      BY <1>4 DEF AllocReturn, ReleaseAndReturn, Goto, TypeOK
    <2>2. /\ Op(t).kind = "granted" /\ Op(t)' = Heap!Idle
          /\ Op(t).block = HeapBlock(Carved(t))
      BY <2>1, HeapBlocks
         DEF Op, KindAt, Working, Heap!Idle, Heap!NoBlock, Heap!Null
    <2>3. Owned' = Owned \cup {Op(t).block}
      BY <2>1, <2>2 DEF Owned, HeapBlock, LocOf, AllocStart, Null
    <2>4. Heap!Return(t)
      BY <1>0, <2>2, <2>3 DEF Heap!Return, HeapOp, Op, Owned
    <2>5. QED
      BY <2>4 DEF Heap!Next
  <1>5. CASE \/ ScanRunStarts(t) \/ ScanRunGoesOn(t) \/ ScanRunEnds(t)
             \/ ScanSkips(t)
    <2>1. /\ pc[t] = "scan" /\ pc' = pc /\ held' = held /\ size' = size
          /\ block' = block
      BY <1>5 DEF ScanRunStarts, ScanRunGoesOn, ScanRunEnds, ScanSkips,
                  Scanning, Advance
    <2>2. QED
      BY <1>5, <2>1, Stutter DEF Op, Working, Locked, AllocLocked
  <1>6. CASE MarkFst(t) \/ MarkSnd(t)
    <2>1. /\ pc[t] \in Marking /\ pc'[t] \in Marking /\ held' = held
          /\ start_idx' = start_idx /\ i' = i
      BY <1>6 DEF MarkFst, MarkSnd, Marking, Goto, TypeOK, frame
    <2>2. Op(t)' = Op(t)
      BY <2>1 DEF Op, KindAt, HeapBlock, Working, Carved, PtrOf, LocOf, Marking
    <2>3. QED
      BY <1>6, <2>1, <2>2, Stutter DEF Locked, AllocLocked
  <1>7. QED
    BY <1>1, <1>2, <1>3, <1>4, <1>5, <1>6 DEF AllocLocked

\* dma_free.
LEMMA FreeImplements ==
    ASSUME IInv, NEW t \in Threads,
           FreeCall(t) \/ FreeNull(t) \/ FreeBegin(t) \/ FreeLocked(t)
    PROVE  [Heap!Next]_Heap!vars
  <1> USE DEF IInv
  <1>0. /\ HeapOp' = [HeapOp EXCEPT ![t] = Op(t)']
        /\ HeapOp[t] = Op(t)
    BY OpStep DEF Locked, Waiting, HeapOp
  <1>1. CASE FreeCall(t)
    <2>1. PICK b \in held \cup {NullBlock} :
             held' = held \ {b} /\ block' = [block EXCEPT ![t] = b]
      BY <1>1 DEF FreeCall
    <2>2. pc[t] = "idle" /\ pc'[t] = "free_lock" /\ block'[t] = b
      BY <1>1, <2>1 DEF FreeCall, Goto, TypeOK
    <2>3. Op(t) = Heap!Idle /\ Op(t)' = Heap!Freeing(HeapBlock(b))
      BY <2>2, HeapBlocks, WorkingBlock
         DEF Op, KindAt, Working, Heap!Idle, Heap!Freeing, Heap!NoBlock, Heap!Null
    <2>4. HeapBlock(b) \in Owned \cup {Heap!NoBlock}
      BY HeapBlocks DEF Owned, Heap!NoBlock, Heap!Null
    <2>5. Owned' = Owned \ {HeapBlock(b)}
      <3>1. ASSUME NEW c \in held, HeapBlock(c) = HeapBlock(b) PROVE c = b
        <4>1. /\ c \in [ptr : Nat, len : Nat] /\ Placed(c)
              /\ b \in [ptr : Nat, len : Nat] /\ (b = NullBlock \/ Placed(b))
          BY NullBlockType DEF TypeOK, PlacedInv
        <4>2. Placed(b)
          BY <3>1, <4>1, HeapBlocks, PlacedFacts, Layout
        <4>3. LocOf(c.ptr) = LocOf(b.ptr) /\ c.len = b.len
          BY <3>1, <4>1, <4>2, HeapBlocks
        <4>4. c.ptr = b.ptr
          BY <4>1, <4>3, Layout DEF LocOf
        <4>5. QED
          BY <4>1, <4>3, <4>4
      <3>2. Owned' = {HeapBlock(c) : c \in held \ {b}}
        BY <2>1 DEF Owned, HeapBlock, LocOf, AllocStart, Null
      <3>3. QED
        BY <3>1, <3>2 DEF Owned
    <2>6. Heap!Release(t)
      BY <1>0, <2>3, <2>4, <2>5 DEF Heap!Release, HeapOp, Op, Owned
    <2>7. QED
      BY <2>6 DEF Heap!Next
  <1>2. CASE FreeReturnNull(t) \/ FreeReturn(t)
    <2>1. /\ pc[t] \in {"free_null", "clear_fst"} /\ pc'[t] = "idle"
          /\ held' = held /\ block'[t] = NullBlock
      BY <1>2 DEF FreeReturnNull, FreeReturn, ReleaseAndReturn, Goto, TypeOK
    <2>2. Op(t).kind = "freeing" /\ Op(t)' = Heap!Idle
      BY <2>1, HeapBlocks
         DEF Op, KindAt, Working, Heap!Idle, Heap!NoBlock, Heap!Null
    <2>3. Heap!Reclaim(t)
      BY <1>0, <2>1, <2>2 DEF Heap!Reclaim, HeapOp, Op
    <2>4. QED
      BY <2>3 DEF Heap!Next
  <1>3. CASE FreeNull(t) \/ FreeBegin(t) \/ ClearFst(t) \/ ClearSnd(t)
    <2>1. /\ pc[t] \in {"free_lock", "clear_fst", "clear_snd"}
          /\ pc'[t] \in {"free_null", "clear_fst", "clear_snd"}
          /\ held' = held /\ block' = block
      BY <1>3 DEF FreeNull, FreeBegin, ClearFst, ClearSnd, Acquire, Goto, TypeOK,
                  frame
    <2>2. Op(t)' = Op(t)
      BY <2>1 DEF Op, KindAt, HeapBlock, Working, LocOf
    <2>3. QED
      BY <1>3, <2>1, <2>2, Stutter DEF Waiting, Locked, FreeLocked
  <1>4. QED
    BY <1>1, <1>2, <1>3 DEF FreeLocked

\* dma_init leaves the heap empty.
LEMMA InitImplements == Init => Heap!Init
  <1> SUFFICES ASSUME Init PROVE Heap!Init
    OBVIOUS
  <1>1. \A t \in Threads : Op(t) = Heap!Idle
    BY HeapBlocks DEF Init, Op, KindAt, Working, Heap!Idle, Heap!NoBlock, Heap!Null
  <1>2. Owned = {}
    BY DEF Init, Owned
  <1>3. QED
    BY <1>1, <1>2 DEF Heap!Init, Op, Owned

\* dma_alloc and dma_free behave as if they were atomic: an allocation gets
\* the first place where the rounded request fits, NULL comes back only when
\* there is none, and every deallocation gives back exactly its block, however
\* the calls of any number of threads overlap.
THEOREM Implementation == Spec => HeapSpec
  <1>1. IInv /\ FirstFitInv /\ [Next]_vars => [Heap!Next]_Heap!vars
    <2>1. ASSUME IInv, FirstFitInv, NEW t \in Threads,
                 AllocCall(t) \/ FreeCall(t) \/ Waiting(t) \/ Locked(t)
          PROVE  [Heap!Next]_Heap!vars
      BY <2>1, CallImplements, AllocImplements, FreeImplements
         DEF Waiting, Locked
    <2>2. ASSUME UNCHANGED vars PROVE UNCHANGED Heap!vars
      BY <2>2 DEF vars, bitmap, frame, Heap!vars, HeapBlock, Working, Carved,
                  PtrOf, LocOf, AllocStart, Null, NullBlock, KindAt
    <2>3. QED
      BY <2>1, <2>2 DEF Next
  <1>2. QED
    BY <1>1, InitImplements, FirstFit, PTL DEF Spec, HeapSpec, Heap!Spec
=============================================================================
