--------------------------- MODULE DmaPrintProofs ---------------------------
(***************************************************************************)
(* Proofs about dma_print_blocks next to any number of threads that        *)
(* allocate and free, for every geometry of DmaLayout.                     *)
(*                                                                         *)
(* While a report is not disturbed nobody marks or clears (NoWriter), so   *)
(* that the bitmap and the set Allocated are those of one moment.  There   *)
(* the bitmap encodes Allocated (Encoded), and the report is right about   *)
(* every unit in front of the one that is read next (ReportInv).           *)
(***************************************************************************)
EXTENDS DmaPrint, DmaProofs, DataInduction

\* Nobody is where dma_alloc marks a block or dma_free clears one.
NoWriter == \A t \in Threads : pc[t] \notin Marking \cup Clearing

\* The printing thread is inside dma_print_blocks.
Reporting == at \in {"read_fst", "read_snd", "printed"}

\* The unit after an allocated block.
End(a) == a.start + a.len

\* A unit of an allocated block other than its first one.
Inside(a, u) == a.start < u /\ u < End(a)

\* The bitmap tells the first units of the allocated blocks, their other units
\* and the free ones apart.
Encoded ==
    /\ \A a \in Allocated :
          a.start \in Nat /\ a.len \in Nat /\ a.len >= 1 /\ End(a) <= LastUnit
    /\ \A a, c \in Allocated : a = c \/ End(a) <= c.start \/ End(c) <= a.start
    /\ \A u \in 0 .. LastUnit :
          /\ snd[u] = 0 <=> \E a \in Allocated : Inside(a, u)
          /\ fst[u] = 0 <=> \E a \in Allocated : a.start <= u /\ u < End(a)
    /\ \E a \in Allocated : a.start = 0
-----------------------------------------------------------------------------
(* What the bitmap encodes *)

\* The heap block of a placed block begins and ends where that does.
LEMMA HeapBlockFacts ==
    ASSUME NEW b \in [ptr : Nat, len : Nat], Placed(b)
    PROVE  /\ HeapBlock(b).start = LocOf(b.ptr) /\ HeapBlock(b).start \in Nat
           /\ HeapBlock(b).len \in Nat /\ HeapBlock(b).len >= 1
           /\ End(HeapBlock(b)) = EndOf(b) /\ End(HeapBlock(b)) <= LastUnit
           /\ First <= HeapBlock(b).start
           /\ HeapBlock(b) \in [start : Nat, len : Nat]
  BY PlacedFacts DEF HeapBlock, End, EndOf, Placed

\* The blocks that the application holds or is about to free.
Outstanding == (held \cup {block[t] : t \in Threads}) \ {NullBlock}

\* The two blocks that dma_init sets aside.
BitmapBlock   == [start |-> 0, len |-> BitmapUnits]
ReservedBlock == [start |-> BitmapUnits, len |-> ReservedUnits]

\* Their place and size.
LEMMA SystemBlocks ==
    /\ BitmapBlock.start = 0 /\ BitmapBlock.len = BitmapUnits
    /\ End(BitmapBlock) = BitmapUnits
    /\ ReservedBlock.start = BitmapUnits /\ ReservedBlock.len = ReservedUnits
    /\ End(ReservedBlock) = First
    /\ BitmapUnits \in Nat /\ BitmapUnits >= 1
    /\ ReservedUnits \in Nat /\ ReservedUnits >= 1
  BY Layout DEF BitmapBlock, ReservedBlock, End, First

\* Allocated consists of these and of the outstanding blocks.
LEMMA AllocatedIs ==
    ASSUME IInv
    PROVE  Allocated =
             {BitmapBlock, ReservedBlock} \cup {HeapBlock(b) : b \in Outstanding}
  <1>1. NullBlock \notin held
    BY DEF IInv, PlacedInv, Placed, NullBlock
  <1>2. QED
    BY <1>1 DEF Allocated, Outstanding, BitmapBlock, ReservedBlock

\* Outstanding blocks are placed and apart.
LEMMA OutstandingFacts ==
    ASSUME IInv
    PROVE  /\ \A b \in Outstanding : b \in [ptr : Nat, len : Nat] /\ Placed(b)
           /\ \A b, c \in Outstanding : b = c \/ Apart(b, c) \/ Apart(c, b)
  <1> USE DEF IInv
  <1>1. ASSUME NEW b \in Outstanding
        PROVE  b \in [ptr : Nat, len : Nat] /\ Placed(b)
    BY DEF Outstanding, TypeOK, PlacedInv
  <1>2. ASSUME NEW b \in Outstanding, NEW c \in Outstanding
        PROVE  b = c \/ Apart(b, c) \/ Apart(c, b)
    BY DEF Outstanding, ApartInv
  <1>3. QED
    BY <1>1, <1>2

\* Without a writer every word is 0 for a system block or an outstanding one.
LEMMA QuietBitmap ==
    ASSUME IInv, NoWriter, NEW u \in 0 .. LastUnit
    PROVE  /\ fst[u] = 0 <=> u < First \/ \E b \in Outstanding : Covers(b, u)
           /\ snd[u] = 0 <=> \/ u < First /\ u # 0 /\ u # BitmapUnits
                             \/ \E b \in Outstanding : Covers(b, u) /\ u # LocOf(b.ptr)
  <1> USE DEF IInv
  <1>0. u \in Int
    OBVIOUS
  <1>1. ASSUME NEW t \in Threads
        PROVE  /\ FstZero(t, u) <=> block[t] # NullBlock /\ Covers(block[t], u)
               /\ SndZero(t, u) <=> /\ block[t] # NullBlock /\ Covers(block[t], u)
                                    /\ u # LocOf(block[t].ptr)
    <2>1. pc[t] \notin Marking \cup Clearing
      BY DEF NoWriter
    <2>2. block[t] # NullBlock => pc[t] = "free_lock"
      BY <2>1 DEF PlacedInv
    <2>3. QED
      BY <1>0, <2>1, <2>2, NullCovers DEF FstZero, SndZero, Marking, Clearing
  <1>2. ASSUME NEW b \in held PROVE b # NullBlock
    BY DEF PlacedInv, Placed, NullBlock
  <1>3. /\ fst[u] = 0 <=> \/ u < First
                          \/ \E b \in held : Covers(b, u)
                          \/ \E t \in Threads : FstZero(t, u)
        /\ snd[u] = 0 <=> \/ u < First /\ u # 0 /\ u # BitmapUnits
                          \/ \E b \in held : Covers(b, u) /\ u # LocOf(b.ptr)
                          \/ \E t \in Threads : SndZero(t, u)
    BY DEF BitmapInv
  <1>4. QED
    BY <1>1, <1>2, <1>3 DEF Outstanding

\* A unit is covered by an outstanding block exactly when it is by its heap block.
LEMMA HeapBlockCovers ==
    ASSUME IInv, NEW b \in Outstanding, NEW u \in Int
    PROVE  /\ Covers(b, u) <=> HeapBlock(b).start <= u /\ u < End(HeapBlock(b))
           /\ Covers(b, u) /\ u # LocOf(b.ptr) <=> Inside(HeapBlock(b), u)
  <1>1. b \in [ptr : Nat, len : Nat] /\ Placed(b)
    BY OutstandingFacts
  <1>2. QED
    BY <1>1, HeapBlockFacts DEF Covers, EndOf, Inside

\* While nobody writes, the bitmap encodes the allocated blocks.
LEMMA QuietEncodes ==
    ASSUME IInv, NoWriter
    PROVE  Encoded
  <1>1. ASSUME NEW a \in Allocated
        PROVE  a.start \in Nat /\ a.len \in Nat /\ a.len >= 1 /\ End(a) <= LastUnit
    <2>1. CASE a \in {BitmapBlock, ReservedBlock}
      BY <2>1, SystemBlocks, Layout DEF First
    <2>2. ASSUME NEW b \in Outstanding, a = HeapBlock(b)
          PROVE  a.start \in Nat /\ a.len \in Nat /\ a.len >= 1 /\ End(a) <= LastUnit
      BY <2>2, OutstandingFacts, HeapBlockFacts
    <2>3. QED
      BY <2>1, <2>2, AllocatedIs
  <1>2. ASSUME NEW a \in Allocated, NEW c \in Allocated
        PROVE  a = c \/ End(a) <= c.start \/ End(c) <= a.start
    <2>1. ASSUME NEW b \in Outstanding
          PROVE  First <= HeapBlock(b).start /\ HeapBlock(b).start \in Nat
      BY OutstandingFacts, HeapBlockFacts
    <2>2. ASSUME NEW b \in Outstanding, NEW d \in Outstanding
          PROVE  \/ HeapBlock(b) = HeapBlock(d)
                 \/ End(HeapBlock(b)) <= HeapBlock(d).start
                 \/ End(HeapBlock(d)) <= HeapBlock(b).start
      BY OutstandingFacts, HeapBlockFacts DEF Apart
    <2>3. BitmapUnits <= First
      BY Layout DEF First
    <2>4. QED
      BY <2>1, <2>2, <2>3, SystemBlocks, AllocatedIs, Layout
  <1>3. ASSUME NEW u \in 0 .. LastUnit
        PROVE  /\ snd[u] = 0 <=> \E a \in Allocated : Inside(a, u)
               /\ fst[u] = 0 <=> \E a \in Allocated : a.start <= u /\ u < End(a)
    <2>1. /\ (\E b \in Outstanding : Covers(b, u)) <=>
                \E b \in Outstanding : HeapBlock(b).start <= u /\ u < End(HeapBlock(b))
          /\ (\E b \in Outstanding : Covers(b, u) /\ u # LocOf(b.ptr)) <=>
                \E b \in Outstanding : Inside(HeapBlock(b), u)
      BY HeapBlockCovers
    <2>2. u < First <=> \E a \in {BitmapBlock, ReservedBlock} : a.start <= u /\ u < End(a)
      BY SystemBlocks, Layout DEF First
    <2>3. u < First /\ u # 0 /\ u # BitmapUnits <=>
             \E a \in {BitmapBlock, ReservedBlock} : Inside(a, u)
      BY SystemBlocks, Layout DEF First, Inside
    <2>4. QED
      BY <2>1, <2>2, <2>3, QuietBitmap, AllocatedIs
  <1>4. \E a \in Allocated : a.start = 0
    BY SystemBlocks, AllocatedIs
  <1>5. QED
    BY <1>1, <1>2, <1>3, <1>4 DEF Encoded
-----------------------------------------------------------------------------
(* The steps of the other threads during an undisturbed report *)

\* A step that leaves the bitmap alone and finds no writer makes none, and the
\* blocks that are allocated stay so: dma_free takes over the block given to it.
LEMMA QuietStep ==
    ASSUME IInv, NoWriter, NEW t \in Threads,
           AllocCall(t) \/ FreeCall(t) \/ Waiting(t) \/ Locked(t),
           bitmap' = bitmap
    PROVE  NoWriter' /\ Allocated' = Allocated
  <1> USE DEF IInv
  <1>1. pc[t] \notin Marking \cup Clearing
    BY DEF NoWriter
  <1>2. ~ScanMatches(t)
    <2>1. SUFFICES ASSUME ScanMatches(t) PROVE FALSE
      OBVIOUS
    <2>2. /\ First <= start_idx[t] /\ start_idx[t] < i[t] /\ i[t] \in Int
          /\ start_idx[t] \in 0 .. LastUnit
      BY <2>1 DEF ScanMatches, Scanning, TypeOK, LocalInv, Local
    <2>3. fst[start_idx[t]] = 1
      BY <2>1, <2>2 DEF ScanMatches, Scanning, ScanInv
    <2>4. fst'[start_idx[t]] = 0
      BY <2>1, <2>2 DEF ScanMatches, TypeOK
    <2>5. QED
      BY <2>3, <2>4 DEF bitmap
  <1>3. ~FreeBegin(t)
    <2>1. SUFFICES ASSUME FreeBegin(t) PROVE FALSE
      OBVIOUS
    <2>2. block[t] \in Outstanding /\ block[t] \in [ptr : Nat, len : Nat] /\ Placed(block[t])
      BY <2>1, BlockFacts DEF FreeBegin, Outstanding, TypeOK
    <2>3. /\ LocOf(block[t].ptr) \in 0 .. LastUnit
          /\ Covers(block[t], LocOf(block[t].ptr))
      BY <2>2, PlacedFacts, Layout DEF Covers, EndOf
    <2>4. fst[LocOf(block[t].ptr)] = 0
      BY <2>2, <2>3, QuietBitmap
    <2>5. fst'[LocOf(block[t].ptr)] = 1
      BY <2>1, <2>3 DEF FreeBegin, TypeOK
    <2>6. QED
      BY <2>4, <2>5 DEF bitmap
  <1>4. /\ ~MarkFst(t) /\ ~MarkSnd(t) /\ ~AllocReturn(t)
        /\ ~ClearFst(t) /\ ~ClearSnd(t) /\ ~FreeReturn(t)
    BY <1>1 DEF Marking, Clearing, MarkFst, MarkSnd, AllocReturn, ClearFst, ClearSnd,
       FreeReturn
  <1>5. pc'[t] \notin Marking \cup Clearing
    <2>1. CASE AllocCall(t) \/ FreeCall(t) \/ AllocTooLarge(t) \/ AllocBegin(t) \/ FreeNull(t)
      BY <2>1 DEF AllocCall, FreeCall, AllocTooLarge, AllocBegin, FreeNull, Acquire, Goto,
         Marking, Clearing, TypeOK
    <2>2. CASE \/ ScanRunStarts(t) \/ ScanRunGoesOn(t) \/ ScanRunEnds(t) \/ ScanSkips(t)
               \/ ScanFails(t) \/ AllocReturnNull(t) \/ FreeReturnNull(t)
      BY <1>1, <2>2 DEF ScanRunStarts, ScanRunGoesOn, ScanRunEnds, ScanSkips, Advance,
         ScanFails, AllocReturnNull, FreeReturnNull, ReleaseAndReturn, Goto, Marking,
         Clearing, TypeOK
    <2>3. QED
      BY <1>2, <1>3, <1>4, <2>1, <2>2 DEF Waiting, Locked, AllocLocked, FreeLocked
  <1>6. NoWriter'
    <2>1. ASSUME NEW s \in Threads, s # t PROVE pc'[s] = pc[s]
      BY <2>1, OthersUnchanged DEF Frame
    <2>2. QED
      BY <1>5, <2>1 DEF NoWriter, Marking, Clearing
  <1>7. Outstanding' = Outstanding
    <2>1. CASE FreeCall(t)
      <3>1. PICK b \in held \cup {NullBlock} :
               held' = held \ {b} /\ block' = [block EXCEPT ![t] = b]
        BY <2>1 DEF FreeCall
      <3>2. block[t] = NullBlock
        BY <2>1 DEF FreeCall, PlacedInv, Clearing
      <3>3. ASSUME NEW s \in Threads
            PROVE  block'[s] = IF s = t THEN b ELSE block[s]
        BY <3>1 DEF TypeOK
      <3>4. {block'[s] : s \in Threads} \cup {NullBlock}
               = {block[s] : s \in Threads} \cup {b, NullBlock}
        BY <3>2, <3>3
      <3>5. QED
        BY <3>1, <3>4 DEF Outstanding
    <2>2. CASE ~FreeCall(t)
      <3>1. held' = held
        BY <1>4, <2>2, Ownership
      <3>2. CASE pc[t] = "free_lock"
        <4>1. FreeNull(t)
          BY <1>3, <3>2 DEF Waiting, Locked, AllocLocked, FreeLocked, AllocCall, FreeCall,
             AllocTooLarge, AllocBegin, ScanRunStarts, ScanMatches, ScanRunGoesOn,
             ScanRunEnds, ScanSkips, Scanning, ScanFails, AllocReturnNull, MarkFst, MarkSnd,
             AllocReturn, FreeReturnNull, ClearFst, ClearSnd, FreeReturn
        <4>2. QED
          BY <3>1, <4>1 DEF FreeNull, frame, Outstanding
      <3>3. CASE pc[t] # "free_lock"
        <4>1. block[t] = NullBlock
          BY <1>1, <3>3 DEF PlacedInv
        <4>2. block' = block
          BY <1>4, <2>2, <4>1, Ownership DEF TypeOK
        <4>3. QED
          BY <3>1, <4>2 DEF Outstanding
      <3>4. QED
        BY <3>2, <3>3
    <2>3. QED
      BY <2>1, <2>2
  <1>8. IInv'
    BY StepInv DEF Next
  <1>9. {HeapBlock(b) : b \in Outstanding}' = {HeapBlock(b) : b \in Outstanding}
    BY <1>7 DEF HeapBlock
  <1>10. NullBlock \notin held'
    BY <1>8 DEF PlacedInv, Placed, NullBlock
  <1>11. Allocated' = {BitmapBlock, ReservedBlock} \cup {HeapBlock(b) : b \in Outstanding}
    BY <1>7, <1>9, <1>10 DEF Allocated, Outstanding, BitmapBlock, ReservedBlock
  <1>12. QED
    BY <1>6, <1>11, AllocatedIs
-----------------------------------------------------------------------------
(* The report *)

LineType == [kind : {"A", "F"}, start : 0 .. LastUnit, len : 0 .. Units]

\* The lines of r are those of the units before n: without gap, with exactly the
\* blocks that begin there, and no two free blocks side by side.
Right(r, blocks, n) ==
    /\ r = << >> => n = 0
    /\ r # << >> => r[1].start = 0 /\ End(r[Len(r)]) = n
    /\ \A k \in 1 .. Len(r) - 1 :
          r[k + 1].start = End(r[k]) /\ "A" \in {r[k].kind, r[k + 1].kind}
    /\ \A k \in 1 .. Len(r) :
          r[k].kind = "A" => [start |-> r[k].start, len |-> r[k].len] \in blocks
    /\ \A a \in blocks : a.start < n =>
          \E k \in 1 .. Len(r) : r[k].kind = "A" /\ r[k].start = a.start /\ r[k].len = a.len

\* A right report stays right with a line for the units from n to m.
LEMMA AppendRight ==
    ASSUME NEW r \in Seq(LineType), NEW blocks, NEW n \in Nat, Right(r, blocks, n),
           \A a \in blocks : a.start \in Nat,
           NEW l \in LineType, l.start = n, NEW m \in Nat, m = End(l),
           r # << >> => "A" \in {r[Len(r)].kind, l.kind},
           l.kind = "A" => [start |-> l.start, len |-> l.len] \in blocks,
           \A a \in blocks : n <= a.start /\ a.start < m =>
              l.kind = "A" /\ l.start = a.start /\ l.len = a.len
    PROVE  Append(r, l) \in Seq(LineType) /\ Right(Append(r, l), blocks, m)
  <1> DEFINE s == Append(r, l)
  <1>1. /\ s \in Seq(LineType) /\ Len(s) = Len(r) + 1 /\ Len(r) \in Nat
        /\ \A k \in 1 .. Len(r) : s[k] = r[k]
        /\ s[Len(r) + 1] = l
        /\ s # << >>
        /\ r # << >> <=> Len(r) >= 1
    OBVIOUS
  <1> HIDE DEF s
  <1>2. s[1].start = 0 /\ End(s[Len(s)]) = m
    <2>1. CASE r = << >>
      BY <1>1, <2>1 DEF Right
    <2>2. CASE r # << >>
      BY <1>1, <2>2 DEF Right
    <2>3. QED
      BY <2>1, <2>2
  <1>3. ASSUME NEW k \in 1 .. Len(s) - 1
        PROVE  s[k + 1].start = End(s[k]) /\ "A" \in {s[k].kind, s[k + 1].kind}
    <2>1. CASE k = Len(r)
      BY <1>1, <2>1 DEF Right
    <2>2. CASE k # Len(r)
      <3>1. k \in 1 .. Len(r) - 1 /\ k + 1 \in 1 .. Len(r) /\ k \in 1 .. Len(r)
        BY <1>1, <2>2
      <3>2. s[k] = r[k] /\ s[k + 1] = r[k + 1]
        BY <1>1, <3>1
      <3>3. QED
        BY <3>1, <3>2 DEF Right
    <2>3. QED
      BY <2>1, <2>2
  <1>4. ASSUME NEW k \in 1 .. Len(s), s[k].kind = "A"
        PROVE  [start |-> s[k].start, len |-> s[k].len] \in blocks
    <2>1. CASE k = Len(r) + 1
      BY <1>1, <1>4, <2>1
    <2>2. CASE k # Len(r) + 1
      <3>1. k \in 1 .. Len(r) /\ s[k] = r[k]
        BY <1>1, <2>2
      <3>2. QED
        BY <1>4, <3>1 DEF Right
    <2>3. QED
      BY <2>1, <2>2
  <1>5. ASSUME NEW a \in blocks, a.start < m
        PROVE  \E k \in 1 .. Len(s) :
                  s[k].kind = "A" /\ s[k].start = a.start /\ s[k].len = a.len
    <2>1. CASE a.start < n
      <3>1. PICK k \in 1 .. Len(r) : r[k].kind = "A" /\ r[k].start = a.start /\ r[k].len = a.len
        BY <2>1 DEF Right
      <3>2. k \in 1 .. Len(s) /\ s[k] = r[k]
        BY <1>1, <3>1
      <3>3. QED
        BY <3>1, <3>2
    <2>2. CASE n <= a.start
      <3>1. l.kind = "A" /\ l.start = a.start /\ l.len = a.len
        BY <1>5, <2>2
      <3>2. Len(r) + 1 \in 1 .. Len(s)
        BY <1>1
      <3>3. QED
        BY <1>1, <3>1, <3>2
    <2>3. QED
      BY <2>1, <2>2
  <1>6. Right(s, blocks, m)
    BY <1>1, <1>2, <1>3, <1>4, <1>5 DEF Right
  <1>7. QED
    BY <1>1, <1>6 DEF s

-----------------------------------------------------------------------------
(* The inductive invariant *)

\* The types of the printing thread, and what bounds block_size.
PrintTyped ==
    /\ at \in {"idle", "read_fst", "read_snd", "printed"}
    /\ j \in 0 .. Units /\ (at = "read_snd" => j < Units)
    /\ word \in {0, 1}
    /\ alloc_lock \in BOOLEAN /\ free_lock \in BOOLEAN /\ disturbed \in BOOLEAN
    /\ block_size \in Nat /\ block_size <= j
    /\ block_start \in 0 .. LastUnit
    /\ page_step \in Nat
    /\ report \in Seq(LineType)

\* Of the blocks held, less than a unit is wasted.
WastedTyped == \A w \in wasted : w.block \in held /\ w.bytes \in 0 .. 15

QuietInv == Reporting /\ ~disturbed => NoWriter

\* Before the first unit, in an allocated block that begins at block_start, or
\* in a run of free units from there on.
Opened ==
    \/ /\ j = 0 /\ ~alloc_lock /\ ~free_lock /\ block_start = 0 /\ block_size = 0
       /\ report = << >>
    \/ /\ j > 0 /\ alloc_lock /\ ~free_lock /\ block_size = j - block_start - 1
       /\ \E a \in Allocated : a.start = block_start /\ a.start < j /\ j <= End(a)
    \/ /\ j > 0 /\ ~alloc_lock /\ free_lock /\ block_size = j - block_start
       /\ block_start < j
       /\ \A u \in block_start .. j - 1 : fst[u] = 1
       /\ report # << >> /\ report[Len(report)].kind = "A"

ReportInv ==
    ~disturbed =>
        /\ at \in {"read_fst", "read_snd"} => Right(report, Allocated, block_start) /\ Opened
        /\ at = "read_snd" => word = fst[j]
        /\ at = "printed" => Right(report, Allocated, Units) /\ report # << >>

PrintInv == IInv /\ PrintTyped /\ WastedTyped /\ QuietInv /\ ReportInv

\* The flags of the printing thread keep their types.
LEMMA FlagsTyped ==
    ASSUME PrintTyped, BlocksPrinter
    PROVE  alloc_lock' \in BOOLEAN /\ free_lock' \in BOOLEAN
  <1>1. CASE PrintBlocks \/ PrintReturn \/ PrintLast
    BY <1>1, Zenon DEF PrintBlocks, PrintReturn, PrintLast, ResetLocals
  <1>2. CASE ReadFst
    BY <1>2, Zenon DEF ReadFst, PrintTyped
  <1>3. CASE ReadSnd
    <2>1. CASE SeeFree
      BY <2>1, Zenon DEF SeeFree, PrintTyped
    <2>2. CASE SeeStart
      BY <2>2, Zenon DEF SeeStart
    <2>3. CASE SeeInside \/ SeeOther
      BY <2>3, Zenon DEF SeeInside, SeeOther, PrintTyped
    <2>4. QED
      BY <1>3, <2>1, <2>2, <2>3 DEF ReadSnd
  <1>4. QED
    BY <1>1, <1>2, <1>3 DEF BlocksPrinter

\* What SeeFree and the like may do to the report and the open block.
Extended ==
    /\ \/ report' = report
       \/ \E l \in LineType : report' = Append(report, l)
    /\ block_size' \in {0, 1, block_size, block_size + 1}
    /\ block_start' \in {block_start, j}

\* The other locals of the printing thread keep their types, whatever it reads.
LEMMA PrinterTyped ==
    ASSUME IInv, PrintTyped, BlocksPrinter
    PROVE  /\ at' \in {"idle", "read_fst", "read_snd", "printed"}
           /\ j' \in 0 .. Units /\ (at' = "read_snd" => j' < Units)
           /\ word' \in {0, 1}
           /\ block_size' \in Nat /\ block_size' <= j'
           /\ block_start' \in 0 .. LastUnit
           /\ page_step' \in Nat
           /\ report' \in Seq(LineType)
  <1>0. /\ Units \in Nat /\ LastUnit = Units - 1 /\ LastUnit \in Nat
        /\ j \in Nat /\ j <= Units /\ block_start \in Nat
        /\ word \in {0, 1} /\ block_size \in Nat /\ block_size <= j
        /\ block_start \in 0 .. LastUnit /\ page_step \in Nat
        /\ report \in Seq(LineType) /\ << >> \in Seq(LineType)
        /\ at = "read_snd" => j < Units
    BY Layout DEF PrintTyped
  <1>l. \A l \in LineType : Append(report, l) \in Seq(LineType)
    BY <1>0
  <1>1. CASE PrintBlocks \/ PrintReturn
    <2>1. /\ at' \in {"read_fst", "idle"} /\ j' = 0 /\ word' = 0
          /\ block_size' = 0 /\ block_start' = 0
          /\ page_step' = page_step /\ report' = << >>
      BY <1>1 DEF PrintBlocks, PrintReturn, ResetLocals
    <2>2. QED
      BY <1>0, <2>1
  <1>2. CASE ReadFst
    <2>1. fst[j] \in {0, 1}
      BY <1>0, <1>2 DEF ReadFst, IInv, TypeOK
    <2>2. QED
      BY <1>0, <1>2, <2>1 DEF ReadFst
  <1>3. CASE ReadSnd
    <2>1. /\ j < Units /\ j \in 0 .. LastUnit /\ at' = "read_fst" /\ j' = j + 1
          /\ word' = word /\ page_step' = page_step
      BY <1>0, <1>3 DEF ReadSnd, NextPair
    <2>2. /\ Line("A", block_start, BlockUnits) \in LineType
          /\ Line("F", block_start, block_size) \in LineType
      BY <1>0, <2>1 DEF Line, LineType, BlockUnits
    <2>3. Extended
      <3>1. CASE SeeFree
        BY <2>2, <3>1 DEF SeeFree, Extended
      <3>2. CASE SeeStart
        BY <2>2, <3>2 DEF SeeStart, Extended
      <3>3. CASE SeeInside \/ SeeOther
        BY <3>3 DEF SeeInside, SeeOther, Extended
      <3>4. QED
        BY <1>3, <3>1, <3>2, <3>3 DEF ReadSnd
    <2>4. QED
      BY <1>0, <1>l, <2>1, <2>3 DEF Extended
  <1>4. CASE PrintLast
    <2>1. /\ Line("A", block_start, block_size) \in LineType
          /\ Line("F", block_start, block_size) \in LineType
      BY <1>0 DEF Line, LineType
    <2>2. report' \in Seq(LineType)
      BY <1>0, <1>l, <1>4, <2>1 DEF PrintLast
    <2>3. QED
      BY <1>0, <1>4, <2>2 DEF PrintLast, ResetLocals
  <1>5. QED
    BY <1>1, <1>2, <1>3, <1>4 DEF BlocksPrinter

\* A unit of an undisturbed report is what Encoded says.
LEMMA UnitCases ==
    ASSUME Encoded, TypeOK, NEW u \in 0 .. LastUnit
    PROVE  /\ fst[u] = 1 <=> \A a \in Allocated : ~(a.start <= u /\ u < End(a))
           /\ fst[u] = 0 /\ snd[u] = 1 => \E a \in Allocated : a.start = u
           /\ snd[u] = 0 => fst[u] = 0
  <1>1. fst[u] \in {0, 1} /\ snd[u] \in {0, 1} /\ u \in Nat
    BY Layout DEF TypeOK
  <1>2. ASSUME NEW a \in Allocated
        PROVE  /\ a.start \in Nat /\ a.len \in Nat /\ End(a) \in Nat
               /\ Inside(a, u) <=> a.start < u /\ u < End(a)
    BY DEF Encoded, End, Inside
  <1>3. QED
    BY <1>1, <1>2 DEF Encoded

\* The allocated blocks are records of two numbers, and are placed.
LEMMA AllocatedFacts ==
    ASSUME IInv, Encoded, NEW a \in Allocated
    PROVE  /\ a = [start |-> a.start, len |-> a.len]
           /\ a.start \in Nat /\ a.len \in Nat /\ a.len >= 1
           /\ End(a) = a.start + a.len /\ End(a) \in Nat /\ End(a) <= LastUnit
  <1>1. a = [start |-> a.start, len |-> a.len]
    <2>1. CASE a \in {BitmapBlock, ReservedBlock}
      BY <2>1 DEF BitmapBlock, ReservedBlock
    <2>2. ASSUME NEW b \in Outstanding, a = HeapBlock(b)
          PROVE  a = [start |-> a.start, len |-> a.len]
      BY <2>2 DEF HeapBlock
    <2>3. QED
      BY <2>1, <2>2, AllocatedIs
  <1>2. QED
    BY <1>1 DEF Encoded, End

\* The numbers of an undisturbed pass.
LEMMA PassFacts ==
    ASSUME IInv, PrintTyped, Encoded
    PROVE  /\ Units \in Nat /\ LastUnit \in Nat /\ LastUnit = Units - 1
           /\ j \in Nat /\ j <= Units
           /\ block_start \in 0 .. LastUnit /\ block_start \in Nat
           /\ block_size \in Nat /\ report \in Seq(LineType)
           /\ \A a \in Allocated : a.start \in Nat
  BY Layout, AllocatedFacts DEF PrintTyped

\* The line of an allocated block that ends in front of unit j.
LEMMA AllocatedLine ==
    ASSUME IInv, PrintTyped, Encoded, Right(report, Allocated, block_start),
           NEW a \in Allocated, a.start = block_start, End(a) = j,
           block_size = j - block_start - 1
    PROVE  LET r == Append(report, Line("A", block_start, BlockUnits))
           IN  r \in Seq(LineType) /\ Right(r, Allocated, j) /\ r[Len(r)].kind = "A"
  <1> DEFINE l == Line("A", block_start, BlockUnits)
  <1>1. /\ a = [start |-> a.start, len |-> a.len] /\ a.len \in Nat /\ a.len >= 1
        /\ End(a) = a.start + a.len
    BY AllocatedFacts
  <1>2. BlockUnits = a.len /\ BlockUnits \in 0 .. Units
    BY <1>1, PassFacts DEF BlockUnits
  <1>3. /\ l = [kind |-> "A", start |-> block_start, len |-> a.len]
        /\ l \in LineType /\ l.kind = "A" /\ l.start = block_start /\ l.len = a.len
        /\ End(l) = j
    BY <1>1, <1>2, PassFacts DEF Line, LineType, End
  <1>4. ASSUME NEW c \in Allocated, block_start <= c.start, c.start < j PROVE c = a
    <2>1. c = a \/ End(c) <= a.start \/ End(a) <= c.start
      BY DEF Encoded
    <2>2. c.start \in Nat /\ End(c) \in Nat /\ End(c) > c.start
      BY AllocatedFacts
    <2>3. QED
      BY <1>4, <2>1, <2>2, PassFacts
  <1> HIDE DEF l
  <1>5. /\ Append(report, l) \in Seq(LineType) /\ Right(Append(report, l), Allocated, j)
    <2>1. l.kind = "A" => [start |-> l.start, len |-> l.len] \in Allocated
      BY <1>1, <1>3
    <2>2. \A c \in Allocated : block_start <= c.start /\ c.start < j =>
             l.kind = "A" /\ l.start = c.start /\ l.len = c.len
      BY <1>3, <1>4
    <2>3. report # << >> => "A" \in {report[Len(report)].kind, l.kind}
      BY <1>3
    <2>4. QED
      BY <1>3, <2>1, <2>2, <2>3, PassFacts, AppendRight
  <1>6. Append(report, l)[Len(Append(report, l))] = l
    BY <1>3, PassFacts
  <1>7. QED
    BY <1>3, <1>5, <1>6 DEF l

\* The line of a run of free units that ends in front of unit j.
LEMMA FreeLine ==
    ASSUME IInv, PrintTyped, Encoded, Right(report, Allocated, block_start),
           report # << >>, report[Len(report)].kind = "A",
           block_start < j, block_size = j - block_start,
           \A u \in block_start .. j - 1 : fst[u] = 1
    PROVE  LET r == Append(report, Line("F", block_start, block_size))
           IN  r \in Seq(LineType) /\ Right(r, Allocated, j)
  <1> DEFINE l == Line("F", block_start, block_size)
  <1>1. block_size \in 0 .. Units /\ block_start + block_size = j
    BY PassFacts
  <1>2. /\ l = [kind |-> "F", start |-> block_start, len |-> block_size]
        /\ l \in LineType /\ l.kind = "F" /\ l.start = block_start
        /\ End(l) = j
    BY <1>1, PassFacts DEF Line, LineType, End
  <1>3. ASSUME NEW c \in Allocated, block_start <= c.start, c.start < j PROVE FALSE
    <2>1. c.start \in Nat /\ End(c) > c.start
      BY AllocatedFacts
    <2>2. c.start \in block_start .. j - 1 /\ c.start \in 0 .. LastUnit
      BY <1>3, <2>1, PassFacts
    <2>3. fst[c.start] = 0
      BY <2>1, <2>2 DEF Encoded
    <2>4. QED
      BY <2>2, <2>3
  <1> HIDE DEF l
  <1>4. QED
    BY <1>2, <1>3, PassFacts, AppendRight DEF l

\* A block that the pass is in ends at unit j when that is free or begins
\* another block, and beyond it when that is inside a block.
LEMMA OpenBlock ==
    ASSUME IInv, PrintTyped, Encoded, j \in 0 .. LastUnit,
           NEW a \in Allocated, a.start < j, j <= End(a)
    PROVE  /\ fst[j] = 1 => End(a) = j
           /\ \A c \in Allocated : c.start = j => End(a) = j
           /\ snd[j] = 0 => j + 1 <= End(a)
  <1>1. a.start \in Nat /\ End(a) \in Nat /\ j \in Nat
    BY AllocatedFacts, PassFacts
  <1>2. ASSUME fst[j] = 1 PROVE End(a) = j
    BY <1>1, <1>2 DEF Encoded
  <1>3. ASSUME NEW c \in Allocated
        PROVE  /\ c.start \in Nat /\ End(c) \in Nat /\ c.start < End(c)
               /\ a = c \/ End(a) <= c.start \/ End(c) <= a.start
    BY AllocatedFacts DEF Encoded
  <1>4. ASSUME NEW c \in Allocated, c.start = j PROVE End(a) = j
    BY <1>1, <1>3, <1>4
  <1>5. ASSUME snd[j] = 0 PROVE j + 1 <= End(a)
    <2>1. PICK c \in Allocated : Inside(c, j)
      BY <1>5 DEF Encoded
    <2>2. QED
      BY <1>1, <1>3, <2>1 DEF Inside
  <1>6. QED
    BY <1>2, <1>4, <1>5

\* Reading the second word of a unit, dma_print_blocks stays right about the
\* units in front of the next.
LEMMA ReadStep ==
    ASSUME IInv, PrintTyped, Encoded, Right(report, Allocated, block_start), Opened,
           j \in 0 .. LastUnit, word = fst[j],
           ReadSnd, UNCHANGED vars
    PROVE  Right(report', Allocated, block_start') /\ Opened'
  <1>0. /\ j' = j + 1 /\ j \in Nat /\ block_start \in Nat /\ block_size \in Nat
        /\ Allocated' = Allocated /\ fst' = fst
    BY PassFacts DEF ReadSnd, NextPair, Allocated, HeapBlock, vars, bitmap, frame
  <1>1. CASE j = 0 /\ ~alloc_lock /\ ~free_lock /\ block_start = 0 /\ block_size = 0
             /\ report = << >>
    <2>1. PICK a \in Allocated : a.start = 0
      BY DEF Encoded
    <2>2. End(a) \in Nat /\ 1 <= End(a)
      BY <2>1, AllocatedFacts
    <2>3. fst[j] = 0
      BY <1>1, <2>1, <2>2 DEF Encoded
    <2>4. ~(\E c \in Allocated : Inside(c, j))
      BY <1>1, AllocatedFacts DEF Inside
    <2>5. snd[j] # 0
      BY <2>4 DEF Encoded
    <2>6. SeeStart
      BY <2>3, <2>5 DEF ReadSnd, SeeFree, SeeInside, SeeOther
    <2>7. /\ UNCHANGED <<report, block_start, block_size>>
          /\ alloc_lock' = TRUE /\ free_lock' = FALSE
      BY <1>1, <2>6 DEF SeeStart
    <2>8. Opened'
      BY <1>0, <1>1, <2>1, <2>2, <2>7 DEF Opened, End
    <2>9. QED
      BY <2>7, <2>8
  <1>2. ASSUME j > 0, alloc_lock, ~free_lock, block_size = j - block_start - 1,
               NEW a \in Allocated, a.start = block_start, a.start < j, j <= End(a)
        PROVE  Right(report', Allocated, block_start') /\ Opened'
    <2>0. a.start \in Nat /\ End(a) \in Nat /\ End(a)' = End(a)
      BY AllocatedFacts DEF End
    <2>1. CASE SeeFree
      <3>1. End(a) = j
        BY <1>2, <2>1, OpenBlock DEF SeeFree
      <3>2. /\ report' = Append(report, Line("A", block_start, BlockUnits))
            /\ ~alloc_lock' /\ free_lock' /\ block_start' = j /\ block_size' = 1
        BY <1>2, <2>1 DEF SeeFree
      <3>3. /\ report' \in Seq(LineType) /\ Right(report', Allocated, j)
            /\ report'[Len(report')].kind = "A" /\ report' # << >>
        BY <1>2, <3>1, <3>2, PassFacts, AllocatedLine
      <3>w. word = 1
        BY <2>1, Zenon DEF SeeFree
      <3>4. \A u \in j .. j : fst'[u] = 1
        <4>1. fst'[j] = 1
          BY <1>0, <3>w, Zenon
        <4>2. \A u \in j .. j : u = j
          BY <1>0
        <4>3. QED
          BY <4>1, <4>2, Zenon
      <3>5. Opened'
        BY <1>0, <3>2, <3>3, <3>4 DEF Opened
      <3>6. QED
        BY <3>2, <3>3, <3>5
    <2>2. CASE SeeStart
      <3>1. PICK c \in Allocated : c.start = j
        BY <2>2, UnitCases DEF SeeStart, IInv
      <3>2. End(a) = j
        BY <1>2, <3>1, OpenBlock
      <3>3. /\ report' = Append(report, Line("A", block_start, BlockUnits))
            /\ alloc_lock' /\ ~free_lock' /\ block_start' = j /\ block_size' = 0
        BY <1>2, <2>2 DEF SeeStart
      <3>4. Right(report', Allocated, j)
        BY <1>2, <3>2, <3>3, AllocatedLine
      <3>5. c.start < j' /\ j' <= End(c)
        BY <1>0, <3>1, AllocatedFacts
      <3>6. Opened'
        BY <1>0, <3>1, <3>3, <3>5 DEF Opened, End
      <3>7. QED
        BY <3>3, <3>4, <3>6
    <2>3. CASE SeeInside
      <3>1. j' <= End(a) /\ a.start < j'
        BY <1>0, <1>2, <2>0, <2>3, OpenBlock DEF SeeInside
      <3>2. /\ block_size' = block_size + 1 /\ alloc_lock' /\ ~free_lock'
            /\ UNCHANGED <<report, block_start>>
        BY <1>2, <2>3, Zenon DEF SeeInside
      <3>3. Opened'
        BY <1>0, <1>2, <3>1, <3>2 DEF Opened, End
      <3>4. QED
        BY <3>2, <3>3
    <2>4. ~SeeOther
      BY UnitCases DEF SeeOther, IInv
    <2>5. QED
      BY <2>1, <2>2, <2>3, <2>4 DEF ReadSnd
  <1>3. CASE j > 0 /\ ~alloc_lock /\ free_lock /\ block_size = j - block_start
             /\ block_start < j
             /\ (\A u \in block_start .. j - 1 : fst[u] = 1)
             /\ report # << >> /\ report[Len(report)].kind = "A"
    <2>1. CASE SeeFree
      <3>1. /\ block_size' = block_size + 1 /\ ~alloc_lock' /\ free_lock'
            /\ UNCHANGED <<report, block_start>>
        BY <1>3, <2>1, Zenon DEF SeeFree
      <3>w. word = 1
        BY <2>1, Zenon DEF SeeFree
      <3>2. \A u \in block_start .. j : fst'[u] = 1
        <4>1. ASSUME NEW u \in block_start .. j PROVE fst[u] = 1
          <5>1. u = j \/ u \in block_start .. j - 1
            BY <1>0
          <5>2. QED
            BY <1>3, <3>w, <5>1
        <4>2. QED
          BY <1>0, <4>1
      <3>3. Opened'
        BY <1>0, <1>3, <3>1, <3>2 DEF Opened
      <3>4. QED
        BY <3>1, <3>3
    <2>2. CASE SeeStart
      <3>1. PICK c \in Allocated : c.start = j
        BY <2>2, UnitCases DEF SeeStart, IInv
      <3>2. /\ report' = Append(report, Line("F", block_start, block_size))
            /\ alloc_lock' /\ ~free_lock' /\ block_start' = j /\ block_size' = 0
        BY <1>3, <2>2 DEF SeeStart
      <3>3. Right(report', Allocated, j)
        BY <1>3, <3>2, FreeLine
      <3>4. c.start < j' /\ j' <= End(c)
        BY <1>0, <3>1, AllocatedFacts
      <3>5. Opened'
        BY <1>0, <3>1, <3>2, <3>4 DEF Opened, End
      <3>6. QED
        BY <3>2, <3>3, <3>5
    <2>3. ~SeeInside
      <3>1. SUFFICES ASSUME SeeInside PROVE FALSE
        OBVIOUS
      <3>2. PICK c \in Allocated : Inside(c, j)
        BY <3>1 DEF SeeInside, Encoded
      <3>3. c.start \in Nat /\ End(c) \in Nat /\ c.start <= j - 1 /\ j - 1 < End(c)
        BY <1>0, <3>2, AllocatedFacts DEF Inside
      <3>4. j - 1 \in block_start .. j - 1 /\ j - 1 \in 0 .. LastUnit
        BY <1>0, <1>3, PassFacts
      <3>5. fst[j - 1] = 0
        BY <3>3, <3>4 DEF Encoded
      <3>6. QED
        BY <1>3, <3>4, <3>5
    <2>4. ~SeeOther
      BY UnitCases DEF SeeOther, IInv
    <2>5. QED
      BY <2>1, <2>2, <2>3, <2>4 DEF ReadSnd
  <1>4. CASE j > 0 /\ alloc_lock /\ ~free_lock /\ block_size = j - block_start - 1
             /\ \E a \in Allocated : a.start = block_start /\ a.start < j /\ j <= End(a)
    BY <1>2, <1>4, Zenon
  <1>5. QED
    BY <1>1, <1>3, <1>4, Zenon DEF Opened

\* The last line is that of a run of free units, as the last unit is free.
LEMMA LastStep ==
    ASSUME IInv, PrintTyped, Encoded, Right(report, Allocated, block_start), Opened,
           PrintLast
    PROVE  Right(report', Allocated, Units) /\ report' # << >>
  <1>1. j = Units
    BY PassFacts DEF PrintLast
  <1>2. ~(j = 0)
    BY <1>1, Layout
  <1>3. ~(\E a \in Allocated : a.start = block_start /\ a.start < j /\ j <= End(a))
    BY <1>1, AllocatedFacts, PassFacts
  <1>4. /\ ~alloc_lock /\ free_lock /\ block_size = j - block_start
        /\ block_start < j
        /\ \A u \in block_start .. j - 1 : fst[u] = 1
        /\ report # << >> /\ report[Len(report)].kind = "A"
    BY <1>2, <1>3, Zenon DEF Opened
  <1>5. report' = Append(report, Line("F", block_start, block_size))
    BY <1>4, Zenon DEF PrintLast
  <1>6. /\ Append(report, Line("F", block_start, block_size)) \in Seq(LineType)
        /\ Right(report', Allocated, j)
    BY <1>4, <1>5, FreeLine
  <1>7. report' # << >>
    BY <1>5, PassFacts
  <1>8. QED
    BY <1>1, <1>6, <1>7

-----------------------------------------------------------------------------
(* The steps of the system *)

\* A report starts undisturbed only when segment_lock is free.
LEMMA StartQuiet ==
    ASSUME IInv, lock = NoThread
    PROVE  NoWriter
  BY DmaAssumption DEF IInv, LockInv, NoWriter, Critical, PCs, Marking, Clearing

\* The steps of the printing thread preserve the invariant.
LEMMA PrinterStep ==
    ASSUME PrintInv, BlocksPrinter,
           disturbed' = IF at = "idle" THEN lock # NoThread ELSE disturbed,
           UNCHANGED <<vars, wasted, lost>>
    PROVE  PrintInv'
  <1> USE DEF PrintInv
  <1>1. IInv'
    <2>1. [Next]_vars
      OBVIOUS
    <2>2. QED
      BY <2>1, StepInv
  <1>2. /\ UNCHANGED <<fst, snd, lock, held, pc, block, wasted>>
        /\ Allocated' = Allocated
    BY DEF vars, bitmap, frame, Allocated, HeapBlock
  <1>3. disturbed' \in BOOLEAN
    <2>1. disturbed \in BOOLEAN
      BY DEF PrintTyped
    <2>2. QED
      BY <2>1, Zenon
  <1>4. PrintTyped'
    BY <1>3, PrinterTyped, FlagsTyped, Zenon DEF PrintTyped
  <1>5. WastedTyped'
    BY <1>2 DEF WastedTyped
  <1>6. ~disturbed' => NoWriter
    <2>1. CASE at = "idle"
      BY <2>1, StartQuiet, Zenon
    <2>2. CASE at # "idle"
      <3>1. Reporting
        BY <2>2 DEF PrintTyped, Reporting
      <3>2. QED
        BY <2>2, <3>1, Zenon DEF QuietInv
    <2>3. QED
      BY <2>1, <2>2
  <1>7. QuietInv'
    BY <1>2, <1>6 DEF QuietInv, NoWriter
  <1>8. ASSUME ~disturbed'
        PROVE  /\ at' \in {"read_fst", "read_snd"} =>
                     Right(report', Allocated, block_start') /\ Opened'
               /\ at' = "read_snd" => word' = fst[j']
               /\ at' = "printed" => Right(report', Allocated, Units) /\ report' # << >>
    <2>1. Encoded /\ NoWriter
      BY <1>6, <1>8, QuietEncodes
    <2>2. CASE PrintBlocks
      <3>1. /\ at' = "read_fst" /\ report' = << >> /\ block_start' = 0 /\ j' = 0
            /\ block_size' = 0 /\ ~alloc_lock' /\ ~free_lock'
        BY <2>2, Zenon DEF PrintBlocks, ResetLocals
      <3>2. Right(<< >>, Allocated, 0)
        BY <2>1, AllocatedFacts DEF Right
      <3>3. Opened'
        BY <3>1, Zenon DEF Opened
      <3>4. QED
        BY <3>1, <3>2, <3>3
    <2>3. CASE PrintReturn
      <3>1. at' = "idle"
        BY <2>3, Zenon DEF PrintReturn, ResetLocals
      <3>2. QED
        BY <3>1
    <2>4. CASE at # "idle" /\ at # "printed"
      <3>1. /\ Right(report, Allocated, block_start) /\ Opened
            /\ at = "read_snd" => word = fst[j]
        BY <1>8, <2>4, Zenon DEF ReportInv, PrintTyped
      <3>2. CASE ReadFst
        <4>1. /\ at' = "read_snd" /\ word' = fst[j] /\ j' = j /\ report' = report
              /\ block_start' = block_start /\ block_size' = block_size
              /\ alloc_lock' = alloc_lock /\ free_lock' = free_lock
          BY <3>2, Zenon DEF ReadFst
        <4>2. Opened'
          BY <1>2, <3>1, <4>1, Zenon DEF Opened, End
        <4>3. QED
          BY <3>1, <4>1, <4>2
      <3>3. CASE ReadSnd
        <4>1. j \in 0 .. LastUnit /\ word = fst[j] /\ at' = "read_fst"
          BY <2>1, <3>1, <3>3, PassFacts DEF ReadSnd, PrintTyped
        <4>2. Right(report', Allocated, block_start') /\ Opened'
          BY <2>1, <3>1, <3>3, <4>1, ReadStep
        <4>3. QED
          BY <4>1, <4>2
      <3>4. CASE PrintLast
        <4>1. at' = "printed"
          BY <3>4, Zenon DEF PrintLast, ResetLocals
        <4>2. Right(report', Allocated, Units) /\ report' # << >>
          BY <2>1, <3>1, <3>4, LastStep
        <4>3. QED
          BY <4>1, <4>2
      <3>5. QED
        BY <2>4, <3>2, <3>3, <3>4 DEF BlocksPrinter, PrintBlocks, PrintReturn
    <2>5. QED
      BY <2>2, <2>3, <2>4 DEF BlocksPrinter, PrintBlocks, PrintReturn, ReadFst, ReadSnd,
         PrintLast
  <1>9. ReportInv'
    BY <1>2, <1>8, Zenon DEF ReportInv
  <1>10. QED
    BY <1>1, <1>4, <1>5, <1>7, <1>9

\* What a thread wastes on a request: what rounding adds, less than a unit.
LEMMA WasteFacts ==
    \A n \in Int : AllocSize(n) - n \in 0 .. 15
  BY DEF AllocSize

\* So do the steps of the threads that allocate and free.
LEMMA OthersStep ==
    ASSUME PrintInv, Others
    PROVE  PrintInv'
  <1> USE DEF PrintInv
  <1>1. PICK t \in Threads : AllocCall(t) \/ FreeCall(t) \/ Waiting(t) \/ Locked(t)
    BY DEF Others, Next
  <1>2. IInv'
    BY StepInv DEF Others
  <1>3. /\ UNCHANGED printer
        /\ disturbed' = (disturbed \/ (at # "idle" /\ bitmap' # bitmap))
    BY DEF Others
  <1>4. /\ UNCHANGED <<at, j, word, alloc_lock, free_lock, block_size, block_start, report,
                       page_step>>
    BY <1>3 DEF printer
  <1>5. PrintTyped'
    <2>1. disturbed' \in BOOLEAN
      BY <1>3, Zenon DEF PrintTyped
    <2>2. QED
      BY <1>4, <2>1, Zenon DEF PrintTyped
  <1>6. WastedTyped'
    <2>1. ASSUME NEW b \in held' \ held PROVE Waste(b).block = b /\ Waste(b).bytes \in 0 .. 15
      <3>1. AllocReturn(t)
        BY <1>1, <2>1, Ownership DEF FreeCall, IInv
      <3>2. lock = t
        BY <3>1 DEF AllocReturn, IInv, LockInv, Critical, PCs
      <3>3. size[lock] \in Int
        BY <3>2, RequestFacts DEF IInv
      <3>4. QED
        BY <3>3, WasteFacts DEF Waste, Unasked
    <2>2. wasted' = {w \in wasted : w.block \in held'} \cup {Waste(b) : b \in held' \ held}
      BY DEF Others, GivenBack
    <2>3. QED
      BY <2>1, <2>2 DEF WastedTyped
  <1>7. ASSUME Reporting, ~disturbed'
        PROVE  ~disturbed /\ NoWriter' /\ Allocated' = Allocated /\ UNCHANGED <<fst, snd>>
    <2>1. ~disturbed /\ bitmap' = bitmap
      BY <1>3, <1>7 DEF Reporting
    <2>2. NoWriter
      BY <1>7, <2>1 DEF QuietInv
    <2>3. QED
      BY <1>1, <2>1, <2>2, QuietStep DEF bitmap
  <1>8. Reporting' <=> Reporting
    BY <1>4 DEF Reporting
  <1>9. QuietInv'
    BY <1>7, <1>8, Zenon DEF QuietInv
  <1>10. ReportInv'
    <2>1. ASSUME ~disturbed', Reporting
          PROVE  Opened' <=> Opened
      BY <1>4, <1>7, <2>1, Zenon DEF Opened, End
    <2>2. ASSUME ~disturbed', Reporting PROVE ReportInv'
      BY <1>4, <1>7, <2>1, <2>2, Zenon DEF ReportInv
    <2>3. ASSUME ~Reporting PROVE ReportInv'
      BY <1>4, <2>3 DEF ReportInv, Reporting
    <2>4. QED
      BY <2>2, <2>3 DEF ReportInv
  <1>11. QED
    BY <1>2, <1>5, <1>6, <1>9, <1>10

\* A system that starts has no report.
LEMMA InitPrint == PrintInit => PrintInv
  <1> SUFFICES ASSUME PrintInit PROVE PrintInv
    OBVIOUS
  <1>1. IInv
    BY InitInv DEF PrintInit
  <1>2. PrintTyped
    <2>1. /\ at = "idle" /\ j = 0 /\ word = 0 /\ block_size = 0 /\ block_start = 0
          /\ report = << >> /\ page_step = 0
      BY DEF PrintInit
    <2>2. alloc_lock \in BOOLEAN /\ free_lock \in BOOLEAN /\ disturbed \in BOOLEAN
      BY Zenon DEF PrintInit
    <2>3. 0 \in 0 .. Units /\ 0 \in 0 .. LastUnit /\ 0 \in Nat /\ << >> \in Seq(LineType)
      BY Layout
    <2>4. QED
      BY <2>1, <2>2, <2>3 DEF PrintTyped
  <1>3. WastedTyped
    BY DEF PrintInit, WastedTyped
  <1>4. at = "idle"
    BY DEF PrintInit
  <1>5. QED
    BY <1>1, <1>2, <1>3, <1>4 DEF PrintInv, QuietInv, ReportInv, Reporting

\* PrintInv is an invariant of dma_print_blocks next to the allocating threads.
THEOREM PrintInvariance == PrintSpec => []PrintInv
  <1>1. PrintInv /\ [PrintNext]_printVars => PrintInv'
    <2> SUFFICES ASSUME PrintInv, [PrintNext]_printVars PROVE PrintInv'
      OBVIOUS
    <2>1. CASE Others
      BY <2>1, OthersStep
    <2>2. CASE /\ BlocksPrinter
               /\ disturbed' = IF at = "idle" THEN lock # NoThread ELSE disturbed
               /\ UNCHANGED <<vars, wasted, lost>>
      BY <2>2, PrinterStep
    <2>3. CASE UNCHANGED printVars
      <3>1. UNCHANGED <<vars, printer, disturbed, wasted, lost>>
        BY <2>3 DEF printVars
      <3>2. IInv'
        <4>1. [Next]_vars
          BY <3>1
        <4>2. QED
          BY <4>1, StepInv DEF PrintInv
      <3>3. /\ UNCHANGED <<at, j, word, alloc_lock, free_lock, block_size, block_start,
                           report, page_step>>
            /\ UNCHANGED <<fst, snd, lock, held, pc, block>>
        BY <3>1 DEF printer, vars, bitmap, frame
      <3>4. Allocated' = Allocated
        BY <3>3 DEF Allocated, HeapBlock
      <3>5. PrintTyped' /\ WastedTyped'
        BY <3>1, <3>3, Zenon DEF PrintInv, PrintTyped, WastedTyped
      <3>6. QuietInv'
        BY <3>1, <3>3, Zenon DEF PrintInv, QuietInv, NoWriter, Reporting
      <3>7. Opened' <=> Opened
        BY <3>3, <3>4, Zenon DEF Opened, End
      <3>8. ReportInv'
        BY <3>1, <3>3, <3>4, <3>7, Zenon DEF PrintInv, ReportInv
      <3>9. QED
        BY <3>2, <3>5, <3>6, <3>8 DEF PrintInv
    <2>4. QED
      BY <2>1, <2>2, <2>3 DEF PrintNext
  <1>2. QED
    BY <1>1, InitPrint, PTL DEF PrintSpec

\* A report of dma_print_blocks during which nothing writes the bitmap covers
\* the segment, and its lines of kind A are exactly the allocated blocks; waiting
\* calls and scans may go on meanwhile.
THEOREM ReportExact == PrintSpec => []ReportIsExact
  <1>1. PrintInv => ReportIsExact
    <2> SUFFICES ASSUME PrintInv, at = "printed", ~disturbed
                 PROVE  /\ CoversSegment
                        /\ {[start |-> l.start, len |-> l.len] :
                              l \in {report[k] : k \in {n \in DOMAIN report :
                                                           report[n].kind = "A"}}} = Allocated
                        /\ \A k \in 1 .. Len(report) - 1 :
                              "A" \in {report[k].kind, report[k + 1].kind}
      BY DEF ReportIsExact
    <2>1. Right(report, Allocated, Units) /\ report # << >> /\ report \in Seq(LineType)
      BY DEF PrintInv, ReportInv, PrintTyped
    <2>2. DOMAIN report = 1 .. Len(report)
      BY <2>1
    <2>3. CoversSegment
      BY <2>1 DEF Right, End, CoversSegment
    <2>4. IInv /\ Encoded
      <3>1. NoWriter
        BY DEF PrintInv, QuietInv, Reporting
      <3>2. QED
        BY <3>1, QuietEncodes DEF PrintInv
    <2>5. ASSUME NEW a \in Allocated
          PROVE  /\ a = [start |-> a.start, len |-> a.len]
                 /\ \E k \in 1 .. Len(report) : report[k].kind = "A" /\ report[k].start = a.start
                                                /\ report[k].len = a.len
      <3>1. /\ a = [start |-> a.start, len |-> a.len]
            /\ a.start \in Nat /\ End(a) \in Nat /\ a.start < End(a) /\ End(a) <= LastUnit
        BY <2>4, AllocatedFacts
      <3>2. a.start < Units
        BY <3>1, Layout
      <3>3. QED
        BY <2>1, <3>1, <3>2 DEF Right
    <2>6. \A k \in 1 .. Len(report) :
             report[k].kind = "A" => [start |-> report[k].start, len |-> report[k].len]
                                        \in Allocated
      BY <2>1 DEF Right
    <2>7. {[start |-> l.start, len |-> l.len] :
             l \in {report[k] : k \in {n \in DOMAIN report : report[n].kind = "A"}}} = Allocated
      BY <2>2, <2>5, <2>6
    <2>8. QED
      BY <2>1, <2>3, <2>7 DEF Right
  <1>2. QED
    BY <1>1, PrintInvariance, PTL

-----------------------------------------------------------------------------
(* The bytes that a set of blocks wastes: MapThenSumSet is a recursive     *)
(* function on the subsets of its set.                                     *)

\* The member that is added next, and the sum with it.
Pick(s) == CHOOSE w \in s : TRUE
SumStep(s, f) == IF s = {} THEN 0 ELSE Pick(s).bytes + f[s \ {Pick(s)}]

\* The function that MapThenSumSet evaluates.
Sums(S) == CHOOSE f : f = [s \in SUBSET S |-> SumStep(s, f)]

\* Unfolding of the library's operator.
LEMMA BytesUnfold == \A S : BytesOf(S) = Sums(S)[S]
  BY DEF BytesOf, MapThenSumSet, MapThenFoldSet, Sums, SumStep, Pick

\* A set that is not empty has a pick, and one member less without it.
LEMMA PickFacts ==
    ASSUME NEW s, IsFiniteSet(s), s # {}, NEW y \in s
    PROVE  /\ Pick(s) \in s
           /\ IsFiniteSet(s \ {y}) /\ Cardinality(s \ {y}) = Cardinality(s) - 1
           /\ Cardinality(s) \in Nat /\ Cardinality(s) >= 1
  <1>1. Pick(s) \in s
    BY DEF Pick
  <1>2. IsFiniteSet(s \ {y}) /\ Cardinality(s \ {y}) = Cardinality(s) - 1
    BY FS_RemoveElement
  <1>3. Cardinality(s) \in Nat /\ Cardinality(s \ {y}) \in Nat
    BY <1>2, FS_CardinalityType
  <1>4. QED
    BY <1>1, <1>2, <1>3

\* The function is there: it can be given for the empty set, and for the subsets
\* of n + 1 members when it is there for those of n.
LEMMA SumsExist ==
    ASSUME NEW S, IsFiniteSet(S)
    PROVE  \E f : f = [s \in SUBSET S |-> SumStep(s, f)]
  <1> DEFINE Small(n) == {s \in SUBSET S : Cardinality(s) <= n}
             Q == {n \in Nat : \E f : f = [s \in Small(n) |-> SumStep(s, f)]}
  <1>1. \A s \in SUBSET S : IsFiniteSet(s) /\ Cardinality(s) \in Nat
    BY FS_Subset, FS_CardinalityType
  <1>2. 0 \in Q
    <2> DEFINE f == [s \in Small(0) |-> 0]
    <2>1. \A s \in Small(0) : s = {}
      BY <1>1, FS_EmptySet
    <2>2. \A s \in Small(0) : f[s] = SumStep(s, f)
      BY <2>1 DEF SumStep
    <2>3. f = [s \in Small(0) |-> SumStep(s, f)]
      <3>1. f = [s \in Small(0) |-> f[s]]
        OBVIOUS
      <3> HIDE DEF f
      <3>2. QED
        BY <2>2, <3>1
    <2>4. QED
      BY <2>3
  <1>3. ASSUME NEW n \in Nat, n \in Q PROVE n + 1 \in Q
    <2>1. PICK f : f = [s \in Small(n) |-> SumStep(s, f)]
      BY <1>3
    <2> DEFINE g == [s \in Small(n + 1) |-> SumStep(s, f)]
    <2>2. ASSUME NEW s \in Small(n) PROVE s \in Small(n + 1) /\ f[s] = SumStep(s, f)
      <3>1. s \in Small(n + 1)
        BY <1>1
      <3>2. f[s] = SumStep(s, f)
        BY <2>1
      <3>3. QED
        BY <3>1, <3>2
    <2>3. ASSUME NEW s \in Small(n + 1), s # {} PROVE s \ {Pick(s)} \in Small(n)
      <3>1. IsFiniteSet(s) /\ Cardinality(s) <= n + 1
        BY <1>1
      <3>2. Pick(s) \in s
        BY <2>3 DEF Pick
      <3>3. Cardinality(s \ {Pick(s)}) = Cardinality(s) - 1 /\ Cardinality(s) \in Nat
        BY <2>3, <3>1, <3>2, PickFacts
      <3>4. QED
        BY <3>1, <3>3
    <2>4. ASSUME NEW s \in Small(n) PROVE g[s] = f[s]
      BY <2>2
    <2>5. ASSUME NEW s \in Small(n + 1) PROVE g[s] = SumStep(s, g)
      <3>1. g[s] = SumStep(s, f)
        OBVIOUS
      <3> HIDE DEF g
      <3>2. CASE s = {}
        BY <3>1, <3>2 DEF SumStep
      <3>3. CASE s # {}
        BY <2>3, <2>4, <3>1, <3>3 DEF SumStep
      <3>4. QED
        BY <3>2, <3>3
    <2>6. g = [s \in Small(n + 1) |-> SumStep(s, g)]
      <3>1. g = [s \in Small(n + 1) |-> g[s]]
        OBVIOUS
      <3> HIDE DEF g
      <3>2. QED
        BY <2>5, <3>1
    <2>7. \E h : h = [s \in Small(n + 1) |-> SumStep(s, h)]
      <3> HIDE DEF g, Small
      <3>1. QED
        BY <2>6
    <2>8. n + 1 \in Nat
      OBVIOUS
    <2> HIDE DEF Small
    <2>9. QED
      BY <2>7, <2>8
  <1>4. \A n \in Q : \E f : f = [s \in Small(n) |-> SumStep(s, f)]
    OBVIOUS
  <1>5. Cardinality(S) \in Q
    <2> HIDE DEF Q
    <2>1. Cardinality(S) \in Nat
      BY FS_CardinalityType
    <2>2. QED
      BY <1>2, <1>3, <2>1, NatSetInduction
  <1>6. Small(Cardinality(S)) = SUBSET S
    <2>1. \A s \in SUBSET S : Cardinality(s) <= Cardinality(S)
      BY FS_Subset
    <2>2. QED
      BY <2>1
  <1>7. QED
    BY <1>4, <1>5, <1>6

\* So it meets its recursion, and has its set of arguments.
LEMMA SumsRecursion ==
    ASSUME NEW S, IsFiniteSet(S)
    PROVE  \A s \in SUBSET S : Sums(S)[s] = SumStep(s, Sums(S))
  <1>1. Sums(S) = [s \in SUBSET S |-> SumStep(s, Sums(S))]
    BY SumsExist DEF Sums
  <1> HIDE DEF Sums
  <1>2. QED
    BY <1>1

\* On its subsets the function of a smaller set is that of the larger one.
LEMMA SumsAgree ==
    ASSUME NEW S, IsFiniteSet(S), NEW T \in SUBSET S
    PROVE  \A s \in SUBSET T : Sums(T)[s] = Sums(S)[s]
  <1> DEFINE Q == {n \in Nat : \A s \in SUBSET T : Cardinality(s) = n => Sums(T)[s] = Sums(S)[s]}
  <1>0. IsFiniteSet(T) /\ \A s \in SUBSET T : IsFiniteSet(s) /\ Cardinality(s) \in Nat
    BY FS_Subset, FS_CardinalityType
  <1>1. ASSUME NEW s \in SUBSET T, s = {} PROVE Sums(T)[s] = Sums(S)[s]
    BY <1>0, <1>1, SumsRecursion DEF SumStep
  <1>2. 0 \in Q
    <2>1. \A s \in SUBSET T : Cardinality(s) = 0 => s = {}
      BY <1>0, FS_EmptySet
    <2>2. QED
      BY <1>1, <2>1
  <1>3. ASSUME NEW n \in Nat, n \in Q PROVE n + 1 \in Q
    <2>1. ASSUME NEW s \in SUBSET T, Cardinality(s) = n + 1 PROVE Sums(T)[s] = Sums(S)[s]
      <3>1. s # {}
        BY <2>1, FS_EmptySet
      <3>2. /\ Pick(s) \in s
            /\ Cardinality(s \ {Pick(s)}) = n
        <4>1. Pick(s) \in s /\ IsFiniteSet(s)
          BY <1>0, <3>1 DEF Pick
        <4>2. Cardinality(s \ {Pick(s)}) = Cardinality(s) - 1
          BY <3>1, <4>1, PickFacts
        <4>3. QED
          BY <2>1, <4>1, <4>2
      <3>3. Sums(T)[s \ {Pick(s)}] = Sums(S)[s \ {Pick(s)}]
        BY <1>3, <3>2
      <3>4. Sums(T)[s] = SumStep(s, Sums(T)) /\ Sums(S)[s] = SumStep(s, Sums(S))
        BY <1>0, SumsRecursion
      <3>5. QED
        BY <3>1, <3>3, <3>4 DEF SumStep
    <2>2. QED
      BY <2>1
  <1>4. \A n \in Q : \A s \in SUBSET T : Cardinality(s) = n => Sums(T)[s] = Sums(S)[s]
    OBVIOUS
  <1> HIDE DEF Q
  <1>5. \A n \in Nat : n \in Q
    BY <1>2, <1>3, NatSetInduction
  <1>6. QED
    BY <1>0, <1>4, <1>5

\* The sum of no bytes, and of those of one more block.
LEMMA BytesRecursion ==
    ASSUME NEW S, IsFiniteSet(S)
    PROVE  BytesOf(S) = IF S = {} THEN 0 ELSE Pick(S).bytes + BytesOf(S \ {Pick(S)})
  <1>1. Sums(S)[S] = SumStep(S, Sums(S))
    BY SumsRecursion
  <1>2. Sums(S \ {Pick(S)})[S \ {Pick(S)}] = Sums(S)[S \ {Pick(S)}]
    BY SumsAgree
  <1>3. QED
    BY <1>1, <1>2, BytesUnfold DEF SumStep

\* A set of blocks that wastes numbers of bytes.
Wasteful(S) == IsFiniteSet(S) /\ \A w \in S : w.bytes \in Nat

\* The sum is a number, and whatever block is taken out, its bytes are missing.
LEMMA BytesRemove ==
    ASSUME NEW S, Wasteful(S)
    PROVE  /\ BytesOf(S) \in Nat
           /\ \A y \in S : BytesOf(S) = y.bytes + BytesOf(S \ {y})
  <1> DEFINE P(T) == /\ BytesOf(T) \in Nat
                     /\ \A y \in T : BytesOf(T) = y.bytes + BytesOf(T \ {y})
             Q == {n \in Nat : \A T \in SUBSET S : Cardinality(T) <= n => P(T)}
  <1>0. \A T \in SUBSET S : IsFiniteSet(T) /\ Cardinality(T) \in Nat
    BY FS_Subset, FS_CardinalityType DEF Wasteful
  <1>1. 0 \in Q
    <2>1. ASSUME NEW T \in SUBSET S, Cardinality(T) <= 0 PROVE P(T)
      <3>1. T = {}
        <4>1. Cardinality(T) = 0
          BY <1>0, <2>1
        <4>2. QED
          BY <1>0, <4>1, FS_EmptySet
      <3>2. BytesOf(T) = 0
        BY <1>0, <3>1, BytesRecursion
      <3>3. QED
        BY <3>1, <3>2
    <2>2. QED
      BY <2>1
  <1>2. ASSUME NEW n \in Nat, n \in Q PROVE n + 1 \in Q
    <2>1. ASSUME NEW T \in SUBSET S, Cardinality(T) <= n PROVE P(T)
      BY <1>2, <2>1
    <2>2. ASSUME NEW T \in SUBSET S, Cardinality(T) = n + 1 PROVE P(T)
      <3>1. T # {} /\ IsFiniteSet(T)
        BY <1>0, <2>2, FS_EmptySet
      <3>2. ASSUME NEW y \in T
            PROVE  /\ T \ {y} \in SUBSET S /\ Cardinality(T \ {y}) <= n
                   /\ y.bytes \in Nat
        <4>1. Cardinality(T \ {y}) = Cardinality(T) - 1
          BY <3>1, PickFacts
        <4>2. QED
          BY <2>2, <4>1 DEF Wasteful
      <3> DEFINE w == Pick(T)
      <3>3. w \in T
        BY <3>1 DEF Pick
      <3>4. BytesOf(T) = w.bytes + BytesOf(T \ {w})
        BY <3>1, BytesRecursion
      <3> HIDE DEF w
      <3>5. BytesOf(T) \in Nat
        BY <2>1, <3>2, <3>3, <3>4
      <3>6. ASSUME NEW y \in T, y # w PROVE BytesOf(T) = y.bytes + BytesOf(T \ {y})
        <4> DEFINE U == (T \ {w}) \ {y}
        <4>1. U = (T \ {y}) \ {w}
          OBVIOUS
        <4>2. y \in T \ {w} /\ w \in T \ {y}
          BY <3>3, <3>6
        <4>3. U \in SUBSET S /\ Cardinality(U) <= n
          <5>1. IsFiniteSet(T \ {w}) /\ T \ {w} # {}
            BY <1>0, <3>2, <3>3, <4>2
          <5>2. Cardinality(U) = Cardinality(T \ {w}) - 1
            BY <4>2, <5>1, PickFacts
          <5>3. Cardinality(T \ {w}) \in Nat /\ Cardinality(T \ {w}) <= n
            BY <1>0, <3>2, <3>3
          <5>4. QED
            BY <5>2, <5>3
        <4> HIDE DEF U
        <4>4. P(T \ {w}) /\ P(T \ {y}) /\ P(U)
          BY <2>1, <3>2, <3>3, <4>3
        <4>5. BytesOf(T \ {w}) = y.bytes + BytesOf(U)
          BY <4>2, <4>4 DEF U
        <4>6. BytesOf(T \ {y}) = w.bytes + BytesOf(U)
          BY <4>1, <4>2, <4>4
        <4>7. BytesOf(U) \in Nat /\ w.bytes \in Nat /\ y.bytes \in Nat
          BY <3>2, <3>3, <4>4
        <4>8. QED
          BY <3>4, <4>5, <4>6, <4>7
      <3>7. QED
        BY <3>4, <3>5, <3>6
    <2>3. ASSUME NEW T \in SUBSET S, Cardinality(T) <= n + 1 PROVE P(T)
      <3>1. Cardinality(T) <= n \/ Cardinality(T) = n + 1
        BY <1>0, <2>3
      <3>2. QED
        BY <2>1, <2>2, <3>1
    <2>4. QED
      BY <2>3
  <1>3. \A n \in Q : \A T \in SUBSET S : Cardinality(T) <= n => P(T)
    OBVIOUS
  <1> HIDE DEF Q
  <1>4. \A n \in Nat : n \in Q
    BY <1>1, <1>2, NatSetInduction
  <1>5. P(S)
    BY <1>0, <1>3, <1>4
  <1>6. QED
    BY <1>5

\* One block more adds its bytes, one less takes them away.
LEMMA BytesAdd ==
    ASSUME NEW S, Wasteful(S), NEW w, w.bytes \in Nat, w \notin S
    PROVE  Wasteful(S \cup {w}) /\ BytesOf(S \cup {w}) = BytesOf(S) + w.bytes
  <1>1. Wasteful(S \cup {w})
    BY FS_AddElement DEF Wasteful
  <1>2. BytesOf(S) \in Nat
    BY BytesRemove
  <1>3. (S \cup {w}) \ {w} = S
    OBVIOUS
  <1>4. BytesOf(S \cup {w}) = w.bytes + BytesOf((S \cup {w}) \ {w})
    <2>1. w \in S \cup {w}
      OBVIOUS
    <2>2. \A y \in S \cup {w} :
             BytesOf(S \cup {w}) = y.bytes + BytesOf((S \cup {w}) \ {y})
      BY <1>1, BytesRemove
    <2>3. QED
      BY <2>1, <2>2
  <1>5. BytesOf((S \cup {w}) \ {w}) = BytesOf(S)
    BY <1>3
  <1>6. QED
    BY <1>1, <1>2, <1>4, <1>5

\* No blocks waste nothing, and one its own bytes.
LEMMA BytesFew ==
    /\ Wasteful({}) /\ BytesOf({}) = 0
    /\ \A w : w.bytes \in Nat => BytesOf({w}) = w.bytes
  <1>1. Wasteful({}) /\ BytesOf({}) = 0
    BY FS_EmptySet, BytesRecursion DEF Wasteful
  <1>2. ASSUME NEW w, w.bytes \in Nat PROVE BytesOf({w}) = w.bytes
    <2>1. BytesOf({} \cup {w}) = BytesOf({}) + w.bytes
      BY <1>1, <1>2, BytesAdd
    <2>2. {} \cup {w} = {w}
      OBVIOUS
    <2>3. BytesOf({} \cup {w}) = BytesOf({w})
      BY <2>2
    <2>4. QED
      BY <1>1, <1>2, <2>1, <2>3
  <1>3. QED
    BY <1>1, <1>2

-----------------------------------------------------------------------------
(* dma_give_intfrag *)

\* Where dma_alloc has counted what its block will waste.
Counted == {"scan"} \cup Marking

\* What is counted of a block that is not there yet.
Pending == IF lock # NoThread /\ pc[lock] \in Counted THEN Unasked(lock) ELSE 0

\* The counter is the sum of all that was ever added, and no block is recorded twice.
FragInv ==
    /\ Wasteful(wasted) /\ lost \in Nat
    /\ \A v, w \in wasted : v.block = w.block => v = w
    /\ frag_amount = BytesOf(wasted) + lost + Pending

\* Only the beginning of dma_alloc changes the counter; only that, a scan that
\* fails and the return of a block change what is pending.
LEMMA PendingStep ==
    ASSUME IInv, NEW t \in Threads,
           AllocCall(t) \/ FreeCall(t) \/ Waiting(t) \/ Locked(t),
           ~AllocBegin(t), ~ScanFails(t), ~AllocReturn(t)
    PROVE  frag_amount' = frag_amount /\ Pending' = Pending /\ Failed = 0
  <1> USE DEF IInv, TypeOK, Goto
  <1>1. t # NoThread /\ (pc[t] \in Critical <=> lock = t)
    BY DmaAssumption DEF LockInv
  <1>2. lock \in Threads \cup {NoThread}
    OBVIOUS
  <1>3. CASE AllocCall(t) \/ FreeCall(t)
    <2>1. /\ lock' = lock /\ lock # t /\ frag_amount' = frag_amount
          /\ \A s \in Threads : s # t => pc'[s] = pc[s] /\ size'[s] = size[s]
      BY <1>1, <1>3 DEF AllocCall, FreeCall, Critical, PCs
    <2>2. lock # NoThread => pc'[lock] = pc[lock] /\ size'[lock] = size[lock]
      BY <1>2, <2>1
    <2>3. QED
      BY <2>1, <2>2 DEF Pending, Failed, Unasked
  <1>4. CASE AllocTooLarge(t) \/ FreeNull(t) \/ FreeBegin(t)
    <2>1. /\ lock = NoThread /\ lock' = t /\ frag_amount' = frag_amount
          /\ pc'[t] \notin Counted
      BY <1>4 DEF AllocTooLarge, FreeNull, FreeBegin, Acquire, Counted, Marking
    <2>2. QED
      BY <1>1, <2>1 DEF Pending, Failed
  <1>5. CASE \/ ScanRunStarts(t) \/ ScanMatches(t) \/ ScanRunGoesOn(t) \/ ScanRunEnds(t)
             \/ ScanSkips(t) \/ MarkFst(t) \/ MarkSnd(t)
    <2>1. /\ pc[t] \in Counted /\ pc'[t] \in Counted /\ pc'[t] # "alloc_null"
          /\ lock' = lock /\ size' = size /\ frag_amount' = frag_amount
      BY <1>5 DEF ScanRunStarts, ScanMatches, ScanRunGoesOn, ScanRunEnds, ScanSkips,
         Advance, Scanning, MarkFst, MarkSnd, Counted, Marking, frame
    <2>2. lock = t
      BY <1>1, <2>1 DEF Critical, PCs, Counted, Marking
    <2>3. QED
      BY <1>1, <2>1, <2>2 DEF Pending, Failed, Unasked
  <1>6. CASE \/ AllocReturnNull(t) \/ FreeReturnNull(t) \/ FreeReturn(t)
             \/ ClearFst(t) \/ ClearSnd(t)
    <2>1. /\ pc[t] \in Critical /\ pc[t] \notin Counted /\ pc'[t] \notin Counted
          /\ lock' \in {NoThread, lock} /\ frag_amount' = frag_amount
      BY <1>6 DEF AllocReturnNull, FreeReturnNull, FreeReturn, ClearFst, ClearSnd,
         ReleaseAndReturn, Critical, PCs, Counted, Marking
    <2>2. lock = t
      BY <1>1, <2>1
    <2>3. QED
      BY <2>1, <2>2 DEF Pending, Failed, Counted
  <1>7. QED
    BY <1>3, <1>4, <1>5, <1>6 DEF Waiting, Locked, AllocLocked, FreeLocked

\* The block that dma_alloc returns was not held before.
LEMMA CarvedIsNew ==
    ASSUME IInv, NEW t \in Threads, AllocReturn(t)
    PROVE  Carved(t) \notin held
  <1>1. pc[t] = "mark_fst"
    BY DEF AllocReturn
  <1>2. start_idx[t] \in Nat /\ i[t] \in Nat /\ start_idx[t] < i[t]
    <2>1. start_idx[t] \in Nat /\ i[t] \in Nat /\ x[t] \in Nat
      BY Layout DEF IInv, TypeOK
    <2>2. start_idx[t] < x[t] /\ x[t] <= i[t]
      BY <1>1 DEF IInv, LocalInv, Local, Marking
    <2>3. QED
      BY <2>1, <2>2
  <1>3. ~Apart(Carved(t), Carved(t))
    BY <1>2, Layout DEF Apart, EndOf, Carved, LocOf, PtrOf
  <1>4. QED
    BY <1>1, <1>3 DEF IInv, CarveInv, Marking

\* A step of the threads that allocate and free keeps the account.
LEMMA FragStep ==
    ASSUME PrintInv, FragInv, Others
    PROVE  FragInv'
  <1> USE DEF PrintInv
  <1>1. PICK t \in Threads : AllocCall(t) \/ FreeCall(t) \/ Waiting(t) \/ Locked(t)
    BY DEF Others, Next
  <1>2. /\ wasted' = (wasted \ GivenBack) \cup {Waste(b) : b \in held' \ held}
        /\ lost' = lost + BytesOf(GivenBack) + Failed
    BY DEF Others
  <1>3. Unasked(t) \in Nat /\ t # NoThread
    BY RequestFacts, WasteFacts, DmaAssumption DEF IInv, Unasked
  <1>4. /\ Wasteful(wasted) /\ BytesOf(wasted) \in Nat /\ lost \in Nat
        /\ \A v, w \in wasted : v.block = w.block => v = w
        /\ \A w \in wasted : w.block \in held /\ w.bytes \in Nat
    BY BytesRemove DEF FragInv, Wasteful, WastedTyped
  <1>5. frag_amount = BytesOf(wasted) + lost + Pending /\ frag_amount \in Nat
    BY DEF FragInv, IInv, TypeOK
  <1>6. BytesOf(wasted)' = BytesOf(wasted')
    OBVIOUS
  <1>7. ASSUME held' = held
        PROVE  wasted' = wasted /\ lost' = lost + Failed
    <2>1. GivenBack = {}
      BY <1>4, <1>7 DEF GivenBack
    <2>2. QED
      BY <1>2, <1>4, <1>7, <2>1, BytesFew
  <1>8. CASE AllocReturn(t)
    <2>1. /\ pc[t] = "mark_fst" /\ held' = held \cup {Carved(t)} /\ lock' = NoThread
          /\ frag_amount' = frag_amount
      BY <1>8 DEF AllocReturn, ReleaseAndReturn
    <2>2. lock = t /\ pc[t] \in Counted /\ Carved(t) \notin held
      BY <1>8, <2>1, CarvedIsNew DEF IInv, LockInv, Critical, PCs, Counted, Marking
    <2>3. Pending = Unasked(t) /\ Pending' = 0 /\ Failed = 0
      BY <1>3, <2>1, <2>2 DEF Pending, Failed
    <2> DEFINE w0 == Waste(Carved(t))
    <2>4. w0.bytes = Unasked(t) /\ w0.block = Carved(t)
      BY <2>2 DEF Waste
    <2>5. GivenBack = {} /\ held' \ held = {Carved(t)}
      BY <1>4, <2>1, <2>2 DEF GivenBack
    <2>6. wasted' = wasted \cup {w0} /\ lost' = lost
      BY <1>2, <1>4, <2>3, <2>5, BytesFew
    <2> HIDE DEF w0
    <2>7. w0 \notin wasted
      BY <1>4, <2>2, <2>4
    <2>8. Wasteful(wasted') /\ BytesOf(wasted') = BytesOf(wasted) + Unasked(t)
      BY <1>3, <1>4, <2>4, <2>6, <2>7, BytesAdd
    <2>9. \A v, w \in wasted' : v.block = w.block => v = w
      BY <1>4, <2>2, <2>4, <2>6
    <2>10. frag_amount' = BytesOf(wasted') + lost' + Pending'
      BY <1>3, <1>4, <1>5, <2>1, <2>3, <2>6, <2>8
    <2>11. QED
      BY <1>4, <1>6, <2>6, <2>8, <2>9, <2>10 DEF FragInv, Wasteful
  <1>9. CASE FreeCall(t)
    <2>1. PICK b \in held \cup {NullBlock} : held' = held \ {b}
      BY <1>9 DEF FreeCall
    <2>2. frag_amount' = frag_amount /\ Pending' = Pending /\ Failed = 0
      <3>1. pc[t] = "idle"
        BY <1>9 DEF FreeCall
      <3>2. ~AllocBegin(t) /\ ~ScanFails(t) /\ ~AllocReturn(t)
        BY <3>1 DEF AllocBegin, ScanFails, AllocReturn
      <3>3. QED
        BY <1>1, <3>2, PendingStep
    <2>3. held' \ held = {} /\ wasted' = wasted \ GivenBack
      BY <1>2, <2>1
    <2>4. CASE GivenBack = {}
      <3>1. wasted' = wasted /\ lost' = lost
        BY <1>2, <1>4, <2>2, <2>3, <2>4, BytesFew
      <3>2. BytesOf(wasted') = BytesOf(wasted)
        BY <3>1
      <3>3. QED
        BY <1>4, <1>5, <1>6, <2>2, <3>1, <3>2 DEF FragInv, Wasteful
    <2>5. CASE GivenBack # {}
      <3>1. PICK w \in GivenBack : TRUE
        BY <2>5
      <3>2. w \in wasted /\ w.block = b /\ GivenBack = {w}
        BY <1>4, <2>1, <3>1 DEF GivenBack
      <3>3. wasted' = wasted \ {w} /\ BytesOf(GivenBack) = w.bytes /\ w.bytes \in Nat
        BY <1>4, <2>3, <3>2, BytesFew
      <3>4. Wasteful(wasted')
        BY <1>4, <3>3, FS_Subset DEF Wasteful
      <3>5. BytesOf(wasted') \in Nat /\ BytesOf(wasted) = w.bytes + BytesOf(wasted')
        BY <1>4, <3>2, <3>3, <3>4, BytesRemove
      <3>6. lost' = lost + w.bytes
        BY <1>2, <1>4, <2>2, <3>3
      <3>7. \A u, v \in wasted' : u.block = v.block => u = v
        BY <1>4, <3>3
      <3>8. frag_amount' = BytesOf(wasted') + lost' + Pending'
        BY <1>4, <1>5, <2>2, <3>3, <3>5, <3>6
      <3>9. QED
        BY <1>4, <1>6, <3>3, <3>4, <3>6, <3>7, <3>8 DEF FragInv, Wasteful
    <2>6. QED
      BY <2>4, <2>5
  <1>10. ASSUME ~AllocReturn(t), ~FreeCall(t) PROVE FragInv'
    <2>1. held' = held
      BY <1>1, <1>10, Ownership DEF IInv
    <2>2. wasted' = wasted /\ lost' = lost + Failed
      BY <1>7, <2>1
    <2>3. BytesOf(wasted') = BytesOf(wasted)
      BY <2>2
    <2>4. Failed \in Nat /\ frag_amount' = BytesOf(wasted) + lost + Failed + Pending'
      <3>1. CASE AllocBegin(t)
        <4>1. /\ frag_amount' = frag_amount + AllocSize(size[t]) - size[t]
              /\ size' = size /\ pc'[t] = "scan" /\ lock = NoThread /\ lock' = t
          BY <3>1 DEF AllocBegin, Acquire, Goto, IInv, TypeOK
        <4>2. Pending = 0 /\ Failed = 0 /\ Pending' = Unasked(t)
          BY <1>3, <4>1 DEF Pending, Failed, Counted, Unasked
        <4>3. size[t] \in Int /\ AllocSize(size[t]) \in Int
          BY RequestFacts DEF IInv
        <4>4. QED
          BY <1>3, <1>4, <1>5, <4>1, <4>2, <4>3 DEF Unasked
      <3>2. CASE ScanFails(t)
        <4>1. /\ pc[t] = "scan" /\ pc'[t] = "alloc_null" /\ lock' = lock
              /\ frag_amount' = frag_amount
          BY <3>2 DEF ScanFails, Goto, IInv, TypeOK
        <4>2. lock = t
          BY <4>1 DEF IInv, LockInv, Critical, PCs
        <4>3. Pending = Unasked(t) /\ Failed = Unasked(t) /\ Pending' = 0
          BY <1>3, <4>1, <4>2 DEF Pending, Failed, Counted, Marking
        <4>4. QED
          BY <1>3, <1>4, <1>5, <4>1, <4>3
      <3>3. CASE ~AllocBegin(t) /\ ~ScanFails(t)
        <4>1. frag_amount' = frag_amount /\ Pending' = Pending /\ Failed = 0
          BY <1>1, <1>10, <3>3, PendingStep
        <4>2. lost + 0 = lost
          BY <1>4
        <4>3. QED
          BY <1>4, <1>5, <4>1, <4>2
      <3>4. QED
        BY <3>1, <3>2, <3>3
    <2>5. lost' \in Nat /\ frag_amount' = BytesOf(wasted') + lost' + Pending'
      BY <1>4, <2>2, <2>3, <2>4
    <2>6. QED
      BY <1>4, <1>6, <2>2, <2>5 DEF FragInv, Wasteful
  <1>11. QED
    BY <1>8, <1>9, <1>10

\* The account holds next to every report.
LEMMA FragInvariance == PrintSpec => []FragInv
  <1>1. PrintInit => FragInv
    <2> SUFFICES ASSUME PrintInit PROVE FragInv
      OBVIOUS
    <2>1. wasted = {} /\ lost = 0 /\ frag_amount = 0 /\ lock = NoThread
      BY DEF PrintInit, Init
    <2>2. QED
      BY <2>1, BytesFew DEF FragInv, Pending
  <1>2. PrintInv /\ FragInv /\ [PrintNext]_printVars => FragInv'
    <2> SUFFICES ASSUME PrintInv, FragInv, [PrintNext]_printVars PROVE FragInv'
      OBVIOUS
    <2>1. CASE Others
      BY <2>1, FragStep
    <2>2. CASE UNCHANGED <<vars, wasted, lost>>
      <3>1. /\ wasted' = wasted /\ frag_amount' = frag_amount /\ lost' = lost
            /\ pc' = pc /\ size' = size /\ lock' = lock
        BY <2>2 DEF vars, frame
      <3>2. BytesOf(wasted)' = BytesOf(wasted')
        OBVIOUS
      <3>3. BytesOf(wasted') = BytesOf(wasted) /\ Pending' = Pending
        BY <3>1 DEF Pending, Unasked
      <3>4. QED
        BY <3>1, <3>2, <3>3 DEF FragInv, Wasteful
    <2>3. QED
      BY <2>1, <2>2 DEF PrintNext, printVars
  <1>3. QED
    BY <1>1, <1>2, PrintInvariance, PTL DEF PrintSpec

\* dma_give_intfrag, although it takes no lock, accounts for every request: with
\* the blocks in use, with the one that is being served, or with those that have
\* no block any more.
THEOREM IntfragAccount == PrintSpec => []IntfragAccounts
  <1>1. FragInv => IntfragAccounts
    BY DEF FragInv, IntfragAccounts, IntFrag, Pending, Counted, Marking
  <1>2. QED
    BY <1>1, FragInvariance, PTL

\* The locals and the report of dma_print_blocks have their types whatever the
\* bitmap is like when it is read: no line is longer than the segment, and no
\* block wastes a whole unit.
THEOREM PrintTypes == PrintSpec => []PrintTypeOK
  <1>1. PrintInv /\ FragInv => PrintTypeOK
    <2> SUFFICES ASSUME PrintInv, FragInv PROVE PrintTypeOK
      OBVIOUS
    <2>1. TypeOK
      BY DEF PrintInv, IInv
    <2>2. /\ at \in {"idle", "read_fst", "read_snd", "printed", "page", "crashed"}
          /\ j \in 0 .. Units /\ word \in {0, 1}
          /\ block_start \in 0 .. LastUnit /\ page_step \in Nat
          /\ block_size \in 0 .. Units
      BY Layout DEF PrintInv, PrintTyped
    <2>3. alloc_lock \in BOOLEAN /\ free_lock \in BOOLEAN /\ disturbed \in BOOLEAN
      BY Zenon DEF PrintInv, PrintTyped
    <2>4. \A w \in wasted : w.block \in held /\ w.bytes \in 0 .. 15
      BY DEF PrintInv, WastedTyped
    <2>5. \A k \in 1 .. Len(report) :
             report[k] \in [kind : {"A", "F"}, start : 0 .. LastUnit, len : 0 .. Units]
      <3>1. report \in Seq(LineType)
        BY DEF PrintInv, PrintTyped
      <3>2. \A k \in 1 .. Len(report) : report[k] \in LineType
        BY <3>1
      <3>3. QED
        BY <3>2 DEF LineType
    <2>6. QED
      BY <2>1, <2>2, <2>3, <2>4, <2>5 DEF PrintTypeOK, FragInv
  <1>2. QED
    BY <1>1, PrintInvariance, FragInvariance, PTL
=============================================================================
