------------------------------ MODULE DmaPrint ------------------------------
(***************************************************************************)
(* The functions of src/Project3/dma.c that look at the heap, next to the  *)
(* threads of Dma that change it.  None of them takes segment_lock, so one *)
(* more thread of the application runs dma_print_blocks word by word, or   *)
(* dma_print_page access by access, between the steps of the others.       *)
(***************************************************************************)
EXTENDS Dma, Sequences, FiniteSetsExt

CONSTANTS PageNumbers   (* the arguments given to dma_print_page *)

ASSUME PrintAssumption == PageNumbers \subseteq Int

VARIABLES
    at,          \* where the printing thread is
    j,           \* its loop index, in units
    word,        \* the value of p[i] that it read before p[i+1]
    alloc_lock, free_lock, block_size, block_start,   \* other locals
    report,      \* the lines printed so far
    page_step,   \* dma_print_page: how far its pointer moves each time
    disturbed,   \* history: the report is not about one bitmap
    wasted,      \* history: the blocks held, with the bytes not asked for
    lost         \* history: what requests without a block now added to the counter

printer   == <<at, j, word, alloc_lock, free_lock, block_size, block_start,
               report, page_step>>
printVars == <<vars, printer, disturbed, wasted, lost>>

Line(kind, start, len) == [kind |-> kind, start |-> start, len |-> len]

\* block_size counts an allocated block without its first unit.
BlockUnitsShort == block_size
BlockUnits == block_size + 1

NextPairSkipped == j + 2
NextPair == j + 1

ResetLocals(label) ==
    /\ at' = label
    /\ j' = 0
    /\ word' = 0
    /\ alloc_lock' = FALSE
    /\ free_lock' = FALSE
    /\ block_size' = 0
    /\ block_start' = 0

PrintInit ==
    /\ Init
    /\ at = "idle"
    /\ j = 0
    /\ word = 0
    /\ alloc_lock = FALSE
    /\ free_lock = FALSE
    /\ block_size = 0
    /\ block_start = 0
    /\ report = << >>
    /\ page_step = 0
    /\ disturbed = FALSE
    /\ wasted = {}
    /\ lost = 0

-----------------------------------------------------------------------------
(* dma_print_blocks *)

PrintBlocks ==
    /\ at = "idle"
    /\ ResetLocals("read_fst")
    /\ report' = << >>
    /\ UNCHANGED page_step

ReadFst ==
    /\ at = "read_fst"
    /\ j < Units
    /\ word' = fst[j]
    /\ at' = "read_snd"
    /\ UNCHANGED <<j, alloc_lock, free_lock, block_size, block_start,
                   report, page_step>>

\* A free unit closes an allocated block, or lengthens a free one.
SeeFree ==
    /\ word = 1 /\ snd[j] = 1
    /\ free_lock' = TRUE
    /\ IF alloc_lock
       THEN /\ report' = Append(report, Line("A", block_start, BlockUnits))
            /\ alloc_lock' = FALSE
            /\ block_start' = j
            /\ block_size' = 1
       ELSE /\ block_size' = block_size + 1
            /\ UNCHANGED <<report, alloc_lock, block_start>>

\* The first unit of a block closes whatever came before it.
SeeStart ==
    /\ word = 0 /\ snd[j] = 1
    /\ alloc_lock' = TRUE
    /\ free_lock' = FALSE
    /\ IF free_lock \/ alloc_lock
       THEN /\ report' = Append(report,
                           IF free_lock
                           THEN Line("F", block_start, block_size)
                           ELSE Line("A", block_start, BlockUnits))
            /\ block_start' = j
            /\ block_size' = 0
       ELSE UNCHANGED <<report, block_start, block_size>>

SeeInside ==
    /\ word = 0 /\ snd[j] = 0
    /\ block_size' = block_size + 1
    /\ UNCHANGED <<report, alloc_lock, free_lock, block_start>>

\* 10 encodes nothing and is passed over.
SeeOther ==
    /\ word = 1 /\ snd[j] = 0
    /\ UNCHANGED <<report, alloc_lock, free_lock, block_size, block_start>>

ReadSnd ==
    /\ at = "read_snd"
    /\ SeeFree \/ SeeStart \/ SeeInside \/ SeeOther
    /\ j' = NextPair
    /\ at' = "read_fst"
    /\ UNCHANGED <<word, page_step>>

\* The last block; an allocated one is printed without its first unit.
PrintLast ==
    /\ at = "read_fst"
    /\ j >= Units
    /\ report' = IF alloc_lock \/ free_lock
                 THEN Append(report, Line(IF alloc_lock THEN "A" ELSE "F",
                                          block_start, block_size))
                 ELSE report
    /\ ResetLocals("printed")
    /\ UNCHANGED page_step

PrintReturn ==
    /\ at = "printed"
    /\ ResetLocals("idle")
    /\ report' = << >>
    /\ UNCHANGED page_step

BlocksPrinter ==
    PrintBlocks \/ ReadFst \/ ReadSnd \/ PrintLast \/ PrintReturn

-----------------------------------------------------------------------------
(* dma_print_page *)

\* Page numbers are words of the segment, not pages, to the check.  It lets one
\* too many pass, for which the loop ends before it begins.
PrintPageRejects ==
    /\ at = "idle"
    /\ \E pno \in PageNumbers : pno > 2 * Units \/ pno < 0
    /\ UNCHANGED printer

PrintPageEmpty ==
    /\ at = "idle"
    /\ 2 * Units \in PageNumbers
    /\ UNCHANGED printer

PrintPage ==
    /\ at = "idle"
    /\ \E pno \in PageNumbers :
          /\ 0 <= pno /\ pno < 2 * Units
          /\ page_step' = 4 * pno
    /\ ResetLocals("page")
    /\ UNCHANGED report

\* The pointer moves by the start of the page again and again, as the loop
\* index never changes, and %ln stores into the word the number of characters
\* printed so far, which is 0.
PageWord ==
    /\ at = "page"
    /\ j + page_step < Units
    /\ fst' = [fst EXCEPT ![j + page_step] = 0]
    /\ j' = j + page_step
    /\ UNCHANGED <<at, word, alloc_lock, free_lock, block_size, block_start,
                   report, page_step>>

\* It runs off the segment in the end and the process dies.
PageCrash ==
    /\ at = "page"
    /\ j + page_step >= Units
    /\ at' = "crashed"
    /\ UNCHANGED <<j, word, alloc_lock, free_lock, block_size, block_start,
                   report, page_step>>

-----------------------------------------------------------------------------
\* dma_give_intfrag: one load of the counter, at any time.
IntFrag == frag_amount

\* What rounding adds to the request of t.
Unasked(t) == AllocSize(size[t]) - size[t]

\* A block is new when the thread with the lock returns it.
Waste(b) == [block |-> b, bytes |-> Unasked(lock)]

BytesOf(S) == MapThenSumSet(LAMBDA w : w.bytes, S)

\* The records of the blocks that are being given to dma_free, and what a
\* request adds whose scan fails in this step.
GivenBack == {w \in wasted : w.block \notin held'}
Failed    == IF lock # NoThread /\ pc[lock] = "scan" /\ pc'[lock] = "alloc_null"
             THEN Unasked(lock) ELSE 0

Running == at # "crashed"

\* The threads that allocate and free.  A write while a report is being made
\* disturbs it.
Others ==
    /\ Running
    /\ Next
    /\ disturbed' = (disturbed \/ (at # "idle" /\ bitmap' # bitmap))
    /\ wasted' = (wasted \ GivenBack) \cup {Waste(b) : b \in held' \ held}
    /\ lost' = lost + BytesOf(GivenBack) + Failed
    /\ UNCHANGED printer

PrintNext ==
    \/ Others
    \/ /\ BlocksPrinter
       /\ disturbed' = IF at = "idle" THEN lock # NoThread ELSE disturbed
       /\ UNCHANGED <<vars, wasted, lost>>

PrintSpec == PrintInit /\ [][PrintNext]_printVars

PageNext ==
    \/ Others
    \/ /\ PrintPageRejects \/ PrintPageEmpty \/ PrintPage \/ PageCrash
       /\ UNCHANGED <<vars, disturbed, wasted, lost>>
    \/ /\ PageWord
       /\ UNCHANGED <<snd, lock, frag_amount, unmapped, held, pc, frame, disturbed,
                      wasted, lost>>

PageSpec == PrintInit /\ [][PageNext]_printVars

-----------------------------------------------------------------------------
(* Properties *)

PrintTypeOK ==
    /\ TypeOK
    /\ at \in {"idle", "read_fst", "read_snd", "printed", "page", "crashed"}
    /\ j \in 0 .. Units
    /\ word \in {0, 1}
    /\ alloc_lock \in BOOLEAN /\ free_lock \in BOOLEAN /\ disturbed \in BOOLEAN
    /\ block_size \in 0 .. Units
    /\ block_start \in 0 .. LastUnit
    /\ page_step \in Nat /\ lost \in Nat
    /\ \A w \in wasted : w.block \in held /\ w.bytes \in 0 .. 15
    /\ \A k \in 1 .. Len(report) :
          report[k] \in [kind : {"A", "F"}, start : 0 .. LastUnit, len : 0 .. Units]

\* The lines follow one another without gap or overlap from the first unit of
\* the segment to its end.
CoversSegment ==
    /\ report # << >>
    /\ report[1].start = 0
    /\ \A k \in 1 .. Len(report) - 1 :
          report[k + 1].start = report[k].start + report[k].len
    /\ report[Len(report)].start + report[Len(report)].len = Units

\* What should be listed as allocated: the system blocks, what the application
\* holds and what waits to be freed.
Allocated ==
    {[start |-> 0, len |-> BitmapUnits],
     [start |-> BitmapUnits, len |-> ReservedUnits]}
    \cup {HeapBlock(b) : b \in held \cup ({block[t] : t \in Threads} \ {NullBlock})}

\* When nothing writes the bitmap meanwhile, dma_print_blocks (dma.c:256-324)
\* lists exactly the allocated blocks, each with its size, and joins adjacent
\* free units into one free block.
ReportIsExact ==
    at = "printed" /\ ~disturbed =>
        /\ CoversSegment
        /\ {[start |-> l.start, len |-> l.len] :
               l \in {report[k] : k \in {n \in DOMAIN report : report[n].kind = "A"}}} = Allocated
        /\ \A k \in 1 .. Len(report) - 1 :
              "A" \in {report[k].kind, report[k + 1].kind}

\* What dma_give_intfrag returns (dma.c:329), at any time and whoever allocates or
\* frees meanwhile, is what the blocks in use waste, what the request that is
\* served right now adds, and what requests added that have no block any more,
\* because it was given back or the scan failed: each of these once (113).
IntfragAccounts ==
    IntFrag = BytesOf(wasted) + lost
              + IF lock # NoThread /\ pc[lock] \in {"scan", "mark_fst", "mark_snd"}
                THEN Unasked(lock) ELSE 0

\* A finished report covers the segment, whatever the other threads did: the
\* accesses to the bitmap are to be protected by a mutex (Project3.pdf).
ReportCoversSegment ==
    at = "printed" => CoversSegment
=============================================================================
