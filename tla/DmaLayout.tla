----------------------------- MODULE DmaLayout -----------------------------
(***************************************************************************)
(* Geometry of the heap that dma_init lays out (src/Project3/dma.c).       *)
(*                                                                         *)
(* The bitmap is an array of 8-byte words, one word for every 8 bytes of   *)
(* the segment, and every loop over it advances by two words.  The model   *)
(* counts in units of two words, so unit u stands for the words 2u, 2u+1   *)
(* of the bitmap and for 16 bytes of the segment.                          *)
(***************************************************************************)
EXTENDS Integers

CONSTANTS Units,          (* bitmap_size / 2, the units of the segment      *)
          BitmapUnits,    (* bitmap_reserved / 2, set aside for the bitmap  *)
          ReservedUnits,  (* block_reserved / 2, set aside after the bitmap *)
          PageUnits       (* units of a virtual memory page                 *)

\* Both system blocks are there and leave room for the application.
ASSUME LayoutAssumption ==
    /\ Units \in Nat
    /\ BitmapUnits \in Nat \ {0}
    /\ ReservedUnits \in Nat \ {0}
    /\ PageUnits \in Nat \ {0}
    /\ BitmapUnits + ReservedUnits < Units

\* What dma_init computes from m, in words: bitmap_size, bitmap_reserved and
\* block_reserved.
BitmapSize(m) == 2 ^ (m - 3)
BitmapReserved(m) == 2 ^ (m - 6) \div 8
BlockReserved == 256 \div 8

\* The segments that dma_init accepts, 16 KB to 4 MB.
Accepts(m) == 14 <= m /\ m <= 22

\* Every accepted m meets LayoutAssumption, is a whole number of units and
\* pages, and its bitmap takes a word for every 8 bytes of the segment.
ASSUME AcceptedLayouts ==
    \A m \in {k \in -1 .. 30 : Accepts(k)} :
        /\ BitmapSize(m) % 512 = 0
        /\ BitmapReserved(m) % 2 = 0 /\ BitmapReserved(m) > 0
        /\ BlockReserved % 2 = 0 /\ BlockReserved > 0
        /\ BitmapReserved(m) + BlockReserved < BitmapSize(m)
        /\ 8 * BitmapSize(m) = 2 ^ m

\* The first unit after the two system blocks.
First == BitmapUnits + ReservedUnits

\* The scan finds a free run only when it meets a word pair behind it, so
\* the last unit of the bitmap ends every run and is never handed out.
LastUnit == Units - 1

SegSize == 16 * Units

\* alloc_size: the request rounded up to a multiple of 16 bytes.
AllocSize(size) ==
    IF size % 16 # 0 THEN (size \div 16 + 1) * 16 ELSE size

\* size > segSize: segSize is a size_t, so a negative size is huge.
TooLarge(size) == size < 0 \/ size > SegSize

-----------------------------------------------------------------------------
(* Pointers, in units from start_ptr.  alloc_start_addr skips bitmap_size  *)
(* words and `reserved` words, and block_reserved is reserved / 8.         *)

\* The conversion of the comment at dma.c:77: bitmap plus reserved area.
AllocStartInSegment == BitmapUnits + ReservedUnits

AllocStart == Units + 8 * ReservedUnits

PtrOf(loc) == AllocStart + (loc - BitmapUnits - ReservedUnits)
LocOf(ptr) == (ptr - AllocStart) + ReservedUnits + BitmapUnits

\* The null pointer.  No block starts there: AllocStart is positive.
Null == 0
=============================================================================
