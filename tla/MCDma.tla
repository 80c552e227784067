------------------------------- MODULE MCDma -------------------------------
(* The allocator on a heap of a few units, small enough for TLC. *)
EXTENDS Dma, TLC

CONSTANTS t1, t2, t3

MCTwoThreads == {t1, t2}
MCThreeThreads == {t1, t2, t3}

\* Exactly two units, a size that is rounded up to one, and what is refused:
\* nothing, more than the segment, a negative size.
MCRequests == {32, 16, 9, 0, -1}

\* The same without the refused ones.
MCFewRequests == {32, 16, 9}

Symmetry == Permutations(MCThreeThreads)
=============================================================================
