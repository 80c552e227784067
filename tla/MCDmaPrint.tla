----------------------------- MODULE MCDmaPrint -----------------------------
(* One thread that allocates and frees, and one that prints. *)
EXTENDS DmaPrint

CONSTANTS t1

MCThreads == {t1}

\* One size is rounded up.
MCRequests == {32, 16, 9}

\* A rejected number on either side, the first page, the second, and the number
\* that only the loop rejects.
MCPageNumbers == {-1, 0, 1, 2 * Units, 100}
=============================================================================
