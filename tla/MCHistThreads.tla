--------------------------- MODULE MCHistThreads ---------------------------
(* Three clients and two servers with files of a few numbers; ints of 8 bits. *)
EXTENDS HistThreads, TLC

CONSTANTS c1, c2, c3, s1, s2

MCClients == {c1, c2, c3}
MCServers == {s1, s2}

\* The last ends at 20 and 15; the last of c3 at 265, which as an int is 9.
MCRequest == (c1 :> [start |-> 10, width |-> 5, cnt |-> 2]) @@
             (c2 :> [start |-> 12, width |-> 1, cnt |-> 3]) @@
             (c3 :> [start |-> -5, width |-> 90, cnt |-> 3])

\* Numbers below, at, between and above the bounds; two files for each server,
\* one of them not there.
MCFiles == (s1 :> <<<<9, 10, 12>>, <<13, 14, 15, 20>>>>) @@
           (s2 :> <<Missing, <<12>>>>)
=============================================================================
