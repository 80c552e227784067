---------------------------- MODULE MCSystemSim ----------------------------
(***************************************************************************)
(* The simulator with a few processes.  Two lengths are enough for a queue *)
(* that is out of order.                                                   *)
(***************************************************************************)
EXTENDS SystemSim

MCAll == {"FCFS", "SJF", "RR"}

Command(alg, q, max, all) ==
    [algorithm |-> alg, quantum |-> q, maxP |-> max, allP |-> all,
     burst_dist |-> IF alg = "SJF" THEN "uniform" ELSE "fixed",
     min_burst |-> 1, max_burst |-> 3]

\* With lengths that may have to be drawn again.
DrawnAgain(c) == [c EXCEPT !.burst_dist = "exponential", !.max_burst = 2]

\* With no difference between the bounds.
EqualBounds(c) == [c EXCEPT !.burst_dist = "uniform", !.max_burst = 1]

\* All three loops of the generator; one that goes on when the processes may
\* already run; a single process; two whose lengths may be drawn again while
\* the first of them runs; and equal bounds.
MCArguments ==
    UNION {{Command(alg, 1, 3, 4), Command(alg, 3, 3, 2), Command(alg, 1, 1, 1),
            DrawnAgain(Command(alg, 1, 2, 1)),
            EqualBounds(Command(alg, 1, 1, 1))} : alg \in MCAll}

MCAnyAlgorithm == {Command(alg, 1, 2, 3) : alg \in MCAll}

MCShortestFirst == {Command("SJF", 0, 3, 3)}

MCRoundRobin == {Command("RR", 1, 2, 3), Command("RR", 1, 1, 1)}
=============================================================================
