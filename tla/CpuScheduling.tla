---------------------------- MODULE CpuScheduling ----------------------------
(***************************************************************************)
(* What the simulator of src/Project2/systemsim.c promises, without its    *)
(* threads and locks: processes arrive, the scheduler selects one after    *)
(* the other, and waits for each before the next; the simulation is over   *)
(* when nothing is left to select.                                         *)
(*                                                                         *)
(* Not promised, as the program does not keep it: that a process runs only *)
(* when it is selected, and that SJF selects them all.                     *)
(***************************************************************************)
EXTENDS Naturals, Sequences

CONSTANT Lengths    (* of bursts *)

VARIABLES
    algorithm, total, needed,   \* how many arrive, and how many before it starts
    bursts,                     \* the processes that have arrived
    selected,                   \* those selected, in order
    finished,                   \* those whose thread has come to its end
    over                        \* whether the simulation has ended

command == <<algorithm, total, needed>>
vars    == <<command, bursts, selected, finished, over>>

Init ==
    /\ algorithm \in {"FCFS", "SJF", "RR"}
    /\ total \in Nat \ {0} /\ needed \in 1 .. total
    /\ bursts = << >> /\ selected = << >> /\ finished = {} /\ over = FALSE

Arrived == 1 .. Len(bursts)

Arrive ==
    /\ Len(bursts) < total
    /\ \E b \in Lengths : bursts' = Append(bursts, b)
    /\ UNCHANGED <<command, selected, finished, over>>

\* Whichever process gets the CPU, selected or not.
Finish(p) ==
    /\ Len(bursts) >= needed
    /\ p \notin finished
    /\ finished' = finished \cup {p}
    /\ UNCHANGED <<command, bursts, selected, over>>

Last == selected[Len(selected)]

InTurn(p) ==
    IF algorithm = "SJF"
    THEN \A k \in 1 .. Len(selected) : selected[k] # p /\ bursts[selected[k]] <= bursts[p]
    ELSE p = Len(selected) + 1

Select(p) ==
    /\ Len(bursts) = total
    /\ selected # << >> => Last \in finished
    /\ InTurn(p)
    /\ selected' = Append(selected, p)
    /\ UNCHANGED <<command, bursts, finished, over>>

\* The quantum of the process has expired.
PutBack ==
    /\ algorithm = "RR"
    /\ selected # << >> /\ Last \in finished
    /\ finished' = finished \ {Last}
    /\ UNCHANGED <<command, bursts, selected, over>>

End ==
    /\ ~over
    /\ \A k \in 1 .. Len(selected) : selected[k] \in finished
    /\ IF algorithm = "SJF" THEN selected # << >> ELSE Len(selected) = total
    /\ over' = TRUE
    /\ UNCHANGED <<command, bursts, selected, finished>>

Next ==
    \/ Arrive \/ PutBack \/ End
    \/ \E p \in Arrived : Finish(p) \/ Select(p)

Spec == Init /\ [][Next]_vars
=============================================================================
