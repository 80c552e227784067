------------------------------ MODULE SimProofs ------------------------------
(***************************************************************************)
(* Proofs about the scheduling simulator of SystemSim, for any command     *)
(* lines, any burst lengths and any number of processes.                   *)
(*                                                                         *)
(* The invariant has a part for each of the things that the threads rely   *)
(* on: GenInv (the generator's labels), LockInv (who holds a mutex),       *)
(* ListInv (what the linked list looks like while it is sorted) and        *)
(* JoinInv (who has been joined).                                          *)
(***************************************************************************)
EXTENDS SystemSim, TLAPS

\* The scheduler has everything it waited for.
Started == sche \in {"first_sort", "broadcast", "join", "sort", "exited"}

\* The generator works with the ready queue locked, and is done when the
\* scheduler starts.
GenInv ==
    /\ gen = "begin" => count = 0
    /\ gen \in {"loop", "drawing", "add", "create"} => th_ready_queue = GenThr
    /\ gen = "add" => /\ new = count + 1 /\ count < Total
                      /\ burst[new] \in AllLengths
    /\ gen = "create" => new = count /\ count > 0 /\ proc[new] = "none"
    /\ gen = "exited" => count = Total
    /\ Started => gen = "exited"
    /\ \A p \in PCBs : proc[p] # "none" => p <= count
    /\ \A p \in PCBs : proc[p] = "created" => arg[p] # "none"

\* Processes are generated in the order of their arrival.
StartInv ==
    /\ \A p \in PCBs : start[p] \in 0 .. p - 1
    /\ \A p \in 1 .. count - 1 : start[p] <= start[p + 1]
    /\ gen = "add" /\ count > 0 => start[count] <= start[count + 1]

\* Until the scheduler ends, the mutex excludes the scheduler and the others.
LockInv ==
    /\ sche \in {"lock_queue", "asleep", "first_sort", "broadcast"} => mutex = Sched
    /\ sche # "exited" => \A t \in PCBs : proc[t] = "running" => mutex = t
    /\ \A t \in PCBs : proc[t] \in {"running", "exited"} => count >= allP

\* The list as it was generated.
Chain == \A p \in 1 .. count : next[p] = IF p < count THEN p + 1 ELSE NULL

\* The list after a process was put back: the pass over it has no end.
Looping ==
    /\ algorithm = "RR" /\ sche = "sort" /\ tmp \in 1 .. count
    /\ \A p \in 1 .. count : next[p] \in 1 .. count

\* The passes of SJF do not move a PCB with a shorter burst to the front but
\* take it out of the list: such a PCB points back, every other one to the next
\* one that is still there.
Kept(p) == next[p] = NULL \/ next[p] > p

Links ==
    /\ \A p \in 1 .. count : next[p] \in 0 .. count
    /\ \A p \in 1 .. count : Kept(p) /\ next[p] # NULL => Kept(next[p])
    /\ \A p, r \in 1 .. count : Kept(p) /\ Kept(r) /\ p < r =>
          next[p] # NULL /\ next[p] <= r
    /\ head # NULL => head \in 1 .. count /\ Kept(head)
    /\ tmp # NULL => tmp \in 1 .. count /\ Kept(tmp)

\* The pass has come to tmp; behind it the list is in order.
Passed(p) == sche = "first_sort" => tmp = NULL \/ p < tmp

Ordered ==
    \A p \in 1 .. count : Kept(p) /\ Passed(p) /\ next[p] # NULL =>
        burst[p] <= burst[next[p]]

\* Whatever was selected comes before what is left, in the list and by length.
SelectedOrdered ==
    /\ \A k \in 1 .. Len(selected) : selected[k] \in 1 .. count
    /\ \A j, k \in 1 .. Len(selected) : j < k =>
          selected[j] < selected[k] /\ burst[selected[j]] <= burst[selected[k]]
    /\ head # NULL => \A k \in 1 .. Len(selected) :
          selected[k] < head /\ burst[selected[k]] <= burst[head]

Waiting ==
    /\ Chain /\ head = (IF count = 0 THEN NULL ELSE 1) /\ selected = << >>

InArrivalOrder ==
    Chain /\ head = IF Len(selected) < count THEN Len(selected) + 1 ELSE NULL

ListInv ==
    /\ \A p \in PCBs : p > count => next[p] = NULL
    /\ ~Started => Waiting
    /\ sche = "first_sort" => head = 1 /\ selected = << >>
    /\ Started /\ algorithm = "SJF" => Links /\ Ordered /\ SelectedOrdered
    /\ Started /\ algorithm # "SJF" => InArrivalOrder \/ Looping
    /\ algorithm # "SJF" =>
          Len(selected) <= count /\ selected = [k \in 1 .. Len(selected) |-> k]

SelectedExited == \A k \in 1 .. Len(selected) : proc[selected[k]] = "exited"

AllSelected == algorithm # "SJF" => Len(selected) = count

JoinInv ==
    /\ sche \in {"broadcast", "join"} /\ pcb # NULL =>
          /\ selected # << >> /\ pcb = selected[Len(selected)]
          /\ \A k \in 1 .. Len(selected) - 1 : proc[selected[k]] = "exited"
    /\ sche = "broadcast" => pcb # NULL
    /\ sche = "exited" \/ (sche = "join" /\ pcb = NULL) =>
          selected # << >> /\ SelectedExited /\ AllSelected
    /\ sche = "sort" => selected # << >> /\ (SelectedExited \/ Looping)
    /\ main # "join" => sche = "exited"
    /\ ended = "returned" => main # "join"

SimInv == SimTypeOK /\ GenInv /\ StartInv /\ LockInv /\ ListInv /\ JoinInv
-----------------------------------------------------------------------------
(* The command line, types and the generator. *)

\* A process is one that a command line can make.
LEMMA Processes ==
    ASSUME NEW p
    PROVE  p \in PCBs <=> \E a \in Arguments : p \in 1 .. a.maxP \/ p \in 1 .. a.allP
  <1>1. p \in PCBs <=> \E a \in Arguments : p \in (1 .. a.maxP) \cup (1 .. a.allP)
    BY Zenon DEF PCBs
  <1>2. QED
    BY <1>1

\* What the constants say of a command line, and which processes there are.
LEMMA CommandFacts ==
    ASSUME args \in Arguments
    PROVE  /\ algorithm \in {"FCFS", "SJF", "RR"} /\ quantum \in Nat
           /\ maxP \in Nat \ {0} /\ allP \in Nat \ {0} /\ Total \in Nat \ {0}
           /\ allP <= Total /\ maxP <= Total /\ Batch <= maxP /\ Batch \in Nat
           /\ 1 .. Total \subseteq PCBs
  <1>1. /\ args.algorithm \in {"FCFS", "SJF", "RR"} /\ args.quantum \in Nat
        /\ args.maxP \in Nat \ {0} /\ args.allP \in Nat \ {0} /\ batch \in Nat \ {0}
    BY SimAssumption
  <1>2. 1 .. args.maxP \subseteq PCBs /\ 1 .. args.allP \subseteq PCBs
    BY Processes
  <1>3. QED
    BY <1>1, <1>2 DEF algorithm, quantum, maxP, allP, Total, Batch

\* Processes are numbered from 1 on.
LEMMA Numbered ==
    ASSUME NEW p \in PCBs
    PROVE  p \in Nat \ {0} /\ 1 .. p \subseteq PCBs
  <1>1. PICK a \in Arguments : p \in 1 .. a.maxP \/ p \in 1 .. a.allP
    BY Processes
  <1>2. a.maxP \in Nat /\ a.allP \in Nat
    BY SimAssumption
  <1>3. 1 .. a.maxP \subseteq PCBs /\ 1 .. a.allP \subseteq PCBs
    BY Processes
  <1>4. QED
    BY <1>1, <1>2, <1>3

\* The generator goes on until all processes are there.
LEMMA More ==
    ASSUME args \in Arguments, count \in 0 .. Total
    PROVE  GenMore <=> count < Total
  BY CommandFacts DEF GenMore, Total

\* The lengths are numbers.
LEMMA LengthFacts == AllLengths \subseteq Int
  <1>1. SUFFICES ASSUME NEW a \in Arguments PROVE LengthsOf(a) \subseteq Int
    BY DEF AllLengths
  <1>2. /\ a.burst_dist \in {"fixed", "uniform", "exponential"} /\ burst_len \in Int
        /\ a.min_burst \in Int /\ a.max_burst \in Int
    BY SimAssumption
  <1>3. Uniform(a) \subseteq Int
    BY <1>2 DEF Uniform
  <1>4. Exponential(a) \subseteq Int
    BY <1>2 DEF Exponential
  <1>5. Drawn(a) \subseteq Int
    BY <1>2, <1>3, <1>4 DEF Drawn
  <1>6. QED
    BY <1>2, <1>5 DEF LengthsOf

\* However the program ends, the threads leave everything as it is.
LEMMA Crashes ==
    ASSUME (\E t \in PCBs : ProcCrash(t)) \/ GenTrap \/ ScheCrash \/ MainCrash
    PROVE  EndsWith("crashed")
  BY DEF ProcCrash, GenTrap, ScheCrash, MainCrash

\* A command line does not change.
LEMMA SameCommand ==
    ASSUME args' = args
    PROVE  UNCHANGED <<algorithm, quantum, maxP, allP, Batch, Total>>
  BY DEF algorithm, quantum, maxP, allP, Batch, Total

Typed == SimTypeOK /\ GenInv /\ StartInv

\* What is known of a state, for the steps of every thread.
LEMMA TypeFacts ==
    ASSUME Typed
    PROVE  /\ algorithm \in {"FCFS", "SJF", "RR"} /\ quantum \in Nat
           /\ allP \in Nat \ {0} /\ Total \in Nat \ {0} /\ allP <= Total
           /\ 1 .. Total \subseteq PCBs /\ count \in 0 .. Total /\ count \in Nat
           /\ 1 .. count \subseteq PCBs
           /\ \A p \in PCBs : p \in Nat /\ p >= 1
           /\ NULL \notin PCBs /\ Sched \notin PCBs /\ NoOne \notin PCBs
  <1>1. args \in Arguments /\ count \in 0 .. Total
    BY DEF Typed, SimTypeOK
  <1>2. /\ algorithm \in {"FCFS", "SJF", "RR"} /\ quantum \in Nat
        /\ allP \in Nat \ {0} /\ Total \in Nat \ {0} /\ allP <= Total
        /\ 1 .. Total \subseteq PCBs
    BY <1>1, CommandFacts
  <1>3. \A p \in PCBs : p \in Nat /\ p >= 1
    BY Numbered
  <1>4. NULL \notin PCBs /\ Sched \notin PCBs /\ NoOne \notin PCBs
    BY <1>3 DEF NULL, Sched, NoOne
  <1>5. QED
    BY <1>1, <1>2, <1>3, <1>4

\* The generator's steps keep the types and the generator's invariants.
LEMMA GeneratorTyped ==
    ASSUME Typed, GeneratorStep
    PROVE  Typed'
  <1>0. /\ UNCHANGED <<args, ended>> /\ args \in Arguments
        /\ UNCHANGED <<algorithm, quantum, allP, Total>>
    BY SameCommand DEF GeneratorStep, GoesOn, Typed, SimTypeOK
  <1>1. /\ algorithm \in {"FCFS", "SJF", "RR"} /\ quantum \in Nat
        /\ allP \in Nat \ {0} /\ Total \in Nat \ {0} /\ allP <= Total
        /\ 1 .. Total \subseteq PCBs /\ count \in 0 .. Total /\ count \in Nat
        /\ \A p \in PCBs : p \in Nat /\ p >= 1
    BY TypeFacts
  <1>2. GenMore <=> count < Total
    BY <1>0, <1>1, More
  <1> USE DEF Typed
  <1>3. CASE GenBegin
    <2> USE <1>3 DEF GenBegin, queue, fields, scheV, procV, mainV
    <2>1. SimTypeOK'
      BY <1>0 DEF SimTypeOK
    <2>2. GenInv' /\ StartInv'
      BY <1>0 DEF GenInv, StartInv, Started
    <2>3. QED
      BY <2>1, <2>2
  <1>4. CASE GenMalloc
    <2> USE DEF GenMalloc, NewPcb, queue, fields, locks, scheV, procV, mainV
    <2>1. count < Total /\ count + 1 \in PCBs /\ gen = "loop"
      BY <1>1, <1>2, <1>4
    <2>2. PICK b \in LengthsOf(args), gap \in Gaps :
            /\ burst' = [burst EXCEPT ![count + 1] = b]
            /\ start' = [start EXCEPT ![count + 1] =
                           IF count = 0 THEN 0 ELSE start[count] + gap]
      BY <1>4
    <2>3. b \in AllLengths /\ gap \in {0, 1} /\ burst_len \in Int
      BY <1>0, SimAssumption DEF AllLengths, Gaps
    <2>4. /\ start \in [PCBs -> PCBs \cup {0}]
          /\ \A p \in PCBs : start[p] \in 0 .. p - 1
          /\ \A p \in 1 .. count - 1 : start[p] <= start[p + 1]
      BY DEF SimTypeOK, StartInv
    <2>5. /\ start'[count + 1] \in 0 .. count
          /\ count > 0 => start[count] <= start'[count + 1]
      BY <1>1, <2>1, <2>2, <2>3, <2>4
    <2>6. \A p \in PCBs : p # count + 1 => start'[p] = start[p]
      BY <2>2, <2>4
    <2>7. StartInv'
      <3>1. \A p \in PCBs : start'[p] \in 0 .. p - 1
        BY <1>1, <2>4, <2>5, <2>6
      <3>2. count' = count /\ gen' = "add"
        BY <1>4
      <3>3. \A p \in 1 .. count : start'[p] = start[p]
        BY <1>1, <2>6
      <3>4. \A p \in 1 .. count - 1 : start'[p] <= start'[p + 1]
        BY <1>1, <2>4, <3>3
      <3>5. count > 0 => start'[count] <= start'[count + 1]
        BY <1>1, <2>5, <3>3
      <3>6. QED
        BY <3>1, <3>2, <3>4, <3>5 DEF StartInv
    <2>8. start' \in [PCBs -> PCBs \cup {0}]
      <3>1. 0 .. count \subseteq PCBs \cup {0}
        BY <1>1
      <3>2. QED
        BY <2>2, <2>4, <2>5, <3>1
    <2>9. SimTypeOK'
      <3>1. /\ burst' \in [PCBs -> AllLengths \cup {0}]
            /\ remaining_burst_len' \in [PCBs -> Int]
            /\ last' \in [PCBs -> {0, 1}]
        BY <1>4, <2>2, <2>3 DEF SimTypeOK
      <3>2. slot' \in [Loops -> PCBs \cup {NULL}] /\ new' \in PCBs
        BY <1>4, <2>1 DEF SimTypeOK
      <3>3. QED
        BY <1>0, <1>4, <2>8, <3>1, <3>2 DEF SimTypeOK
    <2>10. GenInv'
      <3>1. new' = count + 1 /\ burst'[new'] \in AllLengths
        BY <1>4, <2>1, <2>2, <2>3 DEF SimTypeOK
      <3>2. QED
        BY <1>0, <1>4, <2>1, <3>1 DEF GenInv, Started
    <2>11. QED
      BY <2>7, <2>9, <2>10
  <1>5. CASE GenDraw
    <2> USE <1>5 DEF GenDraw, NewPcb, queue, fields, locks, scheV, procV, mainV
    <2>1. count + 1 \in PCBs
      BY <1>1, <1>2
    <2>2. SimTypeOK'
      <3>1. slot' \in [Loops -> PCBs \cup {NULL}] /\ new' \in PCBs
        BY <2>1 DEF SimTypeOK
      <3>2. QED
        BY <1>0, <3>1 DEF SimTypeOK
    <2>3. GenInv' /\ StartInv'
      BY <1>0 DEF GenInv, StartInv, Started
    <2>4. QED
      BY <2>2, <2>3
  <1>6. CASE GenAdd
    <2> USE <1>6 DEF GenAdd, fields, locks, scheV, procV, mainV
    <2>1. new = count + 1 /\ count < Total /\ new \in PCBs
      BY <1>1 DEF GenInv
    <2>2. next' \in [PCBs -> PCBs \cup {NULL}] /\ {head', head1'} \subseteq PCBs \cup {NULL}
      BY <2>1 DEF AddItem, SimTypeOK
    <2>3. SimTypeOK'
      BY <1>0, <1>1, <2>1, <2>2 DEF SimTypeOK
    <2>4. GenInv'
      BY <1>0, <1>1, <2>1 DEF GenInv, Started
    <2>5. StartInv'
      BY <1>0, <1>1, <2>1 DEF StartInv
    <2>6. QED
      BY <2>3, <2>4, <2>5
  <1>7. CASE GenCreate
    <2> USE <1>7 DEF GenCreate, queue, fields, locks, scheV, mainV
    <2>1. new = count /\ count > 0
      BY DEF GenInv
    <2>2. LoopOf(new) \in Loops
      BY DEF LoopOf, Loops
    <2>3. SimTypeOK'
      <3>1. /\ proc' \in [PCBs -> {"none", "created", "lock", "asleep", "running", "exited"}]
            /\ arg' \in [PCBs -> Loops \cup {"sche", "none"}]
        BY <2>2 DEF SimTypeOK
      <3>2. QED
        BY <1>0, <3>1 DEF SimTypeOK
    <2>4. \A p \in PCBs : proc'[p] = "created" => arg'[p] # "none"
      BY <2>2 DEF GenInv, SimTypeOK, Loops
    <2>5. \A p \in PCBs : proc'[p] # "none" => p <= count
      BY <1>1, <2>1 DEF GenInv, SimTypeOK
    <2>6. GenInv' /\ StartInv'
      BY <1>0, <1>1, <2>1, <2>4, <2>5 DEF GenInv, StartInv, Started
    <2>7. QED
      BY <2>3, <2>6
  <1>8. CASE GenExit
    <2> USE <1>8 DEF GenExit, queue, fields, procV, mainV
    <2>1. SimTypeOK'
      <3>1. sche' \in {"lock_mutex", "lock_queue", "asleep", "first_sort",
                       "broadcast", "join", "sort", "exited"}
        BY DEF SimTypeOK
      <3>2. QED
        BY <1>0, <3>1 DEF SimTypeOK
    <2>2. GenInv' /\ StartInv'
      BY <1>0, <1>1, <1>2 DEF GenInv, StartInv, Started
    <2>3. QED
      BY <2>1, <2>2
  <1>9. QED
    BY <1>3, <1>4, <1>5, <1>6, <1>7, <1>8 DEF GeneratorStep, Generator

\* So do the steps of a process thread.
LEMMA ProcessTyped ==
    ASSUME Typed, NEW t \in PCBs, ProcessStep(t)
    PROVE  Typed'
  <1>0. /\ UNCHANGED <<args, ended>> /\ args \in Arguments
        /\ UNCHANGED <<algorithm, quantum, allP, Total>>
    BY SameCommand DEF ProcessStep, GoesOn, Typed, SimTypeOK
  <1>1. /\ Total \in Nat \ {0} /\ count \in Nat
        /\ \A p \in PCBs : p \in Nat /\ p >= 1
    BY TypeFacts
  <1>2. UNCHANGED <<queue, burst, start, remaining_burst_len, th_ready_queue,
                    genV, scheV, arg, mainV>>
    BY DEF ProcessStep, Process, ProcStart, ProcSleep, ProcRun, ProcExit, fields, locks
  <1>3. /\ proc[t] # "none"
        /\ \E l \in {"lock", "asleep", "running", "exited"} :
              proc' = [proc EXCEPT ![t] = l]
    BY DEF ProcessStep, Process, ProcStart, ProcSleep, ProcRun, ProcExit, TakeCpu
  <1>4. last' \in [PCBs -> {0, 1}] /\ mutex' \in PCBs \cup {Sched, NoOne}
    BY DEF ProcessStep, Process, ProcStart, ProcSleep, ProcRun, ProcExit, TakeCpu,
       Typed, SimTypeOK, fields, locks
  <1>5. my' \in [PCBs -> PCBs \cup {NULL}]
    <2>1. CASE ProcStart(t)
      <3>1. PICK p \in Found(t) : my' = [my EXCEPT ![t] = p]
        BY <2>1 DEF ProcStart
      <3>2. arg[t] \in Loops \cup {"sche"}
        BY <2>1 DEF ProcStart, Typed, SimTypeOK, GenInv
      <3>3. p \in PCBs \cup {NULL}
        BY <3>1, <3>2, TypeFacts DEF Found, Typed, SimTypeOK
      <3>4. QED
        BY <3>1, <3>3 DEF Typed, SimTypeOK
    <2>2. CASE ~ProcStart(t)
      BY <2>2 DEF ProcessStep, Process, ProcSleep, ProcRun, ProcExit, Typed, SimTypeOK
    <2>3. QED
      BY <2>1, <2>2
  <1> USE <1>2 DEF queue, genV, scheV, mainV, Typed
  <1>6. proc' \in [PCBs -> {"none", "created", "lock", "asleep", "running", "exited"}]
    BY <1>3 DEF SimTypeOK
  <1>7. SimTypeOK'
    BY <1>0, <1>4, <1>5, <1>6 DEF SimTypeOK
  <1>8. \A p \in PCBs : proc'[p] # "none" => proc[p] # "none"
    BY <1>3 DEF SimTypeOK
  <1>9. \A p \in PCBs : proc'[p] = "created" => proc[p] = "created"
    BY <1>3 DEF SimTypeOK
  <1>10. GenInv'
    <2>1. gen = "create" => proc'[new] = "none"
      BY <1>3 DEF GenInv, SimTypeOK
    <2>2. QED
      BY <1>0, <1>8, <1>9, <2>1 DEF GenInv, Started
  <1>11. StartInv'
    BY <1>0 DEF StartInv
  <1>12. QED
    BY <1>7, <1>10, <1>11

\* The scheduler's and main's steps, and the ends of the program.
LEMMA OthersTyped ==
    ASSUME Typed, SchedulerStep \/ EndsWith("crashed") \/ MainStep \/ MainReturn
    PROVE  Typed'
  <1>0. /\ UNCHANGED args /\ args \in Arguments
        /\ UNCHANGED <<algorithm, quantum, allP, Total>>
    BY SameCommand DEF SchedulerStep, MainStep, EndsWith, MainReturn, GoesOn, Typed,
       SimTypeOK
  <1>1. /\ algorithm \in {"FCFS", "SJF", "RR"} /\ quantum \in Nat
        /\ allP \in Nat \ {0} /\ Total \in Nat \ {0} /\ allP <= Total
        /\ count \in 0 .. Total /\ count \in Nat /\ NULL \notin PCBs
        /\ \A p \in PCBs : p \in Nat /\ p >= 1
    BY TypeFacts
  <1>2. UNCHANGED <<count, burst, start, last, slot, gen, new, my>>
    BY DEF SchedulerStep, MainStep, Scheduler, Main, ScheLockMutex, ScheSleep,
       ScheLockQueue, SortStep, SortEnd, ScheBroadcast, ScheJoin, ScheRequeue, ScheExit,
       EndsWith, MainJoin, MainFree, MainFreeBuffer, MainDestroy, MainReturn, queue, fields, genV,
       procV
  <1>3. SimTypeOK'
    <2>1. CASE SchedulerStep
      <3>1. CASE ScheLockMutex \/ ScheSleep \/ ScheLockQueue
        BY <1>0, <1>2, <2>1, <3>1 DEF Typed, SimTypeOK, SchedulerStep, GoesOn,
           ScheLockMutex, ScheSleep, ScheLockQueue, FirstItem, queue, fields, locks,
           genV, procV, mainV
      <3>2. CASE SortStep
        <4>1. tmp \in PCBs /\ next \in [PCBs -> PCBs \cup {NULL}]
          BY <3>2 DEF SortStep, Typed, SimTypeOK
        <4>2. next' \in [PCBs -> PCBs \cup {NULL}] /\ tmp' \in PCBs \cup {NULL}
          <5>1. CASE OutOfOrder(tmp)
            <6>1. next[tmp] \in PCBs /\ next[next[tmp]] \in PCBs \cup {NULL}
              BY <4>1, <5>1 DEF OutOfOrder
            <6>2. /\ next' = [next EXCEPT ![tmp] = next[next[tmp]], ![next[tmp]] = tmp]
                  /\ tmp' = tmp
              BY <3>2, <5>1 DEF SortStep
            <6>3. QED
              BY <4>1, <6>1, <6>2
          <5>2. CASE ~OutOfOrder(tmp)
            <6>1. next' = next /\ tmp' = next[tmp]
              BY <3>2, <5>2 DEF SortStep
            <6>2. QED
              BY <4>1, <6>1
          <5>3. QED
            BY <5>1, <5>2
        <4>3. QED
          BY <1>0, <1>2, <2>1, <3>2, <4>2 DEF Typed, SimTypeOK, SchedulerStep, GoesOn,
             SortStep, fields, locks, procV, mainV
      <3>3. CASE SortEnd
        <4>1. head' \in PCBs \cup {NULL} /\ pcb' \in PCBs \cup {NULL}
          BY <3>3 DEF SortEnd, Typed, SimTypeOK
        <4>2. selected' \in Seq(PCBs)
          BY <3>3 DEF SortEnd, Typed, SimTypeOK
        <4>3. QED
          BY <1>0, <1>2, <2>1, <3>3, <4>1, <4>2 DEF Typed, SimTypeOK, SchedulerStep,
             GoesOn, SortEnd, fields, locks, procV, mainV
      <3>4. CASE ScheBroadcast \/ ScheJoin \/ ScheExit
        BY <1>0, <1>2, <2>1, <3>4 DEF Typed, SimTypeOK, SchedulerStep, GoesOn,
           ScheBroadcast, WakeAll, ScheJoin, FirstItem, ScheExit, queue, fields, locks,
           procV, mainV
      <3>5. CASE ScheRequeue
        <4>1. pcb \in PCBs /\ head \in PCBs
          BY <3>5 DEF ScheRequeue, Joined, Typed, SimTypeOK
        <4>2. /\ next' \in [PCBs -> PCBs \cup {NULL}]
              /\ head' \in PCBs \cup {NULL} /\ head1' \in PCBs \cup {NULL}
          BY <3>5, <4>1 DEF ScheRequeue, AddItem, Typed, SimTypeOK
        <4>3. /\ remaining_burst_len' \in [PCBs -> Int]
              /\ proc' \in [PCBs -> {"none", "created", "lock", "asleep", "running", "exited"}]
              /\ arg' \in [PCBs -> Loops \cup {"sche", "none"}]
          <5>1. /\ remaining_burst_len \in [PCBs -> Int]
                /\ proc \in [PCBs -> {"none", "created", "lock", "asleep", "running", "exited"}]
                /\ arg \in [PCBs -> Loops \cup {"sche", "none"}]
                /\ quantum \in Int
            BY <1>1 DEF Typed, SimTypeOK
          <5>2. remaining_burst_len[pcb] - quantum \in Int
            BY <4>1, <5>1
          <5>3. QED
            BY <3>5, <4>1, <5>1, <5>2 DEF ScheRequeue
        <4>4. QED
          BY <1>0, <1>2, <2>1, <3>5, <4>1, <4>2, <4>3 DEF Typed, SimTypeOK, SchedulerStep,
             GoesOn, ScheRequeue, locks, mainV
      <3>6. QED
        BY <2>1, <3>1, <3>2, <3>3, <3>4, <3>5 DEF SchedulerStep, Scheduler
    <2>2. CASE MainStep
      BY <1>0, <1>2, <2>2 DEF Typed, SimTypeOK, MainStep, GoesOn, Main, MainJoin,
         MainFree, MainFreeBuffer, MainDestroy, queue, fields, locks, scheV, procV
    <2>3. CASE EndsWith("crashed") \/ MainReturn
      BY <1>0, <1>2, <2>3 DEF Typed, SimTypeOK, EndsWith, MainReturn, queue, fields,
         locks, scheV, procV, mainV
    <2>4. QED
      BY <2>1, <2>2, <2>3
  <1>4. GenInv'
    <2>1. \A p \in PCBs : proc'[p] # "none" => proc[p] # "none"
      BY DEF SchedulerStep, MainStep, Scheduler, Main, ScheLockMutex, ScheSleep,
         ScheLockQueue, SortStep, SortEnd, ScheBroadcast, WakeAll, ScheJoin, ScheRequeue,
         Joined, ScheExit, EndsWith, MainJoin, MainFree, MainFreeBuffer, MainDestroy, MainReturn,
         procV, Typed, SimTypeOK
    <2>2. \A p \in PCBs : proc'[p] = "created" =>
              arg'[p] # "none"
      BY DEF SchedulerStep, MainStep, Scheduler, Main, ScheLockMutex, ScheSleep,
         ScheLockQueue, SortStep, SortEnd, ScheBroadcast, WakeAll, ScheJoin, ScheRequeue,
         Joined, ScheExit, EndsWith, MainJoin, MainFree, MainFreeBuffer, MainDestroy, MainReturn,
         procV, Typed, SimTypeOK, GenInv
    <2>3. Started' => gen = "exited"
      BY <1>1 DEF SchedulerStep, MainStep, Scheduler, Main, ScheLockMutex, ScheSleep,
         ScheLockQueue, SortStep, SortEnd, Sorting, ScheBroadcast, ScheJoin, ScheRequeue,
         Joined, ScheExit, EndsWith, MainJoin, MainFree, MainFreeBuffer, MainDestroy, MainReturn,
         scheV, Typed, SimTypeOK, GenInv, Started, NoOne, GenThr
    <2>4. gen \in {"loop", "drawing", "add", "create"} => th_ready_queue' = GenThr
      BY <1>1 DEF SchedulerStep, MainStep, Scheduler, Main, ScheLockMutex, ScheSleep,
         ScheLockQueue, SortStep, SortEnd, Sorting, ScheBroadcast, ScheJoin, ScheRequeue,
         Joined, ScheExit, EndsWith, MainJoin, MainFree, MainFreeBuffer, MainDestroy, MainReturn,
         locks, Typed, GenInv, Started, NoOne, GenThr
    <2>5. gen = "create" => new \in PCBs /\ proc'[new] = "none"
      <3>1. gen = "create" => new \in PCBs /\ proc[new] = "none"
        BY <1>1, TypeFacts DEF Typed, GenInv
      <3>2. \A p \in PCBs : proc'[p] \in {"none", "created", "lock", "asleep", "running", "exited"}
        BY <1>3 DEF SimTypeOK
      <3>3. QED
        BY <2>1, <3>1, <3>2
    <2>6. QED
      BY <1>0, <1>2, <2>1, <2>2, <2>3, <2>4, <2>5 DEF Typed, GenInv
  <1>5. StartInv'
    BY <1>2 DEF Typed, StartInv
  <1>6. QED
    BY <1>3, <1>4, <1>5 DEF Typed
-----------------------------------------------------------------------------
(* The mutex. *)

\* No step of the generator takes or gives back the mutex.
LEMMA GeneratorLock ==
    ASSUME Typed, LockInv, GeneratorStep
    PROVE  LockInv'
  <1>0. UNCHANGED args /\ allP' = allP
    BY SameCommand DEF GeneratorStep, GoesOn
  <1>1. count \in Nat /\ allP \in Nat
    BY TypeFacts
  <1>2. mutex' = mutex
    BY DEF GeneratorStep, Generator, GenBegin, GenMalloc, GenDraw, GenAdd, GenCreate,
       GenExit, locks
  <1>3. count' \in {count, count + 1}
    BY DEF GeneratorStep, Generator, GenBegin, GenMalloc, GenDraw, GenAdd, GenCreate,
       GenExit, queue
  <1>4. \A t \in PCBs : proc'[t] \in {"running", "exited"} => proc'[t] = proc[t]
    BY DEF GeneratorStep, Generator, GenBegin, GenMalloc, GenDraw, GenAdd, GenCreate,
       GenExit, procV, Typed, SimTypeOK
  <1>5. sche' = sche \/ (sche = "asleep" /\ sche' = "lock_queue")
    BY DEF GeneratorStep, Generator, GenBegin, GenMalloc, GenDraw, GenAdd, GenCreate,
       GenExit, scheV
  <1>6. QED
    BY <1>0, <1>1, <1>2, <1>3, <1>4, <1>5 DEF LockInv

\* A process thread takes the mutex when nobody has it, and it alone gives it
\* back.
LEMMA ProcessLock ==
    ASSUME Typed, LockInv, NEW t \in PCBs, ProcessStep(t)
    PROVE  LockInv'
  <1>0. UNCHANGED args /\ allP' = allP
    BY SameCommand DEF ProcessStep, GoesOn
  <1>1. /\ Sched \notin PCBs /\ NoOne \notin PCBs /\ Sched # NoOne
        /\ proc \in [PCBs -> {"none", "created", "lock", "asleep", "running", "exited"}]
    BY TypeFacts DEF Typed, SimTypeOK, Sched, NoOne
  <1>2. UNCHANGED <<count, sche>>
    BY DEF ProcessStep, Process, ProcStart, ProcSleep, ProcRun, ProcExit, queue, scheV
  <1>3. CASE ProcStart(t) \/ ProcSleep(t)
    <2>1. /\ mutex' = mutex
          /\ \A u \in PCBs : proc'[u] \in {"running", "exited"} => proc'[u] = proc[u]
      BY <1>1, <1>3 DEF ProcStart, ProcSleep, locks
    <2>2. QED
      BY <1>0, <1>2, <2>1 DEF LockInv
  <1>4. CASE ProcRun(t)
    <2>1. /\ mutex = NoOne /\ mutex' = t /\ count >= allP
          /\ proc' = [proc EXCEPT ![t] = "running"]
      BY <1>4 DEF ProcRun, TakeCpu
    <2>2. sche # "exited" => \A u \in PCBs : proc[u] # "running"
      BY <1>1, <2>1 DEF LockInv
    <2>3. QED
      BY <1>0, <1>1, <1>2, <2>1, <2>2 DEF LockInv
  <1>5. CASE ProcExit(t)
    <2>1. /\ proc[t] = "running" /\ mutex' = NoOne
          /\ proc' = [proc EXCEPT ![t] = "exited"]
      BY <1>5 DEF ProcExit
    <2>2. sche # "exited" => mutex = t
      BY <2>1 DEF LockInv
    <2>3. sche # "exited" => \A u \in PCBs : proc'[u] # "running"
      BY <1>1, <2>1, <2>2 DEF LockInv
    <2>4. QED
      BY <1>0, <1>1, <1>2, <2>1, <2>2, <2>3 DEF LockInv
  <1>6. QED
    BY <1>3, <1>4, <1>5 DEF ProcessStep, Process

\* The scheduler gives back a mutex that it holds, but for its last step.
LEMMA OthersLock ==
    ASSUME Typed, LockInv, SchedulerStep \/ EndsWith("crashed") \/ MainStep \/ MainReturn
    PROVE  LockInv'
  <1>0. UNCHANGED <<args, count>> /\ allP' = allP
    BY SameCommand DEF SchedulerStep, MainStep, EndsWith, MainReturn, GoesOn,
       Scheduler, Main, ScheLockMutex, ScheSleep, ScheLockQueue, SortStep, SortEnd,
       ScheBroadcast, ScheJoin, ScheRequeue, ScheExit, MainJoin, MainFree,
       MainFreeBuffer, MainDestroy, queue
  <1>1. /\ Sched \notin PCBs /\ NoOne \notin PCBs /\ Sched # NoOne
        /\ proc \in [PCBs -> {"none", "created", "lock", "asleep", "running", "exited"}]
    BY TypeFacts DEF Typed, SimTypeOK, Sched, NoOne
  <1>2. \A t \in PCBs : proc'[t] \in {"running", "exited"} => proc'[t] = proc[t]
    BY <1>1 DEF SchedulerStep, MainStep, Scheduler, Main, ScheLockMutex, ScheSleep,
       ScheLockQueue, SortStep, SortEnd, ScheBroadcast, WakeAll, ScheJoin, ScheRequeue,
       ScheExit, EndsWith, MainJoin, MainFree, MainFreeBuffer, MainDestroy, MainReturn, procV
  <1>3. CASE SchedulerStep
    <2>1. CASE ScheLockMutex
      <3>1. mutex = NoOne /\ mutex' = Sched /\ sche # "exited" /\ sche' = "lock_queue"
        BY <2>1 DEF ScheLockMutex
      <3>2. \A t \in PCBs : proc'[t] # "running"
        BY <1>1, <1>2, <3>1 DEF LockInv
      <3>3. QED
        BY <1>0, <1>2, <3>1, <3>2 DEF LockInv
    <2>2. CASE ScheSleep \/ ScheLockQueue
      BY <1>0, <1>2, <2>2 DEF LockInv, ScheSleep, ScheLockQueue, locks
    <2>3. CASE SortStep \/ SortEnd
      BY <1>0, <1>2, <2>3 DEF LockInv, SortStep, SortEnd, Sorting, locks
    <2>4. CASE ScheBroadcast
      <3>1. mutex = Sched /\ mutex' = NoOne /\ sche # "exited" /\ sche' = "join"
        BY <2>4 DEF LockInv, ScheBroadcast
      <3>2. \A t \in PCBs : proc'[t] # "running"
        BY <1>1, <1>2, <3>1 DEF LockInv
      <3>3. QED
        BY <1>0, <1>2, <3>1, <3>2 DEF LockInv
    <2>5. CASE ScheJoin \/ ScheRequeue
      BY <1>0, <1>2, <2>5 DEF LockInv, ScheJoin, ScheRequeue, Joined, locks
    <2>6. CASE ScheExit
      BY <1>0, <1>2, <2>6 DEF LockInv, ScheExit
    <2>7. QED
      BY <1>3, <2>1, <2>2, <2>3, <2>4, <2>5, <2>6 DEF SchedulerStep, Scheduler
  <1>4. CASE EndsWith("crashed") \/ MainStep \/ MainReturn
    <2>1. UNCHANGED <<mutex, sche>>
      BY <1>4 DEF EndsWith, MainStep, Main, MainJoin, MainFree, MainFreeBuffer, MainDestroy,
         MainReturn, locks, scheV
    <2>2. QED
      BY <1>0, <1>2, <2>1 DEF LockInv
  <1>5. QED
    BY <1>3, <1>4
-----------------------------------------------------------------------------
(* The list. *)

\* What is known of the numbers in the list.
LEMMA ListFacts ==
    ASSUME Typed
    PROVE  /\ count \in Nat /\ 1 .. count \subseteq PCBs /\ NULL = 0
           /\ \A p \in PCBs : p \in Nat /\ p >= 1
           /\ \A p \in PCBs : next[p] \in PCBs \cup {NULL}
           /\ \A p \in PCBs : burst[p] \in Int /\ start[p] \in Int
           /\ Len(selected) \in Nat
           /\ head \in PCBs \cup {NULL} /\ tmp \in PCBs \cup {NULL}
  <1>1. AllLengths \cup {0} \subseteq Int
    BY LengthFacts
  <1>2. \A p \in PCBs : burst[p] \in Int
    BY <1>1 DEF Typed, SimTypeOK
  <1>3. \A p \in PCBs : start[p] \in Int
    BY TypeFacts DEF Typed, SimTypeOK
  <1>4. Len(selected) \in Nat
    BY DEF Typed, SimTypeOK
  <1>5. QED
    BY <1>2, <1>3, <1>4, TypeFacts DEF Typed, SimTypeOK, NULL

\* The generator adds to the end of the list.
LEMMA GeneratorList ==
    ASSUME Typed, ListInv, GeneratorStep
    PROVE  ListInv'
  <1>0. UNCHANGED args /\ algorithm' = algorithm
    BY SameCommand DEF GeneratorStep, GoesOn
  <1>1. /\ count \in Nat /\ 1 .. count \subseteq PCBs /\ NULL = 0
        /\ \A p \in PCBs : p \in Nat /\ p >= 1
        /\ next \in [PCBs -> PCBs \cup {NULL}]
    BY ListFacts DEF Typed, SimTypeOK
  <1>2. ~Started
    BY DEF GeneratorStep, Generator, GenBegin, GenMalloc, NewPcb, GenDraw, GenAdd,
       GenCreate, GenExit, Typed, GenInv
  <1>3. ~Started' /\ selected' = selected /\ sche' # "first_sort"
    BY <1>2 DEF GeneratorStep, Generator, GenBegin, GenMalloc, GenDraw, GenAdd,
       GenCreate, GenExit, Started, scheV
  <1>4. Chain /\ head = (IF count = 0 THEN NULL ELSE 1) /\ selected = << >>
        /\ \A p \in PCBs : p > count => next[p] = NULL
    BY <1>2 DEF ListInv, Waiting
  <1>5. /\ Chain' /\ head' = (IF count' = 0 THEN NULL ELSE 1) /\ count' \in Nat
        /\ \A p \in PCBs : p > count' => next'[p] = NULL
    <2>1. CASE ~GenAdd
      <3>1. UNCHANGED <<head, count, next>>
        BY <2>1 DEF GeneratorStep, Generator, GenBegin, GenMalloc, GenDraw, GenCreate,
           GenExit, queue
      <3>2. QED
        BY <1>1, <1>4, <3>1 DEF Chain, NULL
    <2>2. CASE GenAdd
      <3>1. new = count + 1 /\ count' = count + 1 /\ AddItem(new) /\ new \in PCBs
        BY <2>2, TypeFacts DEF GenAdd, Typed, GenInv
      <3>2. next[count + 1] = NULL
        BY <1>1, <1>4, <3>1
      <3>3. CASE count = 0
        BY <1>1, <1>4, <3>1, <3>2, <3>3 DEF AddItem, Chain
      <3>4. CASE count # 0
        <4>1. \A e \in 1 .. count : next[e] = NULL <=> e = count
          BY <1>1, <1>4, <3>4 DEF Chain
        <4>2. LastItem = count
          BY <1>1, <3>4, <4>1 DEF LastItem
        <4>3. head' = head /\ next' = [next EXCEPT ![count] = count + 1]
          BY <3>1, <3>4, <4>2 DEF AddItem
        <4>4. \A p \in 1 .. count + 1 :
                 next'[p] = IF p < count + 1 THEN p + 1 ELSE NULL
          BY <1>1, <1>4, <3>1, <3>2, <4>3 DEF Chain
        <4>5. QED
          BY <1>1, <1>4, <3>1, <3>4, <4>3, <4>4 DEF Chain
      <3>5. QED
        BY <3>3, <3>4
    <2>3. QED
      BY <2>1, <2>2
  <1>6. Len(selected') = 0 /\ selected' = [k \in 1 .. 0 |-> k] /\ selected' = << >>
    BY <1>3, <1>4
  <1>7. QED
    BY <1>3, <1>5, <1>6 DEF ListInv, Waiting

\* A step that leaves the list alone, and the scheduler where it is.
LEMMA ListUntouched ==
    ASSUME ListInv,
           UNCHANGED <<args, count, next, head, tmp, selected, sche, burst>>
    PROVE  ListInv'
  <1>1. algorithm' = algorithm
    BY SameCommand
  <1>2. /\ Started' = Started /\ Chain' = Chain /\ Waiting' = Waiting
        /\ InArrivalOrder' = InArrivalOrder /\ Looping' = Looping
        /\ Links' = Links /\ Ordered' = Ordered /\ SelectedOrdered' = SelectedOrdered
    BY <1>1 DEF Started, Waiting, Chain, InArrivalOrder, Looping, Links, Kept, Ordered,
       Passed, SelectedOrdered
  <1>3. QED
    BY <1>1, <1>2 DEF ListInv

\* SJF: the pass goes on to an item that is not shorter.
LEMMA PassOn ==
    ASSUME Typed, Links, Ordered, tmp # NULL,
           ~(next[tmp] # NULL /\ burst[tmp] > burst[next[tmp]]),
           tmp' = next[tmp], UNCHANGED <<count, next, head, burst, sche>>
    PROVE  Links' /\ Ordered'
  <1>1. /\ count \in Nat /\ 1 .. count \subseteq PCBs /\ NULL = 0
        /\ \A p \in PCBs : burst[p] \in Int
    BY ListFacts
  <1>2. tmp \in 1 .. count /\ Kept(tmp) /\ next[tmp] \in 0 .. count
    BY DEF Links
  <1>3. \A p : Kept(p)' <=> Kept(p)
    BY DEF Kept
  <1>4. Links'
    BY <1>1, <1>2, <1>3 DEF Links
  <1>5. ASSUME NEW p \in 1 .. count, Kept(p), Passed(p)', next[p] # NULL
        PROVE  burst[p] <= burst[next[p]]
    <2>1. CASE p = tmp
      BY <1>1, <1>2, <1>5, <2>1
    <2>2. CASE p # tmp
      <3>1. p > tmp => next[tmp] # NULL /\ next[tmp] <= p
        BY <1>1, <1>2, <1>5 DEF Links
      <3>2. sche = "first_sort" => p < tmp
        BY <1>1, <1>2, <1>5, <2>2, <3>1 DEF Passed
      <3>3. QED
        BY <1>5, <3>2 DEF Ordered, Passed
    <2>3. QED
      BY <2>1, <2>2
  <1>6. Ordered'
    BY <1>3, <1>5 DEF Ordered
  <1>7. QED
    BY <1>4, <1>6

\* SJF: a shorter item is taken out of the list.
LEMMA PassOut ==
    ASSUME Typed, Links, Ordered, tmp # NULL, sche = "first_sort" => head = 1,
           next[tmp] # NULL, burst[tmp] > burst[next[tmp]],
           next' = [next EXCEPT ![tmp] = next[next[tmp]], ![next[tmp]] = tmp],
           UNCHANGED <<count, head, tmp, burst, sche>>
    PROVE  Links' /\ Ordered' /\ sche = "first_sort"
  <1>1. /\ count \in Nat /\ 1 .. count \subseteq PCBs /\ NULL = 0
        /\ \A p \in PCBs : burst[p] \in Int /\ p \in Nat /\ p >= 1
        /\ next \in [PCBs -> PCBs \cup {NULL}]
    BY ListFacts DEF Typed, SimTypeOK
  <1> DEFINE x == tmp
             y == next[x]
             z == next[y]
  <1>2. /\ x \in 1 .. count /\ Kept(x) /\ y \in 1 .. count /\ y > x /\ Kept(y)
        /\ z \in 0 .. count /\ (z = NULL \/ z > y)
    BY <1>1 DEF Links, Kept
  <1>3. sche = "first_sort"
    BY <1>1, <1>2 DEF Ordered, Passed
  <1>4. /\ next'[x] = z /\ next'[y] = x
        /\ \A p \in 1 .. count : p # x /\ p # y => next'[p] = next[p]
    BY <1>1, <1>2
  <1> HIDE DEF x, y, z
  <1>5. /\ \A p \in 1 .. count : Kept(p)' <=> Kept(p) /\ p # y
    BY <1>1, <1>2, <1>4 DEF Kept
  <1>6. \A p \in 1 .. count : next'[p] \in 0 .. count
    BY <1>1, <1>2, <1>4 DEF Links
  <1>7. ASSUME NEW p \in 1 .. count, Kept(p), p # y, next'[p] # NULL
        PROVE  next'[p] \in 1 .. count /\ next'[p] # y /\ Kept(next'[p])
    <2>1. CASE p = x
      BY <1>1, <1>2, <1>4, <1>7, <2>1 DEF Links, z
    <2>2. CASE p # x
      <3>1. next'[p] = next[p] /\ next[p] \in 1 .. count /\ Kept(next[p])
        BY <1>1, <1>4, <1>6, <1>7, <2>2 DEF Links
      <3>2. p < x => next[p] <= x
        BY <1>2, <1>7 DEF Links
      <3>3. x < p => y <= p
        BY <1>2, <1>7 DEF Links, y
      <3>4. next[p] > p
        BY <1>7, <3>1 DEF Kept
      <3>5. QED
        BY <1>1, <1>2, <2>2, <3>1, <3>2, <3>3, <3>4
    <2>3. QED
      BY <2>1, <2>2
  <1>8. ASSUME NEW p \in 1 .. count, NEW r \in 1 .. count,
               Kept(p), Kept(r), p # y, r # y, p < r
        PROVE  next'[p] # NULL /\ next'[p] <= r
    <2>1. CASE p = x
      <3>1. y <= r
        BY <1>2, <1>8, <2>1 DEF Links, y
      <3>2. y < r
        BY <1>2, <1>8, <3>1
      <3>3. z # NULL /\ z <= r
        BY <1>2, <1>8, <3>2 DEF Links, z
      <3>4. QED
        BY <1>4, <2>1, <3>3
    <2>2. CASE p # x
      BY <1>4, <1>8, <2>2 DEF Links
    <2>3. QED
      BY <2>1, <2>2
  <1>9. head = 1 /\ Kept(head) /\ head # y
    BY <1>2, <1>3, <1>1 DEF Links
  <1>10. Links'
    <2>1. \A p \in 1 .. count : Kept(p)' /\ next'[p] # NULL => Kept(next[p])'
      <3>1. ASSUME NEW p \in 1 .. count, Kept(p)', next'[p] # NULL
            PROVE  next'[next'[p]] = NULL \/ next'[next'[p]] > next'[p]
        <4>1. next'[p] \in 1 .. count /\ next'[p] # y /\ Kept(next'[p])
          BY <1>5, <1>7, <3>1
        <4>2. \A u \in 1 .. count : Kept(u) /\ u # y =>
                 next'[u] = NULL \/ next'[u] > u
          BY <1>5 DEF Kept
        <4>3. QED
          BY <4>1, <4>2
      <3>2. QED
        BY <3>1 DEF Kept
    <2>2. x = tmp /\ Kept(x) /\ x # y /\ x \in 1 .. count
      BY <1>2 DEF x
    <2>3. \A p, r \in 1 .. count : Kept(p)' /\ Kept(r)' /\ p < r =>
             next'[p] # NULL /\ next'[p] <= r
      BY <1>5, <1>8
    <2>4. Kept(head)' /\ Kept(tmp)'
      BY <1>1, <1>2, <1>5, <1>9, <2>2
    <2>5. QED
      BY <1>1, <1>2, <1>6, <1>9, <2>1, <2>2, <2>3, <2>4 DEF Links
  <1>11. Ordered'
    <2>1. ASSUME NEW p \in 1 .. count, Kept(p)', Passed(p)', next'[p] # NULL
          PROVE  burst[p] <= burst[next'[p]]
      <3>1. Kept(p) /\ p # y /\ p < x
        BY <1>3, <1>5, <2>1 DEF Passed, x
      <3>2. next'[p] = next[p] /\ Passed(p)
        BY <1>4, <1>1, <1>2, <3>1 DEF Passed, x
      <3>3. QED
        BY <2>1, <3>1, <3>2 DEF Ordered
    <2>2. QED
      BY <2>1 DEF Ordered
  <1>12. QED
    BY <1>3, <1>10, <1>11

\* SJF: a pass over the list, which no later pass changes.
LEMMA ShortestFirstStep ==
    ASSUME Typed, ListInv, Started, algorithm = "SJF", SchedulerStep, SortStep
    PROVE  Links' /\ Ordered' /\ SelectedOrdered'
  <1>1. /\ Links /\ Ordered /\ SelectedOrdered
        /\ sche = "first_sort" => head = 1 /\ selected = << >>
    BY DEF ListInv
  <1>2. UNCHANGED <<count, head, burst, sche, selected>> /\ tmp # NULL
    BY DEF SortStep, fields
  <1>3. OutOfOrder(tmp) <=> next[tmp] # NULL /\ burst[tmp] > burst[next[tmp]]
    BY DEF OutOfOrder, Key
  <1>4. Links' /\ Ordered'
    <2>1. CASE OutOfOrder(tmp)
      BY <1>1, <1>2, <1>3, <2>1, PassOut DEF SortStep
    <2>2. CASE ~OutOfOrder(tmp)
      BY <1>1, <1>2, <1>3, <2>2, PassOn DEF SortStep
    <2>3. QED
      BY <2>1, <2>2
  <1>5. QED
    BY <1>1, <1>2, <1>4 DEF SelectedOrdered

\* RR: once a process is put back, the pass goes round.
LEMMA LoopStep ==
    ASSUME Typed, Looping, SchedulerStep, SortStep
    PROVE  Looping'
  <1>1. /\ UNCHANGED <<count, sche>> /\ algorithm' = algorithm
    BY SameCommand DEF SortStep, SchedulerStep, GoesOn
  <1>2. next \in [PCBs -> PCBs \cup {NULL}] /\ 1 .. count \subseteq PCBs
    BY ListFacts DEF Typed, SimTypeOK
  <1>3. tmp \in 1 .. count /\ \A p \in 1 .. count : next[p] \in 1 .. count
    BY DEF Looping
  <1>4. tmp' \in 1 .. count /\ \A p \in 1 .. count : next'[p] \in 1 .. count
    BY <1>2, <1>3 DEF SortStep
  <1>5. QED
    BY <1>1, <1>4 DEF Looping

\* RR: the PCB that is put back points into the list that it is added to.
LEMMA PutBackLoops ==
    ASSUME Typed, ListInv, SchedulerStep, ScheRequeue
    PROVE  /\ Started /\ Started' /\ Looping' /\ sche' = "sort"
           /\ UNCHANGED <<count, selected>> /\ algorithm # "SJF"
           /\ \A p \in PCBs : p > count => next'[p] = NULL
  <1>0. algorithm' = algorithm
    BY SameCommand DEF SchedulerStep, GoesOn
  <1>1. /\ count \in Nat /\ 1 .. count \subseteq PCBs /\ NULL = 0
        /\ \A p \in PCBs : p \in Nat /\ p >= 1
        /\ next \in [PCBs -> PCBs \cup {NULL}]
    BY ListFacts DEF Typed, SimTypeOK
  <1>2. /\ sche = "join" /\ algorithm = "RR" /\ pcb \in PCBs /\ head # NULL
        /\ proc[pcb] = "exited" /\ AddItem(pcb) /\ tmp' = head /\ sche' = "sort"
        /\ UNCHANGED <<count, selected>>
    BY DEF ScheRequeue, Joined, Unfinished, Typed, SimTypeOK
  <1>3. Started /\ Started' /\ InArrivalOrder
    BY <1>2 DEF Started, ListInv, Looping
  <1>4. Chain /\ count > 0 /\ head \in 1 .. count
    BY <1>1, <1>2, <1>3, ListFacts DEF InArrivalOrder
  <1>5. \A e \in 1 .. count : next[e] = NULL <=> e = count
    BY <1>1, <1>4 DEF Chain
  <1>6. LastItem = count
    BY <1>1, <1>4, <1>5 DEF LastItem
  <1>7. head' = head /\ next' = [next EXCEPT ![count] = pcb]
    BY <1>1, <1>2, <1>4, <1>6 DEF AddItem
  <1>8. pcb \in 1 .. count
    BY <1>1, <1>2 DEF Typed, GenInv
  <1>9. \A p \in 1 .. count : next'[p] \in 1 .. count
    BY <1>1, <1>4, <1>7, <1>8 DEF Chain
  <1>10. Looping'
    BY <1>0, <1>2, <1>4, <1>9 DEF Looping
  <1>11. \A p \in PCBs : p > count => next'[p] = NULL
    BY <1>1, <1>4, <1>7 DEF ListInv
  <1>12. QED
    BY <1>2, <1>3, <1>10, <1>11

\* FCFS and RR: the list is in the order of arrival, and a pass changes nothing.
LEMMA ArrivalStep ==
    ASSUME Typed, ListInv, Started, algorithm # "SJF", SchedulerStep, SortStep
    PROVE  InArrivalOrder' \/ Looping'
  <1>0. /\ UNCHANGED <<count, head, sche, selected>> /\ tmp # NULL
        /\ algorithm' = algorithm
    BY SameCommand DEF SortStep, SchedulerStep, GoesOn
  <1>1. /\ count \in Nat /\ 1 .. count \subseteq PCBs /\ NULL = 0
        /\ \A p \in PCBs : p \in Nat /\ p >= 1 /\ start[p] \in Int
        /\ tmp \in PCBs /\ next \in [PCBs -> PCBs \cup {NULL}]
    BY <1>0, ListFacts DEF Typed, SimTypeOK
  <1>2. CASE InArrivalOrder
    <2>1. ~OutOfOrder(tmp)
      <3>1. CASE tmp > count
        BY <1>1, <3>1 DEF ListInv, OutOfOrder
      <3>2. CASE tmp = count
        BY <1>1, <1>2, <3>2 DEF InArrivalOrder, Chain, OutOfOrder
      <3>3. CASE tmp < count
        <4>1. next[tmp] = tmp + 1 /\ tmp \in 1 .. count - 1 /\ tmp + 1 \in PCBs
          BY <1>1, <1>2, <3>3 DEF InArrivalOrder, Chain
        <4>2. start[tmp] <= start[tmp + 1]
          BY <4>1 DEF Typed, StartInv
        <4>3. QED
          BY <1>1, <4>1, <4>2 DEF OutOfOrder, Key
      <3>4. QED
        BY <1>1, <3>1, <3>2, <3>3
    <2>2. next' = next
      BY <2>1 DEF SortStep
    <2>3. QED
      BY <1>0, <1>2, <2>2 DEF InArrivalOrder, Chain
  <1>3. CASE Looping
    BY <1>3, LoopStep
  <1>4. QED
    BY <1>2, <1>3 DEF ListInv

\* The first PCB of the list is selected.
LEMMA SelectFirst ==
    ASSUME Typed, ListInv, Started, SchedulerStep, SortEnd
    PROVE  /\ algorithm = "SJF" => Links' /\ Ordered' /\ SelectedOrdered'
           /\ algorithm # "SJF" =>
                 /\ InArrivalOrder /\ InArrivalOrder' /\ Len(selected') <= count
                 /\ selected' = [k \in 1 .. Len(selected') |-> k]
  <1>0. /\ UNCHANGED <<count, next, tmp, burst>> /\ tmp = NULL
        /\ head' = IF head = NULL THEN NULL ELSE next[head]
        /\ selected' = IF head = NULL THEN selected ELSE Append(selected, head)
        /\ sche' # "first_sort"
    BY DEF SortEnd, fields
  <1>1. /\ count \in Nat /\ 1 .. count \subseteq PCBs /\ NULL = 0
        /\ \A p \in PCBs : p \in Nat /\ p >= 1 /\ burst[p] \in Int
        /\ Len(selected) \in Nat /\ selected \in Seq(PCBs)
        /\ head \in PCBs \cup {NULL}
    BY ListFacts DEF Typed, SimTypeOK
  <1>2. head # NULL => /\ Len(selected') = Len(selected) + 1
                       /\ selected'[Len(selected) + 1] = head
                       /\ \A k \in 1 .. Len(selected) : selected'[k] = selected[k]
    BY <1>0, <1>1
  <1>3. ASSUME algorithm = "SJF" PROVE Links' /\ Ordered' /\ SelectedOrdered'
    <2>1. Links /\ Ordered /\ SelectedOrdered
      BY <1>3 DEF ListInv
    <2>2. \A p : Kept(p)' <=> Kept(p)
      BY <1>0 DEF Kept
    <2>3. head # NULL => head \in 1 .. count /\ Kept(head) /\ next[head] \in 0 .. count
      BY <2>1 DEF Links
    <2>4. Links'
      BY <1>0, <1>1, <2>1, <2>2, <2>3 DEF Links
    <2>5. \A p \in 1 .. count : Kept(p) /\ next[p] # NULL => burst[p] <= burst[next[p]]
      BY <1>0, <2>1 DEF Ordered, Passed
    <2>6. Ordered'
      BY <1>0, <2>2, <2>5 DEF Ordered
    <2>7. CASE head = NULL
      <3>1. SelectedOrdered'
        BY <1>0, <2>1, <2>7 DEF SelectedOrdered
      <3>2. QED
        BY <2>4, <2>6, <3>1
    <2>8. CASE head # NULL
      <3>1. \A k \in 1 .. Len(selected) : /\ selected[k] \in 1 .. count
                                          /\ selected[k] < head
                                          /\ burst[selected[k]] <= burst[head]
        BY <2>1, <2>8 DEF SelectedOrdered
      <3>2. \A k \in 1 .. Len(selected') : selected'[k] \in 1 .. count
        BY <1>1, <1>2, <2>3, <2>8, <3>1
      <3>3. ASSUME NEW j \in 1 .. Len(selected'), NEW k \in 1 .. Len(selected'), j < k
            PROVE  selected'[j] < selected'[k] /\ burst[selected'[j]] <= burst[selected'[k]]
        <4>1. j \in 1 .. Len(selected) /\ selected'[j] = selected[j]
          BY <1>1, <1>2, <2>8, <3>3
        <4>2. CASE k = Len(selected) + 1
          BY <1>2, <2>8, <3>1, <4>1, <4>2
        <4>3. CASE k \in 1 .. Len(selected)
          BY <1>2, <2>1, <2>8, <3>3, <4>1, <4>3 DEF SelectedOrdered
        <4>4. QED
          BY <1>1, <1>2, <2>8, <4>2, <4>3
      <3>4. ASSUME head' # NULL, NEW k \in 1 .. Len(selected')
            PROVE  selected'[k] < head' /\ burst[selected'[k]] <= burst[head']
        <4>1. head' = next[head] /\ head' \in 1 .. count
              /\ head < head' /\ burst[head] <= burst[head']
          BY <1>0, <1>1, <2>3, <2>5, <2>8, <3>4 DEF Kept
        <4>2. CASE k = Len(selected) + 1
          BY <1>2, <2>8, <4>1, <4>2
        <4>3. CASE k \in 1 .. Len(selected)
          <5>1. /\ burst[selected[k]] \in Int /\ burst[head] \in Int
                /\ burst[head'] \in Int /\ selected[k] \in Int /\ head \in Int /\ head' \in Int
            BY <1>1, <2>3, <2>8, <3>1, <4>1, <4>3
          <5>2. QED
            BY <1>2, <2>8, <3>1, <4>1, <4>3, <5>1
        <4>4. QED
          BY <1>1, <1>2, <2>8, <4>2, <4>3
      <3>5. SelectedOrdered'
        BY <1>0, <3>2, <3>3, <3>4 DEF SelectedOrdered
      <3>6. QED
        BY <2>4, <2>6, <3>5
    <2>9. QED
      BY <2>7, <2>8
  <1>4. ASSUME algorithm # "SJF"
        PROVE  /\ InArrivalOrder /\ InArrivalOrder' /\ Len(selected') <= count
               /\ selected' = [k \in 1 .. Len(selected') |-> k]
    <2>1. InArrivalOrder
      BY <1>0, <1>1, <1>4 DEF ListInv, Looping
    <2>2. /\ Len(selected) <= count /\ selected = [k \in 1 .. Len(selected) |-> k]
          /\ Chain /\ head = IF Len(selected) < count THEN Len(selected) + 1 ELSE NULL
      BY <1>4, <2>1 DEF ListInv, InArrivalOrder
    <2>3. Chain'
      BY <1>0, <2>2 DEF Chain
    <2>4. CASE head = NULL
      BY <1>0, <2>1, <2>2, <2>3, <2>4 DEF InArrivalOrder
    <2>5. CASE head # NULL
      <3>1. head = Len(selected) + 1 /\ Len(selected) < count
        BY <2>2, <2>5
      <3>2. head' = IF head < count THEN head + 1 ELSE NULL
        BY <1>0, <1>1, <2>2, <2>5, <3>1 DEF Chain
      <3>3. /\ selected' \in Seq(PCBs) /\ Len(selected') = Len(selected) + 1
            /\ \A k \in 1 .. Len(selected) + 1 : selected'[k] = k
        <4>1. selected' \in Seq(PCBs)
          BY <1>0, <1>1, <2>5
        <4>2. \A k \in 1 .. Len(selected) : selected'[k] = k
          BY <1>2, <2>2, <2>5
        <4>3. QED
          BY <1>1, <1>2, <2>5, <3>1, <4>1, <4>2
      <3>4. selected' = [k \in 1 .. Len(selected') |-> k]
        BY <1>1, <3>3
      <3>5. QED
        BY <1>0, <1>1, <2>1, <2>3, <3>1, <3>2, <3>3, <3>4 DEF InArrivalOrder
    <2>6. QED
      BY <2>4, <2>5
  <1>5. QED
    BY <1>3, <1>4

\* The scheduler keeps the list in order.
LEMMA SchedulerList ==
    ASSUME Typed, ListInv, SchedulerStep
    PROVE  ListInv'
  <1>0. UNCHANGED args /\ algorithm' = algorithm
    BY SameCommand DEF SchedulerStep, GoesOn
  <1>1. /\ count \in Nat /\ 1 .. count \subseteq PCBs /\ NULL = 0
        /\ \A p \in PCBs : p \in Nat /\ p >= 1 /\ burst[p] \in Int
        /\ next \in [PCBs -> PCBs \cup {NULL}] /\ allP \in Nat /\ allP >= 1
        /\ head \in PCBs \cup {NULL}
    <2>1. next \in [PCBs -> PCBs \cup {NULL}]
      BY DEF Typed, SimTypeOK
    <2>2. allP \in Nat /\ allP >= 1
      BY TypeFacts
    <2>3. QED
      BY <2>1, <2>2, ListFacts
  <1>2. CASE ScheLockMutex \/ ScheSleep
    <2>1. /\ ~Started /\ ~Started' /\ sche' # "first_sort"
          /\ UNCHANGED <<head, count, next, selected>>
      BY <1>2 DEF ScheLockMutex, ScheSleep, Started, queue
    <2>2. QED
      BY <1>0, <2>1 DEF ListInv, Waiting, Chain
  <1>3. CASE ScheLockQueue
    <2>1. /\ ~Started /\ sche' = "first_sort" /\ count >= allP
          /\ UNCHANGED <<head, count, next, selected, burst>> /\ tmp' = FirstItem
      BY <1>3 DEF ScheLockQueue, Started, queue, fields
    <2>2. /\ Chain /\ head = 1 /\ selected = << >> /\ count >= 1
      BY <1>1, <2>1 DEF ListInv, Waiting
    <2>3. tmp' = 1 \/ (tmp' = NULL /\ count = 1)
      BY <2>1, <2>2 DEF FirstItem
    <2>4. /\ Links' /\ Ordered'
      <3>1. \A p \in 1 .. count : Kept(p)'
        BY <1>1, <2>1, <2>2 DEF Chain, Kept
      <3>2. Links'
        BY <1>1, <2>1, <2>2, <2>3, <3>1 DEF Links, Chain
      <3>3. Ordered'
        BY <1>1, <2>1, <2>2, <2>3 DEF Ordered, Passed, Chain
      <3>4. QED
        BY <3>2, <3>3
    <2>5. SelectedOrdered'
      BY <2>1, <2>2 DEF SelectedOrdered
    <2>6. InArrivalOrder'
      BY <1>1, <2>1, <2>2 DEF InArrivalOrder, Chain
    <2>7. Started'
      BY <2>1 DEF Started
    <2>8. QED
      BY <1>0, <2>1, <2>2, <2>4, <2>5, <2>6, <2>7 DEF ListInv
  <1>4. CASE SortStep
    <2>1. Started /\ sche' = sche /\ Started'
      BY <1>4 DEF SortStep, Sorting, Started
    <2>2. /\ algorithm = "SJF" => Links' /\ Ordered' /\ SelectedOrdered'
          /\ algorithm # "SJF" => InArrivalOrder' \/ Looping'
      BY <1>4, <2>1, ShortestFirstStep, ArrivalStep
    <2>3. \A p \in PCBs : p > count => next'[p] = NULL
      <3>1. tmp # NULL /\ tmp \in PCBs /\ \A p \in PCBs : p > count => next[p] = NULL
        BY <1>4 DEF SortStep, Typed, SimTypeOK, ListInv
      <3>2. OutOfOrder(tmp) => tmp <= count /\ next[tmp] <= count
        <4>1. ASSUME OutOfOrder(tmp) PROVE next[tmp] <= count
          <5>1. tmp <= count
            BY <1>1, <3>1, <4>1 DEF OutOfOrder
          <5>2. CASE algorithm = "SJF"
            BY <1>1, <2>1, <3>1, <5>1, <5>2 DEF ListInv, Links
          <5>3. CASE algorithm # "SJF"
            BY <1>1, <2>1, <3>1, <5>1, <5>3 DEF ListInv, InArrivalOrder, Chain, Looping
          <5>4. QED
            BY <5>2, <5>3
        <4>2. QED
          BY <1>1, <3>1, <4>1 DEF OutOfOrder
      <3>3. QED
        BY <1>1, <1>4, <3>1, <3>2 DEF SortStep
    <2>4. UNCHANGED <<head, count, selected>>
      BY <1>4 DEF SortStep
    <2>5. QED
      BY <1>0, <2>1, <2>2, <2>3, <2>4 DEF ListInv
  <1>5. CASE SortEnd
    <2>1. Started /\ Started' /\ sche' # "first_sort" /\ UNCHANGED <<count, next>>
      BY <1>5 DEF SortEnd, Sorting, Started
    <2>2. /\ algorithm = "SJF" => Links' /\ Ordered' /\ SelectedOrdered'
          /\ algorithm # "SJF" =>
                /\ InArrivalOrder' /\ Len(selected') <= count
                /\ selected' = [k \in 1 .. Len(selected') |-> k]
      BY <1>5, <2>1, SelectFirst
    <2>3. QED
      BY <1>0, <2>1, <2>2 DEF ListInv
  <1>6. CASE ScheBroadcast \/ ScheJoin \/ ScheExit
    <2>1. /\ Started /\ Started' /\ sche # "first_sort" /\ sche' # "first_sort"
          /\ sche # "sort" /\ tmp' \in {tmp, head, NULL}
          /\ UNCHANGED <<head, count, next, selected, burst>>
      BY <1>6 DEF ScheBroadcast, ScheJoin, FirstItem, ScheExit, Joined, Started, queue,
         fields
    <2>2. CASE algorithm = "SJF"
      <3>1. Links /\ Ordered /\ SelectedOrdered
        BY <2>1, <2>2 DEF ListInv
      <3>2. \A p : Kept(p)' <=> Kept(p)
        BY <2>1 DEF Kept
      <3>3. Links'
        BY <1>1, <2>1, <3>1, <3>2 DEF Links
      <3>4. Ordered' /\ SelectedOrdered'
        BY <2>1, <3>1, <3>2 DEF Ordered, Passed, SelectedOrdered
      <3>5. QED
        BY <1>0, <2>1, <2>2, <3>3, <3>4 DEF ListInv
    <2>3. CASE algorithm # "SJF"
      <3>1. InArrivalOrder
        BY <2>1, <2>3 DEF ListInv, Looping
      <3>2. InArrivalOrder'
        BY <2>1, <3>1 DEF InArrivalOrder, Chain
      <3>3. QED
        BY <1>0, <2>1, <2>3, <3>2 DEF ListInv
    <2>4. QED
      BY <2>2, <2>3
  <1>7. CASE ScheRequeue
    BY <1>0, <1>7, PutBackLoops DEF ListInv
  <1>8. QED
    BY <1>2, <1>3, <1>4, <1>5, <1>6, <1>7 DEF SchedulerStep, Scheduler
-----------------------------------------------------------------------------
(* What has been joined. *)

\* No thread that has exited does anything, but the one of a PCB put back.
LEMMA ProcessJoin ==
    ASSUME Typed, JoinInv, NEW t \in PCBs, ProcessStep(t)
    PROVE  JoinInv'
  <1>0. UNCHANGED <<args, ended, queue, scheV, mainV>> /\ algorithm' = algorithm
    BY SameCommand DEF ProcessStep, GoesOn, Process, ProcStart, ProcSleep, ProcRun, ProcExit
  <1>1. \A p \in PCBs : proc[p] = "exited" => proc'[p] = "exited"
    BY DEF ProcessStep, Process, ProcStart, ProcSleep, ProcRun, ProcExit, TakeCpu,
       Typed, SimTypeOK
  <1>2. \A k \in 1 .. Len(selected) : selected[k] \in PCBs
    BY DEF Typed, SimTypeOK
  <1>3. UNCHANGED <<count, next, sche, pcb, tmp, selected, main>>
    BY <1>0 DEF queue, scheV, mainV
  <1>4. Looping' = Looping /\ AllSelected' = AllSelected
    BY <1>0, <1>3 DEF Looping, AllSelected
  <1>5. SelectedExited => SelectedExited'
    BY <1>1, <1>2, <1>3 DEF SelectedExited
  <1>6. Len(selected) \in Nat
    BY DEF Typed, SimTypeOK
  <1>7. \A k \in 1 .. Len(selected) - 1 : proc[selected[k]] = "exited" =>
            proc'[selected[k]] = "exited"
    BY <1>1, <1>2, <1>6
  <1>8. QED
    BY <1>0, <1>3, <1>4, <1>5, <1>7 DEF JoinInv

\* The scheduler selects the next process when the last one has ended.
LEMMA SchedulerJoin ==
    ASSUME Typed, ListInv, JoinInv, SchedulerStep
    PROVE  JoinInv'
  <1>0. UNCHANGED <<args, ended, main>> /\ algorithm' = algorithm /\ ended = "no"
    BY SameCommand DEF SchedulerStep, GoesOn, Scheduler, ScheLockMutex, ScheSleep,
       ScheLockQueue, SortStep, SortEnd, ScheBroadcast, ScheJoin, ScheRequeue, ScheExit,
       mainV
  <1>1. /\ Len(selected) \in Nat /\ selected \in Seq(PCBs)
        /\ \A k \in 1 .. Len(selected) : selected[k] \in PCBs
        /\ proc \in [PCBs -> {"none", "created", "lock", "asleep", "running", "exited"}]
        /\ count \in Nat /\ NULL = 0
    <2>1. /\ selected \in Seq(PCBs)
          /\ proc \in [PCBs -> {"none", "created", "lock", "asleep", "running", "exited"}]
      BY DEF Typed, SimTypeOK
    <2>2. \A k \in 1 .. Len(selected) : selected[k] \in PCBs
      BY <2>1
    <2>3. QED
      BY <2>1, <2>2, ListFacts
  <1>2. sche # "exited" /\ main = "join"
    BY DEF JoinInv, SchedulerStep, Scheduler, ScheLockMutex, ScheSleep, ScheLockQueue,
       SortStep, SortEnd, Sorting, ScheBroadcast, ScheJoin, ScheRequeue, Joined, ScheExit
  <1>3. CASE ScheLockMutex \/ ScheSleep \/ ScheLockQueue
    BY <1>0, <1>2, <1>3 DEF JoinInv, ScheLockMutex, ScheSleep, ScheLockQueue
  <1>4. CASE SortStep
    <2>1. UNCHANGED <<sche, pcb, selected, proc, count>> /\ Sorting
      BY <1>4 DEF SortStep, procV
    <2>2. Looping => Looping'
      BY <1>4, LoopStep
    <2>3. SelectedExited' = SelectedExited
      BY <2>1 DEF SelectedExited
    <2>4. QED
      BY <1>0, <1>2, <2>1, <2>2, <2>3 DEF JoinInv, Sorting
  <1>5. CASE SortEnd
    <2>1. /\ Sorting /\ tmp = NULL /\ pcb' = head /\ proc' = proc
          /\ selected' = IF head = NULL THEN selected ELSE Append(selected, head)
          /\ sche' = IF sche = "first_sort" THEN "broadcast" ELSE "join"
      BY <1>5 DEF SortEnd, procV
    <2>2. ~Looping /\ Started
      BY <1>1, <2>1 DEF Looping, Sorting, Started
    <2>3. CASE sche = "first_sort"
      <3>1. head = 1 /\ selected = << >>
        BY <2>3 DEF ListInv
      <3>2. head # NULL /\ selected' = <<1>> /\ pcb' = 1 /\ sche' = "broadcast"
        BY <1>1, <2>1, <2>3, <3>1
      <3>3. QED
        BY <1>0, <1>1, <1>2, <3>2 DEF JoinInv
    <2>4. CASE sche # "first_sort"
      <3>1. sche' = "join" /\ selected # << >> /\ SelectedExited
        BY <2>1, <2>2, <2>4 DEF JoinInv, Sorting
      <3>2. CASE head = NULL
        <4>1. selected' = selected /\ pcb' = NULL /\ SelectedExited'
          BY <2>1, <3>1, <3>2 DEF SelectedExited
        <4>2. AllSelected'
          <5>1. ASSUME algorithm # "SJF" PROVE Len(selected) = count
            <6>1. InArrivalOrder /\ Len(selected) <= count
              BY <2>2, <5>1 DEF ListInv
            <6>2. QED
              BY <1>1, <3>2, <6>1 DEF InArrivalOrder
          <5>2. count' = count
            BY <1>5 DEF SortEnd
          <5>3. QED
            BY <1>0, <4>1, <5>1, <5>2 DEF AllSelected
        <4>3. QED
          BY <1>0, <1>2, <3>1, <4>1, <4>2 DEF JoinInv
      <3>3. CASE head # NULL
        <4>1. head \in PCBs
          BY <3>3 DEF Typed, SimTypeOK
        <4>2. /\ Len(selected') = Len(selected) + 1 /\ selected' # << >>
              /\ selected'[Len(selected) + 1] = head
              /\ \A k \in 1 .. Len(selected) : selected'[k] = selected[k]
          BY <1>1, <2>1, <3>3, <4>1
        <4>3. \A k \in 1 .. Len(selected') - 1 : proc'[selected'[k]] = "exited"
          BY <1>1, <2>1, <3>1, <4>2 DEF SelectedExited
        <4>4. QED
          BY <1>0, <1>1, <1>2, <2>1, <3>1, <3>3, <4>2, <4>3 DEF JoinInv
      <3>4. QED
        BY <3>2, <3>3
    <2>5. QED
      BY <2>3, <2>4
  <1>6. CASE ScheBroadcast
    <2>1. /\ sche = "broadcast" /\ sche' = "join" /\ UNCHANGED <<pcb, selected>>
          /\ \A p \in PCBs : proc[p] = "exited" => proc'[p] = "exited"
      BY <1>6 DEF ScheBroadcast, WakeAll
    <2>2. QED
      BY <1>0, <1>1, <1>2, <2>1 DEF JoinInv
  <1>7. CASE ScheJoin
    <2>1. /\ sche = "join" /\ pcb # NULL /\ proc[pcb] = "exited" /\ sche' = "sort"
          /\ UNCHANGED <<pcb, selected, proc>>
      BY <1>7 DEF ScheJoin, Joined, procV
    <2>2. SelectedExited' /\ selected # << >>
      BY <1>1, <2>1 DEF JoinInv, SelectedExited
    <2>3. QED
      BY <1>0, <1>2, <2>1, <2>2 DEF JoinInv
  <1>8. CASE ScheRequeue
    <2>1. /\ sche = "join" /\ pcb # NULL /\ sche' = "sort" /\ Looping'
          /\ selected' = selected
      BY <1>8, PutBackLoops DEF ScheRequeue, Joined
    <2>2. QED
      BY <1>0, <1>2, <2>1 DEF JoinInv
  <1>9. CASE ScheExit
    <2>1. /\ sche = "join" /\ pcb = NULL /\ sche' = "exited"
          /\ UNCHANGED <<pcb, selected, proc, count>>
      BY <1>9 DEF ScheExit, procV, queue
    <2>2. QED
      BY <1>0, <1>2, <2>1 DEF JoinInv, SelectedExited, AllSelected
  <1>10. QED
    BY <1>3, <1>4, <1>5, <1>6, <1>7, <1>8, <1>9 DEF SchedulerStep, Scheduler

\* Main waits for the generator and the scheduler.
LEMMA MainKeepsJoin ==
    ASSUME Typed, JoinInv, EndsWith("crashed") \/ MainStep \/ MainReturn
    PROVE  JoinInv'
  <1>1. UNCHANGED <<args, count, next, sche, pcb, tmp, selected, proc>>
    BY DEF EndsWith, MainStep, GoesOn, Main, MainJoin, MainFree, MainFreeBuffer, MainDestroy,
       MainReturn, queue, scheV, procV
  <1>2. main' # "join" => sche = "exited"
    BY DEF JoinInv, EndsWith, MainStep, Main, MainJoin, MainFree, MainFreeBuffer, MainDestroy,
       MainReturn, BothJoined, mainV
  <1>3. ended' = "returned" => main' # "join"
    BY DEF JoinInv, EndsWith, MainStep, GoesOn, Main, MainJoin, MainFree,
       MainFreeBuffer, MainDestroy, MainReturn, mainV
  <1>4. /\ Looping' = Looping /\ AllSelected' = AllSelected
        /\ SelectedExited' = SelectedExited
    BY <1>1, SameCommand DEF Looping, AllSelected, SelectedExited
  <1>5. QED
    BY <1>1, <1>2, <1>3, <1>4 DEF JoinInv

\* The generator is done when the scheduler starts.
LEMMA GeneratorJoin ==
    ASSUME Typed, JoinInv, GeneratorStep
    PROVE  JoinInv'
  <1>1. ~Started
    BY DEF GeneratorStep, Generator, GenBegin, GenMalloc, NewPcb, GenDraw, GenAdd,
       GenCreate, GenExit, Typed, GenInv
  <1>2. ~Started' /\ UNCHANGED <<main, ended>> /\ ended = "no"
    BY <1>1 DEF GeneratorStep, GoesOn, Generator, GenBegin, GenMalloc, GenDraw, GenAdd,
       GenCreate, GenExit, Started, scheV, mainV
  <1>3. main = "join"
    BY <1>1 DEF JoinInv, Started
  <1>4. QED
    BY <1>2, <1>3 DEF JoinInv, Started
-----------------------------------------------------------------------------
(* The invariant. *)

\* At first there are no PCBs, and nobody holds a mutex.
LEMMA InitSim == ASSUME Init PROVE SimInv
  <1>1. /\ args \in Arguments /\ Total \in Nat /\ allP \in Nat
        /\ \A p \in PCBs : p \in Nat /\ p >= 1
    BY CommandFacts, Numbered DEF Init
  <1>2. SimTypeOK
    BY <1>1 DEF Init, SimTypeOK, Loops
  <1>3. GenInv
    BY <1>1 DEF Init, GenInv, Started
  <1>4. StartInv
    BY <1>1 DEF Init, StartInv
  <1>5. LockInv
    BY DEF Init, LockInv
  <1>6. ListInv
    <2>1. count = 0 /\ head = NULL /\ selected = << >> /\ ~Started /\ sche # "first_sort"
      BY DEF Init, Started
    <2>2. Waiting
      BY <2>1 DEF Waiting, Chain
    <2>3. \A p \in PCBs : next[p] = NULL
      BY DEF Init
    <2>4. Len(selected) <= count /\ selected = [k \in 1 .. Len(selected) |-> k]
      BY <2>1
    <2>5. QED
      BY <2>1, <2>2, <2>3, <2>4 DEF ListInv
  <1>7. JoinInv
    BY DEF Init, JoinInv
  <1>8. QED
    BY <1>2, <1>3, <1>4, <1>5, <1>6, <1>7 DEF SimInv

\* Every step keeps the invariant.
LEMMA StepSim == ASSUME SimInv, [Next]_vars PROVE SimInv'
  <1>0. Typed /\ LockInv /\ ListInv /\ JoinInv
    BY DEF SimInv, Typed
  <1>1. CASE GeneratorStep
    BY <1>0, <1>1, GeneratorTyped, GeneratorLock, GeneratorList, GeneratorJoin
       DEF SimInv, Typed
  <1>2. CASE SchedulerStep
    BY <1>0, <1>2, OthersTyped, OthersLock, SchedulerList, SchedulerJoin
       DEF SimInv, Typed
  <1>3. CASE MainStep \/ EndsWith("crashed") \/ MainReturn
    <2>1. UNCHANGED <<args, count, next, head, tmp, selected, sche, burst>>
      BY <1>3 DEF EndsWith, MainStep, GoesOn, Main, MainJoin, MainFree, MainFreeBuffer, MainDestroy,
         MainReturn, queue, scheV, fields
    <2>2. ListInv'
      BY <1>0, <2>1, ListUntouched
    <2>3. QED
      BY <1>0, <1>3, <2>2, OthersTyped, OthersLock, MainKeepsJoin DEF SimInv, Typed
  <1>4. ASSUME NEW t \in PCBs, ProcessStep(t) PROVE SimInv'
    <2>1. UNCHANGED <<args, count, next, head, tmp, selected, sche, burst>>
      BY <1>4 DEF ProcessStep, GoesOn, Process, ProcStart, ProcSleep, ProcRun, ProcExit,
         queue, scheV, fields
    <2>2. ListInv'
      BY <1>0, <2>1, ListUntouched
    <2>3. QED
      BY <1>0, <1>4, <2>2, ProcessTyped, ProcessLock, ProcessJoin DEF SimInv, Typed
  <1>5. CASE UNCHANGED vars
    <2>1. UNCHANGED <<args, ended>> /\ UNCHANGED <<head, head1, count, next>>
          /\ UNCHANGED <<burst, start, remaining_burst_len, last>>
          /\ UNCHANGED <<mutex, th_ready_queue>> /\ UNCHANGED <<slot, gen, new>>
          /\ UNCHANGED <<sche, pcb, tmp, selected>> /\ UNCHANGED <<proc, arg, my>>
          /\ UNCHANGED <<main, freed>>
      BY <1>5 DEF vars, queue, fields, locks, genV, scheV, procV, mainV
    <2>2. UNCHANGED <<algorithm, quantum, allP, Total>>
      BY <2>1, SameCommand
    <2>3. SimTypeOK' /\ GenInv' /\ StartInv'
      <3>1. SimTypeOK'
        BY <1>0, <2>1, <2>2 DEF Typed, SimTypeOK
      <3>2. GenInv' /\ StartInv'
        BY <1>0, <2>1, <2>2 DEF Typed, GenInv, StartInv, Started
      <3>3. QED
        BY <3>1, <3>2
    <2>4. LockInv'
      BY <1>0, <2>1, <2>2 DEF LockInv
    <2>5. ListInv'
      BY <1>0, <2>1, ListUntouched
    <2>6. JoinInv'
      BY <1>0, <2>1, <2>2 DEF JoinInv, SelectedExited, AllSelected, Looping
    <2>7. QED
      BY <2>3, <2>4, <2>5, <2>6 DEF SimInv
  <1>6. QED
    BY <1>1, <1>2, <1>3, <1>4, <1>5, Crashes DEF Next

\* The invariant holds in every state of the simulator, for every command line,
\* every draw of lengths and every order of the threads' steps.
THEOREM SimInvariance == Spec => []SimInv
  <1>1. Init => SimInv
    BY InitSim
  <1>2. SimInv /\ [Next]_vars => SimInv'
    BY StepSim
  <1>3. QED
    BY <1>1, <1>2, PTL DEF Spec

\* The variables keep their types, and no more processes are made than the
\* command line says.
THEOREM SimTypes == Spec => []SimTypeOK
  <1>1. SimInv => SimTypeOK
    BY DEF SimInv
  <1>2. QED
    BY <1>1, SimInvariance, PTL

\* With FCFS and RR all processes have ended when the scheduler has.
LEMMA AllEnded ==
    ASSUME SimInv, sche = "exited", algorithm # "SJF"
    PROVE  count = Total /\ \A t \in 1 .. count : proc[t] = "exited"
  <1>1. count = Total
    BY DEF SimInv, GenInv, Started
  <1>2. Len(selected) = count /\ SelectedExited
    BY DEF SimInv, JoinInv, AllSelected
  <1>3. selected = [k \in 1 .. Len(selected) |-> k]
    BY DEF SimInv, ListInv
  <1>4. QED
    BY <1>1, <1>2, <1>3 DEF SelectedExited

\* One process at a time uses the CPU (systemsim.c:287-342) until the scheduler
\* ends, and with FCFS and RR after that as well.
THEOREM SimCpu == Spec => []CpuExclusive
  <1>1. SimInv => CpuExclusive
    <2> SUFFICES ASSUME SimInv, NEW s \in PCBs, NEW t \in PCBs,
                        proc[s] = "running", proc[t] = "running",
                        sche # "exited" \/ algorithm # "SJF"
                 PROVE  s = t
      BY DEF CpuExclusive, AtMostOneRunning
    <2>1. CASE sche # "exited"
      BY <2>1 DEF SimInv, LockInv
    <2>2. CASE sche = "exited"
      <3>1. s \in Nat /\ s >= 1 /\ s <= count /\ count \in Nat
        BY TypeFacts DEF SimInv, GenInv, Typed
      <3>2. proc[s] = "exited"
        BY <2>2, <3>1, AllEnded
      <3>3. QED
        BY <3>2
    <2>3. QED
      BY <2>1, <2>2
  <1>2. QED
    BY <1>1, SimInvariance, PTL

\* When main frees the PCBs and the buffer (systemsim.c:640-656), every process
\* that was selected has exited, which with FCFS and RR is every process.
THEOREM SimFreed == Spec => []FreedAfterExit
  <1>1. SimInv => FreedAfterExit
    BY AllEnded DEF SimInv, JoinInv, SelectedExited, FreedAfterExit
  <1>2. QED
    BY <1>1, SimInvariance, PTL

\* FCFS and RR select in the order of arrival, SJF never a longer burst before a
\* shorter one (systemsim.c:89-234).
THEOREM SimOrder == Spec => []SelectionOrder
  <1>1. SimInv => SelectionOrder
    <2> SUFFICES ASSUME SimInv PROVE SelectionOrder
      OBVIOUS
    <2>1. algorithm # "SJF" => selected = [k \in 1 .. Len(selected) |-> k]
      BY DEF SimInv, ListInv
    <2>2. ASSUME algorithm = "SJF", NEW j \in 1 .. Len(selected),
                 NEW k \in 1 .. Len(selected), j < k
          PROVE  /\ selected[j] # selected[k]
                 /\ burst[selected[j]] <= burst[selected[k]]
      <3>1. CASE Started
        <4>1. SelectedOrdered
          BY <2>2, <3>1 DEF SimInv, ListInv
        <4>2. /\ selected[j] < selected[k] /\ selected[j] \in 1 .. count
              /\ burst[selected[j]] <= burst[selected[k]]
          BY <2>2, <4>1 DEF SelectedOrdered
        <4>3. QED
          BY <4>2
      <3>2. CASE ~Started
        BY <2>2, <3>2 DEF SimInv, ListInv, Waiting
      <3>3. QED
        BY <3>1, <3>2
    <2>3. QED
      BY <2>1, <2>2 DEF SelectionOrder
  <1>2. QED
    BY <1>1, SimInvariance, PTL
-----------------------------------------------------------------------------
(* The simulator implements the abstract scheduler of CpuScheduling. *)

\* The variables of the abstract scheduler that the threads' steps change.
ArrivedBursts == [p \in 1 .. count |-> burst[p]]
Finished == {t \in PCBs : proc[t] = "exited"}
Over == ended = "returned"

\* As many have arrived as the counter of the queue says.
LEMMA ArrivedFacts ==
    ASSUME Typed
    PROVE  /\ Len(ArrivedBursts) = count
           /\ \A p \in 1 .. count : ArrivedBursts[p] = burst[p]
           /\ Scheduling!Arrived = 1 .. count
  <1>1. count \in Nat
    BY TypeFacts
  <1>2. Len(ArrivedBursts) = count
    BY <1>1 DEF ArrivedBursts
  <1>3. QED
    BY <1>2 DEF ArrivedBursts, Scheduling!Arrived

\* What the abstract scheduler does not see.
LEMMA Unseen ==
    ASSUME UNCHANGED <<args, ArrivedBursts, selected, Finished, Over>>
    PROVE  UNCHANGED Scheduling!vars
  BY SameCommand
     DEF Scheduling!vars, Scheduling!command, ArrivedBursts, Finished, Over

\* A process arrives when it is added to the list.
LEMMA GeneratorImplements ==
    ASSUME SimInv, GeneratorStep
    PROVE  [Scheduling!Next]_Scheduling!vars
  <1>0. UNCHANGED <<args, ended, selected>> /\ UNCHANGED <<algorithm, allP, Total>>
    BY SameCommand DEF GeneratorStep, GoesOn, Generator, GenBegin, GenMalloc, GenDraw,
       GenAdd, GenCreate, GenExit, scheV
  <1>1. Typed /\ count \in Nat /\ 1 .. count \subseteq PCBs
    BY TypeFacts DEF SimInv, Typed
  <1>2. CASE GenAdd
    <2>1. /\ new = count + 1 /\ count < Total /\ burst[new] \in AllLengths
          /\ count' = count + 1 /\ UNCHANGED <<burst, proc>>
      BY <1>1, <1>2 DEF GenAdd, Typed, GenInv, fields, procV
    <2>2. ArrivedBursts' = Append(ArrivedBursts, burst[new])
      BY <1>1, <2>1 DEF ArrivedBursts
    <2>3. UNCHANGED <<Finished, Over>>
      BY <1>0, <2>1 DEF Finished, Over
    <2>4. Len(ArrivedBursts) < Total
      BY <1>1, <2>1, ArrivedFacts
    <2>5. Scheduling!Arrive
      BY <1>0, <2>1, <2>2, <2>3, <2>4
         DEF Scheduling!Arrive, Scheduling!command, ArrivedBursts, Finished, Over
    <2>6. QED
      BY <2>5 DEF Scheduling!Next
  <1>3. CASE ~GenAdd
    <2>1. count' = count
      BY <1>3 DEF GeneratorStep, Generator, GenBegin, GenMalloc, GenDraw, GenCreate,
         GenExit, queue
    <2>2. \A p \in 1 .. count : burst'[p] = burst[p]
      BY <1>1, <1>3 DEF GeneratorStep, Generator, GenBegin, GenMalloc, GenDraw, GenCreate,
         GenExit, fields, Typed, SimTypeOK
    <2>3. ArrivedBursts' = ArrivedBursts
      BY <2>1, <2>2 DEF ArrivedBursts
    <2>4. \A t \in PCBs : proc'[t] = "exited" <=> proc[t] = "exited"
      BY <1>1, <1>3 DEF GeneratorStep, Generator, GenBegin, GenMalloc, GenDraw, GenCreate,
         GenExit, procV, Typed, SimTypeOK, GenInv
    <2>5. Finished' = Finished /\ Over' = Over
      BY <1>0, <2>4 DEF Finished, Over
    <2>6. QED
      BY <1>0, <2>3, <2>5, Unseen
  <1>4. QED
    BY <1>2, <1>3

\* A process finishes when its thread exits.
LEMMA ProcessImplements ==
    ASSUME SimInv, NEW t \in PCBs, ProcessStep(t)
    PROVE  [Scheduling!Next]_Scheduling!vars
  <1>0. UNCHANGED <<args, ended, selected, count, burst>>
        /\ UNCHANGED <<algorithm, allP, Total>>
    BY SameCommand DEF ProcessStep, GoesOn, Process, ProcStart, ProcSleep, ProcRun,
       ProcExit, queue, fields, scheV
  <1>1. /\ Typed /\ count \in Nat /\ t \in Nat /\ t >= 1
        /\ proc \in [PCBs -> {"none", "created", "lock", "asleep", "running", "exited"}]
    BY TypeFacts DEF SimInv, Typed, SimTypeOK
  <1>2. ArrivedBursts' = ArrivedBursts /\ Over' = Over
    BY <1>0 DEF ArrivedBursts, Over
  <1>3. CASE ProcExit(t)
    <2>1. proc[t] = "running" /\ proc' = [proc EXCEPT ![t] = "exited"]
      BY <1>3 DEF ProcExit
    <2>2. count >= allP /\ t \in 1 .. count
      BY <1>1, <2>1 DEF SimInv, LockInv, GenInv
    <2>3. t \notin Finished /\ Finished' = Finished \cup {t}
      BY <1>1, <2>1 DEF Finished
    <2>4. Len(ArrivedBursts) >= allP /\ t \in Scheduling!Arrived
      BY <1>1, <2>2, ArrivedFacts
    <2>5. Scheduling!Finish(t)
      BY <1>0, <1>2, <2>3, <2>4
         DEF Scheduling!Finish, Scheduling!command, ArrivedBursts, Finished, Over
    <2>6. QED
      BY <2>4, <2>5 DEF Scheduling!Next
  <1>4. CASE ~ProcExit(t)
    <2>1. \A u \in PCBs : proc'[u] = "exited" <=> proc[u] = "exited"
      BY <1>1, <1>4 DEF ProcessStep, Process, ProcStart, ProcSleep, ProcRun, TakeCpu
    <2>2. Finished' = Finished
      BY <2>1 DEF Finished
    <2>3. QED
      BY <1>0, <1>2, <2>2, Unseen
  <1>5. QED
    BY <1>3, <1>4

\* A process is selected at the end of a pass, when the one before has finished.
LEMMA SchedulerImplements ==
    ASSUME SimInv, SchedulerStep
    PROVE  [Scheduling!Next]_Scheduling!vars
  <1>0. UNCHANGED <<args, ended, count, burst>> /\ UNCHANGED <<algorithm, allP, Total>>
    BY SameCommand DEF SchedulerStep, GoesOn, Scheduler, ScheLockMutex, ScheSleep,
       ScheLockQueue, SortStep, SortEnd, ScheBroadcast, ScheJoin, ScheRequeue, ScheExit,
       queue, fields
  <1>1. /\ Typed /\ count \in Nat /\ 1 .. count \subseteq PCBs
        /\ selected \in Seq(PCBs) /\ Len(selected) \in Nat /\ head \in PCBs \cup {NULL}
        /\ proc \in [PCBs -> {"none", "created", "lock", "asleep", "running", "exited"}]
    <2>1. Typed
      BY DEF SimInv, Typed
    <2>2. /\ selected \in Seq(PCBs) /\ head \in PCBs \cup {NULL}
          /\ proc \in [PCBs -> {"none", "created", "lock", "asleep", "running", "exited"}]
      BY DEF SimInv, SimTypeOK
    <2>3. QED
      BY <2>1, <2>2, TypeFacts
  <1>2. ArrivedBursts' = ArrivedBursts /\ Over' = Over
    BY <1>0 DEF ArrivedBursts, Over
  <1>3. CASE SortEnd /\ head # NULL
    <2>1. /\ Sorting /\ tmp = NULL /\ proc' = proc
          /\ selected' = Append(selected, head)
      BY <1>3 DEF SortEnd, procV
    <2>2. Started /\ count = Total /\ ~Looping
      BY <2>1, ListFacts DEF SimInv, Typed, Sorting, Started, GenInv, Looping
    <2>3. selected # << >> => selected[Len(selected)] \in Finished
      <3>1. selected # << >> => SelectedExited
        BY <2>1, <2>2 DEF SimInv, JoinInv, ListInv, Sorting
      <3>2. selected # << >> => Len(selected) \in 1 .. Len(selected)
                                /\ selected[Len(selected)] \in PCBs
        BY <1>1
      <3>3. QED
        BY <3>1, <3>2 DEF SelectedExited, Finished
    <2>4. head \in 1 .. count
          /\ IF algorithm = "SJF"
             THEN \A k \in 1 .. Len(selected) :
                     selected[k] # head /\ selected[k] \in 1 .. count
                     /\ burst[selected[k]] <= burst[head]
             ELSE head = Len(selected) + 1
      <3>1. CASE algorithm = "SJF"
        <4>1. Links /\ SelectedOrdered
          BY <2>2, <3>1 DEF SimInv, ListInv
        <4>2. head \in 1 .. count
          BY <1>3, <4>1 DEF Links
        <4>3. \A k \in 1 .. Len(selected) :
                 /\ selected[k] \in 1 .. count /\ selected[k] < head
                 /\ burst[selected[k]] <= burst[head]
          BY <1>3, <4>1 DEF SelectedOrdered
        <4>4. \A k \in 1 .. Len(selected) : selected[k] # head
          BY <4>2, <4>3
        <4>5. QED
          BY <3>1, <4>2, <4>3, <4>4
      <3>2. CASE algorithm # "SJF"
        <4>1. InArrivalOrder
          BY <2>2, <3>2 DEF SimInv, ListInv
        <4>2. QED
          BY <1>1, <1>3, <3>2, <4>1 DEF InArrivalOrder
      <3>3. QED
        BY <3>1, <3>2
    <2>5. Scheduling!InTurn(head)
      BY <1>1, <2>4, ArrivedFacts DEF Scheduling!InTurn, ArrivedBursts
    <2>6. Finished' = Finished
      BY <2>1 DEF Finished
    <2>7. Len(ArrivedBursts) = Total /\ head \in Scheduling!Arrived
      BY <1>1, <2>2, <2>4, ArrivedFacts
    <2>8. Scheduling!Select(head)
      BY <1>0, <1>2, <2>1, <2>3, <2>5, <2>6, <2>7
         DEF Scheduling!Select, Scheduling!Last, Scheduling!command, ArrivedBursts,
             Finished, Over
    <2>9. QED
      BY <2>7, <2>8 DEF Scheduling!Next
  <1>4. CASE ScheRequeue
    <2>1. /\ sche = "join" /\ pcb # NULL /\ proc[pcb] = "exited" /\ algorithm = "RR"
          /\ proc' = [proc EXCEPT ![pcb] = "created"] /\ selected' = selected
          /\ pcb \in PCBs
      BY <1>1, <1>4 DEF ScheRequeue, Joined, Unfinished, Typed, SimTypeOK
    <2>2. selected # << >> /\ pcb = selected[Len(selected)]
      BY <2>1 DEF SimInv, JoinInv
    <2>3. pcb \in Finished /\ Finished' = Finished \ {pcb}
      BY <1>1, <2>1 DEF Finished
    <2>4. Scheduling!PutBack
      BY <1>0, <1>2, <2>1, <2>2, <2>3
         DEF Scheduling!PutBack, Scheduling!Last, Scheduling!command, ArrivedBursts,
             Finished, Over
    <2>5. QED
      BY <2>4 DEF Scheduling!Next
  <1>5. CASE ~ScheRequeue /\ ~(SortEnd /\ head # NULL)
    <2>1. selected' = selected
      BY <1>5 DEF SchedulerStep, Scheduler, ScheLockMutex, ScheSleep, ScheLockQueue,
         SortStep, SortEnd, ScheBroadcast, ScheJoin, ScheExit
    <2>2. \A t \in PCBs : proc'[t] = "exited" <=> proc[t] = "exited"
      BY <1>1, <1>5 DEF SchedulerStep, Scheduler, ScheLockMutex, ScheSleep, ScheLockQueue,
         SortStep, SortEnd, ScheBroadcast, WakeAll, ScheJoin, ScheExit, procV
    <2>3. Finished' = Finished
      BY <2>2 DEF Finished
    <2>4. QED
      BY <1>0, <1>2, <2>1, <2>3, Unseen
  <1>6. QED
    BY <1>3, <1>4, <1>5

\* The simulation is over when main returns.
LEMMA MainImplements ==
    ASSUME SimInv, MainStep \/ EndsWith("crashed") \/ MainReturn
    PROVE  [Scheduling!Next]_Scheduling!vars
  <1>0. UNCHANGED <<args, selected, count, burst, proc>>
        /\ UNCHANGED <<algorithm, allP, Total>>
    BY SameCommand DEF EndsWith, MainStep, GoesOn, Main, MainJoin, MainFree,
       MainFreeBuffer, MainDestroy, MainReturn, queue, scheV, fields, procV
  <1>1. ArrivedBursts' = ArrivedBursts /\ Finished' = Finished
    BY <1>0 DEF ArrivedBursts, Finished
  <1>2. CASE MainStep \/ EndsWith("crashed")
    <2>1. Over' = Over
      BY <1>2 DEF Over, EndsWith, MainStep, GoesOn
    <2>2. QED
      BY <1>0, <1>1, <2>1, Unseen
  <1>3. CASE MainReturn
    <2>1. ~Over /\ Over' /\ main # "join"
      BY <1>3 DEF MainReturn, EndsWith, Over
    <2>2. sche = "exited" /\ selected # << >> /\ SelectedExited /\ AllSelected
      BY <2>1 DEF SimInv, JoinInv
    <2>3. count = Total
      BY <2>2 DEF SimInv, GenInv, Started
    <2>4. \A k \in 1 .. Len(selected) : selected[k] \in Finished
      <3>1. \A k \in 1 .. Len(selected) : selected[k] \in PCBs
        BY DEF SimInv, SimTypeOK
      <3>2. QED
        BY <2>2, <3>1 DEF SelectedExited, Finished
    <2>5. Scheduling!End
      BY <1>0, <1>1, <2>1, <2>2, <2>3, <2>4
         DEF Scheduling!End, Scheduling!command, AllSelected, ArrivedBursts, Finished, Over
    <2>6. QED
      BY <2>5 DEF Scheduling!Next
  <1>4. QED
    BY <1>2, <1>3

\* Before the threads start nothing has arrived.
LEMMA InitImplements == ASSUME Init PROVE Scheduling!Init
  <1>1. /\ algorithm \in {"FCFS", "SJF", "RR"} /\ Total \in Nat \ {0}
        /\ allP \in 1 .. Total
    BY CommandFacts DEF Init
  <1>2. ArrivedBursts = << >> /\ Finished = {} /\ Over = FALSE /\ selected = << >>
    BY DEF Init, ArrivedBursts, Finished, Over
  <1>3. QED
    BY <1>1, <1>2 DEF Scheduling!Init, ArrivedBursts, Finished, Over

\* The simulator implements the abstract scheduler: whatever its threads do,
\* nothing is selected before everything has arrived, in the order of the
\* algorithm, each selection waits for the end of the one before, and the
\* program returns only when what was selected has ended (systemsim.c:349-656).
THEOREM SchedulingImplemented == Spec => SchedulingSpec
  <1>1. SimInv /\ [Next]_vars => [Scheduling!Next]_Scheduling!vars
    <2>1. ASSUME SimInv, NEW t \in PCBs, ProcessStep(t)
          PROVE  [Scheduling!Next]_Scheduling!vars
      BY <2>1, ProcessImplements
    <2>2. ASSUME UNCHANGED vars PROVE UNCHANGED Scheduling!vars
      BY <2>2, Unseen DEF vars, queue, fields, scheV, procV, ArrivedBursts, Finished, Over
    <2>3. QED
      BY <2>1, <2>2, Crashes, GeneratorImplements, SchedulerImplements, MainImplements
         DEF Next
  <1>2. QED
    BY <1>1, InitImplements, SimInvariance, PTL DEF Spec, SchedulingSpec, Scheduling!Spec
=============================================================================
