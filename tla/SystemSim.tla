----------------------------- MODULE SystemSim -----------------------------
(***************************************************************************)
(* The scheduling simulator of src/Project2/systemsim.c: a generator that  *)
(* makes PCBs and process threads, a scheduler that takes PCBs off the     *)
(* ready queue and joins their threads, the process threads, and main.     *)
(*                                                                         *)
(* PCBs and process threads are numbered in the order of their creation,   *)
(* which is also their pid.  The ready queue is the linked list of the     *)
(* code: a sort that runs in a cycle or loses a PCB does so here.          *)
(***************************************************************************)
EXTENDS Integers, Sequences, FiniteSets

CONSTANTS Arguments,    (* the command lines to consider                     *)
          batch,        (* 10 in the code: processes made without a pause   *)
          burst_len     (* the burstlen argument                            *)

ASSUME SimAssumption ==
    /\ Arguments \subseteq [algorithm : {"FCFS", "SJF", "RR"}, quantum : Nat,
                             maxP : Nat \ {0}, allP : Nat \ {0},
                             burst_dist : {"fixed", "uniform", "exponential"},
                             min_burst : Nat, max_burst : Nat]
    /\ batch \in Nat \ {0}
    /\ burst_len \in Nat

\* Every process there can be.
PCBs == UNION {(1 .. a.maxP) \cup (1 .. a.allP) : a \in Arguments}

NULL   == 0

\* Who can hold a mutex, besides the process threads.
NoOne  == 0
Sched  == -1
GenThr == -2

\* The loops of gen_func.  Each has a variable pcb of its own, whose address
\* is the argument of the threads it creates; so has sche_func.
Loops == {"batch", "random", "rest"}

VARIABLES
    args,                        \* the command line
    head, head1, count,          \* struct ready_queue
    next, burst, start, remaining_burst_len, last,   \* struct PCB, by field
    mutex, th_ready_queue,       \* who holds them
    slot,                        \* the variables pcb of gen_func
    gen, new,                    \* the generator: label, PCB being made
    sche, pcb, tmp,              \* the scheduler: label, its pcb, list pointer
    proc, arg, my,               \* the process threads: label, arg, pcb
    main, freed,                 \* main: label, PCBs it has freed
    ended,                       \* whether the program has ended, and how
    selected                     \* history: the PCBs selected for the CPU

queue  == <<head, head1, count, next>>
fields == <<burst, start, remaining_burst_len, last>>
locks  == <<mutex, th_ready_queue>>
genV   == <<slot, gen, new>>
scheV  == <<sche, pcb, tmp, selected>>
procV  == <<proc, arg, my>>
mainV  == <<main, freed>>
vars   == <<args, queue, fields, locks, genV, scheV, procV, mainV, ended>>

\* The end of the program, in the middle of whatever the threads do.
EndsWith(how) ==
    /\ ended = "no"
    /\ ended' = how
    /\ UNCHANGED <<args, queue, fields, locks, genV, scheV, procV, mainV>>

algorithm == args.algorithm
quantum   == IF algorithm = "RR" THEN args.quantum ELSE 0
maxP      == args.maxP
allP      == args.allP

\* The processes generated at once, and all that are generated.
Batch == IF batch < maxP THEN batch ELSE maxP
Total == IF allP < maxP THEN maxP ELSE allP

BufferFreed == main \in {"destroy", "return"}

LoopOf(p) == IF p <= Batch THEN "batch" ELSE IF p <= maxP THEN "random" ELSE "rest"

\* No PCB is initialised beyond what gen_func assigns; the memory that the
\* generator's malloc hands out is fresh, so that next starts as NULL.
Init ==
    /\ args \in Arguments
    /\ head = NULL /\ head1 = NULL /\ count = 0
    /\ next = [p \in PCBs |-> NULL]
    /\ burst = [p \in PCBs |-> 0]
    /\ start = [p \in PCBs |-> 0]
    /\ remaining_burst_len = [p \in PCBs |-> 0]
    /\ last = [p \in PCBs |-> 0]
    /\ mutex = NoOne /\ th_ready_queue = NoOne
    /\ slot = [l \in Loops |-> NULL]
    /\ gen = "begin" /\ new = NULL
    /\ sche = "lock_mutex" /\ pcb = NULL /\ tmp = NULL
    /\ proc = [p \in PCBs |-> "none"]
    /\ arg = [p \in PCBs |-> "none"]
    /\ my = [p \in PCBs |-> NULL]
    /\ main = "join" /\ freed = {}
    /\ ended = "no"
    /\ selected = << >>

-----------------------------------------------------------------------------
(* Variants: operators below, each with one plausible mistake. *)

\* One process too many.
GenMoreOneOver == count < Batch \/ count < maxP \/ count <= allP

\* A new PCB goes to the front.
AddItemInFront(e) ==
    /\ head' = e
    /\ head1' = IF count = 0 THEN e ELSE head1
    /\ next' = [next EXCEPT ![e] = head]

\* The process gives the mutex back before it uses the CPU.
TakeCpuUnlocked(t) ==
    /\ proc' = [proc EXCEPT ![t] = "running"]
    /\ UNCHANGED <<mutex, last>>

\* main does not wait for the scheduler.
JoinedGenOnly == gen = "exited"

\* The scheduler does not wait for the process that it selected.
JoinedAtOnce == sche = "join" /\ pcb # NULL

\* No broadcast: the processes that sleep are not woken.
WakeNobody == UNCHANGED proc

-----------------------------------------------------------------------------
(* The ready queue *)

\* The end of the list.  Whenever something is added, the PCBs that have been
\* generated form one chain and nothing has been moved yet.
LastItem == CHOOSE e \in 1 .. count : next[e] = NULL

\* pcb_addItem, but for the counter.  With count = 0 the list is new.
AddItem(e) ==
    IF count = 0
    THEN head' = e /\ head1' = e /\ UNCHANGED next
    ELSE UNCHANGED <<head, head1>> /\ next' = [next EXCEPT ![LastItem] = e]

\* What the sorting pass compares: the burst, or the time of the arrival.
Key(p) == IF algorithm = "SJF" THEN burst[p] ELSE start[p]

\* The item comes after its successor, by that key.
OutOfOrder(p) == next[p] # NULL /\ Key(p) > Key(next[p])

-----------------------------------------------------------------------------
(* gen_func *)

GenBegin ==
    /\ gen = "begin"
    /\ th_ready_queue = NoOne
    /\ th_ready_queue' = GenThr
    /\ gen' = "loop"
    /\ UNCHANGED <<mutex, slot, new, queue, fields, scheV, procV, mainV>>

\* rand() % diff + min_burst, whatever the sign of diff.
Uniform(a) ==
    LET diff == a.max_burst - a.min_burst
    IN  {a.min_burst + u : u \in 0 .. (IF diff < 0 THEN -diff ELSE diff) - 1}

\* No -log(u) of the C library's rand exceeds 21.
Exponential(a) == {x \in a.min_burst .. a.max_burst : x <= 21 * burst_len}

\* The lengths that calculateLengths can return.
Drawn(a) ==
    CASE a.burst_dist = "fixed"       -> {burst_len}
      [] a.burst_dist = "uniform"     -> Uniform(a)
      [] a.burst_dist = "exponential" -> Exponential(a)

\* Only SJF looks at the length of a burst and the others at the time of the
\* arrival, which can be the same for processes made one after the other.
LengthsOf(a) == IF a.algorithm = "SJF" THEN Drawn(a) ELSE {burst_len}
Gaps         == IF algorithm = "SJF" THEN {0} ELSE {0, 1}

AllLengths == UNION {LengthsOf(a) : a \in Arguments}

GenMore == count < Batch \/ count < maxP \/ count < allP

\* The variable pcb of the loop points to a new PCB.
NewPcb ==
    /\ gen = "loop"
    /\ GenMore
    /\ new' = count + 1
    /\ slot' = [slot EXCEPT ![LoopOf(count + 1)] = count + 1]

\* The pause and the draw of the second loop only delay a process.
GenMalloc ==
    /\ NewPcb
    /\ Drawn(args) # {}
    /\ \E b \in LengthsOf(args) : burst' = [burst EXCEPT ![count + 1] = b]
    /\ \E gap \in Gaps :
          start' = [start EXCEPT ![count + 1] =
                      IF count = 0 THEN 0 ELSE start[count] + gap]
    /\ remaining_burst_len' = [remaining_burst_len EXCEPT ![count + 1] = burst_len]
    /\ last' = [last EXCEPT ![count + 1] = 1]
    /\ gen' = "add"
    /\ UNCHANGED <<queue, locks, scheV, procV, mainV>>

\* A length that is out of range is drawn again with 1 / burst_len, which is
\* an integer division: with 0 no length is ever in range.  With 1 the range
\* has to be out of reach.
DrawsForever ==
    /\ args.burst_dist = "exponential"
    /\ burst_len > 1 \/ (burst_len = 1 /\ Drawn(args) = {})

GenDraw ==
    /\ NewPcb
    /\ DrawsForever
    /\ gen' = "drawing"
    /\ UNCHANGED <<queue, fields, locks, scheV, procV, mainV>>

\* A division by zero: rand() % diff with equal bounds, or 1 / burst_len.
Divides ==
    \/ args.burst_dist = "uniform" /\ args.min_burst = args.max_burst
    \/ args.burst_dist = "exponential" /\ burst_len = 0

GenTrap ==
    /\ gen = "loop"
    /\ GenMore
    /\ Divides
    /\ EndsWith("crashed")

GenAdd ==
    /\ gen = "add"
    /\ AddItem(new)
    /\ count' = count + 1
    /\ gen' = "create"
    /\ UNCHANGED <<fields, locks, slot, new, scheV, procV, mainV>>

GenCreate ==
    /\ gen = "create"
    /\ proc' = [proc EXCEPT ![new] = "created"]
    /\ arg' = [arg EXCEPT ![new] = LoopOf(new)]
    /\ gen' = "loop"
    /\ UNCHANGED <<queue, fields, locks, slot, new, my, scheV, mainV>>

\* Signal the scheduler, unlock and exit.
GenExit ==
    /\ gen = "loop"
    /\ ~GenMore
    /\ sche' = IF sche = "asleep" THEN "lock_queue" ELSE sche
    /\ th_ready_queue' = NoOne
    /\ gen' = "exited"
    /\ UNCHANGED <<queue, fields, mutex, slot, new, pcb, tmp, selected, procV, mainV>>

Generator == GenBegin \/ GenMalloc \/ GenDraw \/ GenAdd \/ GenCreate \/ GenExit

-----------------------------------------------------------------------------
(* process_func *)

\* *(struct PCB **) arg, whatever is in that variable by now.  The variables of
\* the generator go with its stack, which the threads that the scheduler makes
\* may use again.
StackGone(t) == arg[t] # "sche" /\ gen = "exited"

StackReused == \E s \in PCBs : arg[s] = "sche"

Found(t) ==
    IF StackGone(t) /\ StackReused THEN 1 .. count
    ELSE {IF arg[t] = "sche" THEN pcb ELSE slot[arg[t]]}

ProcStart(t) ==
    /\ proc[t] = "created"
    /\ \E p \in Found(t) : my' = [my EXCEPT ![t] = p]
    /\ proc' = [proc EXCEPT ![t] = "lock"]
    /\ UNCHANGED <<queue, fields, locks, genV, scheV, arg, mainV>>

ProcSleep(t) ==
    /\ proc[t] = "lock"
    /\ mutex = NoOne
    /\ count < allP
    /\ proc' = [proc EXCEPT ![t] = "asleep"]
    /\ UNCHANGED <<queue, fields, locks, genV, scheV, arg, my, mainV>>

TakeCpu(t) ==
    /\ mutex' = t
    /\ proc' = [proc EXCEPT ![t] = "running"]
    /\ UNCHANGED last

\* The CPU is used with the mutex held; who was selected is not asked.
ProcRun(t) ==
    /\ proc[t] = "lock"
    /\ mutex = NoOne
    /\ count >= allP
    /\ TakeCpu(t)
    /\ UNCHANGED <<queue, burst, start, remaining_burst_len, th_ready_queue,
                   genV, scheV, arg, my, mainV>>

Expires(t) == algorithm = "RR" /\ remaining_burst_len[my[t]] > quantum

\* An unlock frees the mutex, whoever holds it.
ProcExit(t) ==
    /\ proc[t] = "running"
    /\ last' = [last EXCEPT ![my[t]] = IF Expires(t) THEN 1 ELSE 0]
    /\ mutex' = NoOne
    /\ proc' = [proc EXCEPT ![t] = "exited"]
    /\ UNCHANGED <<queue, burst, start, remaining_burst_len, th_ready_queue,
                   genV, scheV, arg, my, mainV>>

\* The process uses memory that is not there any more: the stack of the
\* generator, the PCB or the buffer that main has freed.  It may get away with it.
UsesFreed(t) ==
    \/ proc[t] = "created" /\ StackGone(t)
    \/ proc[t] \in {"lock", "running"} /\ (my[t] \in freed \/ BufferFreed)

ProcCrash(t) == UsesFreed(t) /\ EndsWith("crashed")

Process(t) == ProcStart(t) \/ ProcSleep(t) \/ ProcRun(t) \/ ProcExit(t)

-----------------------------------------------------------------------------
(* sche_func *)

ScheLockMutex ==
    /\ sche = "lock_mutex"
    /\ mutex = NoOne
    /\ mutex' = Sched
    /\ sche' = "lock_queue"
    /\ UNCHANGED <<queue, fields, th_ready_queue, genV, pcb, tmp, selected, procV, mainV>>

\* It sleeps on th_cond_sch with the mutex held.
ScheSleep ==
    /\ sche = "lock_queue"
    /\ th_ready_queue = NoOne
    /\ count < allP
    /\ sche' = "asleep"
    /\ UNCHANGED <<queue, fields, locks, genV, pcb, tmp, selected, procV, mainV>>

\* Where the sorting pass begins; SJF does not sort a queue of one.
FirstItem == IF algorithm = "SJF" /\ count = 1 THEN NULL ELSE head

ScheLockQueue ==
    /\ sche = "lock_queue"
    /\ th_ready_queue = NoOne
    /\ count >= allP
    /\ th_ready_queue' = Sched
    /\ tmp' = FirstItem
    /\ sche' = "first_sort"
    /\ UNCHANGED <<queue, fields, mutex, genV, pcb, selected, procV, mainV>>

Sorting == sche \in {"first_sort", "sort"}

\* FCFS, SJF and RR: one step of the pass.  The link to the first of two
\* items that change places is not updated.
SortStep ==
    /\ Sorting
    /\ tmp # NULL
    /\ IF OutOfOrder(tmp)
       THEN /\ next' = [next EXCEPT ![tmp] = next[next[tmp]],
                                    ![next[tmp]] = tmp]
            /\ UNCHANGED tmp
       ELSE /\ tmp' = next[tmp]
            /\ UNCHANGED next
    /\ UNCHANGED <<head, head1, count, fields, locks, genV, sche, pcb, selected,
                   procV, mainV>>

\* pcb_deleteItem, at the end of the pass.  count stays as it is.
SortEnd ==
    /\ Sorting
    /\ tmp = NULL
    /\ pcb' = head
    /\ head' = IF head = NULL THEN NULL ELSE next[head]
    /\ selected' = IF head = NULL THEN selected ELSE Append(selected, head)
    /\ sche' = IF sche = "first_sort" THEN "broadcast" ELSE "join"
    /\ UNCHANGED <<head1, count, next, fields, locks, genV, tmp, procV, mainV>>

\* All who sleep on sleep_cond go for the mutex.
WakeAll ==
    proc' = [t \in PCBs |-> IF proc[t] = "asleep" THEN "lock" ELSE proc[t]]

\* Broadcast, unlock both, broadcast again.
ScheBroadcast ==
    /\ sche = "broadcast"
    /\ WakeAll
    /\ mutex' = NoOne
    /\ th_ready_queue' = NoOne
    /\ sche' = "join"
    /\ UNCHANGED <<queue, fields, genV, pcb, tmp, selected, arg, my, mainV>>

Joined == sche = "join" /\ pcb # NULL /\ proc[pcb] = "exited"

Unfinished == algorithm = "RR" /\ last[pcb] = 1

ScheJoin ==
    /\ Joined
    /\ ~Unfinished
    /\ tmp' = FirstItem
    /\ sche' = "sort"
    /\ UNCHANGED <<queue, fields, locks, genV, pcb, selected, procV, mainV>>

\* add_queue, count-- and a new thread for the PCB.  The PCB keeps its old
\* next, which is the head of the list it is added to.
ScheRequeue ==
    /\ Joined
    /\ Unfinished
    /\ head # NULL
    /\ remaining_burst_len' =
          [remaining_burst_len EXCEPT ![pcb] = remaining_burst_len[pcb] - quantum]
    /\ AddItem(pcb)
    /\ proc' = [proc EXCEPT ![pcb] = "created"]
    /\ arg' = [arg EXCEPT ![pcb] = "sche"]
    /\ tmp' = head
    /\ sche' = "sort"
    /\ UNCHANGED <<count, burst, start, last, locks, genV, pcb, selected, my, mainV>>

\* count is not 0 although the list is empty: pcb_addItem follows a null head.
ScheCrash ==
    /\ Joined
    /\ Unfinished
    /\ head = NULL
    /\ EndsWith("crashed")

\* It unlocks both mutexes, which it does not hold.
ScheExit ==
    /\ sche = "join"
    /\ pcb = NULL
    /\ mutex' = NoOne
    /\ th_ready_queue' = NoOne
    /\ sche' = "exited"
    /\ UNCHANGED <<queue, fields, genV, pcb, tmp, selected, procV, mainV>>

Scheduler ==
    \/ ScheLockMutex \/ ScheSleep \/ ScheLockQueue \/ SortStep \/ SortEnd
    \/ ScheBroadcast \/ ScheJoin \/ ScheRequeue \/ ScheExit

-----------------------------------------------------------------------------
(* main *)

BothJoined == gen = "exited" /\ sche = "exited"

MainJoin ==
    /\ main = "join"
    /\ BothJoined
    /\ main' = "free"
    /\ UNCHANGED <<queue, fields, locks, genV, scheV, procV, freed>>

MainFree ==
    /\ main = "free"
    /\ head1 # NULL
    /\ freed' = freed \cup {head1}
    /\ head1' = next[head1]
    /\ UNCHANGED <<head, count, next, fields, locks, genV, scheV, procV, main>>

\* free(buffer), with the mutexes and conditions in it.
MainFreeBuffer ==
    /\ main = "free"
    /\ head1 = NULL
    /\ main' = "destroy"
    /\ UNCHANGED <<queue, fields, locks, genV, scheV, procV, freed>>

\* The five calls that destroy them come after that.  They may get away with it.
MainDestroy ==
    /\ main = "destroy"
    /\ main' = "return"
    /\ UNCHANGED <<queue, fields, locks, genV, scheV, procV, freed>>

MainCrash == main = "destroy" /\ EndsWith("crashed")

\* The end of main is the end of every thread.
MainReturn == main = "return" /\ EndsWith("returned")

Main == MainJoin \/ MainFree \/ MainFreeBuffer \/ MainDestroy

-----------------------------------------------------------------------------
(* The program *)

\* Nothing but the crashes and the return of main ends it.
GoesOn == ended = "no" /\ UNCHANGED <<args, ended>>

GeneratorStep  == Generator /\ GoesOn
SchedulerStep  == Scheduler /\ GoesOn
MainStep       == Main /\ GoesOn
ProcessStep(t) == Process(t) /\ GoesOn

Next ==
    \/ GeneratorStep \/ SchedulerStep \/ MainStep
    \/ \E t \in PCBs : ProcessStep(t)
    \/ \E t \in PCBs : ProcCrash(t)
    \/ GenTrap \/ ScheCrash \/ MainCrash \/ MainReturn
    \/ (ended # "no" \/ gen = "drawing") /\ UNCHANGED vars

Spec == Init /\ [][Next]_vars

\* Every thread runs, every mutex is given to one of those that wait, and the
\* draw that makes a process succeeds in the end (PG is not 0).
Fairness ==
    /\ WF_vars(GeneratorStep \/ GenTrap)
    /\ WF_vars(SchedulerStep \/ ScheCrash)
    /\ WF_vars(MainStep \/ MainReturn)
    /\ \A t \in PCBs : WF_vars(ProcessStep(t))

FairSpec == Spec /\ Fairness

-----------------------------------------------------------------------------
(* Properties *)

SimTypeOK ==
    /\ args \in Arguments
    /\ {head, head1, new, pcb, tmp} \subseteq PCBs \cup {NULL}
    /\ count \in 0 .. Total
    /\ next \in [PCBs -> PCBs \cup {NULL}]
    /\ burst \in [PCBs -> AllLengths \cup {0}]
    /\ start \in [PCBs -> PCBs \cup {0}]
    /\ remaining_burst_len \in [PCBs -> Int]
    /\ last \in [PCBs -> {0, 1}]
    /\ mutex \in PCBs \cup {Sched, NoOne}
    /\ th_ready_queue \in {GenThr, Sched, NoOne}
    /\ slot \in [Loops -> PCBs \cup {NULL}]
    /\ gen \in {"begin", "loop", "drawing", "add", "create", "exited"}
    /\ sche \in {"lock_mutex", "lock_queue", "asleep", "first_sort",
                 "broadcast", "join", "sort", "exited"}
    /\ proc \in [PCBs -> {"none", "created", "lock", "asleep", "running", "exited"}]
    /\ arg \in [PCBs -> Loops \cup {"sche", "none"}]
    /\ my \in [PCBs -> PCBs \cup {NULL}]
    /\ main \in {"join", "free", "destroy", "return"}
    /\ freed \subseteq PCBs
    /\ ended \in {"no", "crashed", "returned"}
    /\ selected \in Seq(PCBs)

AtMostOneRunning ==
    \A s, t \in PCBs : proc[s] = "running" /\ proc[t] = "running" => s = t

\* One process at a time uses the CPU (systemsim.c:287-342), for as long as
\* the scheduler has not unlocked the mutex that it does not hold (549); with
\* FCFS and RR not even then, for it has joined every process.
CpuExclusive ==
    sche # "exited" \/ algorithm # "SJF" => AtMostOneRunning

\* With FCFS and RR main frees the PCBs and the buffer (640-656) only when every
\* process has exited: nobody is left to use them.  With SJF that is so of the
\* processes that were selected; ReportWhenAllLeft is about the others.
FreedAfterExit ==
    main # "join" =>
        /\ \A k \in 1 .. Len(selected) : proc[selected[k]] = "exited"
        /\ algorithm # "SJF" => \A t \in 1 .. Total : proc[t] = "exited"

\* FCFS and RR select in the order of arrival.  SJF, which sorts what it can
\* still reach, never selects a longer burst before a shorter one.  Nobody is
\* selected twice before the scheduler puts a process back (89-234).
SelectionOrder ==
    /\ algorithm # "SJF" => selected = [k \in 1 .. Len(selected) |-> k]
    /\ algorithm = "SJF" =>
          \A j, k \in 1 .. Len(selected) : j < k =>
              /\ selected[j] # selected[k]
              /\ burst[selected[j]] <= burst[selected[k]]

\* With FCFS and SJF the program comes to its end, by the return of main or by
\* memory that is not there any more: no wakeup of the scheduler or of a process
\* is missed (284-289, 503-524), and every pass over the list and every join ends
\* (526-546).  A burst length that is drawn again (254-259), with the ready queue
\* locked, is excepted.
SimulationEnds ==
    algorithm # "RR" ~> ended # "no" \/ gen = "drawing"

-----------------------------------------------------------------------------
(* The abstract scheduler *)

Scheduling == INSTANCE CpuScheduling WITH
    Lengths  <- AllLengths,
    total    <- Total,
    needed   <- allP,
    bursts   <- [p \in 1 .. count |-> burst[p]],
    finished <- {t \in PCBs : proc[t] = "exited"},
    over     <- (ended = "returned")

\* Whatever the threads do, nothing is selected before everything has arrived,
\* each selection waits for the end of the one before, and with FCFS and RR the
\* program returns only when all are selected and have ended (349-656).
SchedulingSpec == Scheduling!Spec

-----------------------------------------------------------------------------
(* What the project description says, and the program does not do. *)

\* Each process thread has a PCB of its own.
OwnPcb ==
    \A t \in PCBs : proc[t] = "running" => my[t] = t


\* The simulation ends when the last process thread leaves the system.
EverySimulationEnds ==
    <>(ended = "returned")
=============================================================================
