---------------------------- MODULE HistThreads ----------------------------
(***************************************************************************)
(* The histogram programs of src/Project1 that use threads: clients        *)
(* (histclient_th.c) send one request each to a server (histserver_th.c)   *)
(* over the queue MQNAME1 and wait for a reply on MQNAME2.  Any number of  *)
(* them may run, at the same time or one after the other.                  *)
(*                                                                         *)
(* The server starts a thread for one file after the other and joins it    *)
(* at once, so that server and thread are one sequence of steps.           *)
(***************************************************************************)
EXTENDS Integers, Sequences, FiniteSets

CONSTANTS Clients, Servers,
          Request,      (* what each client is called with                   *)
          Files,        (* of each server: for each file the numbers in it   *)
          Missing,      (* the content of a file that cannot be opened       *)
          None,
          MaxMsg,       (* messages a queue holds: 10 on Linux               *)
          Limit         (* an int is from -Limit to Limit - 1: 2^31          *)

Ints == -Limit .. Limit - 1

\* What an int holds of v.
Int32(v) == ((v + Limit) % (2 * Limit)) - Limit

ASSUME HistAssumption ==
    /\ None \notin Clients
    /\ Limit \in Nat \ {0}
    /\ Request \in [Clients -> [start : Ints, width : 1 .. Limit - 1, cnt : 1 .. Limit - 1]]
    /\ DOMAIN Files = Servers
    /\ \A s \in Servers : Files[s] \in Seq({Missing} \cup Seq(Ints))
    /\ MaxMsg \in Nat \ {0}

VARIABLES
    q1open, q1,             \* MQNAME1: whether there is one, its messages
    name2,                  \* MQNAME2: the queue of that name, by its creator
    q2,                     \* the messages of each queue that had the name
    client, mq2, received,  \* clients: label, descriptor, what they received
    server, item, file,     \* servers: label, request, number of the file
    line, arr,              \* calc_hist: line, counts
    cntt, isVisited,        \* calc_hist: interval, whether the number is counted
    freed,                  \* whether total has been freed
    reply,                  \* servers: descriptor of the reply queue
    overlapped              \* history: whether two clients ran at one time

queues  == <<q1open, q1, name2, q2>>
clientV == <<client, mq2, received, overlapped>>
counting == <<line, arr, cntt, isVisited>>
serverV == <<server, item, file, counting, freed, reply>>
vars    == <<queues, clientV, serverV>>

Init ==
    /\ q1open = FALSE /\ q1 = << >>
    /\ name2 = None
    /\ q2 = [c \in Clients |-> << >>]
    /\ client = [c \in Clients |-> "none"]
    /\ mq2 = [c \in Clients |-> None]
    /\ received = [c \in Clients |-> None]
    /\ server = [s \in Servers |-> "none"]
    /\ item = [s \in Servers |-> None]
    /\ file = [s \in Servers |-> 0]
    /\ line = [s \in Servers |-> 0]
    /\ arr = [s \in Servers |-> << >>]
    /\ cntt = [s \in Servers |-> 0]
    /\ isVisited = [s \in Servers |-> FALSE]
    /\ freed = [s \in Servers |-> FALSE]
    /\ reply = [s \in Servers |-> None]
    /\ overlapped = FALSE

-----------------------------------------------------------------------------
(* Variants: operators below, each with one plausible mistake. *)

\* The loop goes one interval too far.
OneBinMore(s) == cntt[s] <= Request[item[s]].cnt + 1

\* The client goes on when the queue is empty.
ReplyNotAwaited(c) ==
    /\ received' = [received EXCEPT ![c] = IF q2[mq2[c]] = << >> THEN @ ELSE Head(q2[mq2[c]])]
    /\ q2' = [q2 EXCEPT ![mq2[c]] = IF @ = << >> THEN @ ELSE Tail(@)]

\* The server stays in a loop and sends its item again.
SendAgain == [open |-> "send", send |-> "send"]

\* The interval is not set back for the next number.
BinKept(s) == UNCHANGED cntt

\* The request is sent before the reply queue is there.
SendFirst == [none |-> "send", open |-> "receive", send |-> "open"]

-----------------------------------------------------------------------------
(* histclient_th.c *)

Running(c) == client[c] \in {"open", "send", "receive", "unlink"}

\* The order of the client's steps.
After == [none |-> "open", open |-> "send", send |-> "receive"]

\* mq_send waits while the queue is full.
HasRoom(q) == Len(q) < MaxMsg

\* Without a server's queue the client exits.
ClientStart(c) ==
    /\ client[c] = "none"
    /\ client' = [client EXCEPT ![c] = IF q1open THEN After["none"] ELSE "failed"]
    /\ overlapped' = (overlapped \/ \E d \in Clients : Running(d))
    /\ UNCHANGED <<queues, mq2, received, serverV>>

\* O_CREAT: the queue of that name, or a new one.
ClientOpen(c) ==
    /\ client[c] = "open"
    /\ name2' = IF name2 = None THEN c ELSE name2
    /\ mq2' = [mq2 EXCEPT ![c] = name2']
    /\ client' = [client EXCEPT ![c] = After["open"]]
    /\ UNCHANGED <<q1open, q1, q2, received, overlapped, serverV>>

ClientSend(c) ==
    /\ client[c] = "send"
    /\ HasRoom(q1)
    /\ q1' = Append(q1, c)
    /\ client' = [client EXCEPT ![c] = After["send"]]
    /\ UNCHANGED <<q1open, name2, q2, mq2, received, overlapped, serverV>>

AwaitReply(c) ==
    /\ q2[mq2[c]] # << >>
    /\ received' = [received EXCEPT ![c] = Head(q2[mq2[c]])]
    /\ q2' = [q2 EXCEPT ![mq2[c]] = Tail(@)]

\* The reply has eight bytes; count and data are what the new buffer holds,
\* which is 0, and no interval is printed.
ClientReceive(c) ==
    /\ client[c] = "receive"
    /\ AwaitReply(c)
    /\ client' = [client EXCEPT ![c] = "unlink"]
    /\ UNCHANGED <<q1open, q1, name2, mq2, overlapped, serverV>>

\* Whoever made the queue; with no queue of that name, the client ends too.
ClientUnlink(c) ==
    /\ client[c] = "unlink"
    /\ name2' = None
    /\ client' = [client EXCEPT ![c] = "done"]
    /\ UNCHANGED <<q1open, q1, q2, mq2, received, overlapped, serverV>>

ClientStep(c) == ClientOpen(c) \/ ClientSend(c) \/ ClientReceive(c) \/ ClientUnlink(c)

-----------------------------------------------------------------------------
(* calc_hist *)

Zeros(n) == [b \in 1 .. n |-> 0]

Numbers(s) == Files[s][file[s]]
Num(s) == Numbers(s)[line[s]]

\* Both bounds are excluded; the upper one is computed in an int.
InRange(num, r) == r.start < num /\ num < Int32(r.start + r.width * r.cnt)

CountLine(s) ==
    /\ server[s] = "count"
    /\ line[s] <= Len(Numbers(s))
    /\ IF InRange(Num(s), Request[item[s]])
       THEN /\ server' = [server EXCEPT ![s] = "bins"]
            /\ isVisited' = [isVisited EXCEPT ![s] = FALSE]
            /\ UNCHANGED line
       ELSE /\ line' = [line EXCEPT ![s] = @ + 1]
            /\ UNCHANGED <<server, isVisited>>
    /\ UNCHANGED <<queues, clientV, item, file, arr, cntt, freed, reply>>

BinsLeft(s) == cntt[s] <= Request[item[s]].cnt

\* Counted once, in the first interval whose end is beyond the number.
CountHere(s) ==
    LET r == Request[item[s]]
    IN  Num(s) < Int32(r.start + cntt[s] * r.width) /\ ~isVisited[s]

BinStep(s) ==
    /\ server[s] = "bins"
    /\ BinsLeft(s)
    /\ IF CountHere(s)
       THEN /\ arr' = [arr EXCEPT ![s][cntt[s]] = @ + 1]
            /\ isVisited' = [isVisited EXCEPT ![s] = TRUE]
            /\ UNCHANGED cntt
       ELSE /\ cntt' = [cntt EXCEPT ![s] = @ + 1]
            /\ UNCHANGED <<arr, isVisited>>
    /\ UNCHANGED <<queues, clientV, server, item, file, line, freed, reply>>

BackToFirstBin(s) == cntt' = [cntt EXCEPT ![s] = 1]

BinsEnd(s) ==
    /\ server[s] = "bins"
    /\ ~BinsLeft(s)
    /\ BackToFirstBin(s)
    /\ line' = [line EXCEPT ![s] = @ + 1]
    /\ server' = [server EXCEPT ![s] = "count"]
    /\ UNCHANGED <<queues, clientV, item, file, arr, isVisited, freed, reply>>

\* The text of the counts goes to total, freed or not.
CountEnd(s) ==
    /\ server[s] = "count"
    /\ line[s] > Len(Numbers(s))
    /\ server' = [server EXCEPT ![s] = "joined"]
    /\ UNCHANGED <<queues, clientV, item, file, counting, freed, reply>>

-----------------------------------------------------------------------------
(* histserver_th.c *)

\* MQNAME1 is made if there is none; no program ever removes it.
ServerStart(s) ==
    /\ server[s] = "none"
    /\ server' = [server EXCEPT ![s] = "receive"]
    /\ q1open' = TRUE
    /\ UNCHANGED <<q1, name2, q2, clientV, item, file, counting, freed, reply>>

TakeRequest(s) ==
    /\ q1 # << >>
    /\ item' = [item EXCEPT ![s] = Head(q1)]
    /\ q1' = Tail(q1)

ServerReceive(s) ==
    /\ server[s] = "receive"
    /\ TakeRequest(s)
    /\ file' = [file EXCEPT ![s] = 1]
    /\ server' = [server EXCEPT ![s] = "files"]
    /\ UNCHANGED <<q1open, name2, q2, clientV, counting, freed, reply>>

\* pthread_create; a file that cannot be opened ends the thread at once.
NextFile(s) ==
    /\ server[s] = "files"
    /\ file[s] <= Len(Files[s])
    /\ arr' = [arr EXCEPT ![s] = Zeros(Request[item[s]].cnt)]
    /\ line' = [line EXCEPT ![s] = 1]
    /\ cntt' = [cntt EXCEPT ![s] = 1]
    /\ server' = [server EXCEPT ![s] = IF Numbers(s) = Missing THEN "joined" ELSE "count"]
    /\ UNCHANGED <<queues, clientV, item, file, isVisited, freed, reply>>

\* pthread_join, and free(total) for every file.
FileJoined(s) ==
    /\ server[s] = "joined"
    /\ freed' = [freed EXCEPT ![s] = TRUE]
    /\ file' = [file EXCEPT ![s] = @ + 1]
    /\ server' = [server EXCEPT ![s] = "files"]
    /\ UNCHANGED <<queues, clientV, item, counting, reply>>

\* The sums are made of unset pointers and sent to nobody.
ServerSum(s) ==
    /\ server[s] = "files"
    /\ file[s] > Len(Files[s])
    /\ server' = [server EXCEPT ![s] = "open"]
    /\ UNCHANGED <<queues, clientV, item, file, counting, freed, reply>>

\* The order of the server's last steps.
Then == [open |-> "send", send |-> "exited"]

\* Without O_CREAT: with no queue of that name the server ends.
ServerOpen(s) ==
    /\ server[s] = "open"
    /\ reply' = [reply EXCEPT ![s] = name2]
    /\ server' = [server EXCEPT ![s] = IF name2 = None THEN "exited" ELSE Then["open"]]
    /\ UNCHANGED <<queues, clientV, item, file, counting, freed>>

\* Eight bytes of the request come back: id and start.
ServerSend(s) ==
    /\ server[s] = "send"
    /\ HasRoom(q2[reply[s]])
    /\ q2' = [q2 EXCEPT ![reply[s]] = Append(@, item[s])]
    /\ server' = [server EXCEPT ![s] = Then["send"]]
    /\ UNCHANGED <<q1open, q1, name2, clientV, item, file, counting, freed, reply>>

\* The places where memory is used against the rules, and the program may end:
\* strTot of one byte, total freed twice, pointers in results never set (and
\* f.count, when there is no file).
Crash(s) ==
    /\ \/ server[s] = "count" /\ line[s] > Len(Numbers(s))
       \/ server[s] = "joined" /\ freed[s]
       \/ server[s] = "files" /\ file[s] > Len(Files[s])
    /\ server' = [server EXCEPT ![s] = "crashed"]
    /\ UNCHANGED <<queues, clientV, item, file, counting, freed, reply>>

ServerStep(s) ==
    \/ ServerReceive(s) \/ NextFile(s) \/ CountLine(s) \/ BinStep(s) \/ BinsEnd(s)
    \/ CountEnd(s) \/ FileJoined(s) \/ ServerSum(s) \/ ServerOpen(s) \/ ServerSend(s) \/ Crash(s)

-----------------------------------------------------------------------------
(* The programs *)

Next ==
    \/ \E c \in Clients : ClientStart(c) \/ ClientStep(c)
    \/ \E s \in Servers : ServerStart(s) \/ ServerStep(s)

\* Whoever is started runs on; nobody has to be started.
Spec == /\ Init /\ [][Next]_vars
        /\ \A c \in Clients : WF_vars(ClientStep(c))
        /\ \A s \in Servers : WF_vars(ServerStep(s))

-----------------------------------------------------------------------------
(* Properties *)

HistTypeOK ==
    /\ q1open \in BOOLEAN
    /\ q1 \in Seq(Clients) /\ Len(q1) <= MaxMsg
    /\ name2 \in Clients \cup {None}
    /\ \A c \in Clients : q2[c] \in Seq(Clients) /\ Len(q2[c]) <= MaxMsg
    /\ client \in [Clients -> {"none", "open", "send", "receive", "unlink", "done", "failed"}]
    /\ mq2 \in [Clients -> Clients \cup {None}]
    /\ received \in [Clients -> Clients \cup {None}]
    /\ server \in [Servers -> {"none", "receive", "files", "count", "bins", "joined",
                               "open", "send", "exited", "crashed"}]
    /\ item \in [Servers -> Clients \cup {None}]
    /\ \A s \in Servers : file[s] \in 0 .. Len(Files[s]) + 1
    /\ line \in [Servers -> Nat]
    /\ \A s \in Servers : arr[s] \in Seq(Nat)
    /\ \A s \in Servers :
          cntt[s] \in 0 .. IF item[s] = None THEN 0 ELSE Request[item[s]].cnt + 1
    /\ isVisited \in [Servers -> BOOLEAN]
    /\ freed \in [Servers -> BOOLEAN]
    /\ reply \in [Servers -> Clients \cup {None}]
    /\ overlapped \in BOOLEAN

\* As long as clients run one after the other, each receives the reply to its
\* own request, although all share two queues, one of which is never removed
\* (histclient_th.c:40-67), and finds no reply left for another.
OwnReply ==
    ~overlapped =>
        /\ \A c \in Clients : client[c] \in {"unlink", "done"} => received[c] = c
        /\ \A c \in Clients : client[c] = "done" => q2[mq2[c]] = << >>

\* From when its client has sent it, a request is in the queue once or with one
\* server, and a server that has replied to it has done so once, the reply being
\* in a queue or with a client: servers share a queue and take one message each
\* (histserver_th.c:69-72, 133-140).
EachRequestOnce ==
    \A c \in Clients :
        LET inQueue == {k \in 1 .. Len(q1) : q1[k] = c}
            taken   == {s \in Servers : item[s] = c}
            replied == {s \in taken : server[s] = "exited" /\ reply[s] # None}
            replies == {m \in Clients \X (1 .. MaxMsg) :
                            m[2] <= Len(q2[m[1]]) /\ q2[m[1]][m[2]] = c}
            got     == {d \in Clients : received[d] = c}
        IN  /\ Cardinality(inQueue) + Cardinality(taken) =
                 IF client[c] \in {"receive", "unlink", "done"} THEN 1 ELSE 0
            /\ Cardinality(replies) + Cardinality(got) = Cardinality(replied)

\* The end of the last interval is an int.
NoOverflow(r) == r.start + r.width * r.cnt \in Ints

\* The lines of the file read so far whose numbers are in interval b.
LinesIn(s, b) ==
    LET r == Request[item[s]]
    IN  {l \in 1 .. line[s] - 1 : /\ r.start + (b - 1) * r.width <= Numbers(s)[l]
                                  /\ Numbers(s)[l] < r.start + b * r.width}

Reading(s) == /\ server[s] \in {"count", "joined"}
              /\ Numbers(s) # Missing
              /\ NoOverflow(Request[item[s]])

\* After each line the counts of a file are those of the half-open intervals
\* of the request, but for a number that is equal to the start of the first:
\* each search for an interval leaves cntt where the next one starts
\* (histserver_th.c:167-194).  A request whose last end is no int is left out.
CountsExact ==
    \A s \in Servers : Reading(s) =>
        LET r == Request[item[s]]
        IN  arr[s] = [b \in 1 .. r.cnt |->
                Cardinality({l \in LinesIn(s, b) : Numbers(s)[l] # r.start})]

\* A client that runs alone and waits while a server is ready is answered,
\* unless a server crashes: the reply queue is there before the request is.
Answered ==
    \A c \in Clients :
        client[c] = "receive" /\ (\E s \in Servers : server[s] = "receive")
            ~> \/ client[c] # "receive" \/ overlapped
               \/ \E s \in Servers : server[s] = "crashed"
=============================================================================
