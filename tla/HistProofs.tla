----------------------------- MODULE HistProofs -----------------------------
(***************************************************************************)
(* Proofs about the threaded histogram programs of HistThreads, for any    *)
(* number of clients and servers, any requests, files and queue length.    *)
(*                                                                         *)
(* The four invariants of HistThreads need four strengthenings: StageInv   *)
(* (which locals are set at which label), OnceInv (where a request can be, *)
(* position by position), SerialInv (what the queues hold while no two     *)
(* clients have overlapped) and CountInv (the counts are there).           *)
(***************************************************************************)
EXTENDS HistThreads, FiniteSetTheorems, SequenceTheorems, TLAPS

\* The labels of a server that has a request and has not ended.
Busy == {"files", "count", "bins", "joined", "open", "send"}

\* The labels at which a file is being read or has been.
InFile == {"count", "bins", "joined"}

\* The labels of a client that has opened the reply queue.
Opened == {"send", "receive", "unlink", "done"}

\* Which locals of a server are set, label by label.
Stage(s) ==
    /\ server[s] \in {"none", "receive"} => item[s] = None
    /\ server[s] \in Busy => item[s] # None /\ file[s] >= 1
    /\ server[s] \in InFile => file[s] <= Len(Files[s]) /\ line[s] >= 1
    /\ server[s] \in {"count", "bins"} => Numbers(s) # Missing
    /\ server[s] = "count" => cntt[s] = 1
    /\ server[s] = "bins" => /\ line[s] <= Len(Numbers(s)) /\ cntt[s] >= 1
                             /\ InRange(Num(s), Request[item[s]])
    /\ server[s] = "send" => reply[s] # None
    /\ reply[s] # None => server[s] \in {"send", "exited"} /\ item[s] # None

StageInv ==
    /\ q2 \in [Clients -> Seq(Clients)]
    /\ file \in [Servers -> Nat]
    /\ arr \in [Servers -> Seq(Nat)]
    /\ cntt \in [Servers -> Nat]
    /\ \A c \in Clients : client[c] \in Opened => mq2[c] # None
    /\ \A c \in Clients : client[c] \notin {"unlink", "done"} => received[c] = None
    /\ \A s \in Servers : Stage(s)

\* A request is in one place: in the queue or with one server.
QueueOnce == \A j, k \in 1 .. Len(q1) : q1[j] = q1[k] => j = k

TakenOnce ==
    /\ \A s \in Servers, k \in 1 .. Len(q1) : item[s] # q1[k]
    /\ \A s, u \in Servers : item[s] = item[u] /\ item[s] # None => s = u

\* The labels of a client that has sent nothing.
Unsent == {"none", "open", "send", "failed"}

NotBeforeSent ==
    \A c \in Clients : client[c] \in Unsent =>
        /\ \A k \in 1 .. Len(q1) : q1[k] # c
        /\ \A s \in Servers : item[s] # c

\* What has been sent is somewhere.
NoneLost ==
    \A c \in Clients : client[c] \in {"receive", "unlink", "done"} =>
        \/ \E k \in 1 .. Len(q1) : q1[k] = c
        \/ \E s \in Servers : item[s] = c

\* A server that has replied.
Replied(s) == server[s] = "exited" /\ reply[s] # None

\* A server that has replied had this request.
Served(r) == \E s \in Servers : item[s] = r /\ Replied(s)

\* Replies and what clients received come from servers that have ended.
RepliesServed == \A d \in Clients : \A k \in 1 .. Len(q2[d]) : Served(q2[d][k])

NoReplyLost ==
    \A s \in Servers : Replied(s) =>
        \/ \E d \in Clients : \E k \in 1 .. Len(q2[d]) : q2[d][k] = item[s]
        \/ \E d \in Clients : received[d] = item[s]

ReceivedServed == \A d \in Clients : received[d] # None => Served(received[d])

\* No reply is in two places.
RepliesOnce ==
    \A d, e \in Clients : \A j \in 1 .. Len(q2[d]), k \in 1 .. Len(q2[e]) :
        q2[d][j] = q2[e][k] => d = e /\ j = k

NotInQueue ==
    \A d, e \in Clients : \A k \in 1 .. Len(q2[e]) : received[d] # q2[e][k]

ReceivedOnce ==
    \A d, e \in Clients :
        received[d] = received[e] /\ received[d] # None => d = e

OnceInv == /\ QueueOnce /\ TakenOnce /\ NotBeforeSent /\ NoneLost
           /\ RepliesServed /\ ReceivedServed /\ NoReplyLost
           /\ RepliesOnce /\ NotInQueue /\ ReceivedOnce

\* As long as no two clients have overlapped, one client runs, the reply queue
\* is its own, it received its own reply, and whatever is under way is its
\* request or the reply to it.
OneRuns == \A c, d \in Clients : Running(c) /\ Running(d) => c = d

OwnQueue ==
    /\ name2 # None => client[name2] \in {"send", "receive", "unlink"}
    /\ \A c \in Clients :
          /\ client[c] \in {"send", "receive", "unlink"} => name2 = c
          /\ client[c] \in Opened => mq2[c] = c

OwnReceived == \A c \in Clients : client[c] \in {"unlink", "done"} => received[c] = c

Waits(c) == client[c] = "receive"

RequestsWaitedFor ==
    /\ \A k \in 1 .. Len(q1) : Waits(q1[k])
    /\ \A s \in Servers : /\ server[s] \in Busy => Waits(item[s])
                          /\ server[s] = "send" => reply[s] = item[s]

RepliesWaitedFor ==
    \A d \in Clients : \A k \in 1 .. Len(q2[d]) : q2[d][k] = d /\ Waits(d)

SerialInv ==
    ~overlapped => /\ OneRuns /\ OwnQueue /\ OwnReceived
                   /\ RequestsWaitedFor /\ RepliesWaitedFor

\* A number belongs to the interval b.
Inside(num, r, b) ==
    /\ num # r.start
    /\ r.start + (b - 1) * r.width <= num
    /\ num < r.start + b * r.width

\* The first n lines of the file of s, those of them in interval b.
LinesTo(s, b, n) ==
    {l \in 1 .. n : Inside(Numbers(s)[l], Request[item[s]], b)}

\* The lines that have been counted.
Done(s) == IF server[s] = "bins" /\ isVisited[s] THEN line[s] ELSE line[s] - 1

\* One count for each interval, of the lines read so far; and as long as the
\* number of this line is not counted, no interval passed contains it.
Counted(s) ==
    LET r == Request[item[s]]
    IN  server[s] \in InFile /\ Numbers(s) # Missing /\ NoOverflow(r) =>
            /\ arr[s] = [b \in 1 .. r.cnt |-> Cardinality(LinesTo(s, b, Done(s)))]
            /\ server[s] = "bins" /\ ~isVisited[s] =>
                  r.start + (cntt[s] - 1) * r.width <= Num(s)

CountInv == \A s \in Servers : Counted(s)

HistInv == HistTypeOK /\ StageInv /\ OnceInv /\ SerialInv /\ CountInv
-----------------------------------------------------------------------------
(* Queues, and the arithmetic of the intervals. *)

\* A message is added behind the others.
LEMMA Sent ==
    ASSUME NEW S, NEW q \in Seq(S), NEW e \in S
    PROVE  /\ Append(q, e) \in Seq(S) /\ Len(q) \in Nat
           /\ Len(Append(q, e)) = Len(q) + 1
           /\ Append(q, e)[Len(q) + 1] = e
           /\ \A k \in 1 .. Len(q) : Append(q, e)[k] = q[k] /\ q[k] \in S
  BY ElementOfSeq

\* The first message is taken, and the others move up.
LEMMA Taken ==
    ASSUME NEW S, NEW q \in Seq(S), q # << >>
    PROVE  /\ Len(q) \in Nat /\ Len(q) >= 1
           /\ Head(q) = q[1] /\ Head(q) \in S
           /\ Tail(q) \in Seq(S) /\ Len(Tail(q)) = Len(q) - 1
           /\ \A k \in 1 .. Len(q) - 1 : Tail(q)[k] = q[k + 1]
  <1>1. Len(q) \in Nat \ {0}
    BY EmptySeq
  <1>2. QED
    BY <1>1, HeadTailProperties

\* Counting one more, in whatever place, leaves counts.
LEMMA CountUp ==
    ASSUME NEW D, NEW f \in [D -> Nat], NEW b
    PROVE  [f EXCEPT ![b] = @ + 1] \in [D -> Nat]
  <1>1. ASSUME NEW k \in D PROVE [f EXCEPT ![b] = @ + 1][k] \in Nat
    BY <1>1
  <1>2. QED
    BY <1>1

\* Multiples of a width are ordered like their factors.
LEMMA Multiples ==
    ASSUME NEW w \in Nat, NEW a \in Int, NEW b \in Int, a <= b
    PROVE  a * w <= b * w /\ a * w \in Int /\ b * w \in Int
  <1>1. (b - a) * w >= 0
    <2>1. \A d \in Nat : d * w >= 0
      OBVIOUS
    <2>2. QED
      BY <2>1
  <1>2. (b - a) * w = b * w - a * w
    OBVIOUS
  <1>3. QED
    BY <1>1, <1>2

\* The intervals of a request are apart: a number is in one of them only.
LEMMA OneInterval ==
    ASSUME NEW w \in Nat, NEW a \in Int, NEW b \in Int, NEW n \in Int,
           (a - 1) * w <= n, n < a * w, (b - 1) * w <= n, n < b * w
    PROVE  a = b
  <1>1. ASSUME a < b PROVE FALSE
    <2>1. a * w <= (b - 1) * w /\ a * w \in Int /\ (b - 1) * w \in Int
      BY <1>1, Multiples
    <2>2. QED
      BY <2>1
  <1>2. ASSUME b < a PROVE FALSE
    <2>1. b * w <= (a - 1) * w /\ b * w \in Int /\ (a - 1) * w \in Int
      BY <1>2, Multiples
    <2>2. QED
      BY <2>1
  <1>3. QED
    BY <1>1, <1>2

\* An int holds what is in its range.
LEMMA IntKept == ASSUME NEW v \in Ints PROVE Int32(v) = v
  <1>1. Limit \in Nat /\ Limit > 0
    BY HistAssumption
  <1>2. v + Limit \in 0 .. 2 * Limit - 1
    BY <1>1 DEF Ints
  <1>3. (v + Limit) % (2 * Limit) = v + Limit
    BY <1>1, <1>2
  <1>4. QED
    BY <1>1, <1>3 DEF Int32, Ints
-----------------------------------------------------------------------------
(* Types and stages. *)

Typed == HistTypeOK /\ StageInv

\* What Typed says of the file that a server reads.
LEMMA NumbersFacts ==
    ASSUME Typed, NEW s \in Servers
    PROVE  /\ Len(Files[s]) \in Nat
           /\ server[s] \in Busy => item[s] \in Clients /\ file[s] \in Nat \ {0}
           /\ file[s] \in 1 .. Len(Files[s]) /\ Numbers(s) # Missing =>
                 Numbers(s) \in Seq(Ints) /\ Len(Numbers(s)) \in Nat
  <1>1. Files[s] \in Seq({Missing} \cup Seq(Ints))
    BY HistAssumption
  <1>2. Len(Files[s]) \in Nat
    BY <1>1
  <1>3. server[s] \in Busy => item[s] \in Clients /\ file[s] \in Nat \ {0}
    BY DEF Typed, HistTypeOK, StageInv, Stage
  <1>4. ASSUME file[s] \in 1 .. Len(Files[s]), Numbers(s) # Missing
        PROVE  Numbers(s) \in Seq(Ints) /\ Len(Numbers(s)) \in Nat
    BY <1>1, <1>4, ElementOfSeq DEF Numbers
  <1>5. QED
    BY <1>2, <1>3, <1>4

\* The request of a client.
LEMMA RequestFacts ==
    ASSUME NEW c \in Clients
    PROVE  /\ Request[c].cnt \in Nat \ {0} /\ Request[c].width \in Nat \ {0}
           /\ Request[c].start \in Ints /\ Request[c].start \in Int
  BY HistAssumption DEF Ints

\* The state of one server.
Frame(s) ==
    <<server[s], item[s], file[s], line[s], arr[s], cntt[s], isVisited[s], freed[s],
      reply[s]>>

\* A server changes no other server's locals, and a client those of none.
LEMMA OthersUnchanged ==
    ASSUME Typed, NEW u \in Servers,
           \/ \E c \in Clients : ClientStart(c) \/ ClientStep(c)
           \/ \E s \in Servers \ {u} : ServerStart(s) \/ ServerStep(s)
    PROVE  Frame(u)' = Frame(u)
  <1> USE DEF Frame, Typed, HistTypeOK, StageInv
  <1>1. ASSUME NEW c \in Clients, ClientStart(c) \/ ClientStep(c)
        PROVE  Frame(u)' = Frame(u)
    BY <1>1 DEF ClientStart, ClientStep, ClientOpen, ClientSend, ClientReceive,
       ClientUnlink, serverV, counting
  <1>2. ASSUME NEW s \in Servers, s # u, ServerStart(s) \/ ServerStep(s)
        PROVE  Frame(u)' = Frame(u)
    <2>1. CASE ServerStart(s) \/ ServerReceive(s) \/ NextFile(s)
      BY <1>2, <2>1 DEF ServerStart, ServerReceive, TakeRequest, NextFile, counting
    <2>2. CASE CountLine(s) \/ BinStep(s) \/ BinsEnd(s)
      BY <1>2, <2>2 DEF CountLine, BinStep, BinsEnd, BackToFirstBin
    <2>3. CASE CountEnd(s) \/ FileJoined(s) \/ ServerSum(s)
      BY <1>2, <2>3 DEF CountEnd, FileJoined, ServerSum, counting
    <2>4. CASE ServerOpen(s) \/ ServerSend(s) \/ Crash(s)
      BY <1>2, <2>4 DEF ServerOpen, ServerSend, Crash, counting
    <2>5. QED
      BY <1>2, <2>1, <2>2, <2>3, <2>4 DEF ServerStep
  <1>3. QED
    BY <1>1, <1>2

\* The steps of a client keep the types.
LEMMA ClientTyped ==
    ASSUME Typed, NEW c \in Clients, ClientStart(c) \/ ClientStep(c)
    PROVE  Typed'
  <1>0. UNCHANGED <<server, item, file, line, arr, cntt, isVisited, freed, reply>>
    BY DEF ClientStart, ClientStep, ClientOpen, ClientSend, ClientReceive,
       ClientUnlink, serverV, counting
  <1>a. \A u \in Servers : Stage(u)'
    BY <1>0 DEF Stage, Numbers, Num, Typed, StageInv
  <1> DEFINE ClientTypes ==
        /\ q1open \in BOOLEAN
        /\ q1 \in Seq(Clients) /\ Len(q1) <= MaxMsg
        /\ name2 \in Clients \cup {None}
        /\ q2 \in [Clients -> Seq(Clients)] /\ \A d \in Clients : Len(q2[d]) <= MaxMsg
        /\ client \in [Clients -> {"none", "open", "send", "receive", "unlink", "done", "failed"}]
        /\ mq2 \in [Clients -> Clients \cup {None}]
        /\ received \in [Clients -> Clients \cup {None}]
        /\ overlapped \in BOOLEAN
        /\ \A d \in Clients : client[d] \in Opened => mq2[d] # None
        /\ \A d \in Clients : client[d] \notin {"unlink", "done"} => received[d] = None
  <1>b. ClientTypes
    BY DEF Typed, HistTypeOK, StageInv
  <1>c. ASSUME ClientTypes' PROVE Typed'
    <2>1. HistTypeOK'
      BY <1>0, <1>c DEF Typed, HistTypeOK
    <2>2. StageInv'
      BY <1>0, <1>a, <1>c DEF Typed, StageInv
    <2>3. QED
      BY <2>1, <2>2 DEF Typed
  <1> SUFFICES ClientTypes'
    BY <1>c
  <1> USE <1>b DEF Opened
  <1>1. CASE ClientStart(c)
    BY <1>1 DEF ClientStart, After, queues
  <1>2. CASE ClientOpen(c)
    BY <1>2, HistAssumption DEF ClientOpen, After
  <1>3. CASE ClientSend(c)
    <2>1. /\ Len(q1) < MaxMsg /\ q1' = Append(q1, c) /\ client[c] = "send"
          /\ client' = [client EXCEPT ![c] = "receive"]
          /\ UNCHANGED <<q1open, name2, q2, mq2, received, overlapped>>
      BY <1>3 DEF ClientSend, HasRoom, After
    <2>2. q1' \in Seq(Clients) /\ Len(q1') <= MaxMsg
      BY <2>1, HistAssumption, Sent
    <2>3. client' \in [Clients -> {"none", "open", "send", "receive", "unlink", "done", "failed"}]
      BY <2>1
    <2>4. \A d \in Clients : /\ client'[d] \in Opened => client[d] \in Opened
                            /\ client'[d] \notin {"unlink", "done"} => received'[d] = None
      BY <2>1
    <2>5. QED
      BY <2>1, <2>2, <2>3, <2>4
  <1>4. CASE ClientReceive(c)
    <2>1. mq2[c] \in Clients
      BY <1>4 DEF ClientReceive
    <2>2. /\ q2' = [q2 EXCEPT ![mq2[c]] = Tail(q2[mq2[c]])]
          /\ received' = [received EXCEPT ![c] = Head(q2[mq2[c]])]
          /\ q2[mq2[c]] # << >> /\ q2[mq2[c]] \in Seq(Clients)
      BY <1>4, <2>1 DEF ClientReceive, AwaitReply
    <2>3. /\ Head(q2[mq2[c]]) \in Clients /\ Tail(q2[mq2[c]]) \in Seq(Clients)
          /\ Len(Tail(q2[mq2[c]])) = Len(q2[mq2[c]]) - 1
          /\ Len(q2[mq2[c]]) \in Nat
      BY <2>2, Taken
    <2>4. /\ q2' \in [Clients -> Seq(Clients)]
          /\ received' \in [Clients -> Clients \cup {None}]
      BY <2>1, <2>2, <2>3
    <2>5. ASSUME NEW d \in Clients PROVE Len(q2'[d]) <= MaxMsg
      <3>1. CASE d = mq2[c]
        <4>1. q2'[d] = Tail(q2[mq2[c]])
          BY <2>1, <2>2, <3>1
        <4>2. Len(q2[mq2[c]]) <= MaxMsg
          BY <2>1
        <4>3. QED
          BY <2>3, <4>1, <4>2, HistAssumption
      <3>2. CASE d # mq2[c]
        BY <2>1, <2>2, <3>2
      <3>3. QED
        BY <3>1, <3>2
    <2>6. /\ client' = [client EXCEPT ![c] = "unlink"] /\ client[c] = "receive"
          /\ UNCHANGED <<q1open, q1, name2, mq2, overlapped>>
      BY <1>4 DEF ClientReceive
    <2>7. \A d \in Clients : client'[d] \in Opened => mq2'[d] # None
      BY <2>1, <2>6, HistAssumption
    <2>8. \A d \in Clients : client'[d] \notin {"unlink", "done"} => received'[d] = None
      BY <2>2, <2>6
    <2>9. client' \in [Clients -> {"none", "open", "send", "receive", "unlink", "done", "failed"}]
      BY <2>6
    <2>10. QED
      BY <2>4, <2>5, <2>6, <2>7, <2>8, <2>9
  <1>5. CASE ClientUnlink(c)
    BY <1>5 DEF ClientUnlink
  <1>6. QED
    BY <1>1, <1>2, <1>3, <1>4, <1>5 DEF ClientStep

\* An interval of the request, or one past the last, keeps the type of cntt.
LEMMA BinTyped ==
    ASSUME Typed, NEW s \in Servers, item[s] \in Clients, item' = item,
           NEW k \in 0 .. Request[item[s]].cnt + 1, cntt' = [cntt EXCEPT ![s] = k]
    PROVE  /\ cntt' \in [Servers -> Nat]
           /\ \A u \in Servers :
                 cntt'[u] \in 0 .. IF item'[u] = None THEN 0 ELSE Request[item'[u]].cnt + 1
  <1>1. /\ cntt \in [Servers -> Nat] /\ None \notin Clients /\ k \in Nat
        /\ \A u \in Servers :
              cntt[u] \in 0 .. IF item[u] = None THEN 0 ELSE Request[item[u]].cnt + 1
    BY HistAssumption, RequestFacts DEF Typed, HistTypeOK, StageInv
  <1>2. ASSUME NEW u \in Servers
        PROVE  cntt'[u] \in 0 .. IF item'[u] = None THEN 0 ELSE Request[item'[u]].cnt + 1
    <2>1. CASE u = s
      <3>1. cntt'[u] = k /\ item'[u] = item[s] /\ item[s] # None
        BY <1>1, <2>1
      <3>2. QED
        BY <3>1
    <2>2. CASE u # s
      <3>1. cntt'[u] = cntt[u] /\ item'[u] = item[u]
        BY <1>1, <2>2
      <3>2. QED
        BY <1>1, <3>1
    <2>3. QED
      BY <2>1, <2>2
  <1>3. QED
    BY <1>1, <1>2

\* The steps of a server keep the types.
LEMMA ServerTyped ==
    ASSUME Typed, NEW s \in Servers, ServerStart(s) \/ ServerStep(s)
    PROVE  HistTypeOK' /\ q2' \in [Clients -> Seq(Clients)]
           /\ file' \in [Servers -> Nat] /\ arr' \in [Servers -> Seq(Nat)]
           /\ cntt' \in [Servers -> Nat]
  <1>0. /\ \A u \in Servers : Len(Files[u]) \in Nat
        /\ server[s] \in Busy => item[s] \in Clients /\ file[s] \in Nat \ {0}
        /\ server[s] \in InFile => file[s] \in 1 .. Len(Files[s])
    BY NumbersFacts DEF Typed, StageInv, Stage, Busy, InFile
  <1> USE DEF Typed, HistTypeOK, StageInv
  <1>1. CASE ServerStart(s)
    BY <1>1 DEF ServerStart, clientV, counting
  <1>2. CASE ServerReceive(s)
    <2>1. /\ Head(q1) \in Clients /\ Tail(q1) \in Seq(Clients)
          /\ Len(Tail(q1)) = Len(q1) - 1 /\ Len(q1) \in Nat
      BY <1>2, Taken DEF ServerReceive, TakeRequest
    <2>2. /\ item' = [item EXCEPT ![s] = Head(q1)] /\ q1' = Tail(q1)
          /\ file' = [file EXCEPT ![s] = 1]
          /\ server' = [server EXCEPT ![s] = "files"]
          /\ UNCHANGED <<q1open, name2, q2, clientV, counting, freed, reply>>
      BY <1>2 DEF ServerReceive, TakeRequest
    <2>3. q1' \in Seq(Clients) /\ Len(q1') <= MaxMsg
      BY <2>1, <2>2, HistAssumption
    <2>4. item' \in [Servers -> Clients \cup {None}]
      BY <2>1, <2>2
    <2>5. \A u \in Servers : file'[u] \in 0 .. Len(Files[u]) + 1
      BY <1>0, <2>2
    <2>6. \A u \in Servers :
             cntt'[u] \in 0 .. IF item'[u] = None THEN 0 ELSE Request[item'[u]].cnt + 1
      <3>1. cntt' = cntt /\ item'[s] \in Clients /\ item[s] = None
        BY <1>2, <2>1, <2>2 DEF counting, ServerReceive, Stage
      <3>2. cntt[s] = 0
        BY <3>1
      <3>3. QED
        BY <2>1, <2>2, <3>1, <3>2, RequestFacts
    <2>7. QED
      BY <2>2, <2>3, <2>4, <2>5, <2>6 DEF clientV, counting
  <1>3. CASE NextFile(s)
    <2>1. Request[item[s]].cnt \in Nat
      BY <1>0, <1>3, RequestFacts DEF NextFile, Busy
    <2>2. Zeros(Request[item[s]].cnt) \in Seq(Nat)
      BY <2>1 DEF Zeros
    <2>3. arr' \in [Servers -> Seq(Nat)]
      BY <1>3, <2>2 DEF NextFile
    <2>4. \A u \in Servers :
             cntt'[u] \in 0 .. IF item'[u] = None THEN 0 ELSE Request[item'[u]].cnt + 1
      <3>1. /\ cntt' = [cntt EXCEPT ![s] = 1] /\ item' = item
            /\ item[s] \in Clients /\ 1 \in 0 .. Request[item[s]].cnt + 1
        BY <1>0, <1>3, RequestFacts DEF NextFile, Busy
      <3>2. QED
        BY <3>1, BinTyped
    <2>5. QED
      BY <1>3, <2>3, <2>4 DEF NextFile, queues, clientV
  <1>4. CASE CountLine(s)
    <2>1. /\ line' = line \/ line' = [line EXCEPT ![s] = line[s] + 1]
          /\ isVisited' = isVisited \/ isVisited' = [isVisited EXCEPT ![s] = FALSE]
      BY <1>4 DEF CountLine
    <2>4. line' \in [Servers -> Nat] /\ isVisited' \in [Servers -> BOOLEAN]
      <3>1. line \in [Servers -> Nat] /\ isVisited \in [Servers -> BOOLEAN]
        OBVIOUS
      <3> HIDE DEF Typed, HistTypeOK, StageInv
      <3>2. line' \in [Servers -> Nat]
        BY <2>1, <3>1
      <3>3. isVisited' \in [Servers -> BOOLEAN]
        BY <2>1, <3>1
      <3>4. QED
        BY <3>2, <3>3
    <2>2. server' \in [Servers -> {"none", "receive", "files", "count", "bins", "joined",
                                   "open", "send", "exited", "crashed"}]
      <3>1. server' = server \/ server' = [server EXCEPT ![s] = "bins"]
        BY <1>4 DEF CountLine
      <3>2. QED
        BY <3>1
    <2>3. QED
      BY <1>4, <2>4, <2>2 DEF CountLine, queues, clientV
  <1>9. CASE BinStep(s)
    <2>1. arr' \in [Servers -> Seq(Nat)]
      <3>1. CASE arr' = arr
        BY <3>1
      <3>2. CASE arr' # arr
        <4>1. PICK b : arr' = [arr EXCEPT ![s][b] = @ + 1]
          BY <1>9, <3>2 DEF BinStep
        <4>2. arr[s] \in Seq(Nat) /\ arr[s] \in [1 .. Len(arr[s]) -> Nat]
              /\ Len(arr[s]) \in Nat
          BY LenProperties
        <4>3. [arr[s] EXCEPT ![b] = @ + 1] \in [1 .. Len(arr[s]) -> Nat]
          BY <4>2, CountUp
        <4>4. [arr[s] EXCEPT ![b] = @ + 1] \in Seq(Nat)
          BY <4>2, <4>3
        <4>5. QED
          BY <4>1, <4>4
      <3>3. QED
        BY <3>1, <3>2
    <2>2. isVisited' \in [Servers -> BOOLEAN]
      BY <1>9 DEF BinStep
    <2>3. /\ cntt' \in [Servers -> Nat]
          /\ \A u \in Servers :
                cntt'[u] \in 0 .. IF item'[u] = None THEN 0 ELSE Request[item'[u]].cnt + 1
      <3>1. /\ item' = item /\ item[s] \in Clients
            /\ cntt[s] <= Request[item[s]].cnt
            /\ cntt' = cntt \/ cntt' = [cntt EXCEPT ![s] = cntt[s] + 1]
        BY <1>0, <1>9 DEF BinStep, BinsLeft, Busy
      <3>2. CASE cntt' = cntt
        BY <3>1, <3>2
      <3>3. CASE cntt' = [cntt EXCEPT ![s] = cntt[s] + 1]
        <4>1. cntt[s] + 1 \in 0 .. Request[item[s]].cnt + 1
          BY <3>1, RequestFacts
        <4>2. QED
          BY <3>1, <3>3, <4>1, BinTyped
      <3>4. QED
        BY <3>1, <3>2, <3>3
    <2>4. QED
      BY <1>9, <2>1, <2>2, <2>3 DEF BinStep, queues, clientV
  <1>10. CASE BinsEnd(s)
    <2>1. /\ cntt' \in [Servers -> Nat]
          /\ \A u \in Servers :
                cntt'[u] \in 0 .. IF item'[u] = None THEN 0 ELSE Request[item'[u]].cnt + 1
      <3>1. /\ item' = item /\ item[s] \in Clients
            /\ cntt' = [cntt EXCEPT ![s] = 1] /\ 1 \in 0 .. Request[item[s]].cnt + 1
        BY <1>0, <1>10, RequestFacts DEF BinsEnd, BackToFirstBin, Busy
      <3>2. QED
        BY <3>1, BinTyped
    <2>2. line' \in [Servers -> Nat]
      BY <1>10 DEF BinsEnd
    <2>3. QED
      BY <1>10, <2>1, <2>2 DEF BinsEnd, queues, clientV
  <1>5. CASE CountEnd(s) \/ ServerSum(s) \/ Crash(s) \/ ServerOpen(s)
    <2>1. /\ server' \in [Servers -> {"none", "receive", "files", "count", "bins", "joined",
                                     "open", "send", "exited", "crashed"}]
          /\ reply' \in [Servers -> Clients \cup {None}]
      <3>1. CASE ServerOpen(s)
        BY <3>1 DEF ServerOpen, Then
      <3>2. CASE CountEnd(s) \/ ServerSum(s)
        BY <3>2 DEF CountEnd, ServerSum
      <3>3. CASE Crash(s)
        BY <3>3 DEF Crash
      <3>4. QED
        BY <1>5, <3>1, <3>2, <3>3
    <2>2. UNCHANGED <<queues, clientV, item, file, counting, freed>>
      BY <1>5 DEF CountEnd, ServerSum, Crash, ServerOpen
    <2>3. QED
      BY <2>1, <2>2 DEF queues, clientV, counting
  <1>6. CASE FileJoined(s)
    <2>1. file'[s] \in 0 .. Len(Files[s]) + 1 /\ file' \in [Servers -> Nat]
      BY <1>0, <1>6 DEF FileJoined, InFile
    <2>2. \A u \in Servers : file'[u] \in 0 .. Len(Files[u]) + 1
      BY <1>6, <2>1 DEF FileJoined
    <2>3. QED
      BY <1>6, <2>1, <2>2 DEF FileJoined, queues, clientV, counting
  <1>7. CASE ServerSend(s)
    <2>1. /\ reply[s] \in Clients /\ item[s] \in Clients
          /\ Len(q2[reply[s]]) < MaxMsg
          /\ q2' = [q2 EXCEPT ![reply[s]] = Append(q2[reply[s]], item[s])]
      BY <1>0, <1>7 DEF ServerSend, HasRoom, Stage, Busy
    <2>2. /\ q2' \in [Clients -> Seq(Clients)]
          /\ \A d \in Clients : Len(q2'[d]) <= MaxMsg
      BY <2>1, Sent, HistAssumption
    <2>3. QED
      BY <1>7, <2>2 DEF ServerSend, Then, clientV, counting
  <1>8. QED
    BY <1>1, <1>2, <1>3, <1>4, <1>5, <1>6, <1>7, <1>9, <1>10 DEF ServerStep

\* The steps of a server set the locals that the label they lead to needs.
LEMMA ServerStages ==
    ASSUME Typed, NEW s \in Servers, ServerStart(s) \/ ServerStep(s)
    PROVE  Stage(s)'
  <1>0. /\ Len(Files[s]) \in Nat
        /\ server[s] \in Busy => item[s] \in Clients /\ file[s] \in Nat \ {0}
        /\ file[s] \in Nat /\ line[s] \in Nat /\ cntt[s] \in Nat
        /\ q1 \in Seq(Clients) /\ item \in [Servers -> Clients \cup {None}]
        /\ file \in [Servers -> Nat] /\ line \in [Servers -> Nat]
        /\ cntt \in [Servers -> Nat] /\ reply \in [Servers -> Clients \cup {None}]
        /\ server \in [Servers -> {"none", "receive", "files", "count", "bins", "joined",
                                   "open", "send", "exited", "crashed"}]
        /\ Stage(s)
    BY NumbersFacts DEF Typed, HistTypeOK, StageInv
  <1> USE <1>0 DEF Stage, Busy, InFile
  <1>1. CASE ServerStart(s)
    BY <1>1 DEF ServerStart, counting
  <1>2. CASE ServerReceive(s)
    <2>1. Head(q1) \in Clients
      BY <1>2, Taken DEF ServerReceive, TakeRequest
    <2>2. item'[s] # None /\ file'[s] = 1 /\ server'[s] = "files" /\ reply'[s] = None
      BY <1>2, <2>1, HistAssumption DEF ServerReceive, TakeRequest
    <2>3. QED
      BY <2>2
  <1>3. CASE NextFile(s)
    <2>1. /\ server[s] = "files" /\ file[s] <= Len(Files[s])
          /\ line'[s] = 1 /\ cntt'[s] = 1 /\ UNCHANGED <<item, file, reply>>
          /\ server'[s] = IF Numbers(s) = Missing THEN "joined" ELSE "count"
      BY <1>3 DEF NextFile
    <2>2. QED
      BY <1>0, <2>1 DEF Numbers
  <1>4. CASE CountLine(s)
    <2>1. /\ server[s] = "count" /\ line[s] <= Len(Numbers(s))
          /\ UNCHANGED <<item, file, cntt, reply>>
      BY <1>4 DEF CountLine
    <2>2. CASE InRange(Num(s), Request[item[s]])
      <3>1. server'[s] = "bins" /\ line' = line
        BY <1>4, <2>2 DEF CountLine
      <3>2. Numbers(s)' = Numbers(s) /\ Num(s)' = Num(s)
        BY <2>1, <3>1 DEF Numbers, Num
      <3>3. QED
        BY <1>0, <2>1, <2>2, <3>1, <3>2
    <2>3. CASE ~InRange(Num(s), Request[item[s]])
      <3>1. server'[s] = "count" /\ line'[s] = line[s] + 1
        BY <1>4, <2>1, <2>3 DEF CountLine
      <3>2. Numbers(s)' = Numbers(s)
        BY <2>1 DEF Numbers
      <3>3. QED
        BY <1>0, <2>1, <3>1, <3>2
    <2>4. QED
      BY <2>2, <2>3
  <1>5. CASE CountEnd(s) \/ ServerSum(s) \/ Crash(s) \/ ServerOpen(s)
    <2>1. CASE CountEnd(s) \/ ServerSum(s)
      BY <1>0, <2>1 DEF CountEnd, ServerSum, counting
    <2>2. CASE Crash(s)
      BY <1>0, <2>2 DEF Crash, counting
    <2>3. CASE ServerOpen(s)
      BY <1>0, <2>3 DEF ServerOpen, Then, counting
    <2>4. QED
      BY <1>5, <2>1, <2>2, <2>3
  <1>6. CASE FileJoined(s)
    BY <1>0, <1>6 DEF FileJoined, counting
  <1>7. CASE ServerSend(s)
    BY <1>0, <1>7 DEF ServerSend, Then, counting
  <1>8. CASE BinStep(s)
    <2>1. /\ server[s] = "bins" /\ UNCHANGED <<server, item, file, line, reply>>
          /\ cntt' = cntt \/ cntt'[s] = cntt[s] + 1
      BY <1>8 DEF BinStep
    <2>2. Numbers(s)' = Numbers(s) /\ Num(s)' = Num(s)
      BY <2>1 DEF Numbers, Num
    <2>3. cntt'[s] >= 1
      BY <1>0, <2>1
    <2>4. QED
      BY <1>0, <2>1, <2>2, <2>3
  <1>9. CASE BinsEnd(s)
    <2>1. /\ server[s] = "bins" /\ server'[s] = "count" /\ line'[s] = line[s] + 1
          /\ cntt'[s] = 1 /\ UNCHANGED <<item, file, reply>>
      BY <1>9 DEF BinsEnd, BackToFirstBin
    <2>2. QED
      BY <1>0, <2>1 DEF Numbers
  <1>10. QED
    BY <1>1, <1>2, <1>3, <1>4, <1>5, <1>6, <1>7, <1>8, <1>9 DEF ServerStep

\* Every step keeps types and stages.
LEMMA TypedStep == Typed /\ [Next]_vars => Typed'
  <1> SUFFICES ASSUME Typed, [Next]_vars PROVE Typed'
    OBVIOUS
  <1>1. ASSUME NEW c \in Clients, ClientStart(c) \/ ClientStep(c)
        PROVE  Typed'
    BY <1>1, ClientTyped
  <1>2. ASSUME NEW s \in Servers, ServerStart(s) \/ ServerStep(s)
        PROVE  Typed'
    <2>1. ASSUME NEW u \in Servers, u # s PROVE Stage(u)'
      <3>1. Frame(u)' = Frame(u)
        BY <1>2, <2>1, OthersUnchanged
      <3>2. QED
        BY <3>1 DEF Frame, Stage, Numbers, Num, Typed, StageInv
    <2>2. client' = client /\ mq2' = mq2 /\ received' = received
      BY <1>2 DEF ServerStart, ServerStep, ServerReceive, NextFile, CountLine,
         BinStep, BinsEnd, CountEnd, FileJoined, ServerSum, ServerOpen, ServerSend, Crash, clientV
    <2>3. QED
      BY <1>2, <2>1, <2>2, ServerTyped, ServerStages DEF Typed, StageInv
  <1>3. CASE UNCHANGED vars
    BY <1>3 DEF vars, queues, clientV, serverV, counting, Typed, HistTypeOK, StageInv,
       Stage, Numbers, Num
  <1>4. QED
    BY <1>1, <1>2, <1>3 DEF Next
-----------------------------------------------------------------------------
(* Every request is in one place. *)

\* The client's steps: only sending and receiving move a message.
LEMMA ClientOnce ==
    ASSUME Typed, OnceInv, NEW c \in Clients, ClientStart(c) \/ ClientStep(c)
    PROVE  OnceInv'
  <1> USE DEF OnceInv
  <1>0. /\ item' = item /\ server' = server /\ reply' = reply /\ q1 \in Seq(Clients)
        /\ \A s \in Servers : item[s] \in Clients \cup {None}
        /\ client \in [Clients -> {"none", "open", "send", "receive", "unlink",
                                  "done", "failed"}]
        /\ q2 \in [Clients -> Seq(Clients)]
        /\ received \in [Clients -> Clients \cup {None}]
    BY DEF ClientStart, ClientStep, ClientOpen, ClientSend, ClientReceive,
           ClientUnlink, serverV, counting, Typed, HistTypeOK, StageInv
  <1>a. ASSUME NEW e, Served(e) PROVE Served(e)'
    BY <1>0, <1>a DEF Served, Replied
  <1>1. CASE ClientStart(c) \/ ClientOpen(c) \/ ClientUnlink(c)
    <2>1. q1' = q1 /\ q2' = q2 /\ received' = received
      BY <1>1 DEF ClientStart, ClientOpen, ClientUnlink, queues
    <2>2. \A d \in Clients : client'[d] \in Unsent => client[d] \in Unsent
      BY <1>0, <1>1 DEF ClientStart, ClientOpen, ClientUnlink, After, Unsent
    <2>3. NotBeforeSent'
      BY <1>0, <2>1, <2>2 DEF NotBeforeSent
    <2>4. RepliesServed' /\ ReceivedServed'
      BY <1>0, <1>a, <2>1 DEF RepliesServed, ReceivedServed
    <2>5. QueueOnce' /\ TakenOnce' /\ RepliesOnce' /\ NotInQueue' /\ ReceivedOnce'
      BY <1>0, <2>1 DEF QueueOnce, TakenOnce, RepliesOnce, NotInQueue, ReceivedOnce
    <2>6. \A d \in Clients : client'[d] \in {"receive", "unlink", "done"} =>
                client[d] \in {"receive", "unlink", "done"}
      BY <1>0, <1>1 DEF ClientStart, ClientOpen, ClientUnlink, After
    <2>7. NoneLost'
      BY <1>0, <2>1, <2>6 DEF NoneLost
    <2>8. NoReplyLost'
      BY <1>0, <2>1 DEF NoReplyLost, Replied
    <2>9. QED
      BY <2>3, <2>4, <2>5, <2>7, <2>8
  <1>2. CASE ClientSend(c)
    <2>1. /\ client[c] = "send" /\ q1' = Append(q1, c)
          /\ client' = [client EXCEPT ![c] = "receive"]
          /\ q2' = q2 /\ received' = received
      BY <1>2 DEF ClientSend, After
    <2>2. /\ Len(q1) \in Nat /\ Len(q1') = Len(q1) + 1 /\ q1'[Len(q1) + 1] = c
          /\ \A k \in 1 .. Len(q1) : q1'[k] = q1[k]
      BY <1>0, <2>1, Sent
    <2>3. /\ \A k \in 1 .. Len(q1) : q1[k] # c
          /\ \A s \in Servers : item[s] # c
      BY <2>1 DEF NotBeforeSent, Unsent
    <2>4. ASSUME NEW j \in 1 .. Len(q1'), NEW k \in 1 .. Len(q1'), q1'[j] = q1'[k]
          PROVE  j = k
      <3>1. CASE j \in 1 .. Len(q1) /\ k \in 1 .. Len(q1)
        BY <2>2, <2>4, <3>1 DEF QueueOnce
      <3>2. CASE j = Len(q1) + 1 \/ k = Len(q1) + 1
        BY <2>2, <2>3, <2>4, <3>2
      <3>3. QED
        BY <2>2, <3>1, <3>2
    <2>5. \A s \in Servers, k \in 1 .. Len(q1') : item[s] # q1'[k]
      BY <2>2, <2>3 DEF TakenOnce
    <2>6. ASSUME NEW d \in Clients,
                 client'[d] \in Unsent
          PROVE  /\ \A k \in 1 .. Len(q1') : q1'[k] # d
                 /\ \A s \in Servers : item[s] # d
      <3>1. d # c /\ client[d] \in Unsent
        BY <1>0, <2>1, <2>6 DEF Unsent
      <3>2. QED
        BY <2>2, <3>1 DEF NotBeforeSent
    <2>7. QueueOnce' /\ NotBeforeSent'
      BY <1>0, <2>4, <2>6 DEF QueueOnce, NotBeforeSent
    <2>8. TakenOnce'
      BY <1>0, <2>5 DEF TakenOnce
    <2>9. RepliesServed' /\ ReceivedServed'
      BY <1>0, <1>a, <2>1 DEF RepliesServed, ReceivedServed
    <2>10. RepliesOnce' /\ NotInQueue' /\ ReceivedOnce'
      BY <2>1 DEF RepliesOnce, NotInQueue, ReceivedOnce
    <2>11. NoneLost'
      <3>1. ASSUME NEW d \in Clients, client'[d] \in {"receive", "unlink", "done"}
            PROVE  \/ \E k \in 1 .. Len(q1') : q1'[k] = d
                   \/ \E s \in Servers : item[s] = d
        <4>1. CASE d = c
          <5>1. Len(q1) + 1 \in 1 .. Len(q1')
            BY <2>2
          <5>2. QED
            BY <2>2, <4>1, <5>1
        <4>2. CASE d # c
          <5>1. client[d] \in {"receive", "unlink", "done"}
            BY <1>0, <2>1, <3>1, <4>2
          <5>2. CASE \E s \in Servers : item[s] = d
            BY <5>2
          <5>3. CASE \E k \in 1 .. Len(q1) : q1[k] = d
            <6>1. PICK k \in 1 .. Len(q1) : q1[k] = d
              BY <5>3
            <6>2. k \in 1 .. Len(q1') /\ q1'[k] = d
              BY <2>2, <6>1
            <6>3. QED
              BY <6>2
          <5>4. QED
            BY <5>1, <5>2, <5>3 DEF NoneLost
        <4>3. QED
          BY <4>1, <4>2
      <3>2. QED
        BY <1>0, <3>1 DEF NoneLost
    <2>12. NoReplyLost'
      BY <1>0, <2>1 DEF NoReplyLost, Replied
    <2>13. QED
      BY <2>7, <2>8, <2>9, <2>10, <2>11, <2>12
  <1>3. CASE ClientReceive(c)
    <2> DEFINE m == mq2[c]
    <2>1. /\ m \in Clients /\ q2[m] # << >> /\ q2[m] \in Seq(Clients)
          /\ q2' = [q2 EXCEPT ![m] = Tail(q2[m])]
          /\ received' = [received EXCEPT ![c] = Head(q2[m])]
          /\ client' = [client EXCEPT ![c] = "unlink"] /\ q1' = q1
      BY <1>3 DEF ClientReceive, AwaitReply, Typed, HistTypeOK, StageInv, Opened
    <2> HIDE DEF m
    <2>2. /\ Head(q2[m]) = q2[m][1] /\ Len(q2[m]) \in Nat /\ Len(q2[m]) >= 1
          /\ Len(q2'[m]) = Len(q2[m]) - 1 /\ Head(q2[m]) \in Clients
          /\ \A k \in 1 .. Len(q2[m]) - 1 : q2'[m][k] = q2[m][k + 1]
      BY <1>0, <2>1, Taken
    <2>3. /\ received'[c] = q2[m][1]
          /\ \A d \in Clients : d # c => received'[d] = received[d]
          /\ \A d \in Clients : d # m => q2'[d] = q2[d]
      BY <1>0, <2>1, <2>2
    <2>4. ASSUME NEW d \in Clients, NEW k \in 1 .. Len(q2'[d])
          PROVE  \E j \in 1 .. Len(q2[d]) :
                    /\ q2'[d][k] = q2[d][j]
                    /\ j = IF d = m THEN k + 1 ELSE k
      <3>1. CASE d = m
        <4>1. k + 1 \in 1 .. Len(q2[m]) /\ q2'[m][k] = q2[m][k + 1]
          BY <2>2, <3>1
        <4>2. QED
          BY <3>1, <4>1
      <3>2. CASE d # m
        BY <2>3, <3>2
      <3>3. QED
        BY <3>1, <3>2
    <2>5. 1 \in 1 .. Len(q2[m])
      BY <2>2
    <2>6. ASSUME NEW d \in Clients, NEW k \in 1 .. Len(q2'[d])
          PROVE  /\ q2'[d][k] # q2[m][1] /\ Served(q2'[d][k])
                 /\ \A e \in Clients : received'[e] # q2'[d][k]
      <3>1. PICK j \in 1 .. Len(q2[d]) :
               q2'[d][k] = q2[d][j] /\ j = IF d = m THEN k + 1 ELSE k
        BY <2>4
      <3>2. d = m => j # 1
        BY <3>1
      <3>3. q2[d][j] # q2[m][1]
        BY <2>1, <2>5, <3>2 DEF RepliesOnce
      <3>4. \A e \in Clients : received'[e] # q2[d][j]
        BY <2>3, <3>3 DEF NotInQueue
      <3>5. QED
        BY <3>1, <3>3, <3>4 DEF RepliesServed
    <2>7. ASSUME NEW d \in Clients, NEW e \in Clients,
                 NEW j \in 1 .. Len(q2'[d]), NEW k \in 1 .. Len(q2'[e]),
                 q2'[d][j] = q2'[e][k]
          PROVE  d = e /\ j = k
      <3>1. PICK j1 \in 1 .. Len(q2[d]) :
               q2'[d][j] = q2[d][j1] /\ j1 = IF d = m THEN j + 1 ELSE j
        BY <2>4
      <3>2. PICK k1 \in 1 .. Len(q2[e]) :
               q2'[e][k] = q2[e][k1] /\ k1 = IF e = m THEN k + 1 ELSE k
        BY <2>4
      <3>3. q2[d][j1] = q2[e][k1]
        BY <2>7, <3>1, <3>2
      <3>4. d = e /\ j1 = k1
        BY <3>3 DEF RepliesOnce
      <3>5. QED
        BY <3>1, <3>2, <3>4
    <2>8. Served(q2[m][1])
      BY <2>1, <2>5 DEF RepliesServed
    <2>9. ASSUME NEW d \in Clients, received'[d] # None
          PROVE  /\ Served(received'[d])
                 /\ \A e \in Clients : received'[d] = received'[e] => d = e
      <3>1. CASE d = c
        BY <2>1, <2>3, <2>5, <2>8, <3>1 DEF NotInQueue
      <3>2. CASE d # c
        BY <2>1, <2>3, <2>5, <2>9, <3>2
           DEF NotInQueue, ReceivedServed, ReceivedOnce
      <3>3. QED
        BY <3>1, <3>2
    <2>10. NotBeforeSent'
      <3>1. \A d \in Clients : client'[d] \in Unsent => client[d] \in Unsent
        BY <1>0, <2>1 DEF Unsent
      <3>2. QED
        BY <1>0, <2>1, <3>1 DEF NotBeforeSent
    <2>11. QueueOnce' /\ TakenOnce'
      BY <1>0, <2>1 DEF QueueOnce, TakenOnce
    <2>12. RepliesServed' /\ NotInQueue'
      BY <1>0, <2>6 DEF RepliesServed, NotInQueue, Served, Replied
    <2>13. RepliesOnce'
      BY <2>7 DEF RepliesOnce
    <2>14. ReceivedServed' /\ ReceivedOnce'
      BY <1>0, <2>9 DEF ReceivedServed, ReceivedOnce, Served, Replied
    <2>15. NoneLost'
      <3>1. \A d \in Clients : client'[d] \in {"receive", "unlink", "done"} =>
                client[d] \in {"receive", "unlink", "done"}
        BY <1>0, <1>3, <2>1 DEF ClientReceive
      <3>2. QED
        BY <1>0, <2>1, <3>1 DEF NoneLost
    <2>16. received[c] = None
      BY <1>3 DEF ClientReceive, Typed, StageInv
    <2>17. ASSUME NEW s \in Servers, Replied(s)
           PROVE  \/ \E d \in Clients : \E k \in 1 .. Len(q2'[d]) : q2'[d][k] = item[s]
                  \/ \E d \in Clients : received'[d] = item[s]
      <3>1. item[s] # None
        BY <2>17 DEF Replied, Typed, StageInv, Stage
      <3>2. CASE \E d \in Clients : received[d] = item[s]
        BY <2>3, <2>16, <3>1, <3>2
      <3>3. ASSUME NEW d \in Clients, NEW k \in 1 .. Len(q2[d]), q2[d][k] = item[s]
            PROVE  \/ \E e \in Clients : \E j \in 1 .. Len(q2'[e]) : q2'[e][j] = item[s]
                   \/ \E e \in Clients : received'[e] = item[s]
        <4>1. CASE d # m
          BY <2>3, <3>3, <4>1
        <4>2. CASE d = m /\ k = 1
          BY <2>3, <3>3, <4>2
        <4>3. CASE d = m /\ k # 1
          <5>1. k - 1 \in 1 .. Len(q2[m]) - 1
            BY <2>2, <3>3, <4>3
          <5>2. k - 1 \in 1 .. Len(q2'[m]) /\ q2'[m][k - 1] = q2[m][k]
            BY <2>2, <5>1
          <5>3. QED
            BY <3>3, <4>3, <5>2
        <4>4. QED
          BY <4>1, <4>2, <4>3
      <3>4. QED
        BY <2>17, <3>2, <3>3 DEF NoReplyLost
    <2>18. NoReplyLost'
      BY <1>0, <2>17 DEF NoReplyLost, Replied
    <2>19. QED
      BY <2>10, <2>11, <2>12, <2>13, <2>14, <2>15, <2>18
  <1>4. QED
    BY <1>1, <1>2, <1>3 DEF ClientStep

\* The server's steps: only taking a request and replying move a message.
LEMMA ServerOnce ==
    ASSUME Typed, OnceInv, NEW s \in Servers, ServerStart(s) \/ ServerStep(s)
    PROVE  OnceInv'
  <1> USE DEF OnceInv
  <1>0. /\ client' = client /\ received' = received /\ q1 \in Seq(Clients)
        /\ item \in [Servers -> Clients \cup {None}]
        /\ \A u \in Servers : u # s => server'[u] = server[u]
        /\ q2 \in [Clients -> Seq(Clients)]
        /\ DOMAIN server = Servers
    BY DEF ServerStart, ServerStep, ServerReceive, NextFile, CountLine, BinStep, BinsEnd, CountEnd,
       FileJoined, ServerSum, ServerOpen, ServerSend, Crash, clientV, Typed,
       HistTypeOK, StageInv
  <1>1. server[s] # "exited"
    BY DEF ServerStart, ServerStep, ServerReceive, NextFile, CountLine, BinStep, BinsEnd, CountEnd,
       FileJoined, ServerSum, ServerOpen, ServerSend, Crash
  <1>2. \A u \in Servers : Replied(u) => Replied(u)'
    <2>1. \A u \in Servers : u # s => reply'[u] = reply[u]
      BY OthersUnchanged DEF Frame
    <2>2. QED
      BY <1>0, <1>1, <2>1 DEF Replied
  <1>a. \A u \in Servers \ {s} : Replied(u)' => Replied(u)
    <2>1. \A u \in Servers : u # s => reply'[u] = reply[u]
      BY OthersUnchanged DEF Frame
    <2>2. QED
      BY <1>0, <2>1 DEF Replied
  <1>3. CASE ServerReceive(s)
    <2>1. /\ item[s] = None /\ q1 # << >> /\ q1' = Tail(q1) /\ q2' = q2
          /\ item' = [item EXCEPT ![s] = Head(q1)]
      BY <1>3 DEF ServerReceive, TakeRequest, Typed, StageInv, Stage
    <2>2. /\ Len(q1) \in Nat /\ Len(q1) >= 1 /\ Head(q1) = q1[1]
          /\ Head(q1) \in Clients /\ Len(q1') = Len(q1) - 1
          /\ \A k \in 1 .. Len(q1) - 1 : q1'[k] = q1[k + 1]
      BY <1>0, <2>1, Taken
    <2>3. ASSUME NEW k \in 1 .. Len(q1')
          PROVE  /\ k + 1 \in 1 .. Len(q1) /\ q1'[k] = q1[k + 1]
                 /\ q1'[k] # q1[1]
      <3>1. k + 1 \in 1 .. Len(q1) /\ q1'[k] = q1[k + 1] /\ 1 \in 1 .. Len(q1)
        BY <2>2
      <3>2. QED
        BY <3>1 DEF QueueOnce
    <2>4. /\ item'[s] = q1[1] /\ 1 \in 1 .. Len(q1) /\ item'[s] # None
          /\ \A u \in Servers : u # s => item'[u] = item[u] /\ item[u] # q1[1]
      BY <1>0, <2>1, <2>2, HistAssumption DEF TakenOnce
    <2>5. QueueOnce'
      <3>1. ASSUME NEW j \in 1 .. Len(q1'), NEW k \in 1 .. Len(q1'),
                   q1'[j] = q1'[k]
            PROVE  j = k
        <4>1. j + 1 = k + 1
          BY <2>3, <3>1 DEF QueueOnce
        <4>2. QED
          BY <4>1
      <3>2. QED
        BY <3>1 DEF QueueOnce
    <2>6. TakenOnce'
      <3>1. \A u \in Servers, k \in 1 .. Len(q1') : item'[u] # q1'[k]
        BY <2>3, <2>4 DEF TakenOnce
      <3>2. \A t, u \in Servers : item'[t] = item'[u] /\ item'[t] # None => t = u
        BY <2>4 DEF TakenOnce
      <3>3. QED
        BY <3>1, <3>2 DEF TakenOnce
    <2>7. NotBeforeSent'
      <3>1. ASSUME NEW c \in Clients, client[c] \in Unsent
            PROVE  /\ \A k \in 1 .. Len(q1') : q1'[k] # c
                   /\ \A u \in Servers : item'[u] # c
        BY <2>3, <2>4, <3>1 DEF NotBeforeSent
      <3>2. QED
        BY <1>0, <3>1 DEF NotBeforeSent
    <2>8. ASSUME NEW e, Served(e) PROVE Served(e)'
      BY <1>1, <1>2, <2>4, <2>8 DEF Served, Replied
    <2>9. RepliesServed' /\ ReceivedServed'
      BY <1>0, <2>1, <2>8 DEF RepliesServed, ReceivedServed
    <2>10. RepliesOnce' /\ NotInQueue' /\ ReceivedOnce'
      BY <1>0, <2>1 DEF RepliesOnce, NotInQueue, ReceivedOnce
    <2>11. NoneLost'
      <3>1. ASSUME NEW c \in Clients, client[c] \in {"receive", "unlink", "done"}
            PROVE  \/ \E k \in 1 .. Len(q1') : q1'[k] = c
                   \/ \E u \in Servers : item'[u] = c
        <4>1. CASE \E u \in Servers : item[u] = c
          BY <2>1, <2>4, <4>1, HistAssumption
        <4>2. ASSUME NEW k \in 1 .. Len(q1), q1[k] = c
              PROVE  \/ \E j \in 1 .. Len(q1') : q1'[j] = c
                     \/ \E u \in Servers : item'[u] = c
          <5>1. CASE k = 1
            BY <2>4, <4>2, <5>1
          <5>2. CASE k # 1
            <6>1. k - 1 \in 1 .. Len(q1) - 1
              BY <2>2, <4>2, <5>2
            <6>2. k - 1 \in 1 .. Len(q1') /\ q1'[k - 1] = q1[k]
              BY <2>2, <6>1
            <6>3. QED
              BY <4>2, <6>2
          <5>3. QED
            BY <5>1, <5>2
        <4>3. QED
          BY <3>1, <4>1, <4>2 DEF NoneLost
      <3>2. QED
        BY <1>0, <3>1 DEF NoneLost
    <2>12. NoReplyLost'
      <3>1. server'[s] = "files"
        BY <1>0, <1>3 DEF ServerReceive
      <3>2. \A u \in Servers : Replied(u)' => u # s /\ Replied(u)
        BY <1>a, <3>1 DEF Replied
      <3>3. QED
        <4>1. ASSUME NEW u \in Servers, Replied(u)'
              PROVE  \/ \E d \in Clients : \E k \in 1 .. Len(q2[d]) : q2[d][k] = item'[u]
                     \/ \E d \in Clients : received[d] = item'[u]
          <5>1. Replied(u) /\ item'[u] = item[u]
            BY <2>4, <3>2, <4>1
          <5>2. QED
            BY <5>1 DEF NoReplyLost
        <4>2. q2' = q2 /\ received' = received
          BY <1>0, <2>1
        <4>3. QED
          BY <4>1, <4>2 DEF NoReplyLost
    <2>13. QED
      BY <2>5, <2>6, <2>7, <2>9, <2>10, <2>11, <2>12
  <1>4. CASE ServerSend(s)
    <2> DEFINE m == reply[s]
    <2>1. /\ m \in Clients /\ item[s] \in Clients /\ server[s] = "send"
          /\ q2[m] \in Seq(Clients) /\ q1' = q1 /\ item' = item
          /\ q2' = [q2 EXCEPT ![m] = Append(q2[m], item[s])]
          /\ server'[s] = "exited" /\ reply' = reply
      BY <1>4 DEF ServerSend, Then, Typed, HistTypeOK, StageInv, Stage, Busy
    <2> HIDE DEF m
    <2>2. /\ Len(q2[m]) \in Nat /\ Len(q2'[m]) = Len(q2[m]) + 1
          /\ q2'[m][Len(q2[m]) + 1] = item[s]
          /\ \A k \in 1 .. Len(q2[m]) : q2'[m][k] = q2[m][k]
          /\ \A d \in Clients : d # m => q2'[d] = q2[d]
      BY <1>0, <2>1, Sent
    <2>3. ~Served(item[s])
      BY <1>1, <2>1, HistAssumption DEF TakenOnce, Served, Replied
    <2>4. ASSUME NEW d \in Clients, NEW k \in 1 .. Len(q2'[d])
          PROVE  \/ k \in 1 .. Len(q2[d]) /\ q2'[d][k] = q2[d][k]
                                        /\ q2'[d][k] # item[s]
                 \/ d = m /\ k = Len(q2[m]) + 1 /\ q2'[d][k] = item[s]
      <3>1. CASE k \in 1 .. Len(q2[d])
        <4>1. q2'[d][k] = q2[d][k]
          BY <2>2, <3>1
        <4>2. QED
          BY <2>3, <3>1, <4>1 DEF RepliesServed
      <3>2. CASE k \notin 1 .. Len(q2[d])
        BY <2>2, <3>2
      <3>3. QED
        BY <3>1, <3>2
    <2>5. ASSUME NEW e, Served(e) PROVE Served(e)'
      BY <1>2, <2>1, <2>5 DEF Served
    <2>6. Served(item[s])'
      BY <2>1, HistAssumption DEF Served, Replied, m
    <2>7. ASSUME NEW d \in Clients, NEW k \in 1 .. Len(q2'[d])
          PROVE  /\ Served(q2[d][k])'
                 /\ \A e \in Clients : received[e] # q2'[d][k]
      <3>1. CASE q2'[d][k] = item[s]
        <4>1. Served(q2[d][k])'
          BY <2>1, <2>6, <3>1 DEF Served
        <4>2. \A e \in Clients : received[e] # item[s]
          BY <2>1, <2>3, HistAssumption DEF ReceivedServed
        <4>3. QED
          BY <3>1, <4>1, <4>2
      <3>2. CASE q2'[d][k] # item[s]
        <4>1. k \in 1 .. Len(q2[d]) /\ q2'[d][k] = q2[d][k]
          BY <2>4, <3>2
        <4>2. Served(q2[d][k])
          BY <4>1 DEF RepliesServed
        <4>3. Served(q2[d][k])'
          BY <2>5, <4>1, <4>2 DEF Served
        <4>4. QED
          BY <4>1, <4>3 DEF NotInQueue
      <3>3. QED
        BY <3>1, <3>2
    <2>8. ASSUME NEW d \in Clients, NEW e \in Clients,
                 NEW j \in 1 .. Len(q2'[d]), NEW k \in 1 .. Len(q2'[e]),
                 q2'[d][j] = q2'[e][k]
          PROVE  d = e /\ j = k
      <3>1. CASE q2'[d][j] = item[s]
        BY <2>4, <2>8, <3>1
      <3>2. CASE q2'[d][j] # item[s]
        BY <2>4, <2>8, <3>2 DEF RepliesOnce
      <3>3. QED
        BY <3>1, <3>2
    <2>9. RepliesServed' /\ NotInQueue'
      BY <1>0, <2>7 DEF RepliesServed, NotInQueue
    <2>10. RepliesOnce'
      BY <2>8 DEF RepliesOnce
    <2>11. ReceivedServed' /\ ReceivedOnce'
      BY <1>0, <2>5 DEF ReceivedServed, ReceivedOnce
    <2>12. QueueOnce' /\ TakenOnce' /\ NotBeforeSent'
      BY <1>0, <2>1 DEF QueueOnce, TakenOnce, NotBeforeSent
    <2>13. NoneLost'
      BY <1>0, <2>1 DEF NoneLost
    <2>14. ASSUME NEW u \in Servers, Replied(u)'
           PROVE  \/ \E d \in Clients : \E k \in 1 .. Len(q2'[d]) : q2'[d][k] = item[u]
                  \/ \E d \in Clients : received[d] = item[u]
      <3>1. CASE u = s
        <4>1. Len(q2[m]) + 1 \in 1 .. Len(q2'[m])
          BY <2>2
        <4>2. QED
          BY <2>1, <2>2, <3>1, <4>1
      <3>2. CASE u # s
        <4>1. Replied(u)
          BY <1>a, <2>14, <3>2
        <4>2. ASSUME NEW d \in Clients, NEW k \in 1 .. Len(q2[d]), q2[d][k] = item[u]
              PROVE  \E e \in Clients : \E j \in 1 .. Len(q2'[e]) : q2'[e][j] = item[u]
          <5>1. k \in 1 .. Len(q2'[d]) /\ q2'[d][k] = q2[d][k]
            BY <2>2, <4>2
          <5>2. QED
            BY <4>2, <5>1
        <4>3. QED
          BY <4>1, <4>2 DEF NoReplyLost
      <3>3. QED
        BY <3>1, <3>2
    <2>15. NoReplyLost'
      <3>1. \A u \in Servers : Replied(u)' =>
               \/ \E d \in Clients : \E k \in 1 .. Len(q2'[d]) : q2'[d][k] = item[u]
               \/ \E d \in Clients : received[d] = item[u]
        BY <2>14
      <3>2. item' = item /\ received' = received
        BY <1>0, <2>1
      <3>3. QED
        BY <3>1, <3>2 DEF NoReplyLost
    <2>16. QED
      BY <2>9, <2>10, <2>11, <2>12, <2>13, <2>15
  <1>5. CASE ~ServerReceive(s) /\ ~ServerSend(s)
    <2>1. q1' = q1 /\ q2' = q2 /\ item' = item
      BY <1>5 DEF ServerStart, ServerStep, NextFile, CountLine, BinStep, BinsEnd, CountEnd,
         FileJoined, ServerSum, ServerOpen, Crash, queues
    <2>2. ASSUME NEW e, Served(e) PROVE Served(e)'
      BY <1>2, <2>1, <2>2 DEF Served
    <2>3. RepliesServed' /\ ReceivedServed'
      BY <1>0, <2>1, <2>2 DEF RepliesServed, ReceivedServed
    <2>4. NoneLost'
      BY <1>0, <2>1 DEF NoneLost
    <2>5. ~Replied(s)'
      BY <1>0, <1>5 DEF ServerStart, ServerStep, NextFile, CountLine, BinStep, BinsEnd,
         CountEnd, FileJoined, ServerSum, ServerOpen, Then, Crash, Replied, Typed,
         HistTypeOK
    <2>6. NoReplyLost'
      BY <1>0, <1>a, <2>1, <2>5 DEF NoReplyLost
    <2>7. QED
      BY <1>0, <2>1, <2>3, <2>4, <2>6 DEF QueueOnce, TakenOnce, NotBeforeSent, RepliesOnce,
         NotInQueue, ReceivedOnce
  <1>6. QED
    BY <1>3, <1>4, <1>5
-----------------------------------------------------------------------------
(* Clients one after the other. *)

\* The client's steps, while no two clients have overlapped.
LEMMA ClientSerial ==
    ASSUME Typed, OnceInv, SerialInv, NEW c \in Clients,
           ClientStart(c) \/ ClientStep(c)
    PROVE  SerialInv'
  <1> SUFFICES ASSUME ~overlapped'
               PROVE  /\ OneRuns' /\ OwnQueue' /\ OwnReceived'
                      /\ RequestsWaitedFor' /\ RepliesWaitedFor'
    BY DEF SerialInv
  <1>0. /\ OneRuns /\ OwnQueue /\ OwnReceived /\ RequestsWaitedFor
        /\ RepliesWaitedFor
    BY DEF SerialInv, ClientStart, ClientStep, ClientOpen, ClientSend,
           ClientReceive, ClientUnlink, Typed, HistTypeOK
  <1>1. /\ UNCHANGED <<item, server, reply>>
        /\ q1 \in Seq(Clients)
        /\ \A s \in Servers : server[s] \in Busy => item[s] \in Clients
        /\ client \in [Clients -> {"none", "open", "send", "receive", "unlink",
                                  "done", "failed"}]
        /\ q2 \in [Clients -> Seq(Clients)]
        /\ mq2 \in [Clients -> Clients \cup {None}]
        /\ received \in [Clients -> Clients \cup {None}]
        /\ name2 \in Clients \cup {None}
    BY NumbersFacts DEF ClientStart, ClientStep, ClientOpen, ClientSend,
       ClientReceive, ClientUnlink, serverV, Typed, HistTypeOK, StageInv
  <1>2. \A k \in 1 .. Len(q1) : q1[k] \in Clients
    BY <1>1
  <1>3. \A d \in Clients : d # c => client'[d] = client[d]
    BY <1>1 DEF ClientStart, ClientStep, ClientOpen, ClientSend, ClientReceive,
       ClientUnlink
  <1>4. ASSUME ~Waits(c), q1' = q1, q2' = q2
        PROVE  RequestsWaitedFor' /\ RepliesWaitedFor'
    <2>1. \A d \in Clients : Waits(d) => Waits(d)'
      BY <1>3, <1>4 DEF Waits
    <2>2. RequestsWaitedFor'
      BY <1>0, <1>1, <1>2, <1>4, <2>1 DEF RequestsWaitedFor
    <2>3. RepliesWaitedFor'
      BY <1>0, <1>4, <2>1 DEF RepliesWaitedFor
    <2>4. QED
      BY <2>2, <2>3
  <1>5. CASE ClientStart(c)
    <2>1. /\ client[c] = "none" /\ client'[c] \in {"open", "failed"}
          /\ UNCHANGED <<q1, name2, q2, mq2, received>>
          /\ \A d \in Clients : ~Running(d)
      BY <1>1, <1>5 DEF ClientStart, After, queues
    <2>2. OneRuns' /\ OwnQueue' /\ OwnReceived'
      BY <1>0, <1>1, <1>3, <2>1 DEF OneRuns, OwnQueue, OwnReceived, Running, Opened
    <2>3. QED
      BY <1>4, <2>1, <2>2 DEF Waits
  <1>6. CASE ClientOpen(c)
    <2>1. /\ client[c] = "open" /\ client'[c] = "send"
          /\ name2' = (IF name2 = None THEN c ELSE name2)
          /\ mq2' = [mq2 EXCEPT ![c] = name2']
          /\ UNCHANGED <<q1, q2, received>>
      BY <1>1, <1>6 DEF ClientOpen, After
    <2>2. \A d \in Clients : Running(d) => d = c
      BY <1>0, <2>1 DEF OneRuns, Running
    <2>3. name2 = None
      BY <1>0, <1>1, <2>1, <2>2 DEF OwnQueue, Running
    <2>4. OneRuns' /\ OwnReceived'
      BY <1>0, <1>3, <2>1, <2>2 DEF OneRuns, OwnReceived, Running
    <2>5. name2' = c /\ mq2'[c] = c /\ \A d \in Clients : d # c => mq2'[d] = mq2[d]
      BY <1>1, <2>1, <2>3
    <2>6. OwnQueue'
      BY <1>0, <1>3, <2>1, <2>2, <2>5 DEF OwnQueue, Running, Opened
    <2>7. QED
      BY <1>4, <2>1, <2>4, <2>6 DEF Waits
  <1>7. CASE ClientSend(c)
    <2>1. /\ client[c] = "send" /\ client'[c] = "receive" /\ q1' = Append(q1, c)
          /\ UNCHANGED <<name2, q2, mq2, received>>
      BY <1>1, <1>7 DEF ClientSend, After
    <2>2. OneRuns' /\ OwnQueue' /\ OwnReceived'
      BY <1>0, <1>1, <1>3, <2>1 DEF OneRuns, OwnQueue, OwnReceived, Running, Opened
    <2>3. \A d \in Clients : Waits(d) => Waits(d)'
      BY <1>3, <2>1 DEF Waits
    <2>4. RepliesWaitedFor'
      BY <1>0, <2>1, <2>3 DEF RepliesWaitedFor
    <2>5. ASSUME NEW k \in 1 .. Len(q1') PROVE Waits(q1[k])'
      <3>1. /\ Len(q1) \in Nat /\ Len(q1') = Len(q1) + 1 /\ q1'[Len(q1) + 1] = c
            /\ \A j \in 1 .. Len(q1) : q1'[j] = q1[j]
        BY <1>1, <2>1, Sent
      <3>2. CASE k \in 1 .. Len(q1)
        <4>1. q1'[k] = q1[k] /\ q1[k] \in Clients /\ Waits(q1[k])
          BY <1>0, <1>2, <3>1, <3>2 DEF RequestsWaitedFor
        <4>2. QED
          BY <2>3, <4>1 DEF Waits
      <3>3. CASE k = Len(q1) + 1
        BY <2>1, <3>1, <3>3 DEF Waits
      <3>4. QED
        BY <3>1, <3>2, <3>3
    <2>6. RequestsWaitedFor'
      BY <1>0, <1>1, <2>3, <2>5 DEF RequestsWaitedFor
    <2>7. QED
      BY <2>2, <2>4, <2>6
  <1>8. CASE ClientReceive(c)
    <2>1. /\ client[c] = "receive" /\ client'[c] = "unlink" /\ mq2[c] = c
          /\ q2[c] # << >> /\ q2[c] \in Seq(Clients)
          /\ q2' = [q2 EXCEPT ![c] = Tail(q2[c])]
          /\ received' = [received EXCEPT ![c] = Head(q2[c])]
          /\ UNCHANGED <<q1, name2, mq2>>
      BY <1>0, <1>1, <1>8 DEF ClientReceive, AwaitReply, OwnQueue, Opened
    <2>2. /\ Head(q2[c]) = q2[c][1] /\ Len(q2[c]) \in Nat /\ Len(q2[c]) >= 1
          /\ Len(q2'[c]) = Len(q2[c]) - 1
          /\ \A k \in 1 .. Len(q2[c]) - 1 : q2'[c][k] = q2[c][k + 1]
      BY <1>1, <2>1, Taken
    <2>3. 1 \in 1 .. Len(q2[c]) /\ q2[c][1] = c
      BY <1>0, <2>2 DEF RepliesWaitedFor
    <2>4. Served(c)
      BY <2>3 DEF OnceInv, RepliesServed
    <2>5. /\ received'[c] = c /\ \A d \in Clients : d # c => received'[d] = received[d]
      BY <1>1, <2>1, <2>2, <2>3
    <2>6. OneRuns' /\ OwnQueue' /\ OwnReceived'
      <3>1. OneRuns' /\ OwnQueue'
        BY <1>0, <1>1, <1>3, <2>1 DEF OneRuns, OwnQueue, Running, Opened
      <3>2. OwnReceived'
        BY <1>0, <1>3, <2>5 DEF OwnReceived
      <3>3. QED
        BY <3>1, <3>2
    <2>7. \A d \in Clients : d # c /\ Waits(d) => Waits(d)'
      BY <1>3 DEF Waits
    <2>8. /\ \A k \in 1 .. Len(q1) : q1[k] # c
          /\ \A s \in Servers : server[s] \in Busy => item[s] # c
      BY <2>4, HistAssumption DEF OnceInv, TakenOnce, Served, Replied, Busy
    <2>9. RequestsWaitedFor'
      BY <1>0, <1>1, <1>2, <2>1, <2>7, <2>8 DEF RequestsWaitedFor
    <2>10. Len(q2[c]) = 1
      <3>1. ASSUME 2 \in 1 .. Len(q2[c]) PROVE FALSE
        <4>1. q2[c][2] = q2[c][1]
          BY <1>0, <2>3, <3>1 DEF RepliesWaitedFor
        <4>2. QED
          BY <2>3, <3>1, <4>1 DEF OnceInv, RepliesOnce
      <3> DEFINE n == Len(q2[c])
      <3>2. n \in Nat /\ n >= 1 /\ 2 \notin 1 .. n
        BY <2>2, <3>1
      <3> HIDE DEF n
      <3>3. n = 1
        BY <3>2
      <3>4. QED
        BY <3>3 DEF n
    <2>11. RepliesWaitedFor'
      <3>1. ASSUME NEW d \in Clients, NEW k \in 1 .. Len(q2'[d])
            PROVE  d # c /\ k \in 1 .. Len(q2[d]) /\ q2'[d][k] = q2[d][k]
        <4>1. Len(q2'[c]) = 0
          BY ONLY <2>2, <2>10
        <4>2. d # c
          BY <3>1, <4>1
        <4>3. q2'[d] = q2[d]
          BY <1>1, <2>1, <4>2
        <4>4. QED
          BY <3>1, <4>2, <4>3
      <3>2. QED
        BY <1>0, <2>7, <3>1 DEF RepliesWaitedFor
    <2>12. QED
      BY <2>6, <2>9, <2>11
  <1>9. CASE ClientUnlink(c)
    <2>1. /\ client[c] = "unlink" /\ client'[c] = "done" /\ name2' = None
          /\ UNCHANGED <<q1, q2, mq2, received>>
      BY <1>1, <1>9 DEF ClientUnlink
    <2>2. \A d \in Clients : Running(d) => d = c
      BY <1>0, <2>1 DEF OneRuns, Running
    <2>3. OneRuns' /\ OwnReceived'
      BY <1>0, <1>3, <2>1, <2>2 DEF OneRuns, OwnReceived, Running
    <2>4. OwnQueue'
      BY <1>0, <1>3, <2>1, <2>2 DEF OwnQueue, Running, Opened
    <2>5. QED
      BY <1>4, <2>1, <2>3, <2>4 DEF Waits
  <1>10. QED
    BY <1>5, <1>6, <1>7, <1>8, <1>9 DEF ClientStep

\* The server's steps, while no two clients have overlapped.
LEMMA ServerSerial ==
    ASSUME Typed, OnceInv, SerialInv, NEW s \in Servers,
           ServerStart(s) \/ ServerStep(s)
    PROVE  SerialInv'
  <1>0. UNCHANGED <<overlapped, client, mq2, received, name2>>
    BY DEF ServerStart, ServerStep, ServerReceive, TakeRequest, NextFile, CountLine,
       BinStep, BinsEnd, CountEnd, FileJoined, ServerSum, ServerOpen, ServerSend, Crash, clientV, queues
  <1> SUFFICES ASSUME ~overlapped
               PROVE  /\ OneRuns' /\ OwnQueue' /\ OwnReceived'
                      /\ RequestsWaitedFor' /\ RepliesWaitedFor'
    BY <1>0 DEF SerialInv
  <1>1. /\ OneRuns /\ OwnQueue /\ OwnReceived /\ RequestsWaitedFor
        /\ RepliesWaitedFor
    BY DEF SerialInv
  <1>2. OneRuns' /\ OwnQueue' /\ OwnReceived'
    BY <1>0, <1>1 DEF OneRuns, OwnQueue, OwnReceived, Running
  <1>3. \A d : Waits(d)' <=> Waits(d)
    BY <1>0 DEF Waits
  <1>4. ASSUME NEW u \in Servers, u # s
        PROVE  UNCHANGED <<server[u], item[u], reply[u]>>
    BY <1>4, OthersUnchanged DEF Frame
  <1>5. /\ server[s] \in Busy => item[s] \in Clients
        /\ q1 \in Seq(Clients) /\ q2 \in [Clients -> Seq(Clients)]
        /\ server \in [Servers -> {"none", "receive", "files", "count", "bins", "joined", "open",
                                  "send", "exited", "crashed"}]
        /\ item \in [Servers -> Clients \cup {None}]
        /\ reply \in [Servers -> Clients \cup {None}]
    BY NumbersFacts DEF Typed, HistTypeOK, StageInv
  <1>6. CASE ServerReceive(s)
    <2>1. /\ q1 # << >> /\ q1' = Tail(q1) /\ item'[s] = Head(q1) /\ q2' = q2
          /\ server'[s] = "files"
      BY <1>5, <1>6 DEF ServerReceive, TakeRequest
    <2>2. /\ Len(q1) \in Nat /\ Len(q1) >= 1 /\ item'[s] = q1[1]
          /\ Len(q1') = Len(q1) - 1
          /\ \A k \in 1 .. Len(q1) - 1 : q1'[k] = q1[k + 1]
      BY <1>5, <2>1, Taken
    <2>3. \A k \in 1 .. Len(q1') : k + 1 \in 1 .. Len(q1) /\ q1'[k] = q1[k + 1]
      BY <2>2
    <2>4. Waits(q1[1])
      BY <1>1, <2>2 DEF RequestsWaitedFor
    <2>5. RequestsWaitedFor'
      BY <1>0, <1>1, <1>4, <2>1, <2>2, <2>3, <2>4 DEF RequestsWaitedFor, Waits
    <2>6. RepliesWaitedFor'
      BY <1>1, <1>3, <2>1 DEF RepliesWaitedFor
    <2>7. QED
      BY <1>2, <2>5, <2>6
  <1>7. CASE ServerSend(s)
    <2>1. /\ server[s] = "send" /\ server'[s] = "exited" /\ q1' = q1
          /\ q2' = [q2 EXCEPT ![reply[s]] = Append(q2[reply[s]], item[s])]
      BY <1>5, <1>7 DEF ServerSend, Then
    <2>2. reply[s] = item[s] /\ Waits(item[s]) /\ item[s] \in Clients
      BY <1>1, <1>5, <2>1 DEF RequestsWaitedFor, Busy
    <2>3. RequestsWaitedFor'
      BY <1>0, <1>1, <1>4, <2>1 DEF RequestsWaitedFor, Waits, Busy
    <2>4. ASSUME NEW d \in Clients, NEW k \in 1 .. Len(q2'[d])
          PROVE  q2'[d][k] = d /\ Waits(d)
      <3>1. CASE d = item[s]
        <4>1. /\ q2[d] \in Seq(Clients) /\ q2'[d] = Append(q2[d], d)
          BY <1>5, <2>1, <2>2, <3>1
        <4>2. /\ Len(q2[d]) \in Nat /\ Len(q2'[d]) = Len(q2[d]) + 1
              /\ q2'[d][Len(q2[d]) + 1] = d
              /\ \A j \in 1 .. Len(q2[d]) : q2'[d][j] = q2[d][j]
          BY <4>1, Sent
        <4>3. CASE k \in 1 .. Len(q2[d])
          BY <1>1, <4>2, <4>3 DEF RepliesWaitedFor
        <4>4. CASE k = Len(q2[d]) + 1
          BY <2>2, <3>1, <4>2, <4>4
        <4>5. QED
          BY <4>2, <4>3, <4>4
      <3>2. CASE d # item[s]
        BY <1>1, <1>5, <2>1, <2>2, <3>2 DEF RepliesWaitedFor
      <3>3. QED
        BY <3>1, <3>2
    <2>5. RepliesWaitedFor'
      BY <1>3, <2>4 DEF RepliesWaitedFor
    <2>6. QED
      BY <1>2, <2>3, <2>5
  <1>8. CASE ~ServerReceive(s) /\ ~ServerSend(s)
    <2>1. q1' = q1 /\ q2' = q2 /\ item' = item
      BY <1>8 DEF ServerStart, ServerStep, NextFile, CountLine, BinStep, BinsEnd, CountEnd,
         FileJoined, ServerSum, ServerOpen, Crash, queues
    <2>2. server'[s] \in Busy => server[s] \in Busy
      BY <1>5, <1>8 DEF ServerStart, ServerStep, NextFile, CountLine, BinStep, BinsEnd, CountEnd,
         FileJoined, ServerSum, ServerOpen, Crash, Busy
    <2>3. server'[s] = "send" => ServerOpen(s)
      BY <1>5, <1>8 DEF ServerStart, ServerStep, NextFile, CountLine, BinStep, BinsEnd, CountEnd,
         FileJoined, ServerSum, Crash
    <2>4. ServerOpen(s) => reply'[s] = item[s]
      <3>1. ServerOpen(s) => reply'[s] = name2 /\ server[s] = "open"
        BY <1>5 DEF ServerOpen
      <3>2. server[s] = "open" => name2 = item[s]
        BY <1>1, <1>5 DEF RequestsWaitedFor, Waits, OwnQueue, Busy
      <3>3. QED
        BY <3>1, <3>2
    <2>5. RequestsWaitedFor'
      <3>1. \A k \in 1 .. Len(q1') : Waits(q1[k])'
        BY <1>0, <1>1, <2>1 DEF RequestsWaitedFor, Waits
      <3>2. ASSUME NEW u \in Servers
            PROVE  /\ server'[u] \in Busy => Waits(item[u])'
                   /\ server'[u] = "send" => reply'[u] = item'[u]
        <4>1. CASE u = s
          BY <1>0, <1>1, <2>1, <2>2, <2>3, <2>4, <4>1 DEF RequestsWaitedFor, Waits
        <4>2. CASE u # s
          BY <1>0, <1>1, <1>4, <2>1, <4>2 DEF RequestsWaitedFor, Waits
        <4>3. QED
          BY <4>1, <4>2
      <3>3. QED
        BY <3>1, <3>2 DEF RequestsWaitedFor
    <2>6. RepliesWaitedFor'
      BY <1>1, <1>3, <2>1 DEF RepliesWaitedFor
    <2>7. QED
      BY <1>2, <2>5, <2>6
  <1>9. QED
    BY <1>6, <1>7, <1>8
-----------------------------------------------------------------------------
(* The counts. *)

\* A number in one interval is in no other; it lies between the bounds, and
\* the ends of the intervals up to its own are ints.
LEMMA InsideFacts ==
    ASSUME NEW c \in Clients, NoOverflow(Request[c]),
           NEW num \in Ints, NEW b \in 1 .. Request[c].cnt, Inside(num, Request[c], b)
    PROVE  /\ InRange(num, Request[c])
           /\ \A a \in 1 .. Request[c].cnt : Inside(num, Request[c], a) => a = b
  <1> DEFINE r == Request[c]
  <1>1. /\ r.start \in Int /\ r.width \in Nat /\ r.cnt \in Nat /\ b \in Int /\ num \in Int
        /\ b >= 1 /\ b <= r.cnt
    BY RequestFacts DEF Ints
  <1>2. Inside(num, r, b) /\ NoOverflow(r)
    OBVIOUS
  <1> HIDE DEF r
  <1>3. /\ 0 <= (b - 1) * r.width /\ (b - 1) * r.width \in Int
        /\ b * r.width <= r.cnt * r.width /\ b * r.width \in Int
        /\ r.cnt * r.width \in Int /\ r.cnt * r.width = r.width * r.cnt
    <2>1. (b - 1) \in Nat /\ (b - 1) * r.width >= 0
      BY <1>1, Multiples
    <2>2. QED
      BY <1>1, <2>1, Multiples
  <1>4. InRange(num, r)
    <2>1. Int32(r.start + r.width * r.cnt) = r.start + r.width * r.cnt
      BY <1>2, IntKept DEF NoOverflow
    <2>2. r.start < num
      BY <1>1, <1>2, <1>3 DEF Inside
    <2>3. num < r.start + r.cnt * r.width
      BY <1>1, <1>2, <1>3 DEF Inside
    <2>4. num < r.start + r.width * r.cnt
      BY <1>3, <2>3
    <2>5. QED
      BY <2>1, <2>2, <2>4 DEF InRange
  <1>5. ASSUME NEW a \in 1 .. r.cnt, Inside(num, r, a) PROVE a = b
    <2>1. /\ a * r.width \in Int /\ (a - 1) * r.width \in Int /\ a \in Int
      BY <1>1, <1>5, Multiples
    <2>2. /\ (b - 1) * r.width <= num - r.start /\ num - r.start < b * r.width
          /\ (a - 1) * r.width <= num - r.start /\ num - r.start < a * r.width
          /\ num - r.start \in Int
      BY <1>1, <1>2, <1>3, <1>5, <2>1 DEF Inside
    <2>3. QED
      BY <1>1, <2>1, <2>2, OneInterval
  <1>6. QED
    BY <1>4, <1>5 DEF r

\* The end of an interval, computed in an int, is what it should be.
LEMMA EndsAreInts ==
    ASSUME NEW c \in Clients, NoOverflow(Request[c]), NEW b \in 1 .. Request[c].cnt
    PROVE  Int32(Request[c].start + b * Request[c].width)
              = Request[c].start + b * Request[c].width
  <1> DEFINE r == Request[c]
  <1>1. /\ r.start \in Ints /\ r.start \in Int /\ r.width \in Nat /\ r.cnt \in Nat
        /\ b \in Int /\ 0 <= b /\ b <= r.cnt /\ NoOverflow(r)
    BY RequestFacts
  <1> HIDE DEF r
  <1>2. /\ 0 * r.width <= b * r.width /\ b * r.width <= r.cnt * r.width
        /\ b * r.width \in Int /\ r.cnt * r.width \in Int
        /\ r.cnt * r.width = r.width * r.cnt /\ 0 * r.width = 0
    BY <1>1, Multiples
  <1>3. r.start + b * r.width \in Ints
    <2>1. /\ Limit \in Int /\ -Limit <= r.start /\ r.start + r.cnt * r.width <= Limit - 1
      BY <1>1, <1>2, HistAssumption DEF Ints, NoOverflow
    <2>2. /\ r.start + b * r.width \in Int /\ r.start <= r.start + b * r.width
          /\ r.start + b * r.width <= r.start + r.cnt * r.width
      BY <1>1, <1>2
    <2>3. QED
      BY <1>1, <1>2, <2>1, <2>2 DEF Ints
  <1>4. QED
    BY <1>3, IntKept DEF r

\* A part of the lines is a finite set.
LEMMA LinesFinite ==
    ASSUME NEW n \in Nat, NEW S \in SUBSET (1 .. n)
    PROVE  IsFiniteSet(S) /\ Cardinality(S) \in Nat
  <1>1. IsFiniteSet(1 .. n)
    BY FS_Interval
  <1>2. IsFiniteSet(S)
    BY <1>1, FS_Subset
  <1>3. QED
    BY <1>2, FS_CardinalityType

\* One line more, with its number in the interval or not.
LEMMA OneLine ==
    ASSUME NEW s, NEW b, NEW n \in Nat \ {0}
    PROVE  Cardinality(LinesTo(s, b, n)) =
             IF Inside(Numbers(s)[n], Request[item[s]], b)
             THEN Cardinality(LinesTo(s, b, n - 1)) + 1
             ELSE Cardinality(LinesTo(s, b, n - 1))
  <1>1. LinesTo(s, b, n - 1) \in SUBSET (1 .. n - 1) /\ n - 1 \in Nat
    BY DEF LinesTo
  <1>2. IsFiniteSet(LinesTo(s, b, n - 1)) /\ n \notin LinesTo(s, b, n - 1)
    <2>1. IsFiniteSet(LinesTo(s, b, n - 1))
      BY <1>1, LinesFinite
    <2>2. n \notin 1 .. n - 1
      OBVIOUS
    <2>3. QED
      BY <1>1, <2>1, <2>2
  <1>3. CASE Inside(Numbers(s)[n], Request[item[s]], b)
    <2>1. LinesTo(s, b, n) = LinesTo(s, b, n - 1) \cup {n}
      BY <1>3 DEF LinesTo
    <2>2. QED
      BY <1>2, <1>3, <2>1, FS_AddElement
  <1>4. CASE ~Inside(Numbers(s)[n], Request[item[s]], b)
    <2>1. LinesTo(s, b, n) = LinesTo(s, b, n - 1)
      BY <1>4 DEF LinesTo
    <2>2. QED
      BY <1>4, <2>1
  <1>5. QED
    BY <1>3, <1>4

\* What Typed says of a server that reads a file.
LEMMA ReadingFacts ==
    ASSUME Typed, NEW s \in Servers, server[s] \in {"count", "bins"}
    PROVE  /\ item[s] \in Clients /\ line[s] \in Nat \ {0} /\ Numbers(s) # Missing
           /\ line[s] <= Len(Numbers(s)) => Num(s) \in Ints /\ Num(s) \in Int
           /\ cntt[s] \in 1 .. Request[item[s]].cnt + 1
           /\ isVisited[s] \in BOOLEAN
           /\ server[s] = "bins" => /\ line[s] <= Len(Numbers(s))
                                    /\ InRange(Num(s), Request[item[s]])
           /\ server[s] = "count" => cntt[s] = 1
           /\ server \in [Servers -> {"none", "receive", "files", "count", "bins", "joined",
                                      "open", "send", "exited", "crashed"}]
           /\ arr \in [Servers -> Seq(Nat)] /\ line \in [Servers -> Nat]
           /\ cntt \in [Servers -> Nat] /\ isVisited \in [Servers -> BOOLEAN]
  <1>1. /\ item[s] \in Clients /\ line[s] \in Nat \ {0} /\ Numbers(s) # Missing
        /\ file[s] \in Nat \ {0} /\ file[s] <= Len(Files[s])
    BY NumbersFacts DEF Typed, HistTypeOK, StageInv, Stage, Busy, InFile
  <1>2. Numbers(s) \in Seq(Ints) /\ Len(Numbers(s)) \in Nat
    BY <1>1, NumbersFacts
  <1>3. line[s] <= Len(Numbers(s)) => Num(s) \in Ints /\ Num(s) \in Int
    <2>1. ASSUME line[s] <= Len(Numbers(s)) PROVE Num(s) \in Ints
      BY <1>1, <1>2, <2>1, ElementOfSeq DEF Num
    <2>2. \A v \in Ints : v \in Int
      BY HistAssumption DEF Ints
    <2>3. QED
      BY <2>1, <2>2
  <1>4. cntt[s] \in 1 .. Request[item[s]].cnt + 1
    BY <1>1, HistAssumption, RequestFacts DEF Typed, HistTypeOK, StageInv, Stage
  <1>5. QED
    BY <1>1, <1>3, <1>4 DEF Typed, HistTypeOK, StageInv, Stage

\* A number out of range is counted nowhere; one in range has its intervals
\* still before it.
LEMMA LineCounted ==
    ASSUME Typed, NEW s \in Servers, Counted(s), CountLine(s)
    PROVE  Counted(s)'
  <1> SUFFICES ASSUME NoOverflow(Request[item[s]]) PROVE Counted(s)'
    BY DEF Counted, CountLine
  <1> DEFINE r == Request[item[s]]
             n == line[s]
  <1>1. /\ server[s] = "count" /\ n <= Len(Numbers(s))
        /\ UNCHANGED <<item, file, arr, cntt>>
    BY DEF CountLine
  <1>2. /\ item[s] \in Clients /\ n \in Nat \ {0} /\ Num(s) \in Ints /\ Num(s) \in Int
        /\ cntt[s] = 1 /\ Numbers(s) # Missing
    BY <1>1, ReadingFacts
  <1>3. arr[s] = [b \in 1 .. r.cnt |-> Cardinality(LinesTo(s, b, n - 1))]
    BY <1>1, <1>2 DEF Counted, InFile, Done
  <1>4. Numbers(s)' = Numbers(s) /\ \A b, k : LinesTo(s, b, k)' = LinesTo(s, b, k)
    BY <1>1 DEF Numbers, LinesTo
  <1>5. CASE InRange(Num(s), r)
    <2>1. /\ server'[s] = "bins" /\ isVisited'[s] = FALSE /\ line' = line
      BY <1>1, <1>5, ReadingFacts DEF CountLine
    <2>2. Num(s)' = Num(s) /\ Done(s)' = n - 1
      BY <1>1, <1>4, <2>1 DEF Num, Done
    <2>3. r.start + (cntt[s] - 1) * r.width <= Num(s)
      BY <1>2, <1>5, RequestFacts DEF InRange
    <2>4. QED
      BY <1>1, <1>3, <1>4, <2>1, <2>2, <2>3 DEF Counted
  <1>6. CASE ~InRange(Num(s), r)
    <2>1. /\ server'[s] = "count" /\ line'[s] = n + 1
      BY <1>1, <1>6, ReadingFacts DEF CountLine
    <2>2. Done(s)' = n
      BY <1>2, <2>1 DEF Done
    <2>3. ASSUME NEW b \in 1 .. r.cnt
          PROVE  Cardinality(LinesTo(s, b, n)) = Cardinality(LinesTo(s, b, n - 1))
      <3>1. ~Inside(Num(s), r, b)
        BY <1>2, <1>6, InsideFacts
      <3>2. QED
        BY <1>2, <3>1, OneLine DEF Num
    <2>4. QED
      BY <1>1, <1>3, <1>4, <2>1, <2>2, <2>3 DEF Counted
  <1>7. QED
    BY <1>5, <1>6

\* A step of the search counts the number in its interval, or passes over an
\* interval that does not contain it.
LEMMA BinCounted ==
    ASSUME Typed, NEW s \in Servers, Counted(s), BinStep(s)
    PROVE  Counted(s)'
  <1> SUFFICES ASSUME NoOverflow(Request[item[s]]) PROVE Counted(s)'
    BY DEF Counted, BinStep
  <1> DEFINE r == Request[item[s]]
             n == line[s]
             c == cntt[s]
  <1>1. /\ server[s] = "bins" /\ c <= r.cnt
        /\ UNCHANGED <<item, file, server, line>>
    BY DEF BinStep, BinsLeft
  <1>2. /\ item[s] \in Clients /\ n \in Nat \ {0} /\ Num(s) \in Ints /\ Num(s) \in Int
        /\ c \in 1 .. r.cnt /\ Numbers(s) # Missing /\ isVisited[s] \in BOOLEAN
        /\ InRange(Num(s), r) /\ r.start \in Int /\ r.width \in Nat /\ r.cnt \in Nat
    BY <1>1, ReadingFacts, RequestFacts
  <1>3. /\ arr[s] = [b \in 1 .. r.cnt |-> Cardinality(LinesTo(s, b, Done(s)))]
        /\ ~isVisited[s] => r.start + (c - 1) * r.width <= Num(s)
    BY <1>1, <1>2 DEF Counted, InFile
  <1>4. /\ Numbers(s)' = Numbers(s) /\ Num(s)' = Num(s)
        /\ \A b, k : LinesTo(s, b, k)' = LinesTo(s, b, k)
    BY <1>1 DEF Numbers, LinesTo, Num
  <1>5. Int32(r.start + c * r.width) = r.start + c * r.width
    BY <1>2, EndsAreInts
  <1>6. CASE CountHere(s)
    <2>1. /\ arr' = [arr EXCEPT ![s][c] = @ + 1] /\ isVisited'[s]
          /\ ~isVisited[s] /\ Num(s) < r.start + c * r.width
      BY <1>1, <1>5, <1>6, ReadingFacts DEF BinStep, CountHere
    <2>2. Done(s) = n - 1 /\ Done(s)' = n
      BY <1>1, <2>1 DEF Done
    <2>3. Inside(Num(s), r, c)
      BY <1>2, <1>3, <2>1 DEF Inside, InRange
    <2>4. ASSUME NEW b \in 1 .. r.cnt
          PROVE  Cardinality(LinesTo(s, b, n)) =
                   IF b = c THEN Cardinality(LinesTo(s, b, n - 1)) + 1
                   ELSE Cardinality(LinesTo(s, b, n - 1))
      <3>1. Inside(Num(s), r, b) <=> b = c
        BY <1>2, <2>3, InsideFacts
      <3>2. QED
        BY <1>2, <3>1, OneLine DEF Num
    <2>5. arr'[s] = [arr[s] EXCEPT ![c] = @ + 1]
      BY <1>1, <2>1, ReadingFacts
    <2>6. arr'[s] = [b \in 1 .. r.cnt |-> Cardinality(LinesTo(s, b, n))]
      <3> HIDE DEF r, n, c
      <3>1. arr'[s] = [b \in 1 .. r.cnt |->
                          IF b = c THEN Cardinality(LinesTo(s, b, n - 1)) + 1
                          ELSE Cardinality(LinesTo(s, b, n - 1))]
        BY <1>2, <1>3, <2>2, <2>5
      <3>2. QED
        BY <2>4, <3>1
    <2>7. arr'[s] = [b \in 1 .. r.cnt |-> Cardinality(LinesTo(s, b, Done(s))')]
      BY <1>4, <2>2, <2>6
    <2>8. item' = item /\ isVisited'[s]
      BY <1>1, <2>1
    <2>9. QED
      BY <2>7, <2>8 DEF Counted
  <1>7. CASE ~CountHere(s)
    <2>1. /\ UNCHANGED <<arr, isVisited>> /\ cntt'[s] = c + 1
      BY <1>1, <1>7, ReadingFacts DEF BinStep
    <2>2. Done(s)' = Done(s)
      BY <1>1, <2>1 DEF Done
    <2>3. ~isVisited[s] => r.start + c * r.width <= Num(s)
      BY <1>2, <1>5, <1>7 DEF CountHere
    <2>4. c + 1 - 1 = c
      BY <1>2
    <2>5. arr'[s] = [b \in 1 .. r.cnt |-> Cardinality(LinesTo(s, b, Done(s))')]
      <3>1. PICK k : k = Done(s)
        OBVIOUS
      <3>2. \A b : LinesTo(s, b, Done(s)) = LinesTo(s, b, k)
        BY <3>1
      <3>3. \A b : LinesTo(s, b, Done(s))' = LinesTo(s, b, k)'
        BY <2>2, <3>1 DEF LinesTo
      <3>4. \A b : LinesTo(s, b, Done(s))' = LinesTo(s, b, Done(s))
        BY <1>4, <3>2, <3>3
      <3>5. QED
        BY <1>3, <2>1, <3>4
    <2>6. /\ item' = item /\ isVisited'[s] = isVisited[s] /\ cntt'[s] - 1 = c
      BY <1>1, <1>2, <2>1, <2>4
    <2>7. ~isVisited'[s] => r.start + (cntt'[s] - 1) * r.width <= Num(s)'
      BY <1>4, <2>3, <2>6
    <2>8. QED
      BY <2>5, <2>6, <2>7 DEF Counted
  <1>8. QED
    BY <1>6, <1>7

\* Past the last interval the number has been counted, as it is below the end.
LEMMA LineDone ==
    ASSUME Typed, NEW s \in Servers, Counted(s), BinsEnd(s)
    PROVE  Counted(s)'
  <1> SUFFICES ASSUME NoOverflow(Request[item[s]]) PROVE Counted(s)'
    BY DEF Counted, BinsEnd
  <1> DEFINE r == Request[item[s]]
             n == line[s]
  <1>1. /\ server[s] = "bins" /\ ~(cntt[s] <= r.cnt)
        /\ UNCHANGED <<item, file, arr>>
    BY DEF BinsEnd, BinsLeft
  <1>2. /\ item[s] \in Clients /\ n \in Nat \ {0} /\ Num(s) \in Int
        /\ cntt[s] \in 1 .. r.cnt + 1 /\ Numbers(s) # Missing /\ isVisited[s] \in BOOLEAN
        /\ InRange(Num(s), r) /\ r.start \in Int /\ r.width \in Nat /\ r.cnt \in Nat
    BY <1>1, ReadingFacts, RequestFacts
  <1>3. cntt[s] = r.cnt + 1
    BY <1>1, <1>2
  <1>4. /\ arr[s] = [b \in 1 .. r.cnt |-> Cardinality(LinesTo(s, b, Done(s)))]
        /\ ~isVisited[s] => r.start + (cntt[s] - 1) * r.width <= Num(s)
    BY <1>1, <1>2 DEF Counted, InFile
  <1>5. isVisited[s]
    <2>1. Num(s) < r.start + r.width * r.cnt
      BY <1>2, IntKept DEF InRange, NoOverflow
    <2>2. (cntt[s] - 1) * r.width = r.width * r.cnt
      BY <1>2, <1>3
    <2>3. r.width * r.cnt \in Int
      BY <1>2
    <2>4. QED
      BY <1>2, <1>4, <2>1, <2>2, <2>3
  <1>6. /\ server'[s] = "count" /\ line'[s] = n + 1
    BY <1>1, ReadingFacts DEF BinsEnd
  <1>7. Done(s)' = n /\ Done(s) = n
    BY <1>1, <1>2, <1>5, <1>6 DEF Done
  <1>8. Numbers(s)' = Numbers(s) /\ \A b, k : LinesTo(s, b, k)' = LinesTo(s, b, k)
    BY <1>1 DEF Numbers, LinesTo
  <1>9. QED
    BY <1>1, <1>4, <1>6, <1>7, <1>8 DEF Counted

\* A server whose locals do not change, and one that is at a label where no
\* counts are kept, has the counts it has to have.
LEMMA CountedKept ==
    ASSUME NEW u \in Servers, Counted(u),
           Frame(u)' = Frame(u) \/ server'[u] \notin InFile
    PROVE  Counted(u)'
  BY DEF Frame, Counted, Numbers, LinesTo, Done, Num

\* The steps of a server keep the counts.
LEMMA ServerCounted ==
    ASSUME Typed, NEW s \in Servers, Counted(s), ServerStart(s) \/ ServerStep(s)
    PROVE  Counted(s)'
  <1>1. /\ file \in [Servers -> Nat] /\ arr \in [Servers -> Seq(Nat)]
        /\ line \in [Servers -> Nat]
        /\ server \in [Servers -> {"none", "receive", "files", "count", "bins", "joined",
                                  "open", "send", "exited", "crashed"}]
    BY DEF Typed, HistTypeOK, StageInv
  <1>2. CASE NextFile(s)
    <2>1. /\ arr'[s] = Zeros(Request[item[s]].cnt) /\ line'[s] = 1
          /\ UNCHANGED <<item, file>> /\ server'[s] \in {"count", "joined"}
      BY <1>1, <1>2 DEF NextFile
    <2>2. Done(s)' = 0
      BY <2>1 DEF Done
    <2>3. ASSUME NEW b PROVE Cardinality(LinesTo(s, b, 0)') = 0
      <3>1. LinesTo(s, b, 0)' = {}
        BY DEF LinesTo
      <3>2. QED
        BY <3>1, FS_EmptySet
    <2>4. \A b : LinesTo(s, b, Done(s))' = LinesTo(s, b, 0)'
      BY <2>2 DEF LinesTo
    <2>5. QED
      BY <2>1, <2>2, <2>3, <2>4 DEF Counted, Zeros
  <1>3. CASE CountLine(s) \/ BinStep(s) \/ BinsEnd(s)
    BY <1>3, LineCounted, BinCounted, LineDone
  <1>4. CASE CountEnd(s)
    <2>1. /\ server[s] = "count" /\ server'[s] = "joined"
          /\ UNCHANGED <<item, file, counting>>
      BY <1>1, <1>4 DEF CountEnd
    <2>2. QED
      BY <2>1 DEF Counted, Numbers, LinesTo, Done, counting, InFile
  <1>5. CASE ServerStart(s) \/ ServerReceive(s) \/ FileJoined(s) \/ ServerSum(s)
             \/ ServerOpen(s) \/ ServerSend(s) \/ Crash(s)
    <2>1. server'[s] \notin InFile
      BY <1>1, <1>5 DEF ServerStart, ServerReceive, FileJoined, ServerSum, ServerOpen,
         ServerSend, Crash, InFile, Then
    <2>2. QED
      BY <2>1, CountedKept
  <1>6. QED
    BY <1>2, <1>3, <1>4, <1>5 DEF ServerStep
-----------------------------------------------------------------------------
(* The invariant. *)

\* At first nothing is started, and there are no messages.
LEMMA InitHist == ASSUME Init PROVE HistInv
  <1>1. HistTypeOK
    <2>1. \A s \in Servers : Len(Files[s]) \in Nat
      BY HistAssumption, LenProperties
    <2>2. \A c \in Clients : q2[c] \in Seq(Clients) /\ Len(q2[c]) = 0
      BY DEF Init
    <2>3. \A s \in Servers : file[s] \in 0 .. Len(Files[s]) + 1
      BY <2>1 DEF Init
    <2>4. /\ q1 \in Seq(Clients) /\ Len(q1) = 0 /\ MaxMsg \in Nat
          /\ \A s \in Servers : arr[s] \in Seq(Nat)
      BY HistAssumption DEF Init
    <2>5. /\ q1open \in BOOLEAN /\ name2 \in Clients \cup {None}
          /\ client \in [Clients -> {"none", "open", "send", "receive", "unlink", "done", "failed"}]
          /\ mq2 \in [Clients -> Clients \cup {None}]
          /\ received \in [Clients -> Clients \cup {None}]
      BY DEF Init
    <2>6. /\ server \in [Servers -> {"none", "receive", "files", "count", "bins", "joined", "open",
                                     "send", "exited", "crashed"}]
          /\ item \in [Servers -> Clients \cup {None}]
          /\ line \in [Servers -> Nat]
          /\ isVisited \in [Servers -> BOOLEAN]
          /\ freed \in [Servers -> BOOLEAN]
          /\ reply \in [Servers -> Clients \cup {None}]
          /\ overlapped \in BOOLEAN
      BY DEF Init
    <2>7. \A s \in Servers :
             cntt[s] \in 0 .. IF item[s] = None THEN 0 ELSE Request[item[s]].cnt + 1
      BY DEF Init
    <2>8. QED
      BY <2>2, <2>3, <2>4, <2>5, <2>6, <2>7 DEF HistTypeOK
  <1>2. StageInv
    BY DEF Init, StageInv, Stage, Busy, Opened, InFile
  <1>3. OnceInv
    <2>1. Len(q1) = 0 /\ \A c \in Clients : Len(q2[c]) = 0 /\ received[c] = None
      BY DEF Init
    <2>2. \A s \in Servers : item[s] = None
      BY DEF Init
    <2>3. NotBeforeSent
      BY <2>1, <2>2, HistAssumption DEF NotBeforeSent
    <2>4. NoneLost /\ NoReplyLost
      BY DEF Init, NoneLost, NoReplyLost, Replied
    <2>5. QED
      BY <2>1, <2>2, <2>3, <2>4 DEF OnceInv, QueueOnce, TakenOnce, RepliesServed,
         ReceivedServed, RepliesOnce, NotInQueue, ReceivedOnce
  <1>4. SerialInv
    BY DEF Init, SerialInv, OneRuns, OwnQueue, OwnReceived, RequestsWaitedFor,
       RepliesWaitedFor, Running, Waits, Busy, Opened
  <1>5. CountInv
    BY DEF Init, CountInv, Counted, InFile
  <1>6. QED
    BY <1>1, <1>2, <1>3, <1>4, <1>5 DEF HistInv

\* Every step keeps the invariant.
LEMMA StepHist == ASSUME HistInv, [Next]_vars PROVE HistInv'
  <1>0. Typed /\ OnceInv /\ SerialInv /\ \A u \in Servers : Counted(u)
    BY DEF HistInv, Typed, CountInv
  <1>1. ASSUME NEW c \in Clients, ClientStart(c) \/ ClientStep(c)
        PROVE  HistInv'
    <2>1. Typed'
      BY <1>0, <1>1, ClientTyped
    <2>2. OnceInv'
      BY <1>0, <1>1, ClientOnce
    <2>3. SerialInv'
      BY <1>0, <1>1, ClientSerial
    <2>4. ASSUME NEW u \in Servers PROVE Counted(u)'
      BY <1>0, <1>1, OthersUnchanged, CountedKept
    <2>5. CountInv'
      BY <2>4 DEF CountInv
    <2>6. QED
      BY <2>1, <2>2, <2>3, <2>5 DEF HistInv, Typed
  <1>2. ASSUME NEW s \in Servers, ServerStart(s) \/ ServerStep(s)
        PROVE  HistInv'
    <2>1. Typed'
      BY <1>0, <1>2, TypedStep DEF Next
    <2>2. OnceInv'
      BY <1>0, <1>2, ServerOnce
    <2>3. SerialInv'
      BY <1>0, <1>2, ServerSerial
    <2>4. ASSUME NEW u \in Servers PROVE Counted(u)'
      <3>1. CASE u = s
        BY <1>0, <1>2, <3>1, ServerCounted
      <3>2. CASE u # s
        BY <1>0, <1>2, <3>2, OthersUnchanged, CountedKept
      <3>3. QED
        BY <3>1, <3>2
    <2>5. CountInv'
      BY <2>4 DEF CountInv
    <2>6. QED
      BY <2>1, <2>2, <2>3, <2>5 DEF HistInv, Typed
  <1>3. CASE UNCHANGED vars
    <2>1. UNCHANGED <<q1open, q1, name2, q2>>
          /\ UNCHANGED <<client, mq2, received, overlapped>>
          /\ UNCHANGED <<server, item, file, line, arr, cntt, isVisited, freed, reply>>
      BY <1>3 DEF vars, queues, clientV, serverV, counting
    <2>2. HistTypeOK' /\ StageInv'
      BY <1>0, <2>1 DEF Typed, HistTypeOK, StageInv, Stage, Numbers, Num
    <2>3. OnceInv'
      BY <1>0, <2>1 DEF OnceInv, QueueOnce, TakenOnce, NotBeforeSent, Served,
         NoneLost, NoReplyLost, Replied, RepliesServed, ReceivedServed, RepliesOnce, NotInQueue, ReceivedOnce
    <2>4. SerialInv'
      BY <1>0, <2>1 DEF SerialInv, OneRuns, OwnQueue, OwnReceived, RequestsWaitedFor,
         RepliesWaitedFor, Running, Waits
    <2>5. \A u \in Servers : Counted(u)'
      BY <1>0, <2>1 DEF Counted, Numbers, LinesTo, Done, Num
    <2>6. QED
      BY <2>2, <2>3, <2>4, <2>5 DEF HistInv, Typed, CountInv
  <1>4. QED
    BY <1>1, <1>2, <1>3 DEF Next

\* The four strengthenings and the type invariant hold in every state that the
\* clients and servers reach.
THEOREM HistInvariance == Spec => []HistInv
  <1>1. Init => HistInv
    BY InitHist
  <1>2. HistInv /\ [Next]_vars => HistInv'
    BY StepHist
  <1>3. QED
    BY <1>1, <1>2, PTL DEF Spec

\* The variables keep their types, and no queue takes more messages than it
\* may hold.
THEOREM HistTypes == Spec => []HistTypeOK
  <1>1. HistInv => HistTypeOK
    BY DEF HistInv
  <1>2. QED
    BY <1>1, HistInvariance, PTL

\* While clients run one after the other, each receives the reply to its own
\* request (histclient_th.c:40-67) and leaves none behind.
THEOREM HistOwnReply == Spec => []OwnReply
  <1>1. HistInv => OwnReply
    <2> SUFFICES ASSUME HistInv, ~overlapped
                 PROVE  /\ \A c \in Clients : client[c] \in {"unlink", "done"} => received[c] = c
                        /\ \A c \in Clients : client[c] = "done" => q2[mq2[c]] = << >>
      BY DEF OwnReply
    <2>1. OwnQueue /\ OwnReceived /\ RepliesWaitedFor
      BY DEF HistInv, SerialInv
    <2>2. ASSUME NEW c \in Clients, client[c] = "done" PROVE q2[mq2[c]] = << >>
      <3>1. mq2[c] = c
        BY <2>1, <2>2 DEF OwnQueue, Opened
      <3>2. q2[c] \in Seq(Clients) /\ Len(q2[c]) \in Nat
        BY DEF HistInv, StageInv
      <3>3. 1 \notin 1 .. Len(q2[c])
        BY <2>1, <2>2 DEF RepliesWaitedFor, Waits
      <3>4. q2[c] = << >>
        BY <3>2, <3>3, EmptySeq
      <3>5. QED
        BY <3>1, <3>4
    <2>3. QED
      BY <2>1, <2>2 DEF OwnReceived
  <1>2. QED
    BY <1>1, HistInvariance, PTL

\* The counts of a file are those of the intervals of the request, whatever
\* the numbers in it, for every request whose last end is an int
\* (histserver_th.c:167-194).
THEOREM HistCounts == Spec => []CountsExact
  <1>1. HistInv => CountsExact
    <2> SUFFICES ASSUME HistInv, NEW s \in Servers, Reading(s)
                 PROVE  arr[s] = [b \in 1 .. Request[item[s]].cnt |->
                            Cardinality({l \in LinesIn(s, b) :
                                Numbers(s)[l] # Request[item[s]].start})]
      BY DEF CountsExact
    <2>1. /\ Counted(s) /\ server[s] \in {"count", "joined"} /\ Numbers(s) # Missing
          /\ NoOverflow(Request[item[s]])
      BY DEF HistInv, CountInv, Reading
    <2>2. /\ Done(s) = line[s] - 1
          /\ arr[s] = [b \in 1 .. Request[item[s]].cnt |->
                          Cardinality(LinesTo(s, b, Done(s)))]
      BY <2>1 DEF Counted, Done, InFile
    <2>3. \A b : LinesTo(s, b, line[s] - 1) =
                   {l \in LinesIn(s, b) : Numbers(s)[l] # Request[item[s]].start}
      BY DEF LinesTo, LinesIn, Inside
    <2>4. QED
      BY <2>2, <2>3
  <1>2. QED
    BY <1>1, HistInvariance, PTL

\* A set whose members are all the same has one at most.
LEMMA AtMostOne ==
    ASSUME NEW S, \A x, y \in S : x = y
    PROVE  Cardinality(S) = IF S = {} THEN 0 ELSE 1
  <1>1. CASE S = {}
    BY <1>1, FS_EmptySet
  <1>2. CASE S # {}
    <2>1. PICK x : x \in S
      BY <1>2
    <2>2. S = {x}
      BY <2>1
    <2>3. QED
      BY <1>2, <2>2, FS_Singleton
  <1>3. QED
    BY <1>1, <1>2

\* From when it is sent, a request is in the queue once or with one server; and
\* a reply to it is in one queue or with one client as soon as, and only if, the
\* server that had the request has replied (histserver_th.c:69-72, 133-140).
THEOREM HistOnce == Spec => []EachRequestOnce
  <1>1. HistInv => EachRequestOnce
    <2> SUFFICES ASSUME HistInv, NEW c \in Clients
                 PROVE
        LET inQueue == {k \in 1 .. Len(q1) : q1[k] = c}
            taken   == {s \in Servers : item[s] = c}
            replied == {s \in taken : server[s] = "exited" /\ reply[s] # None}
            replies == {m \in Clients \X (1 .. MaxMsg) :
                            m[2] <= Len(q2[m[1]]) /\ q2[m[1]][m[2]] = c}
            got     == {d \in Clients : received[d] = c}
        IN  /\ Cardinality(inQueue) + Cardinality(taken) =
                 IF client[c] \in {"receive", "unlink", "done"} THEN 1 ELSE 0
            /\ Cardinality(replies) + Cardinality(got) = Cardinality(replied)
      BY DEF EachRequestOnce
    <2> DEFINE inQueue == {k \in 1 .. Len(q1) : q1[k] = c}
               taken   == {s \in Servers : item[s] = c}
               replied == {s \in taken : server[s] = "exited" /\ reply[s] # None}
               replies == {m \in Clients \X (1 .. MaxMsg) :
                               m[2] <= Len(q2[m[1]]) /\ q2[m[1]][m[2]] = c}
               got     == {d \in Clients : received[d] = c}
               sent    == client[c] \in {"receive", "unlink", "done"}
    <2>0. OnceInv /\ c # None /\ HistTypeOK
      BY HistAssumption DEF HistInv
    <2>1. /\ \A x, y \in inQueue : x = y
          /\ \A x, y \in taken : x = y
          /\ inQueue = {} \/ taken = {}
      BY <2>0 DEF OnceInv, QueueOnce, TakenOnce
    <2>2. /\ sent => inQueue # {} \/ taken # {}
          /\ ~sent => inQueue = {} /\ taken = {}
      <3>1. client[c] \in {"none", "open", "send", "receive", "unlink", "done", "failed"}
        BY <2>0 DEF HistTypeOK
      <3>2. ASSUME sent PROVE inQueue # {} \/ taken # {}
        BY <2>0, <3>2 DEF OnceInv, NoneLost
      <3>3. ASSUME ~sent PROVE inQueue = {} /\ taken = {}
        BY <2>0, <3>1, <3>3 DEF OnceInv, NotBeforeSent, Unsent
      <3>4. QED
        BY <3>2, <3>3
    <2>3. \A x, y \in got : x = y
      BY <2>0 DEF OnceInv, ReceivedOnce
    <2>4. ASSUME NEW m \in replies
          PROVE  /\ m[1] \in Clients /\ m[2] \in 1 .. Len(q2[m[1]])
                 /\ m = <<m[1], m[2]>> /\ q2[m[1]][m[2]] = c
      <3>1. /\ m \in Clients \X (1 .. MaxMsg) /\ m[2] <= Len(q2[m[1]])
            /\ q2[m[1]][m[2]] = c
        BY <2>4
      <3>2. m[1] \in Clients /\ m[2] \in 1 .. MaxMsg /\ m = <<m[1], m[2]>>
        BY <3>1
      <3>3. q2[m[1]] \in Seq(Clients) /\ Len(q2[m[1]]) \in Nat
        BY <3>2 DEF HistInv, StageInv
      <3>4. QED
        BY <3>1, <3>2, <3>3, HistAssumption
    <2>5. \A x, y \in replies : x = y
      <3> SUFFICES ASSUME NEW x \in replies, NEW y \in replies PROVE x = y
        OBVIOUS
      <3>1. x[1] = y[1] /\ x[2] = y[2]
        BY <2>0, <2>4 DEF OnceInv, RepliesOnce
      <3>2. QED
        BY <2>4, <3>1
    <2>6. replies = {} \/ got = {}
      <3>1. ASSUME NEW m \in replies, NEW d \in got PROVE FALSE
        BY <2>0, <2>4, <3>1 DEF OnceInv, NotInQueue
      <3>2. QED
        BY <3>1
    <2>7. replied = {} => replies = {} /\ got = {}
      <3>1. ASSUME replied = {}, NEW m \in replies PROVE FALSE
        <4>1. Served(c)
          BY <2>0, <2>4, <3>1 DEF OnceInv, RepliesServed
        <4>2. QED
          BY <3>1, <4>1 DEF Served, Replied
      <3>2. ASSUME replied = {}, NEW d \in got PROVE FALSE
        <4>1. Served(c)
          BY <2>0, <3>2 DEF OnceInv, ReceivedServed
        <4>2. QED
          BY <3>2, <4>1 DEF Served, Replied
      <3>3. QED
        BY <3>1, <3>2
    <2>8. ASSUME NEW s \in replied PROVE replies # {} \/ got # {}
      <3>1. s \in Servers /\ Replied(s) /\ item[s] = c
        BY <2>8 DEF Replied
      <3>2. \/ \E d \in Clients : \E k \in 1 .. Len(q2[d]) : q2[d][k] = c
            \/ \E d \in Clients : received[d] = c
        BY <2>0, <3>1 DEF OnceInv, NoReplyLost
      <3>3. ASSUME NEW d \in Clients, NEW k \in 1 .. Len(q2[d]), q2[d][k] = c
            PROVE  <<d, k>> \in replies
        <4>1. Len(q2[d]) <= MaxMsg /\ Len(q2[d]) \in Nat
          BY <2>0 DEF HistTypeOK
        <4>2. k \in 1 .. MaxMsg
          BY <4>1, HistAssumption
        <4>3. QED
          BY <3>3, <4>1, <4>2
      <3>4. QED
        BY <3>2, <3>3
    <2>9. \A x, y \in replied : x = y
      BY <2>1
    <2> HIDE DEF inQueue, taken, replies, got, replied, sent
    <2>10. \A S \in {inQueue, taken, replied, replies, got} :
              Cardinality(S) = IF S = {} THEN 0 ELSE 1
      BY <2>1, <2>3, <2>5, <2>9, AtMostOne
    <2>11. Cardinality(inQueue) + Cardinality(taken) = IF sent THEN 1 ELSE 0
      BY <2>1, <2>2, <2>10
    <2>12. Cardinality(replies) + Cardinality(got) = Cardinality(replied)
      <3>1. CASE replied = {}
        BY <2>7, <2>10, <3>1
      <3>2. CASE replied # {}
        BY <2>6, <2>8, <2>10, <3>2
      <3>3. QED
        BY <3>1, <3>2
    <2>13. QED
      BY <2>11, <2>12 DEF inQueue, taken, replies, got, replied, sent
  <1>2. QED
    BY <1>1, HistInvariance, PTL
=============================================================================
