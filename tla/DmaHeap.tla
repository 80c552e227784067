------------------------------ MODULE DmaHeap ------------------------------
(***************************************************************************)
(* What the allocator of src/Project3/dma.c promises to a multi-threaded   *)
(* application: dma_alloc and dma_free take effect atomically somewhere    *)
(* between call and return, an allocation gets the first place where the   *)
(* rounded request fits, and NULL comes back only when there is no place.  *)
(* There is no bitmap, no lock and no scan here.                           *)
(***************************************************************************)
EXTENDS DmaLayout, FiniteSets

CONSTANTS Threads, Requests

VARIABLES
    op,     \* what each thread is doing inside the library
    owned   \* the blocks the application holds

vars == <<op, owned>>

NoBlock == [start |-> Null, len |-> 0]

Idle       == [kind |-> "idle", size |-> 0, block |-> NoBlock]
Asking(n)  == [kind |-> "asking", size |-> n, block |-> NoBlock]
Granted(b) == [kind |-> "granted", size |-> 0, block |-> b]
Refused    == [kind |-> "refused", size |-> 0, block |-> NoBlock]
Freeing(b) == [kind |-> "freeing", size |-> 0, block |-> b]

\* The units that the application, or a call in progress, still occupies.
Used == UNION {b.start .. (b.start + b.len - 1) :
                  b \in owned \cup {op[t].block : t \in Threads}}

\* Where a block for a request can start.
Fits(size) ==
    IF TooLarge(size) \/ size = 0 THEN {}
    ELSE {s \in First .. LastUnit :
             /\ 16 * s + AllocSize(size) <= 16 * LastUnit
             /\ \A u \in s .. LastUnit :
                    16 * (u - s) < AllocSize(size) => u \notin Used}

Call(t) ==
    /\ op[t] = Idle
    /\ \E n \in Requests : op' = [op EXCEPT ![t] = Asking(n)]
    /\ UNCHANGED owned

Grant(t) ==
    /\ op[t].kind = "asking"
    /\ \E s \in Fits(op[t].size) :
          /\ \A r \in Fits(op[t].size) : s <= r
          /\ op' = [op EXCEPT ![t] =
                      Granted([start |-> s,
                               len   |-> AllocSize(op[t].size) \div 16])]
    /\ UNCHANGED owned

Refuse(t) ==
    /\ op[t].kind = "asking"
    /\ Fits(op[t].size) = {}
    /\ op' = [op EXCEPT ![t] = Refused]
    /\ UNCHANGED owned

Return(t) ==
    \/ /\ op[t].kind = "granted"
       /\ op' = [op EXCEPT ![t] = Idle]
       /\ owned' = owned \cup {op[t].block}
    \/ /\ op[t].kind = "refused"
       /\ op' = [op EXCEPT ![t] = Idle]
       /\ UNCHANGED owned

\* The application gives a block back, or passes NULL.
Release(t) ==
    /\ op[t] = Idle
    /\ \E b \in owned \cup {NoBlock} :
          /\ op' = [op EXCEPT ![t] = Freeing(b)]
          /\ owned' = owned \ {b}

Reclaim(t) ==
    /\ op[t].kind = "freeing"
    /\ op' = [op EXCEPT ![t] = Idle]
    /\ UNCHANGED owned

Init ==
    /\ op = [t \in Threads |-> Idle]
    /\ owned = {}

Next == \E t \in Threads :
            \/ Call(t) \/ Grant(t) \/ Refuse(t) \/ Return(t)
            \/ Release(t) \/ Reclaim(t)

Spec == Init /\ [][Next]_vars
=============================================================================
