--------------------------- MODULE DataInduction ---------------------------
(***************************************************************************)
(* Induction over the natural numbers for sets instead of predicates: the  *)
(* theorems of NaturalsInduction have an operator for a parameter, which   *)
(* the provers at hand cannot instantiate, while a set they can.           *)
(***************************************************************************)
EXTENDS Integers, FiniteSetTheorems, TLAPS

\* A set that has 0 and the successor of each of its numbers has all of them:
\* the numbers of Q below one that it lacks would have a one-to-one map to
\* fewer of them.
LEMMA NatSetInduction ==
    ASSUME NEW Q, 0 \in Q, \A n \in Nat : n \in Q => n + 1 \in Q
    PROVE  \A n \in Nat : n \in Q
  <1> SUFFICES ASSUME NEW k \in Nat, k \notin Q PROVE FALSE
    OBVIOUS
  <1> DEFINE S == Q \cap (0 .. k)
             next == [n \in S |-> n + 1]
  <1>1. IsFiniteSet(S)
    <2>1. IsFiniteSet(0 .. k)
      BY FS_Interval
    <2>2. QED
      BY <2>1, FS_Subset
  <1>2. 0 \in S
    OBVIOUS
  <1>3. /\ Cardinality(S) \in Nat
        /\ IsFiniteSet(S \ {0})
        /\ Cardinality(S \ {0}) = Cardinality(S) - 1
    BY <1>1, <1>2, FS_RemoveElement, FS_CardinalityType
  <1>4. next \in [S -> S \ {0}]
    OBVIOUS
  <1>5. PICK m, n \in S : m # n /\ next[m] = next[n]
    <2> HIDE DEF next, S
    <2>1. Cardinality(S \ {0}) < Cardinality(S)
      BY <1>3
    <2>2. QED
      BY <1>1, <1>3, <1>4, <2>1, FS_PigeonHole
  <1>6. QED
    BY <1>5
=============================================================================
