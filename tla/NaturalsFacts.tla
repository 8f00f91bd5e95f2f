------------------------------ MODULE NaturalsFacts ----------------------------
(***************************************************************************)
(* Induction over the natural numbers for sets: what the proofs about      *)
(* recursive functions and searches of the models rest on.                 *)
(***************************************************************************)
EXTENDS Integers, WellFoundedInduction, NaturalsInduction, TLAPS

\* Every set of numbers that is not empty has a least one.
LEMMA LeastNumber ==
    ASSUME NEW T \in SUBSET Nat, T # {}
    PROVE  \E x \in T : \A y \in T : x <= y
<1>1. IsWellFoundedOn(OpToRel(<, Nat), Nat)
    BY NatLessThanWellFounded, Zenon
<1>2. PICK x \in T : \A y \in T : ~(<<y, x>> \in OpToRel(<, Nat))
    BY <1>1, WFMin, Zenon
<1>3. \A y \in T : y < x => <<y, x>> \in OpToRel(<, Nat)
    BY DEF OpToRel
<1>4. \A y \in T : ~(y < x)
    BY <1>2, <1>3, Zenon
<1>5. x \in Nat /\ \A y \in T : y \in Nat
    OBVIOUS
<1>6. \A y \in T : x <= y
    BY <1>4, <1>5
<1> QED
    BY <1>6

\* A set that holds 0 and with each number the next one holds all of them.
LEMMA SetInduction ==
    ASSUME NEW P, 0 \in P, \A n \in Nat : n \in P => n + 1 \in P
    PROVE  Nat \subseteq P
<1> SUFFICES ASSUME Nat \ P # {} PROVE FALSE
    OBVIOUS
<1>1. PICK x \in Nat \ P : \A y \in Nat \ P : x <= y
    BY LeastNumber
<1>2. x - 1 \in Nat /\ x - 1 \in P
    BY <1>1
<1> QED
    BY <1>1, <1>2

\* The function of a first value and of what step n makes of the value before it.
Stepwise(v, N, step) ==
    CHOOSE f : f = [n \in 0 .. N |-> IF n = 0 THEN v ELSE step[n][f[n - 1]]]

\* Such a function exists when the steps stay in a set: what a recursive definition
\* over 0 .. N computes can be unfolded.
LEMMA StepwiseFunction ==
    ASSUME NEW V, NEW v \in V, NEW N \in Nat, NEW step \in [1 .. N -> [V -> V]]
    PROVE  /\ Stepwise(v, N, step) \in [0 .. N -> V]
           /\ Stepwise(v, N, step)[0] = v
           /\ \A n \in 1 .. N : Stepwise(v, N, step)[n] = step[n][Stepwise(v, N, step)[n - 1]]
<1> DEFINE Is(f) == f = [n \in 0 .. N |-> IF n = 0 THEN v ELSE step[n][f[n - 1]]]
           s == Stepwise(v, N, step)
           Reaches(f, k) == /\ f \in [0 .. k -> V] /\ f[0] = v
                            /\ \A n \in 1 .. k : f[n] = step[n][f[n - 1]]
           P == {k \in Nat : k <= N => \E f : Reaches(f, k)}
           Typed == {k \in Nat : k <= N => s[k] \in V}
<1>1. 0 \in P
    <2>1. Reaches([n \in 0 .. 0 |-> v], 0)
        OBVIOUS
    <2> HIDE DEF Reaches
    <2> QED
        BY <2>1
<1>2. ASSUME NEW k \in Nat, k \in P PROVE k + 1 \in P
    <2> SUFFICES ASSUME k + 1 <= N PROVE \E f : Reaches(f, k + 1)
        OBVIOUS
    <2>1. PICK g : Reaches(g, k)
        BY <1>2
    <2> DEFINE h == [n \in 0 .. k + 1 |-> IF n <= k THEN g[n] ELSE step[k + 1][g[k]]]
    <2>2. step[k + 1][g[k]] \in V
        BY <2>1
    <2>3. h \in [0 .. k + 1 -> V] /\ h[0] = v
        BY <2>1, <2>2
    <2>4. ASSUME NEW n \in 1 .. k + 1 PROVE h[n] = step[n][h[n - 1]]
        <3>1. CASE n <= k
            BY <2>1, <2>4, <3>1
        <3>2. CASE n = k + 1
            BY <3>2
        <3> QED
            BY <3>1, <3>2
    <2> HIDE DEF h
    <2>5. Reaches(h, k + 1)
        BY <2>3, <2>4
    <2> HIDE DEF Reaches
    <2> QED
        BY <2>5
<1>3. PICK f : Reaches(f, N)
    <2> HIDE DEF P, Reaches
    <2>1. N \in P
        BY <1>1, <1>2, SetInduction
    <2> QED
        BY <2>1 DEF P
<1>4. Is(f)
    BY <1>3
<1>5. Is(s)
    <2> HIDE DEF Is
    <2>1. s = CHOOSE g : Is(g)
        BY DEF Stepwise, Is
    <2> QED
        BY <1>4, <2>1
<1> HIDE DEF s
<1>6. /\ DOMAIN s = 0 .. N /\ s = [n \in 0 .. N |-> s[n]] /\ s[0] = v
      /\ \A n \in 1 .. N : s[n] = step[n][s[n - 1]]
    BY <1>5
<1>7. 0 \in Typed
    BY <1>6
<1>8. ASSUME NEW k \in Nat, k \in Typed PROVE k + 1 \in Typed
    <2> SUFFICES ASSUME k + 1 <= N PROVE s[k + 1] \in V
        OBVIOUS
    <2>1. k + 1 \in 1 .. N /\ s[k] \in V /\ s[k + 1] = step[k + 1][s[k]]
        BY <1>6, <1>8
    <2> QED
        BY <2>1
<1> HIDE DEF Typed
<1>9. Nat \subseteq Typed
    BY <1>7, <1>8, SetInduction
<1>10. \A n \in 0 .. N : s[n] \in V
    BY <1>9 DEF Typed
<1> QED
    BY <1>6, <1>10 DEF s
=============================================================================
