----------------------------- MODULE Sums_proof -----------------------------
(***************************************************************************)
(* Induction over an interval of the natural numbers, and the sums that    *)
(* the counters of the program are compared with.                          *)
(***************************************************************************)
EXTENDS Integers, Sequences, WellFoundedInduction, SequenceTheorems, TLAPS

(* Every nonempty set of natural numbers has a least element. *)
LEMMA LeastElement ==
  ASSUME NEW T \in SUBSET Nat, T # {}
  PROVE  \E x \in T : \A y \in T : x <= y
<1> DEFINE Less == {ss \in Nat \X Nat : ss[1] < ss[2]}
<1>1. IsWellFoundedOn(Less, Nat)
  BY NatLessThanWellFounded DEF OpToRel
<1>2. \A m, n \in Nat : <<m, n>> \in Less <=> m < n
  OBVIOUS
<1> HIDE DEF Less
<1>3. PICK x \in T : \A y \in T : ~ (<<y, x>> \in Less)
  BY <1>1, WFMin
<1>4. ASSUME NEW y \in T PROVE x <= y
  <2>1. x \in Nat /\ y \in Nat
    OBVIOUS
  <2>2. ~ (<<y, x>> \in Less)
    BY <1>3
  <2>3. ~ (y < x)
    BY <1>2, <2>1, <2>2
  <2> QED BY <2>1, <2>3
<1> QED BY <1>4

(* A set that holds 0 and, with each number below n, the next one, holds    *)
(* all numbers up to n.                                                     *)
LEMMA IntervalInduction ==
  ASSUME NEW n \in Nat, NEW T, 0 \in T, \A i \in 1 .. n : i - 1 \in T => i \in T
  PROVE  \A i \in 0 .. n : i \in T
<1> SUFFICES ASSUME {i \in 0 .. n : i \notin T} # {} PROVE FALSE
  OBVIOUS
<1> DEFINE F == {i \in 0 .. n : i \notin T}
<1>1. F \in SUBSET Nat /\ F # {}
  OBVIOUS
<1>2. PICK x \in F : \A y \in F : x <= y
  BY <1>1, LeastElement
<1>3. x \in 0 .. n /\ x \notin T /\ x # 0
  BY <1>2
<1>4. x \in 1 .. n /\ x - 1 \in 0 .. n
  BY <1>3
<1>5. x - 1 \notin F
  BY <1>2, <1>4
<1> QED BY <1>3, <1>4, <1>5

-----------------------------------------------------------------------------
(* c[1] + ... + c[n] *)
Sum(c, n) == LET sum[i \in 0 .. n] == IF i = 0 THEN 0 ELSE sum[i - 1] + c[i]
             IN sum[n]

IsSums(g, c, n) == g = [i \in 0 .. n |-> IF i = 0 THEN 0 ELSE g[i - 1] + c[i]]

(* There are partial sums. *)
LEMMA SumsExist ==
  ASSUME NEW n \in Nat, NEW c
  PROVE  \E g : IsSums(g, c, n)
<1> DEFINE T == {k \in 0 .. n : \E g : IsSums(g, c, k)}
<1>1. 0 \in T
  <2>1. IsSums([i \in 0 .. 0 |-> 0], c, 0)
    BY DEF IsSums
  <2> QED BY <2>1
<1>2. ASSUME NEW k \in 1 .. n, k - 1 \in T
      PROVE  k \in T
  <2>1. PICK g : IsSums(g, c, k - 1)
    BY <1>2
  <2> DEFINE h == [i \in 0 .. k |-> IF i = k THEN g[k - 1] + c[k] ELSE g[i]]
  <2>2. \A i \in 0 .. k : i = k \/ i \in 0 .. k - 1
    OBVIOUS
  <2>3. \A i \in 0 .. k - 1 : h[i] = g[i] /\ g[i] = IF i = 0 THEN 0 ELSE g[i - 1] + c[i]
    BY <2>1 DEF IsSums
  <2>4. h[k] = h[k - 1] + c[k]
    BY <2>3
  <2>5. \A i \in 0 .. k : h[i] = IF i = 0 THEN 0 ELSE h[i - 1] + c[i]
    BY <2>2, <2>3, <2>4
  <2>6. IsSums(h, c, k)
    <3>1. h = [i \in 0 .. k |-> h[i]]
      OBVIOUS
    <3> HIDE DEF h
    <3> QED BY <2>5, <3>1 DEF IsSums
  <2> QED BY <2>6
<1> HIDE DEF T
<1>3. n \in T
  BY <1>1, <1>2, IntervalInduction
<1> QED BY <1>3 DEF T

(* Sum is the last partial sum. *)
LEMMA SumIsLast ==
  ASSUME NEW n \in Nat, NEW c
  PROVE  \E g : IsSums(g, c, n) /\ Sum(c, n) = g[n]
  BY SumsExist DEF Sum, IsSums

(* Partial sums are what their terms make them. *)
LEMMA SumsAgree ==
  ASSUME NEW n \in Nat, NEW c, NEW m \in 0 .. n, NEW d, \A i \in 1 .. m : c[i] = d[i],
         NEW g, IsSums(g, c, n), NEW h, IsSums(h, d, m)
  PROVE  g[m] = h[m]
<1> DEFINE T == {i \in 0 .. m : g[i] = h[i]}
<1>1. 0 \in T
  BY DEF IsSums
<1>2. ASSUME NEW i \in 1 .. m, i - 1 \in T
      PROVE  i \in T
  <2>1. g[i] = g[i - 1] + c[i] /\ h[i] = h[i - 1] + d[i]
    BY DEF IsSums
  <2> QED BY <2>1, <1>2
<1> HIDE DEF T
<1>3. m \in T
  BY <1>1, <1>2, IntervalInduction
<1> QED BY <1>3 DEF T

LEMMA SumEqual ==
  ASSUME NEW n \in Nat, NEW c, NEW d, \A i \in 1 .. n : c[i] = d[i]
  PROVE  Sum(c, n) = Sum(d, n)
<1>1. PICK g : IsSums(g, c, n) /\ Sum(c, n) = g[n]
  BY SumIsLast
<1>2. PICK h : IsSums(h, d, n) /\ Sum(d, n) = h[n]
  BY SumIsLast
<1> QED BY <1>1, <1>2, SumsAgree

(* So are the sums. *)
LEMMA SumUnique ==
  ASSUME NEW n \in Nat, NEW c, NEW g, IsSums(g, c, n)
  PROVE  Sum(c, n) = g[n]
<1>1. PICK h : IsSums(h, c, n) /\ Sum(c, n) = h[n]
  BY SumIsLast
<1> DEFINE T == {i \in 0 .. n : g[i] = h[i]}
<1>2. 0 \in T
  BY <1>1 DEF IsSums
<1>3. ASSUME NEW i \in 1 .. n, i - 1 \in T
      PROVE  i \in T
  <2>1. g[i] = g[i - 1] + c[i] /\ h[i] = h[i - 1] + c[i]
    BY <1>1 DEF IsSums
  <2> QED BY <2>1, <1>3
<1> HIDE DEF T
<1>4. n \in T
  BY <1>2, <1>3, IntervalInduction
<1> QED BY <1>1, <1>4 DEF T

LEMMA SumZero == \A c : Sum(c, 0) = 0
<1> TAKE c
<1>1. PICK g : IsSums(g, c, 0) /\ Sum(c, 0) = g[0]
  BY SumIsLast
<1> QED BY <1>1 DEF IsSums

(* The last term comes on top of the others. *)
LEMMA SumStep ==
  ASSUME NEW n \in Nat, n > 0, NEW c
  PROVE  Sum(c, n) = Sum(c, n - 1) + c[n]
<1>1. PICK g : IsSums(g, c, n) /\ Sum(c, n) = g[n]
  BY SumIsLast
<1>2. PICK h : IsSums(h, c, n - 1) /\ Sum(c, n - 1) = h[n - 1]
  BY SumIsLast
<1>3. g[n - 1] = h[n - 1]
  <2> DEFINE m == n - 1
  <2>1. m \in 0 .. n /\ IsSums(h, c, m) /\ \A i \in 1 .. m : c[i] = c[i]
    BY <1>2
  <2> HIDE DEF m
  <2>2. g[m] = h[m]
    BY <2>1, <1>1, SumsAgree
  <2> QED BY <2>2 DEF m
<1> QED BY <1>1, <1>2, <1>3 DEF IsSums

(* Sums of natural numbers *)
LEMMA SumType ==
  ASSUME NEW n \in Nat, NEW c, \A i \in 1 .. n : c[i] \in Nat
  PROVE  \A k \in 0 .. n : Sum(c, k) \in Nat
<1> DEFINE T == {k \in 0 .. n : Sum(c, k) \in Nat}
<1>1. 0 \in T
  BY SumZero
<1>2. ASSUME NEW k \in 1 .. n, k - 1 \in T
      PROVE  k \in T
  <2>1. Sum(c, k) = Sum(c, k - 1) + c[k]
    BY SumStep
  <2> QED BY <2>1, <1>2
<1> HIDE DEF T
<1>3. \A k \in 0 .. n : k \in T
  BY <1>1, <1>2, IntervalInduction
<1> QED BY <1>3 DEF T

(* A term that changes changes the sum by as much. *)
LEMMA SumChange ==
  ASSUME NEW n \in Nat, NEW c, NEW d, NEW p \in 1 .. n,
         \A i \in 1 .. n : c[i] \in Nat /\ d[i] \in Nat,
         \A i \in 1 .. n : i # p => c[i] = d[i]
  PROVE  Sum(d, n) = Sum(c, n) + d[p] - c[p]
<1> DEFINE T == {k \in 0 .. n : Sum(d, k) = IF k < p THEN Sum(c, k) ELSE Sum(c, k) + d[p] - c[p]}
<1>1. \A k \in 0 .. n : Sum(c, k) \in Nat /\ Sum(d, k) \in Nat
  BY SumType
<1>2. 0 \in T
  BY SumZero
<1>3. ASSUME NEW k \in 1 .. n, k - 1 \in T
      PROVE  k \in T
  <2>1. Sum(c, k) = Sum(c, k - 1) + c[k] /\ Sum(d, k) = Sum(d, k - 1) + d[k]
    BY SumStep
  <2>2. Sum(c, k - 1) \in Nat /\ Sum(d, k - 1) \in Nat /\ c[k] \in Nat /\ d[k] \in Nat
        /\ c[p] \in Nat /\ d[p] \in Nat
    BY <1>1
  <2>3. CASE k < p
    BY <1>3, <2>1, <2>2, <2>3
  <2>4. CASE k = p
    BY <1>3, <2>1, <2>2, <2>4
  <2>5. CASE k > p
    BY <1>3, <2>1, <2>2, <2>5
  <2> QED BY <2>3, <2>4, <2>5
<1> HIDE DEF T
<1>4. n \in T
  BY <1>2, <1>3, IntervalInduction
<1> QED BY <1>4 DEF T

(* The first term may be taken off first. *)
LEMMA SumShift ==
  ASSUME NEW n \in Nat, n > 0, NEW c, NEW d, \A i \in 1 .. n : c[i] \in Nat,
         \A i \in 1 .. n - 1 : d[i] = c[i + 1]
  PROVE  Sum(c, n) = c[1] + Sum(d, n - 1)
<1> DEFINE T == {k \in 0 .. n - 1 : Sum(c, k + 1) = c[1] + Sum(d, k)}
<1>1. 0 \in T
  <2>1. Sum(c, 1) = Sum(c, 0) + c[1] /\ Sum(c, 0) = 0 /\ Sum(d, 0) = 0
    BY SumStep, SumZero
  <2> QED BY <2>1
<1>2. ASSUME NEW k \in 1 .. n - 1, k - 1 \in T
      PROVE  k \in T
  <2>1. Sum(c, k + 1) = Sum(c, k) + c[k + 1]
    <3>1. k + 1 \in Nat /\ k + 1 > 0 /\ (k + 1) - 1 = k
      OBVIOUS
    <3> QED BY <3>1, SumStep
  <2>2. Sum(d, k) = Sum(d, k - 1) + d[k]
    BY SumStep
  <2>3. Sum(c, k) = c[1] + Sum(d, k - 1)
    BY <1>2
  <2>4. Sum(d, k - 1) \in Nat /\ d[k] = c[k + 1] /\ c[k + 1] \in Nat /\ c[1] \in Nat
    <3>1. \A i \in 1 .. n - 1 : d[i] \in Nat
      OBVIOUS
    <3> QED BY <3>1, SumType
  <2> QED BY <2>1, <2>2, <2>3, <2>4
<1> HIDE DEF T
<1>3. n - 1 \in T
  BY <1>1, <1>2, IntervalInduction
<1> QED BY <1>3 DEF T
=============================================================================
