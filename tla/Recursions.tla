------------------------------- MODULE Recursions -------------------------------
(***************************************************************************)
(* Induction and recursion up to a number, for proofs: properties are sets *)
(* and step functions are functions, so that facts about all of them can   *)
(* be stated.                                                              *)
(***************************************************************************)
EXTENDS Integers, FiniteSetTheorems, WellFoundedInduction, TLAPS

\* Every nonempty set of numbers has a least one.
LEMMA LeastNat ==
    ASSUME NEW S \in SUBSET Nat, S # {}
    PROVE  \E n \in S : \A m \in S : n <= m
<1> DEFINE R == {ss \in Nat \X Nat : ss[1] < ss[2]}
<1>1. IsWellFoundedOn(R, Nat)
  BY NatLessThanWellFounded, Zenon DEF OpToRel
<1> HIDE DEF R
<1>2. PICK n \in S : \A m \in S : ~(<<m, n>> \in R)
  BY <1>1, WFMin
<1>3. ASSUME NEW m \in S PROVE n <= m
  <2>1. m \in Nat /\ n \in Nat
    OBVIOUS
  <2>2. ~(m < n)
    BY <1>2, <2>1 DEF R
  <2> QED
    BY <2>1, <2>2
<1> QED
  BY <1>3

\* A set with 0 and, with each number below N, the next one has all up to N.
LEMMA Induction ==
    ASSUME NEW N \in Nat, NEW P, 0 \in P, \A n \in 0..(N - 1) : n \in P => n + 1 \in P
    PROVE  0..N \subseteq P
<1> DEFINE Bad == {n \in 0..N : n \notin P}
<1> SUFFICES ASSUME Bad # {} PROVE FALSE
  OBVIOUS
<1>0. Bad \in SUBSET Nat
  OBVIOUS
<1>1. PICK n \in Bad : \A m \in Bad : n <= m
  <2> HIDE DEF Bad
  <2> QED
    BY <1>0, LeastNat
<1>2. n # 0 /\ n \in 0..N /\ n \notin P
  BY <1>1
<1>3. n - 1 \in 0..(N - 1) /\ n - 1 \in 0..N
  BY <1>2
<1>4. n - 1 \in P
  BY <1>1, <1>3
<1> QED
  BY <1>2, <1>3, <1>4

\* What N steps compute, each from what the one before it has computed.
Computations(N, X, base, step) ==
    {f \in [0..N -> X] :
        f[0] = base /\ \A n \in 1..N : f[n] = step[<<f[n - 1], n>>]}

\* Every step function has a computation: the recursion from base exists.
LEMMA Recursion ==
    ASSUME NEW N \in Nat, NEW X, NEW base \in X, NEW step \in [X \X (1..N) -> X]
    PROVE  Computations(N, X, base, step) # {}
<1> DEFINE Upto(n, f) == f[0] = base /\ \A i \in 1..n : f[i] = step[<<f[i - 1], i>>]
           P == {n \in 0..N : \E f \in [0..n -> X] : Upto(n, f)}
<1>1. 0 \in P
  <2> DEFINE g == [i \in 0..0 |-> base]
  <2>1. g \in [0..0 -> X] /\ g[0] = base /\ \A i \in 1..0 : g[i] = step[<<g[i - 1], i>>]
    OBVIOUS
  <2> HIDE DEF g
  <2> QED
    BY <2>1
<1>2. ASSUME NEW n \in 0..(N - 1), n \in P PROVE n + 1 \in P
  <2>1. PICK f \in [0..n -> X] : Upto(n, f)
    BY <1>2
  <2> DEFINE g == [i \in 0..(n + 1) |-> IF i = n + 1 THEN step[<<f[n], n + 1>>] ELSE f[i]]
  <2>2. n \in Nat /\ n + 1 \in 1..N /\ f[n] \in X
    OBVIOUS
  <2>3. step[<<f[n], n + 1>>] \in X
    BY <2>2
  <2>4. g \in [0..(n + 1) -> X]
    BY <2>2, <2>3
  <2>5. ASSUME NEW i \in 1..(n + 1) PROVE g[i] = step[<<g[i - 1], i>>]
    <3>1. CASE i = n + 1
      BY <2>2, <3>1
    <3>2. CASE i # n + 1
      BY <2>1, <2>2, <3>2
    <3> QED
      BY <3>1, <3>2
  <2>6. g[0] = base
    BY <2>1, <2>2
  <2> HIDE DEF g
  <2>7. n + 1 \in 0..N
    BY <2>2
  <2> QED
    BY <2>4, <2>5, <2>6, <2>7
<1>3. N \in P
  <2> HIDE DEF P
  <2> QED
    BY <1>1, <1>2, Induction
<1> QED
  BY <1>3 DEF Computations

\* The same without a counter: f[n] is step applied n times.
Iterations(N, X, base, step) ==
    {f \in [0..N -> X] : f[0] = base /\ \A n \in 1..N : f[n] = step[f[n - 1]]}

\* Every step function can be iterated.
LEMMA Iteration ==
    ASSUME NEW N \in Nat, NEW X, NEW base \in X, NEW step \in [X -> X]
    PROVE  Iterations(N, X, base, step) # {}
<1> DEFINE counted == [p \in X \X (1..N) |-> step[p[1]]]
<1>1. counted \in [X \X (1..N) -> X]
  OBVIOUS
<1>2. ASSUME NEW x \in X, NEW n \in 1..N PROVE counted[<<x, n>>] = step[x]
  OBVIOUS
<1> HIDE DEF counted
<1>3. PICK f \in [0..N -> X] :
          f[0] = base /\ \A n \in 1..N : f[n] = counted[<<f[n - 1], n>>]
  <2>1. Computations(N, X, base, counted) # {}
    BY <1>1, Recursion
  <2> QED
    BY <2>1 DEF Computations
<1>4. ASSUME NEW n \in 1..N PROVE f[n] = step[f[n - 1]]
  <2>1. f[n - 1] \in X
    BY <1>3
  <2> QED
    BY <1>2, <1>3, <2>1
<1> QED
  BY <1>3, <1>4 DEF Iterations

\* h obeys the recursion as long as it stays in X;
Obeys(h, N, X, base, step) ==
    h[0] = base /\ \A n \in 1..N : h[n - 1] \in X => h[n] = step[h[n - 1]]

\* then it computes the same.
LEMMA OneIteration ==
    ASSUME NEW N \in Nat, NEW X, NEW base, NEW step,
           NEW f \in Iterations(N, X, base, step),
           NEW h, Obeys(h, N, X, base, step)
    PROVE  h[N] = f[N]
<1> DEFINE P == {n \in 0..N : h[n] = f[n]}
<1>0. f \in [0..N -> X] /\ f[0] = base /\ \A n \in 1..N : f[n] = step[f[n - 1]]
  BY DEF Iterations
<1>1. 0 \in P
  BY <1>0 DEF Obeys
<1>2. ASSUME NEW n \in 0..(N - 1), n \in P PROVE n + 1 \in P
  <2>1. n + 1 \in 1..N /\ (n + 1) - 1 = n /\ n + 1 \in 0..N /\ n \in 0..N
    OBVIOUS
  <2>2. h[n] = f[n] /\ h[n] \in X
    BY <1>0, <1>2, <2>1
  <2>3. h[n + 1] = step[h[n]] /\ f[n + 1] = step[f[n]]
    BY <1>0, <2>1, <2>2 DEF Obeys
  <2> QED
    BY <2>1, <2>2, <2>3
<1>3. N \in P
  <2> HIDE DEF P
  <2> QED
    BY <1>1, <1>2, Induction
<1> QED
  BY <1>3

Shrinks(B, step) ==
    step \in [SUBSET B -> SUBSET B] /\ \A S \in SUBSET B : step[S] \subseteq S

Grows(B, step) ==
    step \in [SUBSET B -> SUBSET B] /\ \A S \in SUBSET B : S \subseteq step[S]

\* A step that only removes elements of a finite set has nothing left to remove
\* after as many steps as the set has elements;
LEMMA ShrinkingSettles ==
    ASSUME NEW B, IsFiniteSet(B), NEW step, Shrinks(B, step),
           NEW base, NEW N \in Nat, Cardinality(B) <= N,
           NEW f \in Iterations(N, SUBSET B, base, step)
    PROVE  step[f[N]] = f[N]
<1> DEFINE P == {n \in 0..N : Cardinality(f[n]) <= N - n \/ step[f[n]] = f[n]}
<1>0. /\ f \in [0..N -> SUBSET B] /\ f[0] = base
      /\ \A n \in 1..N : f[n] = step[f[n - 1]]
  BY DEF Iterations
<1>1. ASSUME NEW S \in SUBSET B
      PROVE  /\ IsFiniteSet(S) /\ Cardinality(S) \in Nat /\ Cardinality(S) <= Cardinality(B)
             /\ step[S] # S => Cardinality(step[S]) + 1 <= Cardinality(S)
  <2>1. IsFiniteSet(S) /\ Cardinality(S) \in Nat /\ Cardinality(S) <= Cardinality(B)
    BY FS_Subset, FS_CardinalityType
  <2>2. step[S] \in SUBSET S
    BY DEF Shrinks
  <2>3. /\ Cardinality(step[S]) \in Nat /\ Cardinality(step[S]) <= Cardinality(S)
        /\ Cardinality(S) = Cardinality(step[S]) => S = step[S]
    BY <2>1, <2>2, FS_Subset, FS_CardinalityType
  <2> QED
    BY <2>1, <2>3
<1>2. 0 \in P
  <2>1. Cardinality(B) \in Nat
    BY FS_CardinalityType
  <2>2. Cardinality(f[0]) \in Nat /\ Cardinality(f[0]) <= Cardinality(B)
    BY <1>0, <1>1
  <2> QED
    BY <2>1, <2>2
<1>3. ASSUME NEW n \in 0..(N - 1), n \in P PROVE n + 1 \in P
  <2>1. n + 1 \in 1..N /\ (n + 1) - 1 = n /\ n + 1 \in 0..N /\ n \in 0..N
    OBVIOUS
  <2>2. f[n + 1] = step[f[n]] /\ f[n] \in SUBSET B /\ f[n + 1] \in SUBSET B
    BY <1>0, <2>1
  <2>3. CASE step[f[n]] = f[n]
    BY <2>1, <2>2, <2>3
  <2>4. CASE step[f[n]] # f[n]
    <3>1. Cardinality(f[n]) <= N - n
      BY <1>3, <2>4
    <3>2. Cardinality(f[n + 1]) + 1 <= Cardinality(f[n])
      BY <1>1, <2>2, <2>4
    <3>3. Cardinality(f[n + 1]) \in Nat /\ Cardinality(f[n]) \in Nat
      BY <1>1, <2>2
    <3>4. Cardinality(f[n + 1]) <= N - (n + 1)
      BY <3>1, <3>2, <3>3
    <3> QED
      BY <2>1, <3>4
  <2> QED
    BY <2>3, <2>4
<1>4. N \in P
  <2> HIDE DEF P
  <2> QED
    BY <1>2, <1>3, Induction
<1>5. f[N] \in SUBSET B /\ step[f[N]] \in SUBSET B
  BY <1>0 DEF Shrinks
<1>6. CASE step[f[N]] # f[N]
  <2>1. Cardinality(f[N]) <= N - N
    BY <1>4, <1>6
  <2>2. Cardinality(f[N]) \in Nat /\ Cardinality(step[f[N]]) + 1 <= Cardinality(f[N])
    BY <1>1, <1>5, <1>6
  <2>3. Cardinality(step[f[N]]) \in Nat
    BY <1>1, <1>5
  <2> QED
    BY <2>1, <2>2, <2>3
<1> QED
  BY <1>6

\* and one that only adds elements has added all it can.
LEMMA GrowingSettles ==
    ASSUME NEW B, IsFiniteSet(B), NEW step, Grows(B, step),
           NEW base, NEW N \in Nat, Cardinality(B) <= N,
           NEW f \in Iterations(N, SUBSET B, base, step)
    PROVE  step[f[N]] = f[N]
<1> DEFINE P == {n \in 0..N : n <= Cardinality(f[n]) \/ step[f[n]] = f[n]}
<1>0. /\ f \in [0..N -> SUBSET B] /\ f[0] = base
      /\ \A n \in 1..N : f[n] = step[f[n - 1]]
  BY DEF Iterations
<1>1. ASSUME NEW S \in SUBSET B
      PROVE  /\ IsFiniteSet(S) /\ Cardinality(S) \in Nat /\ Cardinality(S) <= Cardinality(B)
             /\ Cardinality(S) = Cardinality(B) => S = B
             /\ step[S] # S => Cardinality(S) + 1 <= Cardinality(step[S])
  <2>1. /\ IsFiniteSet(S) /\ Cardinality(S) \in Nat /\ Cardinality(S) <= Cardinality(B)
        /\ Cardinality(B) = Cardinality(S) => B = S
    BY FS_Subset, FS_CardinalityType
  <2>2. S \in SUBSET step[S] /\ IsFiniteSet(step[S])
    BY FS_Subset DEF Grows
  <2>3. /\ Cardinality(step[S]) \in Nat /\ Cardinality(S) <= Cardinality(step[S])
        /\ Cardinality(step[S]) = Cardinality(S) => step[S] = S
    BY <2>2, FS_Subset, FS_CardinalityType
  <2> QED
    BY <2>1, <2>3
<1>2. 0 \in P
  <2>1. Cardinality(f[0]) \in Nat
    BY <1>0, <1>1
  <2> QED
    BY <2>1
<1>3. ASSUME NEW n \in 0..(N - 1), n \in P PROVE n + 1 \in P
  <2>1. n + 1 \in 1..N /\ (n + 1) - 1 = n /\ n + 1 \in 0..N /\ n \in 0..N
    OBVIOUS
  <2>2. f[n + 1] = step[f[n]] /\ f[n] \in SUBSET B /\ f[n + 1] \in SUBSET B
    BY <1>0, <2>1
  <2>3. CASE step[f[n]] = f[n]
    BY <2>1, <2>2, <2>3
  <2>4. CASE step[f[n]] # f[n]
    <3>1. n <= Cardinality(f[n])
      BY <1>3, <2>4
    <3>2. Cardinality(f[n]) + 1 <= Cardinality(f[n + 1])
      BY <1>1, <2>2, <2>4
    <3>3. Cardinality(f[n + 1]) \in Nat /\ Cardinality(f[n]) \in Nat
      BY <1>1, <2>2
    <3>4. n + 1 <= Cardinality(f[n + 1])
      BY <3>1, <3>2, <3>3
    <3> QED
      BY <2>1, <3>4
  <2> QED
    BY <2>3, <2>4
<1>4. N \in P
  <2> HIDE DEF P
  <2> QED
    BY <1>2, <1>3, Induction
<1>5. f[N] \in SUBSET B /\ step[f[N]] \in SUBSET B /\ f[N] \subseteq step[f[N]]
  BY <1>0 DEF Grows
<1>6. CASE step[f[N]] # f[N]
  <2>1. N <= Cardinality(f[N])
    BY <1>4, <1>6
  <2>2. Cardinality(f[N]) = Cardinality(B)
    <3>1. Cardinality(B) \in Nat
      BY FS_CardinalityType
    <3> QED
      BY <1>1, <1>5, <2>1, <3>1
  <2> QED
    BY <1>1, <1>5, <2>2
<1> QED
  BY <1>6
===============================================================================
