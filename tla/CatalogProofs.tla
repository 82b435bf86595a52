---------------------------- MODULE CatalogProofs ----------------------------
(***************************************************************************)
(* Theorems about Catalog for any names, any model files and any commands. *)
(***************************************************************************)
EXTENDS Catalog, SequenceTheorems, Recursions

------------------------------------------------------------------------------
(* The elements of a sequence that are in a set.                            *)

\* How Only goes through a sequence, element by element.
OnlyFrom(X, s, S) ==
    {f \in [0..Len(s) -> Seq(X)] :
        /\ f[0] = <<>> /\ Only(s, S) = f[Len(s)]
        /\ \A n \in 1..Len(s) :
              f[n] = IF s[n] \in S THEN Append(f[n - 1], s[n]) ELSE f[n - 1]}

\* Only, the filter of an iterator, is computed element by element.
LEMMA OnlySteps ==
    ASSUME NEW X, NEW s \in Seq(X), NEW S
    PROVE  OnlyFrom(X, s, S) # {}
<1> DEFINE N == Len(s)
           Eq(g) == g = [n \in 0..N |->
                           IF n = 0 THEN <<>>
                           ELSE IF s[n] \in S THEN Append(g[n - 1], s[n]) ELSE g[n - 1]]
           step == [p \in Seq(X) \X (1..N) |->
                      IF s[p[2]] \in S THEN Append(p[1], s[p[2]]) ELSE p[1]]
           h == CHOOSE g : Eq(g)
<1>1. N \in Nat
  OBVIOUS
<1>2. step \in [Seq(X) \X (1..N) -> Seq(X)]
  <2>1. ASSUME NEW p \in Seq(X) \X (1..N)
        PROVE  (IF s[p[2]] \in S THEN Append(p[1], s[p[2]]) ELSE p[1]) \in Seq(X)
    <3>1. p[1] \in Seq(X) /\ p[2] \in 1..N /\ s[p[2]] \in X
      OBVIOUS
    <3> QED
      BY <3>1
  <2> QED
    BY <2>1
<1>3. PICK f \in [0..N -> Seq(X)] :
          f[0] = <<>> /\ \A n \in 1..N : f[n] = step[<<f[n - 1], n>>]
  <2> DEFINE Y == Seq(X)
             none == <<>>
  <2>1. none \in Y
    OBVIOUS
  <2>0. step \in [Y \X (1..N) -> Y]
    BY <1>2
  <2> HIDE DEF step, N, Y, none
  <2>2. Computations(N, Y, none, step) # {}
    BY <1>1, <2>0, <2>1, Recursion
  <2> QED
    BY <2>2 DEF Computations, Y, none
<1>4. ASSUME NEW n \in 1..N
      PROVE  f[n] = IF s[n] \in S THEN Append(f[n - 1], s[n]) ELSE f[n - 1]
  <2>1. f[n - 1] \in Seq(X)
    BY <1>1, <1>3
  <2>2. step[<<f[n - 1], n>>] = IF s[n] \in S THEN Append(f[n - 1], s[n]) ELSE f[n - 1]
    BY <2>1
  <2> QED
    BY <1>3, <2>2
<1>5. Only(s, S) = h[N]
  BY DEF Only
<1> HIDE DEF step
<1>6. Eq(f)
  <2> DEFINE new(n) == IF n = 0 THEN <<>>
                       ELSE IF s[n] \in S THEN Append(f[n - 1], s[n]) ELSE f[n - 1]
  <2>1. ASSUME NEW n \in 0..N PROVE f[n] = new(n)
    <3>1. CASE n = 0
      BY <1>3, <3>1
    <3>2. CASE n # 0
      <4>1. n \in 1..N /\ n > 0
        BY <1>1, <3>2
      <4> QED
        BY <1>4, <3>2, <4>1
    <3> QED
      BY <3>1, <3>2
  <2> HIDE DEF new
  <2>2. f = [n \in 0..N |-> new(n)]
    BY <1>3, <2>1
  <2> QED
    BY <2>2 DEF new
<1>7. Eq(h)
  <2> HIDE DEF Eq
  <2> QED
    BY <1>6
<1>8. h[N] = f[N]
  <2> DEFINE P == {n \in 0..N : h[n] = f[n]}
  <2> HIDE DEF h
  <2>1. 0 \in P
    BY <1>1, <1>3, <1>7
  <2>2. ASSUME NEW n \in 0..(N - 1), n \in P PROVE n + 1 \in P
    <3>1. n + 1 \in 1..N /\ n + 1 > 0 /\ n + 1 # 0 /\ (n + 1) - 1 = n /\ n + 1 \in 0..N
      BY <1>1
    <3>2. h[n + 1] = IF s[n + 1] \in S THEN Append(h[n], s[n + 1]) ELSE h[n]
      BY <1>7, <3>1
    <3>3. f[n + 1] = IF s[n + 1] \in S THEN Append(f[n], s[n + 1]) ELSE f[n]
      BY <1>4, <3>1
    <3> QED
      BY <2>2, <3>1, <3>2, <3>3
  <2>3. N \in P
    <3> HIDE DEF P, N
    <3>1. 0..N \subseteq P
      BY <1>1, <2>1, <2>2, Induction
    <3> QED
      BY <1>1, <3>1
  <2> QED
    BY <2>3
<1> QED
  BY <1>3, <1>4, <1>5, <1>8 DEF OnlyFrom

------------------------------------------------------------------------------
(* The operations on sequences: what they return, which elements it has, and *)
(* that no element comes twice if none did before.                           *)

\* A sequence of X whose elements are those of E, each once.
Lists(X, E) == {s \in Seq(X) : ToSet(s) = E /\ IsInjective(s)}

\* Nothing lists nothing.
LEMMA EmptyLists ==
    ASSUME NEW X
    PROVE  <<>> \in Lists(X, {})
BY DEF Lists, ToSet, IsInjective

\* What is appended is a new element.
LEMMA AppendIs ==
    ASSUME NEW X, NEW s \in Seq(X), NEW e \in X
    PROVE  /\ Append(s, e) \in Seq(X)
           /\ ToSet(Append(s, e)) = ToSet(s) \cup {e}
           /\ IsInjective(s) /\ e \notin ToSet(s) => IsInjective(Append(s, e))
<1> DEFINE t == Append(s, e)
<1>1. /\ t \in Seq(X) /\ DOMAIN t = 1..(Len(s) + 1) /\ DOMAIN s = 1..Len(s)
      /\ Len(s) \in Nat
      /\ \A i \in 1..Len(s) : t[i] = s[i]
      /\ t[Len(s) + 1] = e
  OBVIOUS
<1> HIDE DEF t
<1>2. ToSet(t) = ToSet(s) \cup {e}
  BY <1>1 DEF ToSet
<1>3. ASSUME IsInjective(s), e \notin ToSet(s) PROVE IsInjective(t)
  <2>1. ASSUME NEW i \in DOMAIN t, NEW j \in DOMAIN t, t[i] = t[j] PROVE i = j
    <3>1. CASE i \in 1..Len(s) /\ j \in 1..Len(s)
      BY <1>1, <1>3, <2>1, <3>1 DEF IsInjective
    <3>2. CASE ~(i \in 1..Len(s) /\ j \in 1..Len(s))
      BY <1>1, <1>3, <2>1, <3>2 DEF ToSet
    <3> QED
      BY <3>1, <3>2
  <2> QED
    BY <2>1 DEF IsInjective
<1> QED
  BY <1>1, <1>2, <1>3 DEF t

\* What is appended to a list of E lists E and it.
LEMMA AppendLists ==
    ASSUME NEW X, NEW E, NEW s \in Lists(X, E), NEW e \in X, e \notin E
    PROVE  Append(s, e) \in Lists(X, E \cup {e})
BY AppendIs DEF Lists

\* Two sequences one after the other.
LEMMA ConcatIs ==
    ASSUME NEW X, NEW s \in Seq(X), NEW t \in Seq(X)
    PROVE  /\ s \o t \in Seq(X)
           /\ ToSet(s \o t) = ToSet(s) \cup ToSet(t)
           /\ IsInjective(s) /\ IsInjective(t) /\ ToSet(s) \cap ToSet(t) = {}
                 => IsInjective(s \o t)
<1> DEFINE u == s \o t
           M == Len(s)
           N == Len(t)
<1>1. /\ u \in Seq(X) /\ M \in Nat /\ N \in Nat
      /\ DOMAIN u = 1..(M + N) /\ DOMAIN s = 1..M /\ DOMAIN t = 1..N
  OBVIOUS
<1>2. \A i \in 1..(M + N) : u[i] = IF i <= M THEN s[i] ELSE t[i - M]
  BY ConcatProperties
<1> HIDE DEF u, M, N
<1>3. ToSet(u) = ToSet(s) \cup ToSet(t)
  <2>1. ASSUME NEW i \in 1..(M + N) PROVE u[i] \in ToSet(s) \cup ToSet(t)
    <3>1. i <= M => i \in DOMAIN s
      BY <1>1
    <3>2. ~(i <= M) => i - M \in DOMAIN t
      BY <1>1
    <3> QED
      BY <1>2, <3>1, <3>2 DEF ToSet
  <2>2. ASSUME NEW i \in DOMAIN s PROVE s[i] \in ToSet(u)
    <3>1. i \in DOMAIN u /\ i <= M
      BY <1>1
    <3> QED
      BY <1>1, <1>2, <3>1 DEF ToSet
  <2>3. ASSUME NEW i \in DOMAIN t PROVE t[i] \in ToSet(u)
    <3>1. i + M \in DOMAIN u /\ ~(i + M <= M) /\ (i + M) - M = i
      BY <1>1
    <3>2. u[i + M] = t[i]
      BY <1>1, <1>2, <3>1
    <3> QED
      BY <3>1, <3>2 DEF ToSet
  <2> QED
    BY <1>1, <2>1, <2>2, <2>3 DEF ToSet
<1>4. ASSUME IsInjective(s), IsInjective(t), ToSet(s) \cap ToSet(t) = {}
      PROVE  IsInjective(u)
  <2>1. ASSUME NEW i \in 1..(M + N), NEW j \in 1..(M + N), u[i] = u[j], i <= M
        PROVE  i = j
    <3>1. i \in DOMAIN s /\ u[i] = s[i]
      BY <1>1, <1>2, <2>1
    <3>2. CASE j <= M
      <4>1. j \in DOMAIN s /\ u[j] = s[j]
        BY <1>1, <1>2, <3>2
      <4> QED
        BY <1>4, <2>1, <3>1, <4>1 DEF IsInjective
    <3>3. CASE ~(j <= M)
      <4>1. j - M \in DOMAIN t /\ u[j] = t[j - M]
        BY <1>1, <1>2, <3>3
      <4> QED
        BY <1>4, <2>1, <3>1, <4>1 DEF ToSet
    <3> QED
      BY <3>2, <3>3
  <2>2. ASSUME NEW i \in 1..(M + N), NEW j \in 1..(M + N), u[i] = u[j],
               ~(i <= M), ~(j <= M)
        PROVE  i = j
    <3>1. i - M \in DOMAIN t /\ u[i] = t[i - M] /\ j - M \in DOMAIN t /\ u[j] = t[j - M]
      BY <1>1, <1>2, <2>2
    <3>2. i - M = j - M
      BY <1>4, <2>2, <3>1 DEF IsInjective
    <3> QED
      BY <1>1, <3>2
  <2> QED
    BY <1>1, <2>1, <2>2 DEF IsInjective
<1> QED
  BY <1>1, <1>3, <1>4 DEF u

\* Vec::retain and filter: the elements of s that are in S.
LEMMA OnlyIs ==
    ASSUME NEW X, NEW s \in Seq(X), NEW S
    PROVE  /\ Only(s, S) \in Seq(X)
           /\ ToSet(Only(s, S)) = ToSet(s) \cap S
           /\ IsInjective(s) => IsInjective(Only(s, S))
<1> DEFINE N == Len(s)
           upto(n) == {s[i] : i \in 1..n}
<1>1. N \in Nat /\ DOMAIN s = 1..N
  OBVIOUS
<1>2. PICK f \in [0..N -> Seq(X)] :
          /\ f[0] = <<>> /\ Only(s, S) = f[N]
          /\ \A n \in 1..N :
                f[n] = IF s[n] \in S THEN Append(f[n - 1], s[n]) ELSE f[n - 1]
  <2>1. OnlyFrom(X, s, S) # {}
    BY OnlySteps
  <2> QED
    BY <2>1 DEF OnlyFrom
<1> DEFINE P == {n \in 0..N : /\ ToSet(f[n]) = upto(n) \cap S
                              /\ IsInjective(s) => IsInjective(f[n])}
<1> HIDE DEF N
<1>3. 0 \in P
  BY <1>1, <1>2 DEF ToSet, IsInjective
<1>4. ASSUME NEW n \in 0..(N - 1), n \in P PROVE n + 1 \in P
  <2>1. /\ n + 1 \in 1..N /\ (n + 1) - 1 = n /\ n \in 0..N /\ n + 1 \in 0..N
        /\ f[n] \in Seq(X) /\ s[n + 1] \in X
    BY <1>1
  <2>2. upto(n + 1) = upto(n) \cup {s[n + 1]}
    <3>1. 1..(n + 1) = (1..n) \cup {n + 1}
      BY <1>1, <2>1
    <3>2. \A x : x \in upto(n + 1) <=> x \in upto(n) \cup {s[n + 1]}
      BY <3>1
    <3> HIDE DEF upto
    <3> QED
      BY <3>2
  <2>3. ASSUME IsInjective(s) PROVE s[n + 1] \notin upto(n)
    <3>1. ASSUME NEW i \in 1..n PROVE s[i] # s[n + 1]
      <4>1. i \in DOMAIN s /\ n + 1 \in DOMAIN s /\ i # n + 1
        BY <1>1, <2>1
      <4> QED
        BY <2>3, <4>1 DEF IsInjective
    <3> QED
      BY <3>1
  <2>4. ToSet(f[n]) = upto(n) \cap S /\ (IsInjective(s) => IsInjective(f[n]))
    BY <1>4
  <2> HIDE DEF upto
  <2>5. CASE s[n + 1] \in S
    <3> DEFINE g == Append(f[n], s[n + 1])
    <3>1. f[n + 1] = g
      BY <1>2, <2>1, <2>5
    <3>2. /\ ToSet(g) = ToSet(f[n]) \cup {s[n + 1]}
          /\ IsInjective(f[n]) /\ s[n + 1] \notin ToSet(f[n]) => IsInjective(g)
      <4> HIDE DEF g
      <4> QED
        BY <2>1, AppendIs DEF g
    <3> HIDE DEF g
    <3>3. ToSet(f[n + 1]) = upto(n + 1) \cap S
      BY <2>2, <2>4, <2>5, <3>1, <3>2
    <3>4. IsInjective(s) => IsInjective(f[n + 1])
      BY <2>3, <2>4, <3>1, <3>2
    <3> QED
      BY <2>1, <3>3, <3>4
  <2>6. CASE s[n + 1] \notin S
    <3>1. f[n + 1] = f[n]
      BY <1>2, <2>1, <2>6
    <3> QED
      BY <2>1, <2>2, <2>4, <2>6, <3>1
  <2> QED
    BY <2>5, <2>6
<1>5. N \in P
  <2> HIDE DEF P
  <2>1. 0..N \subseteq P
    BY <1>1, <1>3, <1>4, Induction
  <2> QED
    BY <1>1, <2>1
<1>6. upto(N) = ToSet(s)
  BY <1>1 DEF ToSet
<1>7. f[N] \in Seq(X)
  BY <1>1
<1> QED
  BY <1>2, <1>5, <1>6, <1>7

\* What stays of a list of E lists what stays of E.
LEMMA WithoutLists ==
    ASSUME NEW X, NEW E, NEW s \in Lists(X, E), NEW gone
    PROVE  Without(s, gone) \in Lists(X, E \ gone)
BY OnlyIs DEF Lists, Without

\* Filtering by a set that has every element changes nothing.
LEMMA OnlyAll ==
    ASSUME NEW X, NEW s \in Seq(X), NEW S, ToSet(s) \subseteq S
    PROVE  Only(s, S) = s
<1> DEFINE N == Len(s)
<1>1. N \in Nat /\ DOMAIN s = 1..N /\ \A i \in 1..N : s[i] \in S
  BY DEF ToSet
<1>2. PICK f \in [0..N -> Seq(X)] :
          /\ f[0] = <<>> /\ Only(s, S) = f[N]
          /\ \A n \in 1..N :
                f[n] = IF s[n] \in S THEN Append(f[n - 1], s[n]) ELSE f[n - 1]
  <2>1. OnlyFrom(X, s, S) # {}
    BY OnlySteps
  <2> QED
    BY <2>1 DEF OnlyFrom
<1> DEFINE P == {n \in 0..N : Len(f[n]) = n /\ \A i \in 1..n : f[n][i] = s[i]}
<1> HIDE DEF N
<1>3. 0 \in P
  BY <1>1, <1>2
<1>4. ASSUME NEW n \in 0..(N - 1), n \in P PROVE n + 1 \in P
  <2>1. /\ n + 1 \in 1..N /\ (n + 1) - 1 = n /\ n \in 0..N /\ n + 1 \in 0..N
        /\ f[n] \in Seq(X) /\ s[n + 1] \in X
    BY <1>1
  <2>2. Len(f[n]) = n /\ \A i \in 1..n : f[n][i] = s[i]
    BY <1>4
  <2> DEFINE g == Append(f[n], s[n + 1])
  <2>3. f[n + 1] = g
    BY <1>1, <1>2, <2>1
  <2>4. Len(g) = n + 1 /\ (\A i \in 1..n : g[i] = f[n][i]) /\ g[n + 1] = s[n + 1]
    <3> DEFINE h == f[n]
               e == s[n + 1]
    <3>1. h \in Seq(X) /\ e \in X /\ Len(h) = n
      BY <2>1, <2>2
    <3> HIDE DEF h, e
    <3>2. LET q == Append(h, e)
          IN  Len(q) = n + 1 /\ (\A i \in 1..n : q[i] = h[i]) /\ q[n + 1] = e
      BY <3>1, AppendProperties
    <3> QED
      BY <3>2 DEF h, e
  <2> HIDE DEF g
  <2>5. \A i \in 1..(n + 1) : g[i] = s[i]
    BY <1>1, <2>1, <2>2, <2>4
  <2> QED
    BY <2>1, <2>3, <2>4, <2>5
<1>5. N \in P
  <2> HIDE DEF P
  <2>1. 0..N \subseteq P
    BY <1>1, <1>3, <1>4, Induction
  <2> QED
    BY <1>1, <2>1
<1>6. f[N] \in Seq(X) /\ Len(f[N]) = N /\ \A i \in 1..N : f[N][i] = s[i]
  BY <1>1, <1>5
<1>7. f[N] = s
  BY <1>6, SeqEqual DEF N
<1> QED
  BY <1>2, <1>7

\* S with new for old.
LEMMA ReplaceLists ==
    ASSUME NEW X, NEW E, NEW s \in Lists(X, E), NEW old \in E, NEW new \in X, new \notin E
    PROVE  ReplaceAll(s, old, new) \in Lists(X, (E \ {old}) \cup {new})
<1> DEFINE t == [i \in 1..Len(s) |-> IF s[i] = old THEN new ELSE s[i]]
<1>1. /\ s \in Seq(X) /\ Len(s) \in Nat /\ DOMAIN s = 1..Len(s)
      /\ IsInjective(s) /\ ToSet(s) = E
  BY DEF Lists
<1>2. t \in Seq(X) /\ DOMAIN t = 1..Len(s)
  <2>1. \A i \in 1..Len(s) : (IF s[i] = old THEN new ELSE s[i]) \in X
    BY <1>1
  <2> QED
    BY <1>1, <2>1
<1>3. \A i \in 1..Len(s) : t[i] = IF s[i] = old THEN new ELSE s[i]
  OBVIOUS
<1>4. \A i \in 1..Len(s) : s[i] # new
  BY <1>1 DEF ToSet
<1> HIDE DEF t
<1>5. IsInjective(t)
  <2>1. ASSUME NEW i \in DOMAIN t, NEW j \in DOMAIN t, t[i] = t[j] PROVE i = j
    <3>1. i \in DOMAIN s /\ j \in DOMAIN s
      BY <1>1, <1>2
    <3>2. s[i] = s[j]
      BY <1>2, <1>3, <1>4, <2>1
    <3> QED
      BY <1>1, <3>1, <3>2 DEF IsInjective
  <2> QED
    BY <2>1 DEF IsInjective
<1>6. ToSet(t) = (E \ {old}) \cup {new}
  <2>1. ASSUME NEW i \in DOMAIN t PROVE t[i] \in (E \ {old}) \cup {new}
    BY <1>1, <1>2, <1>3 DEF ToSet
  <2>2. ASSUME NEW e \in E \ {old} PROVE e \in ToSet(t)
    <3>1. PICK i \in DOMAIN s : s[i] = e
      BY <1>1 DEF ToSet
    <3>2. i \in DOMAIN t /\ t[i] = e
      BY <1>1, <1>2, <1>3, <3>1
    <3> QED
      BY <3>2 DEF ToSet
  <2>3. new \in ToSet(t)
    <3>1. PICK i \in DOMAIN s : s[i] = old
      BY <1>1 DEF ToSet
    <3>2. i \in DOMAIN t /\ t[i] = new
      BY <1>1, <1>2, <1>3, <3>1
    <3> QED
      BY <3>2 DEF ToSet
  <2>4. ToSet(t) \subseteq (E \ {old}) \cup {new}
    BY <2>1 DEF ToSet
  <2> QED
    BY <2>2, <2>3, <2>4
<1>7. ReplaceAll(s, old, new) = t
  BY DEF ReplaceAll, t
<1> QED
  BY <1>2, <1>5, <1>6, <1>7 DEF Lists

\* Without the element at one place.
LEMMA RemoveAtIs ==
    ASSUME NEW X, NEW s \in Seq(X), NEW k \in 1..Len(s)
    PROVE  RemoveAt(s, k) \in Seq(X) /\ ToSet(RemoveAt(s, k)) \subseteq ToSet(s)
<1> DEFINE a == SubSeq(s, 1, k - 1)
           b == SubSeq(s, k + 1, Len(s))
<1>1. Len(s) \in Nat /\ DOMAIN s = 1..Len(s) /\ k \in Nat
  OBVIOUS
<1> DEFINE Y == ToSet(s)
<1>2. s \in Seq(Y)
  BY <1>1 DEF ToSet
<1>3. a \in Seq(Y) /\ b \in Seq(Y) /\ a \in Seq(X) /\ b \in Seq(X)
  BY <1>1, <1>2, SubSeqProperties
<1> HIDE DEF a, b
<1>4. a \o b \in Seq(X) /\ a \o b \in Seq(Y)
  BY <1>3, ConcatProperties
<1>5. ToSet(a \o b) \subseteq Y
  <2> HIDE DEF Y
  <2> DEFINE u == a \o b
  <2> HIDE DEF u
  <2>1. u \in Seq(Y) => ToSet(u) \subseteq Y
    BY DEF ToSet
  <2> QED
    BY <1>4, <2>1 DEF u
<1> QED
  BY <1>4, <1>5 DEF RemoveAt, a, b

\* The least of some numbers is one of them.
LEMMA MinIs ==
    ASSUME NEW S \in SUBSET Nat, S # {}
    PROVE  Min(S) \in S
<1>1. PICK n \in S : \A m \in S : n <= m
  BY LeastNat
<1> QED
  BY <1>1 DEF Min

\* So is the greatest, when there is a bound.
LEMMA MaxIs ==
    ASSUME NEW N \in Nat, NEW S \in SUBSET (0..N), S # {}
    PROVE  Max(S) \in S
<1> DEFINE T == {N - i : i \in S}
<1>1. T \in SUBSET Nat /\ T # {}
  <2>1. \A i \in S : N - i \in Nat /\ N - i \in T
    OBVIOUS
  <2> QED
    BY <2>1
<1>2. PICK n \in T : \A m \in T : n <= m
  <2> HIDE DEF T
  <2> QED
    BY <1>1, LeastNat
<1>3. PICK i \in S : n = N - i
  BY <1>2
<1>4. \A j \in S : i >= j
  <2>1. ASSUME NEW j \in S PROVE i >= j
    <3>1. N - i <= N - j
      BY <1>2, <1>3
    <3> QED
      BY <3>1
  <2> QED
    BY <2>1
<1> QED
  BY <1>4 DEF Max

\* How FlattenSeq goes through the parts.
FlattenFrom(X, parts) ==
    {f \in [0..Len(parts) -> Seq(X)] :
        /\ f[0] = <<>> /\ FlattenSeq(parts) = f[Len(parts)]
        /\ \A n \in 1..Len(parts) : f[n] = f[n - 1] \o parts[n]}

\* FlattenSeq adds part after part.
LEMMA FlattenSteps ==
    ASSUME NEW X, NEW parts \in Seq(Seq(X))
    PROVE  FlattenFrom(X, parts) # {}
<1> DEFINE N == Len(parts)
           Eq(g) == g = [i \in 1..N |-> IF i = 1 THEN parts[i] ELSE g[i - 1] \o parts[i]]
           step == [p \in Seq(X) \X (1..N) |-> p[1] \o parts[p[2]]]
           h == CHOOSE g : Eq(g)
<1>1. N \in Nat
  OBVIOUS
<1>0. \A n \in 1..N : parts[n] \in Seq(X)
  OBVIOUS
<1>2. \A p \in Seq(X), n \in 1..N : p \o parts[n] \in Seq(X)
  BY <1>0, ConcatProperties
<1>3. step \in [Seq(X) \X (1..N) -> Seq(X)]
  <2>1. ASSUME NEW p \in Seq(X) \X (1..N) PROVE p[1] \o parts[p[2]] \in Seq(X)
    <3>1. p[1] \in Seq(X) /\ p[2] \in 1..N
      OBVIOUS
    <3> QED
      BY <1>2, <3>1
  <2> QED
    BY <2>1
<1>4. PICK f \in [0..N -> Seq(X)] :
          f[0] = <<>> /\ \A n \in 1..N : f[n] = step[<<f[n - 1], n>>]
  <2> DEFINE Y == Seq(X)
             none == <<>>
  <2>1. none \in Y
    OBVIOUS
  <2>2. step \in [Y \X (1..N) -> Y]
    BY <1>3
  <2> HIDE DEF step, N, Y, none
  <2>3. Computations(N, Y, none, step) # {}
    BY <1>1, <2>1, <2>2, Recursion
  <2> QED
    BY <2>3 DEF Computations, Y, none
<1>5. ASSUME NEW n \in 1..N PROVE f[n] = f[n - 1] \o parts[n] /\ f[n - 1] \in Seq(X)
  <2>1. f[n - 1] \in Seq(X)
    BY <1>1, <1>4
  <2>2. step[<<f[n - 1], n>>] = f[n - 1] \o parts[n]
    BY <2>1
  <2> QED
    BY <1>4, <2>1, <2>2
<1> HIDE DEF step
<1>6. CASE N = 0
  <2>1. parts = <<>> /\ FlattenSeq(parts) = parts
    BY <1>6 DEF FlattenSeq
  <2> QED
    BY <1>1, <1>4, <1>5, <1>6, <2>1 DEF FlattenFrom
<1>7. CASE N # 0
  <2>1. FlattenSeq(parts) = h[N]
    BY <1>7 DEF FlattenSeq
  <2> DEFINE e == [n \in 1..N |-> f[n]]
  <2>2. Eq(e)
    <3> DEFINE new(i) == IF i = 1 THEN parts[i] ELSE e[i - 1] \o parts[i]
    <3>1. ASSUME NEW n \in 1..N PROVE e[n] = new(n)
      <4>1. CASE n = 1
        <5>1. f[1] = <<>> \o parts[1]
          <6>1. 1 \in 1..N /\ 1 - 1 = 0
            BY <4>1
          <6>2. f[1] = f[1 - 1] \o parts[1]
            BY <1>5, <6>1
          <6> QED
            BY <1>4, <6>1, <6>2
        <5>2. <<>> \o parts[1] = parts[1]
          BY <1>0, <4>1, ConcatEmptySeq
        <5> QED
          BY <4>1, <5>1, <5>2
      <4>2. CASE n # 1
        <5>1. n - 1 \in 1..N
          BY <1>1, <4>2
        <5> QED
          BY <1>5, <4>2, <5>1
      <4> QED
        BY <4>1, <4>2
    <3>2. e = [n \in 1..N |-> e[n]]
      OBVIOUS
    <3> HIDE DEF e, new
    <3>3. e = [n \in 1..N |-> new(n)]
      BY <3>1, <3>2
    <3> QED
      BY <3>3 DEF new
  <2>3. Eq(h)
    <3> HIDE DEF Eq, e
    <3> QED
      BY <2>2
  <2>4. h[N] = f[N]
    <3> DEFINE P == {n \in 0..N : n = 0 \/ h[n] = f[n]}
    <3> HIDE DEF h, e
    <3>1. 0 \in P
      BY <1>1
    <3>2. ASSUME NEW n \in 0..(N - 1), n \in P PROVE n + 1 \in P
      <4>1. n + 1 \in 1..N /\ (n + 1) - 1 = n /\ n + 1 \in 0..N
        BY <1>1
      <4>2. CASE n = 0
        <5>1. 1 \in 1..N /\ 1 - 1 = 0
          BY <4>1, <4>2
        <5>2. h[1] = parts[1]
          BY <2>3, <5>1
        <5>3. f[1] = <<>> \o parts[1]
          BY <1>4, <1>5, <5>1
        <5>4. <<>> \o parts[1] = parts[1]
          BY <1>0, <5>1, ConcatEmptySeq
        <5> QED
          BY <4>1, <4>2, <5>2, <5>3, <5>4
      <4>3. CASE n # 0
        <5>1. h[n + 1] = h[n] \o parts[n + 1]
          <6>1. n + 1 # 1
            BY <1>1, <4>3
          <6> QED
            BY <2>3, <4>1, <6>1
        <5>2. f[n + 1] = f[n] \o parts[n + 1]
          BY <1>5, <4>1
        <5> QED
          BY <3>2, <4>1, <4>3, <5>1, <5>2
      <4> QED
        BY <4>2, <4>3
    <3>3. N \in P
      <4> HIDE DEF P, N
      <4>1. 0..N \subseteq P
        BY <1>1, <3>1, <3>2, Induction
      <4> QED
        BY <1>1, <4>1
    <3> QED
      BY <1>7, <3>3
  <2> HIDE DEF e, h
  <2> QED
    BY <1>4, <1>5, <2>1, <2>4 DEF FlattenFrom
<1> QED
  BY <1>6, <1>7

\* Each part lists a set, and no two of the sets have anything in common.
ListsApart(X, parts, E) ==
    /\ \A i \in 1..Len(parts) : parts[i] \in Lists(X, E[i])
    /\ \A i, j \in 1..Len(parts) : i # j => E[i] \cap E[j] = {}

UnionUpTo(E, n) == UNION {E[i] : i \in 1..n}

\* Such parts, one after the other, list everything.
LEMMA FlattenLists ==
    ASSUME NEW X, NEW parts \in Seq(Seq(X)), NEW E, ListsApart(X, parts, E)
    PROVE  FlattenSeq(parts) \in Lists(X, UnionUpTo(E, Len(parts)))
<1> USE DEF ListsApart
<1> DEFINE N == Len(parts)
           upto(n) == UnionUpTo(E, n)
<1>1. N \in Nat
  OBVIOUS
<1>2. PICK f \in [0..N -> Seq(X)] :
          /\ f[0] = <<>> /\ FlattenSeq(parts) = f[N]
          /\ \A n \in 1..N : f[n] = f[n - 1] \o parts[n]
  <2>1. FlattenFrom(X, parts) # {}
    BY FlattenSteps
  <2> QED
    BY <2>1 DEF FlattenFrom
<1> DEFINE P == {n \in 0..N : f[n] \in Lists(X, upto(n))}
<1>3. 0 \in P
  <2>1. upto(0) = {}
    BY DEF UnionUpTo
  <2> HIDE DEF upto
  <2>2. <<>> \in Lists(X, upto(0))
    BY <2>1, EmptyLists
  <2> QED
    BY <1>1, <1>2, <2>2
<1>4. ASSUME NEW n \in 0..(N - 1), n \in P PROVE n + 1 \in P
  <2>1. n + 1 \in 1..N /\ (n + 1) - 1 = n /\ n \in 0..N /\ n + 1 \in 0..N /\ n \in Nat
    BY <1>1
  <2>2. upto(n + 1) = upto(n) \cup E[n + 1]
    <3>1. 1..(n + 1) = (1..n) \cup {n + 1}
      BY <2>1
    <3>2. \A x : x \in upto(n + 1) <=> x \in upto(n) \cup E[n + 1]
      BY <3>1 DEF UnionUpTo
    <3> HIDE DEF upto
    <3> QED
      BY <3>2
  <2>3. upto(n) \cap E[n + 1] = {}
    <3>1. ASSUME NEW i \in 1..n PROVE E[i] \cap E[n + 1] = {}
      <4>1. i \in 1..N /\ i # n + 1
        BY <1>1, <2>1
      <4> QED
        BY <2>1, <4>1
    <3> QED
      BY <3>1 DEF UnionUpTo
  <2> HIDE DEF upto
  <2> DEFINE a == f[n]
             b == parts[n + 1]
  <2>4. a \in Lists(X, upto(n)) /\ b \in Lists(X, E[n + 1])
    BY <1>4, <2>1
  <2>5. f[n + 1] = a \o b
    BY <1>2, <2>1
  <2> HIDE DEF a, b
  <2>6. a \o b \in Lists(X, upto(n + 1))
    <3>1. a \in Seq(X) /\ b \in Seq(X)
      BY <2>4 DEF Lists
    <3>2. /\ a \o b \in Seq(X)
          /\ ToSet(a \o b) = ToSet(a) \cup ToSet(b)
          /\ IsInjective(a) /\ IsInjective(b) /\ ToSet(a) \cap ToSet(b) = {}
                => IsInjective(a \o b)
      BY <3>1, ConcatIs
    <3> QED
      BY <2>2, <2>3, <2>4, <3>2 DEF Lists
  <2> QED
    BY <2>1, <2>5, <2>6
<1>5. N \in P
  <2> HIDE DEF P, N
  <2>1. 0..N \subseteq P
    BY <1>1, <1>3, <1>4, Induction
  <2> QED
    BY <1>1, <2>1
<1> QED
  BY <1>2, <1>5

\* iter().position() of a name.
Position(s, name) == SelectInSeq(s, LAMBDA r : r.name = name)

\* It is a place with that name, or None.
LEMMA PositionIs ==
    ASSUME NEW X, NEW s \in Seq(X), NEW name
    PROVE  /\ Position(s, name) \in 0..Len(s)
           /\ (\E i \in 1..Len(s) : s[i].name = name) => Position(s, name) # 0
<1> DEFINE I == {i \in 1..Len(s) : s[i].name = name}
<1>1. I \in SUBSET Nat /\ Len(s) \in Nat
  OBVIOUS
<1>2. I # {} => Min(I) \in I
  <2> HIDE DEF I
  <2> QED
    BY <1>1, MinIs
<1>3. Position(s, name) = IF I # {} THEN Min(I) ELSE 0
  BY DEF SelectInSeq, Position
<1> QED
  BY <1>1, <1>2, <1>3

\* Vec::remove of the first element with a name, if there is one.
RemoveNamed(s, name) == RemoveFirstMatch(s, LAMBDA r : r.name = name)

\* What stays was there.
LEMMA RemoveNamedIs ==
    ASSUME NEW X, NEW s \in Seq(X), NEW name
    PROVE  /\ RemoveNamed(s, name) \in Seq(X)
           /\ ToSet(RemoveNamed(s, name)) \subseteq ToSet(s)
<1> DEFINE k == Position(s, name)
<1>1. CASE \E i \in 1..Len(s) : s[i].name = name
  <2>1. RemoveNamed(s, name) = RemoveAt(s, k)
    BY <1>1 DEF RemoveNamed, RemoveFirstMatch, Position
  <2>2. k \in 1..Len(s)
    <3>1. k \in 0..Len(s) /\ ((\E i \in 1..Len(s) : s[i].name = name) => k # 0)
      BY PositionIs
    <3> HIDE DEF k
    <3> QED
      BY <1>1, <3>1
  <2> HIDE DEF k
  <2>3. RemoveAt(s, k) \in Seq(X) /\ ToSet(RemoveAt(s, k)) \subseteq ToSet(s)
    BY <2>2, RemoveAtIs
  <2> QED
    BY <2>1, <2>3
<1>2. CASE ~\E i \in 1..Len(s) : s[i].name = name
  <2>1. RemoveNamed(s, name) = s
    BY <1>2 DEF RemoveNamed, RemoveFirstMatch
  <2> QED
    BY <2>1
<1> QED
  BY <1>1, <1>2

------------------------------------------------------------------------------
(* Maps: insert, remove, and both for a new key.                             *)

\* HashMap::remove.
LEMMA DropIs ==
    ASSUME NEW D, NEW Y, NEW f \in [D -> Y], NEW k
    PROVE  /\ Drop(f, k) \in [D \ {k} -> Y]
           /\ \A d \in D \ {k} : Drop(f, k)[d] = f[d]
BY DEF Drop, Restrict

\* g is f, from D to Y, with a new key in place of an old one.
IsMoved(D, Y, f, g, old, new) ==
    /\ g \in [(D \ {old}) \cup {new} -> Y]
    /\ g[new] = f[old]
    /\ \A d \in D \ {old} : g[d] = f[d]

\* What is removed is inserted again under a new key.
LEMMA MoveKeyIs ==
    ASSUME NEW D, NEW Y, NEW f \in [D -> Y], NEW old \in D, NEW new, new \notin D
    PROVE  IsMoved(D, Y, f, MoveKey(f, old, new), old, new)
<1> DEFINE g == Drop(f, old)
           E == D \ {old}
           v == f[old]
<1>1. g \in [E -> Y] /\ \A d \in E : g[d] = f[d]
  BY DropIs
<1>2. MoveKey(f, old, new) = Put(g, new, v) /\ v \in Y /\ new \notin E
  BY DEF MoveKey
<1> HIDE DEF g, E, v
<1>3. /\ Put(g, new, v) \in [E \cup {new} -> Y]
      /\ Put(g, new, v)[new] = v
      /\ \A d \in E : d # new => Put(g, new, v)[d] = g[d]
  BY <1>1, <1>2 DEF Put
<1> QED
  BY <1>1, <1>2, <1>3 DEF E, v, IsMoved

------------------------------------------------------------------------------
(* The inductive invariant, in four parts.                                   *)

ColumnFacts == [type : Types, sortBy : Columns \cup {NoColumn}]

ColumnsOf(C, t) == {c \in Columns : <<t, c>> \in DOMAIN C}

\* table_order lists the tables; what else is kept of a table is of one.
TablesOK(order, T, d) ==
    T \in SUBSET Tables /\ order \in Lists(Tables, T) /\ d \subseteq T

\* column_order has for every table the list of its columns.
ColumnsOK(T, order, C) ==
    /\ order \in [T -> Seq(Columns)]
    /\ \A t \in T : order[t] \in Lists(Columns, ColumnsOf(C, t))
    /\ C \in [DOMAIN C -> ColumnFacts]
    /\ DOMAIN C \subseteq T \X Columns

\* measure_order lists the measures, each of which is of a table.
MeasuresOK(T, order, M, mT, f) ==
    /\ order \in Lists(Measures, DOMAIN M)
    /\ M \in [DOMAIN M -> Exprs]
    /\ mT \in [DOMAIN M -> T]
    /\ f \subseteq DOMAIN M

\* Relationships are between tables.
RelationsOK(T, rs) ==
    /\ rs \in Seq(Relations)
    /\ \A i \in DOMAIN rs : rs[i].from[1] \in T /\ rs[i].to[1] \in T

CatalogInv ==
    /\ TablesOK(tableOrder, tables, described)
    /\ ColumnsOK(tables, columnOrder, columns)
    /\ MeasuresOK(tables, measureOrder, measures, measureTables, formatted)
    /\ RelationsOK(tables, relationships)

\* The three invariants are parts of the inductive one.
LEMMA CatalogInvImplies ==
    ASSUME CatalogInv
    PROVE  CatalogTypeOK /\ OrdersAgree /\ NoOrphans
<1> USE DEF CatalogInv, TablesOK, ColumnsOK, MeasuresOK, RelationsOK, Lists
<1>1. CatalogTypeOK
  BY DEF CatalogTypeOK, ColumnFacts
<1>2. OrdersAgree
  BY DEF OrdersAgree, ColumnsOf
<1>3. NoOrphans
  BY DEF NoOrphans
<1> QED
  BY <1>1, <1>2, <1>3

------------------------------------------------------------------------------
(* The parts that grow with the tables stay true of more tables.             *)

\* What is true of the measures and relationships of some tables is true
\* among more tables.
LEMMA MoreTables ==
    ASSUME NEW T, NEW U, T \subseteq U
    PROVE  /\ \A order, M, mT, f : MeasuresOK(T, order, M, mT, f) => MeasuresOK(U, order, M, mT, f)
           /\ \A rs : RelationsOK(T, rs) => RelationsOK(U, rs)
BY DEF MeasuresOK, RelationsOK

\* create_table keeps the invariant.
LEMMA CreateTableStep ==
    ASSUME NEW t \in Tables, CatalogInv, CreateTable(t)
    PROVE  CatalogInv'
<1> DEFINE T == tables \cup {t}
           none == <<>>
<1>1. t \notin tables /\ tables' = T /\ described' = described /\ columns' = columns
  BY DEF CreateTable
<1>2. TablesOK(tableOrder', T, described)
  <2>1. tableOrder' = Append(tableOrder, t)
    BY DEF CreateTable
  <2>2. Append(tableOrder, t) \in Lists(Tables, T)
    BY <1>1, AppendLists DEF CatalogInv, TablesOK
  <2> QED
    BY <2>1, <2>2 DEF CatalogInv, TablesOK
<1>3. ColumnsOK(T, columnOrder', columns)
  <2> DEFINE order == Put(columnOrder, t, none)
             Y == Seq(Columns)
  <2>1. columnOrder' = order
    BY DEF CreateTable
  <2>2. columnOrder \in [tables -> Y] /\ none \in Y
    BY DEF CatalogInv, ColumnsOK
  <2> HIDE DEF Y, none
  <2>3. /\ order \in [T -> Y] /\ order[t] = none
        /\ \A u \in tables : u # t => order[u] = columnOrder[u]
    BY <2>2 DEF Put
  <2> HIDE DEF order
  <2>4. ColumnsOf(columns, t) = {}
    BY <1>1 DEF CatalogInv, ColumnsOK, ColumnsOf
  <2>5. none \in Lists(Columns, {})
    BY EmptyLists DEF none
  <2>6. \A u \in T : order[u] \in Lists(Columns, ColumnsOf(columns, u))
    BY <1>1, <2>3, <2>4, <2>5 DEF CatalogInv, ColumnsOK
  <2> QED
    BY <2>1, <2>3, <2>6 DEF CatalogInv, ColumnsOK, Y
<1>4. MeasuresOK(T, measureOrder, measures, measureTables, formatted) /\ RelationsOK(T, relationships)
  <2> HIDE DEF T
  <2>1. tables \subseteq T
    BY DEF T
  <2> QED
    BY <2>1, MoreTables DEF CatalogInv
<1>5. UNCHANGED <<measureOrder, measures, measureTables, formatted, relationships>>
  BY DEF CreateTable, measureVars
<1> QED
  BY <1>1, <1>2, <1>3, <1>4, <1>5 DEF CatalogInv

\* The columns, measures and relationships of the table go with it.
LEMMA DeleteTableStep ==
    ASSUME NEW t \in Tables, CatalogInv, DeleteTable(t)
    PROVE  CatalogInv'
<1> DEFINE T    == tables \ {t}
           own  == {n \in DOMAIN measureTables : measureTables[n] = t}
           cols == ToSet(columnOrder[t])
           K    == {k \in DOMAIN columns : k \notin {t} \X cols}
           N    == DOMAIN measures \ own
           gone == {r \in ToSet(relationships) : Touches(r, t)}
<1>1. /\ t \in tables /\ tables' = T /\ described' = described \ {t}
      /\ tableOrder' = Without(tableOrder, {t})
  BY DEF DeleteTable
<1>2. TablesOK(tableOrder', T, described \ {t})
  <2>1. Without(tableOrder, {t}) \in Lists(Tables, T)
    BY WithoutLists DEF CatalogInv, TablesOK
  <2> QED
    BY <1>1, <2>1 DEF CatalogInv, TablesOK
<1>3. ColumnsOK(T, columnOrder', columns')
  <2>1. t \in DOMAIN columnOrder
    BY <1>1 DEF CatalogInv, ColumnsOK
  <2>2. columnOrder' = Drop(columnOrder, t) /\ columns' = Restrict(columns, K)
    BY <2>1 DEF DeleteTable, OrderDropped
  <2>3. cols = ColumnsOf(columns, t)
    BY <1>1 DEF CatalogInv, ColumnsOK, Lists
  <2>4. \A k \in DOMAIN columns : k \in K <=> k[1] # t
    BY <2>3 DEF CatalogInv, ColumnsOK, ColumnsOf
  <2>5. K \subseteq DOMAIN columns
    OBVIOUS
  <2> HIDE DEF K, cols
  <2> DEFINE order == Drop(columnOrder, t)
             C     == Restrict(columns, K)
             Y     == Seq(Columns)
  <2>6. columnOrder \in [tables -> Y] /\ columns \in [DOMAIN columns -> ColumnFacts]
    BY DEF CatalogInv, ColumnsOK
  <2> HIDE DEF Y
  <2>7. order \in [T -> Y] /\ \A u \in T : order[u] = columnOrder[u]
    BY <2>6 DEF Drop, Restrict
  <2>8. C \in [K -> ColumnFacts] /\ DOMAIN C = K
    BY <2>5, <2>6 DEF Restrict
  <2> HIDE DEF order, C
  <2>9. \A u \in T : ColumnsOf(C, u) = ColumnsOf(columns, u)
    BY <2>4, <2>5, <2>8 DEF ColumnsOf
  <2>10. K \subseteq T \X Columns
    BY <2>4, <2>5 DEF CatalogInv, ColumnsOK
  <2>11. \A u \in T : order[u] \in Lists(Columns, ColumnsOf(C, u))
    BY <2>7, <2>9 DEF CatalogInv, ColumnsOK
  <2> HIDE DEF T
  <2>12. ColumnsOK(T, order, C)
    BY <2>7, <2>8, <2>10, <2>11 DEF ColumnsOK, Y
  <2> QED
    BY <2>2, <2>12 DEF order, C
<1>4. MeasuresOK(T, measureOrder', measures', measureTables', formatted')
  <2>1. /\ measures' = Restrict(measures, N)
        /\ measureTables' = Restrict(measureTables, DOMAIN measureTables \ own)
        /\ formatted' = formatted \ own
        /\ measureOrder' = Without(measureOrder, own)
    BY DEF DeleteTable
  <2>2. /\ measures \in [DOMAIN measures -> Exprs]
        /\ measureTables \in [DOMAIN measures -> tables]
        /\ DOMAIN measureTables = DOMAIN measures
        /\ measureOrder \in Lists(Measures, DOMAIN measures)
        /\ formatted \subseteq DOMAIN measures
    BY DEF CatalogInv, MeasuresOK
  <2>3. \A n \in N : measureTables[n] \in T
    BY <2>2
  <2> HIDE DEF own
  <2>4. Without(measureOrder, own) \in Lists(Measures, N)
    BY <2>2, WithoutLists
  <2>5. Restrict(measures, N) \in [N -> Exprs] /\ Restrict(measureTables, N) \in [N -> T]
    BY <2>2, <2>3 DEF Restrict
  <2> HIDE DEF T
  <2>6. DOMAIN Restrict(measures, N) = N /\ formatted \ own \subseteq N
    BY <2>2 DEF Restrict
  <2>7. MeasuresOK(T, Without(measureOrder, own), Restrict(measures, N),
                   Restrict(measureTables, N), formatted \ own)
    BY <2>4, <2>5, <2>6 DEF MeasuresOK
  <2> QED
    BY <2>1, <2>2, <2>7
<1>5. RelationsOK(T, relationships')
  <2> DEFINE rs == Without(relationships, gone)
  <2>1. relationships' = rs
    BY DEF DeleteTable
  <2>2. relationships \in Seq(Relations)
    BY DEF CatalogInv, RelationsOK
  <2>3. rs \in Seq(Relations) /\ ToSet(rs) = ToSet(relationships) \cap (ToSet(relationships) \ gone)
    BY <2>2, OnlyIs DEF Without
  <2> HIDE DEF rs
  <2>4. ASSUME NEW i \in DOMAIN rs PROVE rs[i].from[1] \in T /\ rs[i].to[1] \in T
    <3>1. rs[i] \in ToSet(relationships) /\ rs[i] \notin gone
      BY <2>3 DEF ToSet
    <3>2. ~Touches(rs[i], t)
      BY <3>1
    <3>3. rs[i].from[1] \in tables /\ rs[i].to[1] \in tables
      BY <3>1 DEF CatalogInv, RelationsOK, ToSet
    <3> QED
      BY <3>2, <3>3 DEF Touches
  <2> HIDE DEF T
  <2> QED
    BY <2>1, <2>3, <2>4 DEF RelationsOK
<1> QED
  BY <1>1, <1>2, <1>3, <1>4, <1>5 DEF CatalogInv

\* set_table_description keeps the invariant.
LEMMA SetTableDescriptionStep ==
    ASSUME NEW t \in Tables, NEW value \in BOOLEAN, CatalogInv, SetTableDescription(t, value)
    PROVE  CatalogInv'
BY DEF SetTableDescription, columnVars, measureVars, SetMember, CatalogInv, TablesOK

\* Everything that names the table follows.
LEMMA RenameTableStep ==
    ASSUME NEW old \in Tables, NEW new \in Tables, CatalogInv, RenameTable(old, new)
    PROVE  CatalogInv'
<1> DEFINE T      == (tables \ {old}) \cup {new}
           key(k) == IF k[1] = old THEN <<new, k[2]>> ELSE k
<1>1. /\ old \in tables /\ new \notin tables
      /\ tables' = T /\ described' = MoveMember(described, old, new)
      /\ tableOrder' = ReplaceAll(tableOrder, old, new)
  BY DEF RenameTable, MoveMember
<1>2. TablesOK(tableOrder', T, described')
  <2>1. ReplaceAll(tableOrder, old, new) \in Lists(Tables, T)
    BY <1>1, ReplaceLists DEF CatalogInv, TablesOK
  <2> QED
    BY <1>1, <2>1 DEF CatalogInv, TablesOK, MoveMember
<1>3. ColumnsOK(T, columnOrder', columns')
  <2> DEFINE D     == DOMAIN columns
             K     == {key(j) : j \in D}
             from(k) == CHOOSE j \in D : key(j) = k
             C     == [k \in K |-> columns[from(k)]]
             order == MoveKey(columnOrder, old, new)
             Y     == Seq(Columns)
  <2>1. columns' = C /\ columnOrder' = order
    BY DEF RenameTable
  <2>2. columnOrder \in [tables -> Y] /\ columns \in [D -> ColumnFacts]
        /\ D \subseteq tables \X Columns
    BY DEF CatalogInv, ColumnsOK
  <2>3. C \in [K -> ColumnFacts] /\ DOMAIN C = K
    <3>1. ASSUME NEW k \in K PROVE from(k) \in D
      OBVIOUS
    <3> HIDE DEF from
    <3> QED
      BY <2>2, <3>1
  <2>4. K \subseteq T \X Columns
    <3>1. ASSUME NEW j \in D PROVE key(j) \in T \X Columns
      BY <1>1, <2>2
    <3> QED
      BY <3>1
  <2>5. \A c \in Columns : <<new, c>> \in K <=> <<old, c>> \in D
    <3>1. ASSUME NEW c \in Columns, <<new, c>> \in K PROVE <<old, c>> \in D
      <4>1. PICK j \in D : key(j) = <<new, c>>
        BY <3>1
      <4>2. j[1] = old /\ j[2] = c
        BY <1>1, <2>2, <4>1
      <4>3. j = <<j[1], j[2]>>
        BY <2>2
      <4> QED
        BY <4>1, <4>2, <4>3
    <3>2. ASSUME NEW c \in Columns, <<old, c>> \in D PROVE <<new, c>> \in K
      <4>1. key(<<old, c>>) = <<new, c>>
        OBVIOUS
      <4> QED
        BY <3>2, <4>1
    <3> QED
      BY <3>1, <3>2
  <2>6. \A u \in tables \ {old}, c \in Columns : <<u, c>> \in K <=> <<u, c>> \in D
    <3>1. ASSUME NEW u \in tables \ {old}, NEW c \in Columns, <<u, c>> \in K
          PROVE  <<u, c>> \in D
      <4>1. PICK j \in D : key(j) = <<u, c>>
        BY <3>1
      <4>2. j[1] # old
        BY <1>1, <4>1
      <4> QED
        BY <4>1, <4>2
    <3>2. ASSUME NEW u \in tables \ {old}, NEW c \in Columns, <<u, c>> \in D
          PROVE  <<u, c>> \in K
      <4>1. key(<<u, c>>) = <<u, c>>
        OBVIOUS
      <4> QED
        BY <3>2, <4>1
    <3> QED
      BY <3>1, <3>2
  <2> HIDE DEF K, C, D, from, key
  <2>7. ColumnsOf(C, new) = ColumnsOf(columns, old)
        /\ \A u \in tables \ {old} : ColumnsOf(C, u) = ColumnsOf(columns, u)
    BY <2>3, <2>5, <2>6 DEF ColumnsOf, D
  <2> HIDE DEF Y
  <2>8. /\ order \in [T -> Y] /\ order[new] = columnOrder[old]
        /\ \A u \in tables \ {old} : order[u] = columnOrder[u]
    <3>1. IsMoved(tables, Y, columnOrder, order, old, new)
      BY <1>1, <2>2, MoveKeyIs
    <3> HIDE DEF order
    <3> QED
      BY <3>1 DEF IsMoved
  <2> HIDE DEF order
  <2>9. \A u \in T : order[u] \in Lists(Columns, ColumnsOf(C, u))
    BY <1>1, <2>7, <2>8 DEF CatalogInv, ColumnsOK
  <2> HIDE DEF T
  <2>10. ColumnsOK(T, order, C)
    BY <2>3, <2>4, <2>8, <2>9 DEF ColumnsOK, Y
  <2> QED
    BY <2>1, <2>10
<1>4. MeasuresOK(T, measureOrder', measures', measureTables', formatted')
  <2>1. /\ measureTables' = Rehomed(old, new)
        /\ UNCHANGED <<measureOrder, measures, formatted>>
    BY DEF RenameTable
  <2>2. Rehomed(old, new) \in [DOMAIN measures -> T]
    BY <1>1 DEF CatalogInv, MeasuresOK, Rehomed
  <2> HIDE DEF T
  <2> QED
    BY <2>1, <2>2 DEF CatalogInv, MeasuresOK
<1>5. RelationsOK(T, relationships')
  <2> DEFINE new_(r) == [r EXCEPT !.from = key(@), !.to = key(@)]
             rs == [i \in DOMAIN relationships |-> new_(relationships[i])]
  <2>1. relationships' = rs
    BY DEF RenameTable
  <2>2. relationships \in Seq(Relations) /\ DOMAIN relationships = 1..Len(relationships)
        /\ Len(relationships) \in Nat
    BY DEF CatalogInv, RelationsOK
  <2>3. ASSUME NEW i \in DOMAIN relationships
        PROVE  /\ new_(relationships[i]) \in Relations
               /\ new_(relationships[i]).from[1] \in T /\ new_(relationships[i]).to[1] \in T
    <3>1. /\ relationships[i] \in Relations
          /\ relationships[i].from[1] \in tables /\ relationships[i].to[1] \in tables
      BY <2>2 DEF CatalogInv, RelationsOK
    <3> DEFINE r == relationships[i]
    <3>2. /\ r.from \in Tables \X Columns /\ r.to \in Tables \X Columns
          /\ r.name \in Relationships /\ r.active \in BOOLEAN
      BY <3>1 DEF Relations
    <3>3. /\ key(r.from) \in Tables \X Columns /\ key(r.to) \in Tables \X Columns
          /\ key(r.from)[1] \in T /\ key(r.to)[1] \in T
      BY <3>1, <3>2
    <3>4. new_(r) = [name |-> r.name, from |-> key(r.from), to |-> key(r.to), active |-> r.active]
      <4>1. r = [name |-> r.name, from |-> r.from, to |-> r.to, active |-> r.active]
        BY <3>1 DEF Relations
      <4> DEFINE a == key(r.from)
                 b == key(r.to)
      <4>2. new_(r) = [r EXCEPT !.from = a, !.to = b]
        OBVIOUS
      <4> HIDE DEF a, b, r, new_
      <4> QED
        BY <4>1, <4>2 DEF a, b
    <3> HIDE DEF r, key, new_
    <3>5. new_(r) \in Relations /\ new_(r).from = key(r.from) /\ new_(r).to = key(r.to)
      BY <3>2, <3>3, <3>4 DEF Relations
    <3> QED
      BY <3>3, <3>5 DEF r
  <2> HIDE DEF new_, T
  <2>4. rs \in Seq(Relations) /\ DOMAIN rs = DOMAIN relationships
    BY <2>2, <2>3
  <2>5. \A i \in DOMAIN rs : rs[i].from[1] \in T /\ rs[i].to[1] \in T
    BY <2>3
  <2> HIDE DEF rs
  <2> QED
    BY <2>1, <2>4, <2>5 DEF RelationsOK
<1> QED
  BY <1>1, <1>2, <1>3, <1>4, <1>5 DEF CatalogInv

------------------------------------------------------------------------------
(* Columns.                                                                 *)

\* add_column keeps the invariant.
LEMMA AddColumnStep ==
    ASSUME NEW t \in Tables, NEW c \in Columns, NEW type \in Types,
           CatalogInv, AddColumn(t, c, type)
    PROVE  CatalogInv'
<1> DEFINE new   == [type |-> type, sortBy |-> NoColumn]
           C     == Put(columns, <<t, c>>, new)
           order == [columnOrder EXCEPT ![t] = Append(columnOrder[t], c)]
           D     == DOMAIN columns
<1>1. /\ t \in tables /\ <<t, c>> \notin D
      /\ columnOrder \in [tables -> Seq(Columns)]
      /\ columnOrder[t] \in Lists(Columns, ColumnsOf(columns, t))
      /\ columns \in [D -> ColumnFacts] /\ D \subseteq tables \X Columns
  BY DEF AddColumn, CatalogInv, ColumnsOK
<1>2. columns' = C /\ columnOrder' = order
  BY <1>1 DEF AddColumn
<1>3. C \in [D \cup {<<t, c>>} -> ColumnFacts] /\ DOMAIN C = D \cup {<<t, c>>}
  <2>1. new \in ColumnFacts
    BY DEF ColumnFacts
  <2> HIDE DEF new, D
  <2> QED
    BY <1>1, <2>1 DEF Put, D
<1>4. ColumnsOf(C, t) = ColumnsOf(columns, t) \cup {c}
      /\ \A u \in tables : u # t => ColumnsOf(C, u) = ColumnsOf(columns, u)
  <2> HIDE DEF C
  <2> QED
    BY <1>3 DEF ColumnsOf
<1>5. Append(columnOrder[t], c) \in Lists(Columns, ColumnsOf(C, t))
  <2>1. c \notin ColumnsOf(columns, t)
    BY <1>1 DEF ColumnsOf
  <2> HIDE DEF C
  <2> QED
    BY <1>1, <1>4, <2>1, AppendLists
<1> HIDE DEF C
<1>6. order \in [tables -> Seq(Columns)] /\ \A u \in tables : order[u] \in Lists(Columns, ColumnsOf(C, u))
  <2> DEFINE last == Append(columnOrder[t], c)
  <2>1. last \in Seq(Columns)
    BY <1>5 DEF Lists
  <2> HIDE DEF last
  <2>2. order[t] = last /\ \A u \in tables : u # t => order[u] = columnOrder[u]
    BY <1>1 DEF last
  <2>3. order \in [tables -> Seq(Columns)]
    BY <1>1, <2>1 DEF last
  <2> HIDE DEF order
  <2> QED
    BY <1>1, <1>4, <1>5, <2>2, <2>3 DEF CatalogInv, ColumnsOK, last
<1> HIDE DEF order
<1>7. ColumnsOK(tables, order, C)
  BY <1>1, <1>3, <1>6 DEF ColumnsOK
<1> QED
  BY <1>2, <1>7 DEF AddColumn, tableVars, measureVars, CatalogInv

\* What names the column keeps doing so, so only its own maps change.
LEMMA DeleteColumnStep ==
    ASSUME NEW t \in Tables, NEW c \in Columns, CatalogInv, DeleteColumn(t, c)
    PROVE  CatalogInv'
<1> DEFINE C     == Drop(columns, <<t, c>>)
           order == [columnOrder EXCEPT ![t] = Without(columnOrder[t], {c})]
           D     == DOMAIN columns
<1>1. /\ <<t, c>> \in D
      /\ columnOrder \in [tables -> Seq(Columns)]
      /\ columns \in [D -> ColumnFacts] /\ D \subseteq tables \X Columns
  BY DEF DeleteColumn, CatalogInv, ColumnsOK
<1>2. columns' = C /\ columnOrder' = order
  BY DEF DeleteColumn
<1>3. t \in tables /\ columnOrder[t] \in Lists(Columns, ColumnsOf(columns, t))
  BY <1>1 DEF CatalogInv, ColumnsOK
<1>4. C \in [D \ {<<t, c>>} -> ColumnFacts] /\ DOMAIN C = D \ {<<t, c>>}
  <2> HIDE DEF D
  <2> QED
    BY <1>1 DEF Drop, Restrict, D
<1>5. ColumnsOf(C, t) = ColumnsOf(columns, t) \ {c}
      /\ \A u \in tables : u # t => ColumnsOf(C, u) = ColumnsOf(columns, u)
  <2> HIDE DEF C
  <2> QED
    BY <1>4 DEF ColumnsOf
<1> HIDE DEF C
<1>6. Without(columnOrder[t], {c}) \in Lists(Columns, ColumnsOf(C, t))
  BY <1>3, <1>5, WithoutLists
<1>7. order \in [tables -> Seq(Columns)] /\ \A u \in tables : order[u] \in Lists(Columns, ColumnsOf(C, u))
  <2> DEFINE last == Without(columnOrder[t], {c})
  <2>1. last \in Seq(Columns)
    BY <1>6 DEF Lists
  <2> HIDE DEF last
  <2>2. order[t] = last /\ \A u \in tables : u # t => order[u] = columnOrder[u]
    BY <1>1, <1>3 DEF last
  <2>3. order \in [tables -> Seq(Columns)]
    BY <1>1, <1>3, <2>1 DEF last
  <2> HIDE DEF order
  <2> QED
    BY <1>5, <1>6, <2>2, <2>3 DEF CatalogInv, ColumnsOK, last
<1> HIDE DEF order
<1>8. ColumnsOK(tables, order, C)
  BY <1>1, <1>4, <1>7 DEF ColumnsOK
<1> QED
  BY <1>2, <1>8 DEF DeleteColumn, tableVars, measureVars, CatalogInv

\* rename_column keeps it: keys, order, sort-by columns and relationships
\* all follow the name.
LEMMA RenameColumnStep ==
    ASSUME NEW t \in Tables, NEW old \in Columns, NEW new \in Columns,
           CatalogInv, RenameColumn(t, old, new)
    PROVE  CatalogInv'
<1> DEFINE C     == MoveKey(columns, <<t, old>>, <<t, new>>)
           order == [columnOrder EXCEPT ![t] = ReplaceAll(columnOrder[t], old, new)]
           D     == DOMAIN columns
           E     == (D \ {<<t, old>>}) \cup {<<t, new>>}
<1>1. /\ <<t, old>> \in D /\ <<t, new>> \notin D
      /\ columnOrder \in [tables -> Seq(Columns)]
      /\ columns \in [D -> ColumnFacts] /\ D \subseteq tables \X Columns
  BY DEF RenameColumn, CatalogInv, ColumnsOK
<1>2. columns' = C /\ columnOrder' = order
  BY DEF RenameColumn, OrderRenamed
<1>3. t \in tables /\ columnOrder[t] \in Lists(Columns, ColumnsOf(columns, t))
  BY <1>1 DEF CatalogInv, ColumnsOK
<1>4. C \in [E -> ColumnFacts] /\ DOMAIN C = E
  <2> DEFINE a == <<t, old>>
             b == <<t, new>>
  <2> HIDE DEF D, a, b
  <2>1. IsMoved(D, ColumnFacts, columns, MoveKey(columns, a, b), a, b)
    BY <1>1, MoveKeyIs DEF a, b
  <2> HIDE DEF C
  <2> QED
    BY <2>1 DEF IsMoved, C, a, b
<1>5. ColumnsOf(C, t) = (ColumnsOf(columns, t) \ {old}) \cup {new}
      /\ \A u \in tables : u # t => ColumnsOf(C, u) = ColumnsOf(columns, u)
  <2> HIDE DEF C
  <2> QED
    BY <1>4 DEF ColumnsOf
<1> HIDE DEF C
<1>6. ReplaceAll(columnOrder[t], old, new) \in Lists(Columns, ColumnsOf(C, t))
  <2>1. old \in ColumnsOf(columns, t) /\ new \notin ColumnsOf(columns, t)
    BY <1>1 DEF ColumnsOf
  <2> QED
    BY <1>3, <1>5, <2>1, ReplaceLists
<1>7. order \in [tables -> Seq(Columns)] /\ \A u \in tables : order[u] \in Lists(Columns, ColumnsOf(C, u))
  <2> DEFINE last == ReplaceAll(columnOrder[t], old, new)
  <2>1. last \in Seq(Columns)
    BY <1>6 DEF Lists
  <2> HIDE DEF last
  <2>2. order[t] = last /\ \A u \in tables : u # t => order[u] = columnOrder[u]
    BY <1>1, <1>3 DEF last
  <2>3. order \in [tables -> Seq(Columns)]
    BY <1>1, <1>3, <2>1 DEF last
  <2> HIDE DEF order
  <2> QED
    BY <1>5, <1>6, <2>2, <2>3 DEF CatalogInv, ColumnsOK, last
<1> HIDE DEF order
<1>8. E \subseteq tables \X Columns
  BY <1>1, <1>3
<1> HIDE DEF E
<1>9. ColumnsOK(tables, order, C)
  BY <1>1, <1>4, <1>7, <1>8 DEF ColumnsOK
<1> QED
  BY <1>2, <1>9 DEF RenameColumn, tableVars, measureVars, CatalogInv

\* A column changes its type or its sort column.
LEMMA ChangeColumnStep ==
    ASSUME NEW k \in DOMAIN columns, NEW fact \in ColumnFacts, CatalogInv,
           columns' = [columns EXCEPT ![k] = fact],
           UNCHANGED <<columnOrder, tableVars, measureVars, relationships>>
    PROVE  CatalogInv'
<1>1. DOMAIN columns' = DOMAIN columns
  OBVIOUS
<1>2. columns' \in [DOMAIN columns -> ColumnFacts]
  BY DEF CatalogInv, ColumnsOK
<1>3. \A u : ColumnsOf(columns', u) = ColumnsOf(columns, u)
  BY <1>1 DEF ColumnsOf
<1>4. ColumnsOK(tables, columnOrder, columns')
  BY <1>1, <1>2, <1>3 DEF CatalogInv, ColumnsOK
<1> QED
  BY <1>4 DEF CatalogInv, tableVars, measureVars

\* change_column_type keeps the invariant.
LEMMA ChangeColumnTypeStep ==
    ASSUME NEW t \in Tables, NEW c \in Columns, NEW type \in Types,
           CatalogInv, ChangeColumnType(t, c, type)
    PROVE  CatalogInv'
<1> DEFINE k    == <<t, c>>
           fact == [columns[k] EXCEPT !.type = type]
<1>1. k \in DOMAIN columns /\ columns' = [columns EXCEPT ![k] = fact]
  BY DEF ChangeColumnType
<1>2. fact \in ColumnFacts
  BY <1>1 DEF CatalogInv, ColumnsOK, ColumnFacts
<1> HIDE DEF k, fact
<1>3. UNCHANGED <<columnOrder, tableVars, measureVars, relationships>>
  BY DEF ChangeColumnType
<1> QED
  BY <1>1, <1>2, <1>3, ChangeColumnStep

\* set_column_sort_by keeps the invariant.
LEMMA SetColumnSortByStep ==
    ASSUME NEW t \in Tables, NEW c \in Columns, NEW sortBy \in Columns \cup {NoColumn},
           CatalogInv, SetColumnSortBy(t, c, sortBy)
    PROVE  CatalogInv'
<1> DEFINE k    == <<t, c>>
           fact == [columns[k] EXCEPT !.sortBy = sortBy]
<1>1. k \in DOMAIN columns /\ columns' = [columns EXCEPT ![k] = fact]
  BY DEF SetColumnSortBy
<1>2. fact \in ColumnFacts
  BY <1>1 DEF CatalogInv, ColumnsOK, ColumnFacts
<1> HIDE DEF k, fact
<1>3. UNCHANGED <<columnOrder, tableVars, measureVars, relationships>>
  BY DEF SetColumnSortBy
<1> QED
  BY <1>1, <1>2, <1>3, ChangeColumnStep

------------------------------------------------------------------------------
(* Measures.                                                                *)

\* create_measure keeps the invariant.
LEMMA CreateMeasureStep ==
    ASSUME NEW t \in Tables, NEW n \in Measures, NEW expr \in Exprs, NEW format \in BOOLEAN,
           CatalogInv, CreateMeasure(t, n, expr, format)
    PROVE  CatalogInv'
<1> DEFINE D == DOMAIN measures
<1>1. /\ t \in tables /\ n \notin D
      /\ measures' = Put(measures, n, expr)
      /\ measureTables' = Put(measureTables, n, t)
      /\ measureOrder' = Append(measureOrder, n)
      /\ formatted' \subseteq formatted \cup {n}
  BY DEF CreateMeasure
<1>2. /\ measureOrder \in Lists(Measures, D) /\ measures \in [D -> Exprs]
      /\ measureTables \in [D -> tables] /\ formatted \subseteq D
  BY DEF CatalogInv, MeasuresOK
<1> HIDE DEF D
<1>3. Append(measureOrder, n) \in Lists(Measures, D \cup {n})
  BY <1>1, <1>2, AppendLists
<1>4. /\ Put(measures, n, expr) \in [D \cup {n} -> Exprs]
      /\ Put(measureTables, n, t) \in [D \cup {n} -> tables]
  BY <1>1, <1>2 DEF Put
<1>5. MeasuresOK(tables, measureOrder', measures', measureTables', formatted')
  BY <1>1, <1>2, <1>3, <1>4 DEF MeasuresOK
<1> QED
  BY <1>5 DEF CreateMeasure, tableVars, columnVars, CatalogInv

\* delete_measure keeps it: the measure leaves all three maps and the order.
LEMMA DeleteMeasureStep ==
    ASSUME NEW n \in Measures, CatalogInv, DeleteMeasure(n)
    PROVE  CatalogInv'
<1> DEFINE D == DOMAIN measures
<1>1. /\ measures' = Drop(measures, n)
      /\ measureTables' = Drop(measureTables, n)
      /\ measureOrder' = Without(measureOrder, {n})
      /\ formatted' = formatted \ {n}
  BY DEF DeleteMeasure
<1>2. /\ measureOrder \in Lists(Measures, D) /\ measures \in [D -> Exprs]
      /\ measureTables \in [D -> tables] /\ formatted \subseteq D
  BY DEF CatalogInv, MeasuresOK
<1> HIDE DEF D
<1>3. Without(measureOrder, {n}) \in Lists(Measures, D \ {n})
  BY <1>2, WithoutLists
<1>4. /\ Drop(measures, n) \in [D \ {n} -> Exprs]
      /\ Drop(measureTables, n) \in [D \ {n} -> tables]
  BY <1>2 DEF Drop, Restrict
<1>5. MeasuresOK(tables, measureOrder', measures', measureTables', formatted')
  BY <1>1, <1>2, <1>3, <1>4 DEF MeasuresOK
<1> QED
  BY <1>5 DEF DeleteMeasure, tableVars, columnVars, CatalogInv

\* rename_measure keeps it: the new name takes the old one's place everywhere.
LEMMA RenameMeasureStep ==
    ASSUME NEW old \in Measures, NEW new \in Measures, CatalogInv, RenameMeasure(old, new)
    PROVE  CatalogInv'
<1> DEFINE D == DOMAIN measures
           E == (D \ {old}) \cup {new}
<1>1. /\ old \in D /\ new \notin D
      /\ measures' = MoveKey(measures, old, new)
      /\ measureTables' = MoveKey(measureTables, old, new)
      /\ measureOrder' = ReplaceAll(measureOrder, old, new)
      /\ formatted' = MoveMember(formatted, old, new)
  BY DEF RenameMeasure
<1>2. /\ measureOrder \in Lists(Measures, D) /\ measures \in [D -> Exprs]
      /\ measureTables \in [D -> tables] /\ formatted \subseteq D
  BY DEF CatalogInv, MeasuresOK
<1> HIDE DEF D
<1>3. ReplaceAll(measureOrder, old, new) \in Lists(Measures, E)
  BY <1>1, <1>2, ReplaceLists
<1>4. /\ IsMoved(D, Exprs, measures, measures', old, new)
      /\ IsMoved(D, tables, measureTables, measureTables', old, new)
  BY <1>1, <1>2, MoveKeyIs
<1>5. measures' \in [E -> Exprs] /\ measureTables' \in [E -> tables]
  BY <1>4 DEF IsMoved
<1>6. formatted' \subseteq E
  BY <1>1, <1>2 DEF MoveMember
<1> HIDE DEF E
<1>7. MeasuresOK(tables, measureOrder', measures', measureTables', formatted')
  BY <1>1, <1>3, <1>5, <1>6 DEF MeasuresOK
<1> QED
  BY <1>7 DEF RenameMeasure, tableVars, columnVars, CatalogInv

\* update_measure_expression keeps the invariant.
LEMMA UpdateMeasureExpressionStep ==
    ASSUME NEW n \in Measures, NEW expr \in Exprs, CatalogInv, UpdateMeasureExpression(n, expr)
    PROVE  CatalogInv'
<1>1. DOMAIN measures' = DOMAIN measures /\ measures' \in [DOMAIN measures -> Exprs]
  BY DEF UpdateMeasureExpression, CatalogInv, MeasuresOK
<1> QED
  BY <1>1 DEF UpdateMeasureExpression, tableVars, columnVars, CatalogInv, MeasuresOK

\* set_measure_format_string keeps the invariant.
LEMMA SetMeasureFormatStringStep ==
    ASSUME NEW n \in Measures, NEW value \in BOOLEAN, CatalogInv, SetMeasureFormatString(n, value)
    PROVE  CatalogInv'
BY DEF SetMeasureFormatString, SetMember, tableVars, columnVars, CatalogInv, MeasuresOK

------------------------------------------------------------------------------
(* Relationships.                                                           *)

\* create_relationship keeps the invariant.
LEMMA CreateRelationshipStep ==
    ASSUME NEW r \in Relations, CatalogInv, CreateRelationship(r)
    PROVE  CatalogInv'
<1> DEFINE rs == Append(relationships, r)
<1>1. relationships' = rs /\ relationships \in Seq(Relations)
  BY DEF CreateRelationship, CatalogInv, RelationsOK
<1>2. r.from[1] \in tables /\ r.to[1] \in tables
  BY DEF CreateRelationship, CatalogInv, ColumnsOK
<1>3. /\ rs \in Seq(Relations) /\ DOMAIN rs = 1..(Len(relationships) + 1)
      /\ \A i \in DOMAIN relationships : rs[i] = relationships[i]
      /\ rs[Len(relationships) + 1] = r
      /\ DOMAIN relationships = 1..Len(relationships) /\ Len(relationships) \in Nat
  BY <1>1
<1> HIDE DEF rs
<1>4. \A i \in DOMAIN rs : rs[i].from[1] \in tables /\ rs[i].to[1] \in tables
  <2>1. ASSUME NEW i \in DOMAIN rs
        PROVE  rs[i] = r \/ (i \in DOMAIN relationships /\ rs[i] = relationships[i])
    <3>1. i = Len(relationships) + 1 \/ i \in DOMAIN relationships
      BY <1>3
    <3>2. CASE i = Len(relationships) + 1
      BY <1>3, <3>2
    <3>3. CASE i \in DOMAIN relationships
      BY <1>3, <3>3
    <3> QED
      BY <3>1, <3>2, <3>3
  <2> QED
    BY <1>2, <2>1 DEF CatalogInv, RelationsOK
<1> QED
  BY <1>1, <1>3, <1>4 DEF CreateRelationship, tableVars, columnVars, measureVars, CatalogInv, RelationsOK

\* delete_relationship keeps the invariant.
LEMMA DeleteRelationshipStep ==
    ASSUME NEW name \in Relationships, CatalogInv, DeleteRelationship(name)
    PROVE  CatalogInv'
<1> DEFINE rs == RemoveNamed(relationships, name)
<1>1. relationships' = rs /\ relationships \in Seq(Relations)
  BY DEF DeleteRelationship, RemoveNamed, CatalogInv, RelationsOK
<1>2. rs \in Seq(Relations) /\ ToSet(rs) \subseteq ToSet(relationships)
  BY <1>1, RemoveNamedIs
<1> HIDE DEF rs
<1>3. \A i \in DOMAIN rs : \E j \in DOMAIN relationships : rs[i] = relationships[j]
  BY <1>2 DEF ToSet
<1>4. \A i \in DOMAIN rs : rs[i].from[1] \in tables /\ rs[i].to[1] \in tables
  BY <1>3 DEF CatalogInv, RelationsOK
<1> QED
  BY <1>1, <1>2, <1>4 DEF DeleteRelationship, tableVars, columnVars, measureVars, CatalogInv, RelationsOK

\* update_relationship keeps the invariant.
LEMMA UpdateRelationshipStep ==
    ASSUME NEW name \in Relationships, NEW active \in BOOLEAN,
           CatalogInv, UpdateRelationship(name, active)
    PROVE  CatalogInv'
<1> DEFINE k  == Position(relationships, name)
           r  == [relationships[k] EXCEPT !.active = active]
           rs == [relationships EXCEPT ![k] = r]
<1>1. relationships' = rs /\ k # 0 /\ relationships \in Seq(Relations)
  BY DEF UpdateRelationship, Position, CatalogInv, RelationsOK
<1>2. k \in 1..Len(relationships) /\ DOMAIN relationships = 1..Len(relationships)
  <2>1. k \in 0..Len(relationships) /\ Len(relationships) \in Nat
    BY <1>1, PositionIs
  <2> HIDE DEF k
  <2> QED
    BY <1>1, <2>1
<1> HIDE DEF k
<1>3. relationships[k] \in Relations
  BY <1>1, <1>2
<1>4. /\ r \in Relations
      /\ r.from = relationships[k].from /\ r.to = relationships[k].to
  BY <1>3 DEF Relations
<1> HIDE DEF r
<1>5. /\ rs \in Seq(Relations) /\ DOMAIN rs = DOMAIN relationships
      /\ rs[k] = r
      /\ \A i \in DOMAIN rs : i # k => rs[i] = relationships[i]
  BY <1>1, <1>2, <1>4
<1> HIDE DEF rs
<1>6. \A i \in DOMAIN rs : rs[i].from[1] \in tables /\ rs[i].to[1] \in tables
  BY <1>2, <1>4, <1>5 DEF CatalogInv, RelationsOK
<1> QED
  BY <1>1, <1>5, <1>6 DEF UpdateRelationship, tableVars, columnVars, measureVars, CatalogInv, RelationsOK

------------------------------------------------------------------------------
(* A model file that loads becomes a catalog with the invariant.             *)

FileColumns  == [name : Columns, type : Types, sortBy : Columns \cup {NoColumn}]
FileMeasures == [name : Measures, expr : Exprs, formatted : BOOLEAN]
FileTables   == [name : Tables, described : BOOLEAN,
                 columns : Seq(FileColumns), measures : Seq(FileMeasures)]

\* A file in which tables, columns of a table and measures of a table have
\* different names.
IsFile(m) ==
    /\ m \in [tables : Seq(FileTables), relationships : Seq(Relations)]
    /\ IsInjective(NamesOf(m.tables))
    /\ \A t \in ToSet(m.tables) :
          IsInjective(NamesOf(t.columns)) /\ IsInjective(NamesOf(t.measures))

\* The names of a sequence of objects.
LEMMA NamesAre ==
    ASSUME NEW R, NEW X, NEW s \in Seq(R), \A r \in R : r.name \in X
    PROVE  /\ NamesOf(s) \in Seq(X)
           /\ DOMAIN NamesOf(s) = DOMAIN s
           /\ \A i \in DOMAIN s : NamesOf(s)[i] = s[i].name
<1>1. DOMAIN s = 1..Len(s) /\ Len(s) \in Nat /\ \A i \in 1..Len(s) : s[i] \in R
  OBVIOUS
<1>2. \A i \in 1..Len(s) : s[i].name \in X
  BY <1>1
<1> QED
  BY <1>1, <1>2 DEF NamesOf

\* Named finds the object with a name, and the right one if there is only one.
LEMMA NamedIs ==
    ASSUME NEW s
    PROVE  /\ \A n \in ToSet(NamesOf(s)) : Named(s, n) \in ToSet(s) /\ Named(s, n).name = n
           /\ IsInjective(NamesOf(s)) => \A i \in DOMAIN s : Named(s, s[i].name) = s[i]
<1>1. DOMAIN NamesOf(s) = DOMAIN s /\ \A i \in DOMAIN s : NamesOf(s)[i] = s[i].name
  BY DEF NamesOf
<1>2. ASSUME NEW n \in ToSet(NamesOf(s))
      PROVE  Named(s, n) \in ToSet(s) /\ Named(s, n).name = n
  <2>1. \E i \in DOMAIN s : s[i].name = n
    BY <1>1 DEF ToSet
  <2> QED
    BY <2>1 DEF Named, ToSet
<1>3. ASSUME IsInjective(NamesOf(s)), NEW i \in DOMAIN s
      PROVE  Named(s, s[i].name) = s[i]
  <2> DEFINE k == CHOOSE j \in DOMAIN s : s[j].name = s[i].name
  <2>1. k \in DOMAIN s /\ s[k].name = s[i].name
    OBVIOUS
  <2> HIDE DEF k
  <2>2. k = i
    BY <1>1, <1>3, <2>1 DEF IsInjective
  <2> QED
    BY <2>2 DEF Named, k
<1> QED
  BY <1>2, <1>3

\* The tables of a file by name.
LEMMA FileTable ==
    ASSUME NEW m, IsFile(m), NEW t \in ToSet(NamesOf(m.tables))
    PROVE  /\ Named(m.tables, t) \in ToSet(m.tables) /\ Named(m.tables, t) \in FileTables
           /\ Named(m.tables, t).name = t
           /\ IsInjective(NamesOf(Named(m.tables, t).columns))
<1>1. m.tables \in Seq(FileTables)
  BY DEF IsFile
<1>2. ToSet(m.tables) \subseteq FileTables
  BY <1>1 DEF ToSet
<1>3. Named(m.tables, t) \in ToSet(m.tables) /\ Named(m.tables, t).name = t
  BY NamedIs
<1> QED
  BY <1>2, <1>3 DEF IsFile

\* The columns a file declares are those of its tables.
LEMMA DeclaredIs ==
    ASSUME NEW m, IsFile(m)
    PROVE  /\ Declared(m) \subseteq ToSet(NamesOf(m.tables)) \X Columns
           /\ \A t \in ToSet(NamesOf(m.tables)), c \in Columns :
                 <<t, c>> \in Declared(m) <=> c \in ToSet(NamesOf(Named(m.tables, t).columns))
<1> DEFINE T == ToSet(NamesOf(m.tables))
           cols(t) == ToSet(NamesOf(t.columns))
<1>1. m.tables \in Seq(FileTables) /\ ToSet(m.tables) \subseteq FileTables
  BY DEF IsFile, ToSet
<1>2. \A t \in ToSet(m.tables) : t.name \in T
  BY <1>1 DEF ToSet, NamesOf
<1>3. \A t \in FileTables : cols(t) \subseteq Columns
  <2>1. ASSUME NEW t \in FileTables PROVE cols(t) \subseteq Columns
    <3>1. t.columns \in Seq(FileColumns) /\ \A r \in FileColumns : r.name \in Columns
      BY DEF FileTables, FileColumns
    <3>2. NamesOf(t.columns) \in Seq(Columns)
      BY <3>1, NamesAre
    <3> QED
      BY <3>2 DEF ToSet
  <2> QED
    BY <2>1
<1>4. \A t \in ToSet(m.tables) : Named(m.tables, t.name) = t
  <2>1. IsInjective(NamesOf(m.tables))
    BY DEF IsFile
  <2> QED
    BY <2>1, NamedIs DEF ToSet
<1> HIDE DEF T, cols
<1>5. Declared(m) = UNION {{<<t.name, c>> : c \in cols(t)} : t \in ToSet(m.tables)}
  BY DEF Declared, cols
<1>6. \A k : k \in Declared(m) <=>
             \E t \in ToSet(m.tables) : \E c \in cols(t) : k = <<t.name, c>>
  BY <1>5
<1>7. Declared(m) \subseteq T \X Columns
  BY <1>1, <1>2, <1>3, <1>6
<1>8. ASSUME NEW t \in T, NEW c \in Columns
      PROVE  <<t, c>> \in Declared(m) <=> c \in cols(Named(m.tables, t))
  <2>1. Named(m.tables, t) \in ToSet(m.tables) /\ Named(m.tables, t).name = t
    BY FileTable DEF T
  <2>2. ASSUME <<t, c>> \in Declared(m) PROVE c \in cols(Named(m.tables, t))
    <3>1. PICK u \in ToSet(m.tables) : \E d \in cols(u) : <<t, c>> = <<u.name, d>>
      BY <1>6, <2>2
    <3>2. t = u.name /\ c \in cols(u)
      BY <3>1
    <3> QED
      BY <1>4, <3>2
  <2>3. ASSUME c \in cols(Named(m.tables, t)) PROVE <<t, c>> \in Declared(m)
    BY <1>6, <2>1, <2>3
  <2> QED
    BY <2>2, <2>3
<1> QED
  BY <1>7, <1>8 DEF T, cols

\* The column a file declares under a key.
LEMMA FileColumnIs ==
    ASSUME NEW m, IsFile(m), NEW k \in Declared(m)
    PROVE  FileColumn(m, k) \in FileColumns
<1>1. k \in ToSet(NamesOf(m.tables)) \X Columns
  BY DeclaredIs
<1> DEFINE inTable == k[1]
           named == k[2]
<1>2. k = <<inTable, named>> /\ inTable \in ToSet(NamesOf(m.tables)) /\ named \in Columns
  BY <1>1
<1> HIDE DEF inTable, named
<1>3. named \in ToSet(NamesOf(Named(m.tables, inTable).columns))
  BY <1>2, DeclaredIs
<1>4. Named(Named(m.tables, inTable).columns, named) \in ToSet(Named(m.tables, inTable).columns)
  BY <1>3, NamedIs
<1>5. Named(m.tables, inTable).columns \in Seq(FileColumns)
  BY <1>2, FileTable DEF FileTables
<1>6. ToSet(Named(m.tables, inTable).columns) \subseteq FileColumns
  BY <1>5 DEF ToSet
<1> QED
  BY <1>4, <1>6 DEF FileColumn, inTable, named

\* The tables of a file are listed once each, in the order of the file.
LEMMA LoadedTables ==
    ASSUME NEW m, IsFile(m)
    PROVE  TablesOK(FromModel(m).tableOrder, FromModel(m).tables, FromModel(m).described)
<1> DEFINE names == NamesOf(m.tables)
           T     == ToSet(names)
           d     == {t \in T : Named(m.tables, t).described}
<1>1. FromModel(m).tableOrder = names /\ FromModel(m).tables = T /\ FromModel(m).described = d
  BY DEF FromModel
<1>2. m.tables \in Seq(FileTables) /\ \A t \in FileTables : t.name \in Tables
  BY DEF IsFile, FileTables
<1>3. names \in Seq(Tables) /\ IsInjective(names)
  BY <1>2, NamesAre DEF IsFile
<1> HIDE DEF names
<1>4. T \subseteq Tables
  BY <1>3 DEF ToSet
<1>5. names \in Lists(Tables, T) /\ d \subseteq T
  BY <1>3 DEF Lists
<1> HIDE DEF T, d
<1> QED
  BY <1>1, <1>4, <1>5 DEF TablesOK

\* So are the columns of each of its tables.
LEMMA LoadedColumns ==
    ASSUME NEW m, IsFile(m)
    PROVE  ColumnsOK(FromModel(m).tables, FromModel(m).columnOrder, FromModel(m).columns)
<1> DEFINE T     == ToSet(NamesOf(m.tables))
           names(t) == NamesOf(Named(m.tables, t).columns)
           order == [t \in T |-> names(t)]
           fact(k) == [type |-> FileColumn(m, k).type, sortBy |-> FileColumn(m, k).sortBy]
           C     == [k \in Declared(m) |-> fact(k)]
<1>1. FromModel(m).tables = T /\ FromModel(m).columnOrder = order /\ FromModel(m).columns = C
  BY DEF FromModel
<1>2. ASSUME NEW t \in T PROVE names(t) \in Seq(Columns) /\ IsInjective(names(t))
  <2>1. /\ Named(m.tables, t).columns \in Seq(FileColumns)
        /\ IsInjective(NamesOf(Named(m.tables, t).columns))
        /\ \A r \in FileColumns : r.name \in Columns
    BY FileTable DEF FileTables, FileColumns
  <2> QED
    BY <2>1, NamesAre
<1>3. \A t \in T, c \in Columns : <<t, c>> \in Declared(m) <=> c \in ToSet(names(t))
  BY DeclaredIs
<1>4. Declared(m) \subseteq T \X Columns
  BY DeclaredIs
<1>5. \A k \in Declared(m) : fact(k) \in ColumnFacts
  <2>1. ASSUME NEW k \in Declared(m) PROVE fact(k) \in ColumnFacts
    <3>1. FileColumn(m, k) \in FileColumns
      BY FileColumnIs
    <3> QED
      BY <3>1 DEF FileColumns, ColumnFacts
  <2> QED
    BY <2>1
<1> HIDE DEF T, names, fact
<1>6. C \in [Declared(m) -> ColumnFacts] /\ DOMAIN C = Declared(m)
  BY <1>5
<1> HIDE DEF C
<1>7. \A t \in T : order[t] \in Lists(Columns, ColumnsOf(C, t))
  <2>1. ASSUME NEW t \in T PROVE order[t] \in Lists(Columns, ColumnsOf(C, t))
    <3>1. names(t) \in Seq(Columns) /\ IsInjective(names(t)) /\ order[t] = names(t)
      BY <1>2
    <3>2. ToSet(names(t)) \subseteq Columns
      BY <3>1 DEF ToSet
    <3>3. ToSet(names(t)) = ColumnsOf(C, t)
      BY <1>3, <1>6, <3>2 DEF ColumnsOf
    <3> QED
      BY <3>1, <3>3 DEF Lists
  <2> QED
    BY <2>1
<1>8. order \in [T -> Seq(Columns)]
  BY <1>2
<1> HIDE DEF order
<1>9. ColumnsOK(T, order, C)
  BY <1>4, <1>6, <1>7, <1>8 DEF ColumnsOK
<1> QED
  BY <1>1, <1>9

\* What is in the file is of tables of the file.
LEMMA LoadedRelations ==
    ASSUME NEW m, IsFile(m), Loads(m)
    PROVE  RelationsOK(FromModel(m).tables, FromModel(m).relationships)
<1> DEFINE T == ToSet(NamesOf(m.tables))
<1>1. FromModel(m).tables = T /\ FromModel(m).relationships = m.relationships
  BY DEF FromModel
<1>2. m.relationships \in Seq(Relations)
  BY DEF IsFile
<1>3. \A r \in ToSet(m.relationships) : r.from \in Declared(m) /\ r.to \in Declared(m)
  BY DEF Loads
<1>4. Declared(m) \subseteq T \X Columns
  BY DeclaredIs
<1> HIDE DEF T
<1>5. \A i \in DOMAIN m.relationships :
         m.relationships[i].from[1] \in T /\ m.relationships[i].to[1] \in T
  <2>1. ASSUME NEW i \in DOMAIN m.relationships
        PROVE  m.relationships[i].from[1] \in T /\ m.relationships[i].to[1] \in T
    <3>1. m.relationships[i] \in ToSet(m.relationships)
      BY DEF ToSet
    <3> QED
      BY <1>3, <1>4, <3>1
  <2> QED
    BY <2>1
<1> QED
  BY <1>1, <1>2, <1>5 DEF RelationsOK

\* A measure that several tables declare is kept once.
LEMMA LoadedMeasures ==
    ASSUME NEW m, IsFile(m)
    PROVE  MeasuresOK(FromModel(m).tables, FromModel(m).measureOrder, FromModel(m).measures,
                      FromModel(m).measureTables, FromModel(m).formatted)
<1> DEFINE D        == DOMAIN m.tables
           names(i) == NamesOf(m.tables[i].measures)
           occ(n)   == Occurrences(m, n)
           T        == ToSet(NamesOf(m.tables))
           M        == UNION {ToSet(NamesOf(t.measures)) : t \in ToSet(m.tables)}
           last(n)  == m.tables[Max(occ(n))]
           own(i)   == {n \in M : Min(occ(n)) = i}
           first(i) == Only(names(i), own(i))
           parts    == [i \in D |-> first(i)]
           order    == FlattenSeq(parts)
           exprs    == [n \in M |-> Named(last(n).measures, n).expr]
           tabs     == [n \in M |-> last(n).name]
           fmt      == {n \in M : \E i \in occ(n) : Named(m.tables[i].measures, n).formatted}
<1>1. /\ FromModel(m).tables = T /\ FromModel(m).measureOrder = order
      /\ FromModel(m).measures = exprs /\ FromModel(m).measureTables = tabs
      /\ FromModel(m).formatted = fmt
  BY DEF FromModel
<1>2. /\ m.tables \in Seq(FileTables) /\ Len(m.tables) \in Nat /\ D = 1..Len(m.tables)
      /\ \A i \in D : m.tables[i] \in FileTables
  BY DEF IsFile
<1>3. ASSUME NEW i \in D
      PROVE  /\ m.tables[i].measures \in Seq(FileMeasures)
             /\ names(i) \in Seq(Measures) /\ IsInjective(names(i))
             /\ m.tables[i].name \in T
  <2>1. m.tables[i] \in ToSet(m.tables)
    BY DEF ToSet
  <2>2. m.tables[i].measures \in Seq(FileMeasures) /\ \A r \in FileMeasures : r.name \in Measures
    BY <1>2 DEF FileTables, FileMeasures
  <2>3. m.tables[i].name \in T
    BY DEF ToSet, NamesOf
  <2> QED
    BY <2>1, <2>2, <2>3, NamesAre DEF IsFile
<1>4. \A n : n \in M <=> \E i \in D : n \in ToSet(names(i))
  BY DEF ToSet
<1>5. \A n : occ(n) = {i \in D : n \in ToSet(names(i))}
  BY DEF Occurrences
<1> HIDE DEF D, names, occ, T, M
<1>6. ASSUME NEW n \in M
      PROVE  /\ Min(occ(n)) \in D /\ n \in ToSet(names(Min(occ(n))))
             /\ Max(occ(n)) \in D /\ n \in ToSet(names(Max(occ(n))))
  <2>1. occ(n) # {} /\ occ(n) \in SUBSET Nat /\ occ(n) \in SUBSET (0..Len(m.tables))
    BY <1>2, <1>4, <1>5
  <2>2. Min(occ(n)) \in occ(n) /\ Max(occ(n)) \in occ(n)
    BY <1>2, <2>1, MinIs, MaxIs
  <2> QED
    BY <1>5, <2>2
<1>7. ASSUME NEW i \in D
      PROVE  first(i) \in Lists(Measures, own(i))
  <2>1. own(i) \subseteq ToSet(names(i))
    BY <1>6
  <2> DEFINE nn == names(i)
             oo == own(i)
  <2>2. nn \in Seq(Measures) /\ IsInjective(nn) /\ oo \subseteq ToSet(nn)
    BY <1>3, <2>1
  <2> HIDE DEF nn, oo
  <2>3. Only(nn, oo) \in Seq(Measures) /\ ToSet(Only(nn, oo)) = oo /\ IsInjective(Only(nn, oo))
    <3>1. /\ Only(nn, oo) \in Seq(Measures)
          /\ ToSet(Only(nn, oo)) = ToSet(nn) \cap oo
          /\ IsInjective(nn) => IsInjective(Only(nn, oo))
      BY <2>2, OnlyIs
    <3> QED
      BY <2>2, <3>1
  <2> QED
    BY <2>3 DEF nn, oo, Lists
<1> HIDE DEF first
<1>8. order \in Lists(Measures, M)
  <2> DEFINE E == [i \in D |-> own(i)]
  <2>1. parts \in Seq(Seq(Measures)) /\ Len(parts) = Len(m.tables) /\ 1..Len(parts) = D
    BY <1>2, <1>7 DEF Lists
  <2>2. \A i \in D : parts[i] = first(i) /\ E[i] = own(i)
    OBVIOUS
  <2>3. \A i, j \in D : i # j => own(i) \cap own(j) = {}
    OBVIOUS
  <2> HIDE DEF own
  <2>4. \A i \in D : parts[i] \in Lists(Measures, E[i])
    BY <1>7, <2>2
  <2>5. \A i, j \in D : i # j => E[i] \cap E[j] = {}
    BY <2>2, <2>3
  <2>6. UNION {E[i] : i \in D} = M
    <3>1. \A i \in D : E[i] \subseteq M
      BY DEF own
    <3>2. ASSUME NEW n \in M PROVE \E i \in D : n \in E[i]
      BY <1>6, <2>2 DEF own
    <3> HIDE DEF E
    <3> QED
      BY <3>1, <3>2
  <2> HIDE DEF E, parts
  <2>7. FlattenSeq(parts) \in Lists(Measures, UnionUpTo(E, Len(parts)))
    <3>1. ListsApart(Measures, parts, E)
      BY <2>1, <2>4, <2>5 DEF ListsApart
    <3> QED
      BY <2>1, <3>1, FlattenLists
  <2>8. order \in Lists(Measures, UnionUpTo(E, Len(parts)))
    BY <2>7
  <2>9. UnionUpTo(E, Len(parts)) = UNION {E[i] : i \in D}
    BY <2>1 DEF UnionUpTo
  <2> HIDE DEF order
  <2> QED
    BY <2>6, <2>8, <2>9
<1> HIDE DEF order, parts, own
<1>9. exprs \in [M -> Exprs] /\ DOMAIN exprs = M
  <2>1. ASSUME NEW n \in M PROVE Named(last(n).measures, n).expr \in Exprs
    <3>1. last(n).measures \in Seq(FileMeasures) /\ n \in ToSet(NamesOf(last(n).measures))
      BY <1>3, <1>6 DEF names
    <3> HIDE DEF last
    <3>2. Named(last(n).measures, n) \in ToSet(last(n).measures)
      BY <3>1, NamedIs
    <3>3. ToSet(last(n).measures) \subseteq FileMeasures
      BY <3>1 DEF ToSet
    <3> QED
      BY <3>2, <3>3 DEF FileMeasures
  <2> HIDE DEF last
  <2> QED
    BY <2>1
<1>10. tabs \in [M -> T]
  BY <1>3, <1>6
<1>11. fmt \subseteq M
  OBVIOUS
<1> HIDE DEF exprs, tabs, fmt
<1>12. MeasuresOK(T, order, exprs, tabs, fmt)
  BY <1>8, <1>9, <1>10, <1>11 DEF MeasuresOK
<1> QED
  BY <1>1, <1>12

------------------------------------------------------------------------------
(* A catalog with the invariant is saved as a file from_model can read.      *)

\* The invariant, of a catalog that need not be the current one.
IsCatalog(c) ==
    /\ TablesOK(c.tableOrder, c.tables, c.described)
    /\ ColumnsOK(c.tables, c.columnOrder, c.columns)
    /\ MeasuresOK(c.tables, c.measureOrder, c.measures, c.measureTables, c.formatted)
    /\ RelationsOK(c.tables, c.relationships)

MeasuresOf(c, t) == {n \in DOMAIN c.measures : c.measureTables[n] = t}

\* No column is left out.
LEMMA SavedColumnsAre ==
    ASSUME NEW c, IsCatalog(c), NEW t \in c.tables
    PROVE  /\ SavedColumns(c, t) \in Seq(FileColumns)
           /\ NamesOf(SavedColumns(c, t)) = c.columnOrder[t]
           /\ \A i \in DOMAIN c.columnOrder[t] :
                 SavedColumns(c, t)[i] =
                    [name   |-> c.columnOrder[t][i],
                     type   |-> c.columns[<<t, c.columnOrder[t][i]>>].type,
                     sortBy |-> c.columns[<<t, c.columnOrder[t][i]>>].sortBy]
<1> DEFINE order == c.columnOrder[t]
           have  == {k[2] : k \in {j \in DOMAIN c.columns : j[1] = t}}
           col(n) == [name |-> n, type |-> c.columns[<<t, n>>].type,
                      sortBy |-> c.columns[<<t, n>>].sortBy]
           saved == [i \in DOMAIN order |-> col(order[i])]
<1>1. /\ order \in Lists(Columns, ColumnsOf(c.columns, t)) /\ t \in DOMAIN c.columnOrder
      /\ c.columns \in [DOMAIN c.columns -> ColumnFacts]
  BY DEF IsCatalog, ColumnsOK
<1>2. ColumnsOf(c.columns, t) \subseteq have
  <2>1. ASSUME NEW n \in ColumnsOf(c.columns, t) PROVE n \in have
    <3>1. <<t, n>> \in {j \in DOMAIN c.columns : j[1] = t} /\ <<t, n>>[2] = n
      BY DEF ColumnsOf
    <3> QED
      BY <3>1
  <2> QED
    BY <2>1
<1> HIDE DEF have
<1>3. Only(order, have) = order
  <2> HIDE DEF order
  <2>1. order \in Seq(Columns) /\ ToSet(order) \subseteq have
    BY <1>1, <1>2 DEF Lists
  <2> QED
    BY <2>1, OnlyAll
<1>4. SavedColumns(c, t) = saved
  BY <1>1, <1>3 DEF SavedColumns, have
<1>5. order \in Seq(Columns) /\ DOMAIN order = 1..Len(order) /\ Len(order) \in Nat
  BY <1>1 DEF Lists
<1>6. \A i \in DOMAIN order : col(order[i]) \in FileColumns /\ col(order[i]).name = order[i]
  <2>1. ASSUME NEW i \in DOMAIN order
        PROVE  col(order[i]) \in FileColumns /\ col(order[i]).name = order[i]
    <3>1. order[i] \in ColumnsOf(c.columns, t)
      BY <1>1 DEF Lists, ToSet
    <3> HIDE DEF order
    <3>2. order[i] \in Columns /\ c.columns[<<t, order[i]>>] \in ColumnFacts
      BY <1>1, <3>1 DEF ColumnsOf
    <3> QED
      BY <3>2 DEF ColumnFacts, FileColumns
  <2> QED
    BY <2>1
<1> HIDE DEF order, col
<1>7. saved \in Seq(FileColumns) /\ DOMAIN saved = DOMAIN order
  BY <1>5, <1>6
<1>8. NamesOf(saved) = order
  <2>1. NamesOf(saved) = [i \in DOMAIN order |-> col(order[i]).name]
    BY <1>7 DEF NamesOf
  <2>2. [i \in DOMAIN order |-> col(order[i]).name] = [i \in DOMAIN order |-> order[i]]
    BY <1>6
  <2>3. order = [i \in DOMAIN order |-> order[i]]
    BY <1>5
  <2> QED
    BY <2>1, <2>2, <2>3
<1> QED
  BY <1>4, <1>7, <1>8 DEF order, col

\* No measure is left out, and each is saved with its table.
LEMMA SavedMeasuresAre ==
    ASSUME NEW c, IsCatalog(c), NEW t \in c.tables
    PROVE  /\ SavedMeasures(c, t) \in Seq(FileMeasures)
           /\ NamesOf(SavedMeasures(c, t)) = Only(c.measureOrder, MeasuresOf(c, t))
           /\ NamesOf(SavedMeasures(c, t)) \in Lists(Measures, MeasuresOf(c, t))
           /\ \A i \in DOMAIN SavedMeasures(c, t) :
                 LET n == Only(c.measureOrder, MeasuresOf(c, t))[i]
                 IN  SavedMeasures(c, t)[i] =
                        [name |-> n, expr |-> c.measures[n], formatted |-> n \in c.formatted]
<1> DEFINE own    == Only(c.measureOrder, MeasuresOf(c, t))
           mea(n) == [name |-> n, expr |-> c.measures[n], formatted |-> n \in c.formatted]
           saved  == [i \in DOMAIN own |-> mea(own[i])]
<1>1. /\ c.measureOrder \in Lists(Measures, DOMAIN c.measures)
      /\ c.measures \in [DOMAIN c.measures -> Exprs]
      /\ DOMAIN c.measureTables = DOMAIN c.measures
  BY DEF IsCatalog, MeasuresOK
<1>2. SavedMeasures(c, t) = saved
  <2>1. {n \in DOMAIN c.measures \cap DOMAIN c.measureTables : c.measureTables[n] = t} = MeasuresOf(c, t)
    BY <1>1 DEF MeasuresOf
  <2> QED
    BY <2>1 DEF SavedMeasures
<1>3. own \in Lists(Measures, MeasuresOf(c, t))
  <2>1. c.measureOrder \in Seq(Measures) /\ IsInjective(c.measureOrder)
        /\ ToSet(c.measureOrder) = DOMAIN c.measures
    BY <1>1 DEF Lists
  <2>2. own \in Seq(Measures) /\ ToSet(own) = ToSet(c.measureOrder) \cap MeasuresOf(c, t)
        /\ IsInjective(own)
    BY <2>1, OnlyIs
  <2> HIDE DEF own
  <2> QED
    BY <2>1, <2>2 DEF Lists, MeasuresOf
<1> HIDE DEF own
<1>4. own \in Seq(Measures) /\ DOMAIN own = 1..Len(own) /\ Len(own) \in Nat
  BY <1>3 DEF Lists
<1>5. \A i \in DOMAIN own : mea(own[i]) \in FileMeasures /\ mea(own[i]).name = own[i]
  <2>1. ASSUME NEW i \in DOMAIN own
        PROVE  mea(own[i]) \in FileMeasures /\ mea(own[i]).name = own[i]
    <3>1. own[i] \in MeasuresOf(c, t)
      BY <1>3 DEF Lists, ToSet
    <3>2. own[i] \in Measures /\ c.measures[own[i]] \in Exprs
      BY <1>1, <1>4, <3>1 DEF MeasuresOf
    <3> QED
      BY <3>2 DEF FileMeasures
  <2> QED
    BY <2>1
<1> HIDE DEF mea
<1>6. saved \in Seq(FileMeasures) /\ DOMAIN saved = DOMAIN own
  BY <1>4, <1>5
<1>7. NamesOf(saved) = own
  <2>1. NamesOf(saved) = [i \in DOMAIN own |-> mea(own[i]).name]
    BY <1>6 DEF NamesOf
  <2>2. [i \in DOMAIN own |-> mea(own[i]).name] = [i \in DOMAIN own |-> own[i]]
    BY <1>5
  <2>3. own = [i \in DOMAIN own |-> own[i]]
    BY <1>4
  <2> QED
    BY <2>1, <2>2, <2>3
<1> QED
  BY <1>2, <1>3, <1>6, <1>7 DEF own, mea

\* m is a file with every table of c once, its own columns and measures with it.
IsSaved(c, m) ==
    /\ IsFile(m)
    /\ NamesOf(m.tables) = c.tableOrder
    /\ DOMAIN m.tables = DOMAIN c.tableOrder
    /\ \A i \in DOMAIN c.tableOrder :
          m.tables[i] = [name      |-> c.tableOrder[i],
                         described |-> c.tableOrder[i] \in c.described,
                         columns   |-> SavedColumns(c, c.tableOrder[i]),
                         measures  |-> SavedMeasures(c, c.tableOrder[i])]
    /\ m.relationships = c.relationships

\* to_tmsl_model makes such a file.
LEMMA SavedIsFile ==
    ASSUME NEW c, IsCatalog(c)
    PROVE  IsSaved(c, ToModel(c))
<1> DEFINE order  == c.tableOrder
           tab(t) == [name |-> t, described |-> t \in c.described,
                      columns |-> SavedColumns(c, t), measures |-> SavedMeasures(c, t)]
           saved  == [i \in DOMAIN order |-> tab(order[i])]
<1>1. order \in Lists(Tables, c.tables)
  BY DEF IsCatalog, TablesOK
<1>2. ToModel(c) = [tables |-> saved, relationships |-> c.relationships]
  BY DEF ToModel
<1>3. /\ order \in Seq(Tables) /\ DOMAIN order = 1..Len(order) /\ Len(order) \in Nat
      /\ IsInjective(order)
      /\ \A i \in DOMAIN order : order[i] \in c.tables
  BY <1>1 DEF Lists, ToSet
<1> HIDE DEF order
<1>4. \A i \in DOMAIN order :
         /\ tab(order[i]) \in FileTables /\ tab(order[i]).name = order[i]
         /\ IsInjective(NamesOf(tab(order[i]).columns))
         /\ IsInjective(NamesOf(tab(order[i]).measures))
  <2>1. ASSUME NEW i \in DOMAIN order
        PROVE  /\ tab(order[i]) \in FileTables /\ tab(order[i]).name = order[i]
               /\ IsInjective(NamesOf(tab(order[i]).columns))
               /\ IsInjective(NamesOf(tab(order[i]).measures))
    <3> DEFINE t == order[i]
    <3>1. t \in Tables /\ t \in c.tables
      BY <1>3
    <3> HIDE DEF t
    <3>2. SavedColumns(c, t) \in Seq(FileColumns) /\ SavedMeasures(c, t) \in Seq(FileMeasures)
      BY <3>1, SavedColumnsAre, SavedMeasuresAre
    <3>3. IsInjective(NamesOf(SavedColumns(c, t)))
      <4>1. NamesOf(SavedColumns(c, t)) = c.columnOrder[t]
        BY <3>1, SavedColumnsAre
      <4> QED
        BY <3>1, <4>1 DEF IsCatalog, ColumnsOK, Lists
    <3>4. IsInjective(NamesOf(SavedMeasures(c, t)))
      <4>1. NamesOf(SavedMeasures(c, t)) \in Lists(Measures, MeasuresOf(c, t))
        BY <3>1, SavedMeasuresAre
      <4> QED
        BY <4>1 DEF Lists
    <3>5. tab(t) \in FileTables /\ tab(t).name = t
      BY <3>1, <3>2 DEF FileTables
    <3>6. tab(t).columns = SavedColumns(c, t) /\ tab(t).measures = SavedMeasures(c, t)
      OBVIOUS
    <3> HIDE DEF tab
    <3> QED
      BY <3>3, <3>4, <3>5, <3>6 DEF t
  <2> QED
    BY <2>1
<1> HIDE DEF tab
<1>5. saved \in Seq(FileTables) /\ DOMAIN saved = DOMAIN order
  BY <1>3, <1>4
<1>6. NamesOf(saved) = order
  <2>1. NamesOf(saved) = [i \in DOMAIN order |-> tab(order[i]).name]
    BY <1>5 DEF NamesOf
  <2>2. [i \in DOMAIN order |-> tab(order[i]).name] = [i \in DOMAIN order |-> order[i]]
    BY <1>4
  <2>3. order = [i \in DOMAIN order |-> order[i]]
    BY <1>3
  <2> QED
    BY <2>1, <2>2, <2>3
<1>7. IsFile(ToModel(c))
  <2>1. \A t \in ToSet(saved) : IsInjective(NamesOf(t.columns)) /\ IsInjective(NamesOf(t.measures))
    BY <1>4 DEF ToSet
  <2>2. c.relationships \in Seq(Relations)
    BY DEF IsCatalog, RelationsOK
  <2> HIDE DEF saved
  <2> QED
    BY <1>2, <1>3, <1>5, <1>6, <2>1, <2>2 DEF IsFile
<1> QED
  BY <1>2, <1>5, <1>6, <1>7 DEF order, tab, IsSaved

\* A file that loads gives a catalog with the invariant.
LEMMA LoadedIsCatalog ==
    ASSUME NEW m, IsFile(m), Loads(m)
    PROVE  IsCatalog(FromModel(m))
BY LoadedTables, LoadedColumns, LoadedMeasures, LoadedRelations DEF IsCatalog

\* The files the server may start from are such files.
LEMMA InitialIsFile ==
    ASSUME NEW m \in InitialModels
    PROVE  IsFile(m) /\ Loads(m)
BY InitialModelsLoad DEF IsFile, Models, FileTables, FileColumns, FileMeasures

\* A catalog loaded from an initial model satisfies the invariant.
LEMMA InitIsCatalog ==
    ASSUME Init
    PROVE  CatalogInv
<1>1. PICK m \in InitialModels : InitFrom(FromModel(m))
  BY DEF Init
<1> DEFINE c == FromModel(m)
<1>2. IsCatalog(c)
  BY InitialIsFile, LoadedIsCatalog
<1> HIDE DEF c
<1>3. InitFrom(c)
  BY <1>1 DEF c
<1> QED
  BY <1>2, <1>3 DEF InitFrom, IsCatalog, CatalogInv

\* A save and a load keep the invariant.
LEMMA SaveAndLoadStep ==
    ASSUME CatalogInv, SaveAndLoad
    PROVE  CatalogInv'
<1>1. IsCatalog(Current)
  BY DEF CatalogInv, IsCatalog, Current
<1> DEFINE m == ToModel(Current)
           c == FromModel(m)
<1>2. IsFile(m)
  BY <1>1, SavedIsFile DEF IsSaved
<1>3. Loads(m) /\ Become(c)
  BY DEF SaveAndLoad
<1> HIDE DEF m
<1>4. IsCatalog(c)
  BY <1>2, <1>3, LoadedIsCatalog
<1> HIDE DEF c
<1> QED
  BY <1>3, <1>4 DEF Become, IsCatalog, CatalogInv

\* Every command keeps the invariant.
LEMMA CatalogStep ==
    ASSUME CatalogInv, [Next]_vars
    PROVE  CatalogInv'
<1>1. CASE TableCommand
  BY <1>1, CreateTableStep, DeleteTableStep, RenameTableStep, SetTableDescriptionStep
     DEF TableCommand
<1>2. CASE ColumnCommand
  BY <1>2, AddColumnStep, ChangeColumnTypeStep, DeleteColumnStep, RenameColumnStep,
     SetColumnSortByStep DEF ColumnCommand
<1>3. CASE MeasureCommand
  BY <1>3, CreateMeasureStep, DeleteMeasureStep, RenameMeasureStep,
     UpdateMeasureExpressionStep, SetMeasureFormatStringStep DEF MeasureCommand
<1>4. CASE RelationshipCommand
  BY <1>4, CreateRelationshipStep, DeleteRelationshipStep, UpdateRelationshipStep
     DEF RelationshipCommand
<1>5. CASE SaveAndLoad
  BY <1>5, SaveAndLoadStep
<1>6. CASE UNCHANGED vars
  BY <1>6 DEF vars, CatalogInv
<1> QED
  BY <1>1, <1>2, <1>3, <1>4, <1>5, <1>6 DEF Next

\* The inductive invariant always holds.
THEOREM CatalogInvAlways == Spec => []CatalogInv
<1>1. Init => CatalogInv
  BY InitIsCatalog
<1>2. CatalogInv /\ [Next]_vars => CatalogInv'
  BY CatalogStep
<1> QED
  BY <1>1, <1>2, PTL DEF Spec

\* Every table has its list of columns, and every value the type of its map
\* (Catalog in catalog/mod.rs).
THEOREM CatalogTypesAlways == Spec => []CatalogTypeOK
<1>1. CatalogInv => CatalogTypeOK
  BY CatalogInvImplies
<1> QED
  BY <1>1, CatalogInvAlways, PTL

\* After any commands, table_order, column_order and measure_order name what
\* the maps have, each once: to_tmsl_model, which goes by the order lists,
\* leaves nothing out and writes nothing twice.
THEOREM OrdersAgreeAlways == Spec => []OrdersAgree
<1>1. CatalogInv => OrdersAgree
  BY CatalogInvImplies
<1> QED
  BY <1>1, CatalogInvAlways, PTL

\* After any commands, no measure, relationship or property is left of a table
\* or a measure that was deleted or renamed: a new one of its name inherits
\* nothing.
THEOREM NoOrphansAlways == Spec => []NoOrphans
<1>1. CatalogInv => NoOrphans
  BY CatalogInvImplies
<1> QED
  BY <1>1, CatalogInvAlways, PTL

------------------------------------------------------------------------------
(* Filtering what was put together.                                          *)

\* Nothing of a sequence without elements of S stays.
LEMMA OnlyNone ==
    ASSUME NEW X, NEW s \in Seq(X), NEW S, ToSet(s) \cap S = {}
    PROVE  Only(s, S) = <<>>
<1>1. Only(s, S) \in Seq(X) /\ ToSet(Only(s, S)) = ToSet(s) \cap S
  BY OnlyIs
<1> DEFINE t == Only(s, S)
<1>2. t \in Seq(X) /\ ToSet(t) = {}
  BY <1>1
<1> HIDE DEF t
<1>3. DOMAIN t = 1..Len(t) /\ Len(t) \in Nat /\ DOMAIN t = {}
  <2>1. DOMAIN t = 1..Len(t) /\ Len(t) \in Nat
    BY <1>2
  <2>2. \A i \in DOMAIN t : t[i] \in ToSet(t)
    BY DEF ToSet
  <2> QED
    BY <1>2, <2>1, <2>2
<1>4. Len(t) = 0
  <2>1. Len(t) > 0 => 1 \in DOMAIN t
    BY <1>3
  <2> QED
    BY <1>3, <2>1
<1> QED
  BY <1>2, <1>4 DEF t

\* An element is appended to a concatenation by appending it to the last part.
AppendsLast(p, q, e) == Append(p \o q, e) = p \o Append(q, e)

\* That is so of all sequences.
LEMMA AppendLast ==
    ASSUME NEW Y, NEW p \in Seq(Y), NEW q \in Seq(Y), NEW e \in Y
    PROVE  AppendsLast(p, q, e)
<1> DEFINE l == <<e>>
<1>1. l \in Seq(Y) /\ p \o q \in Seq(Y)
  BY ConcatProperties
<1>2. Append(p \o q, e) = (p \o q) \o l /\ Append(q, e) = q \o l
  BY <1>1, AppendIsConcat
<1> HIDE DEF l
<1>3. (p \o q) \o l = p \o (q \o l)
  BY <1>1, ConcatAssociative
<1> QED
  BY <1>2, <1>3 DEF AppendsLast

\* Two sequences may be filtered before or after they are put together.
Distributes(s, t, S) == Only(s \o t, S) = Only(s, S) \o Only(t, S)

\* They may.
LEMMA OnlyConcat ==
    ASSUME NEW X, NEW s \in Seq(X), NEW t \in Seq(X), NEW S
    PROVE  Distributes(s, t, S)
<1> DEFINE u == s \o t
           M == Len(s)
           N == Len(t)
<1>1. u \in Seq(X) /\ M \in Nat /\ N \in Nat /\ Len(u) = M + N
  OBVIOUS
<1>2. \A i \in 1..(M + N) : u[i] = IF i <= M THEN s[i] ELSE t[i - M]
  BY ConcatProperties
<1> HIDE DEF u
<1>3. PICK f \in [0..M -> Seq(X)] :
          /\ f[0] = <<>> /\ Only(s, S) = f[M]
          /\ \A n \in 1..M : f[n] = IF s[n] \in S THEN Append(f[n - 1], s[n]) ELSE f[n - 1]
  <2>1. OnlyFrom(X, s, S) # {}
    BY OnlySteps
  <2> QED
    BY <2>1 DEF OnlyFrom
<1>4. PICK g \in [0..N -> Seq(X)] :
          /\ g[0] = <<>> /\ Only(t, S) = g[N]
          /\ \A n \in 1..N : g[n] = IF t[n] \in S THEN Append(g[n - 1], t[n]) ELSE g[n - 1]
  <2>1. OnlyFrom(X, t, S) # {}
    BY OnlySteps
  <2> QED
    BY <2>1 DEF OnlyFrom
<1>5. PICK h \in [0..(M + N) -> Seq(X)] :
          /\ h[0] = <<>> /\ Only(u, S) = h[M + N]
          /\ \A n \in 1..(M + N) :
                h[n] = IF u[n] \in S THEN Append(h[n - 1], u[n]) ELSE h[n - 1]
  <2>1. OnlyFrom(X, u, S) # {}
    BY <1>1, OnlySteps
  <2> QED
    BY <1>1, <2>1 DEF OnlyFrom
<1> HIDE DEF M, N
<1>6. h[M] = f[M]
  <2> DEFINE P == {n \in 0..M : h[n] = f[n]}
  <2>1. 0 \in P
    BY <1>1, <1>3, <1>5
  <2>2. ASSUME NEW n \in 0..(M - 1), n \in P PROVE n + 1 \in P
    <3>1. /\ n + 1 \in 1..M /\ n + 1 \in 1..(M + N) /\ (n + 1) - 1 = n /\ n + 1 <= M
          /\ n + 1 \in 0..M
      BY <1>1
    <3>2. u[n + 1] = s[n + 1]
      BY <1>2, <3>1
    <3>3. h[n + 1] = IF u[n + 1] \in S THEN Append(h[n], u[n + 1]) ELSE h[n]
      BY <1>5, <3>1
    <3>4. f[n + 1] = IF s[n + 1] \in S THEN Append(f[n], s[n + 1]) ELSE f[n]
      BY <1>3, <3>1
    <3> QED
      BY <2>2, <3>1, <3>2, <3>3, <3>4
  <2> HIDE DEF P
  <2>3. 0..M \subseteq P
    BY <1>1, <2>1, <2>2, Induction
  <2> QED
    BY <1>1, <2>3 DEF P
<1>7. h[M + N] = f[M] \o g[N]
  <2> DEFINE P == {n \in 0..N : h[M + n] = f[M] \o g[n]}
  <2>0. f[M] \in Seq(X) /\ \A n \in 0..N : g[n] \in Seq(X)
    BY <1>1
  <2>1. 0 \in P
    <3>1. f[M] \o <<>> = f[M]
      BY <2>0, ConcatEmptySeq
    <3>2. M + 0 = M /\ 0 \in 0..N
      BY <1>1
    <3> QED
      BY <1>4, <1>6, <3>1, <3>2
  <2>2. ASSUME NEW n \in 0..(N - 1), n \in P PROVE n + 1 \in P
    <3>1. /\ n + 1 \in 1..N /\ M + (n + 1) \in 1..(M + N) /\ (n + 1) - 1 = n
          /\ (M + (n + 1)) - 1 = M + n /\ ~(M + (n + 1) <= M)
          /\ (M + (n + 1)) - M = n + 1 /\ n + 1 \in 0..N /\ n \in 0..N
      BY <1>1
    <3>2. u[M + (n + 1)] = t[n + 1]
      BY <1>2, <3>1
    <3>3. h[M + (n + 1)] = IF t[n + 1] \in S THEN Append(h[M + n], t[n + 1]) ELSE h[M + n]
      BY <1>5, <3>1, <3>2
    <3>4. g[n + 1] = IF t[n + 1] \in S THEN Append(g[n], t[n + 1]) ELSE g[n]
      BY <1>4, <3>1
    <3> DEFINE a == f[M]
               b == g[n]
               e == t[n + 1]
    <3>5. a \in Seq(X) /\ b \in Seq(X) /\ e \in X /\ h[M + n] = a \o b
      BY <1>1, <2>0, <2>2, <3>1 DEF N
    <3> HIDE DEF a, b, e
    <3>6. AppendsLast(a, b, e)
      BY <3>5, AppendLast
    <3>7. h[M + (n + 1)] = a \o g[n + 1]
      BY <3>3, <3>4, <3>5, <3>6 DEF b, e, AppendsLast
    <3> QED
      BY <3>1, <3>7 DEF a
  <2> HIDE DEF P
  <2>3. 0..N \subseteq P
    BY <1>1, <2>1, <2>2, Induction
  <2> QED
    BY <1>1, <2>3 DEF P
<1> QED
  BY <1>3, <1>4, <1>5, <1>7 DEF u, Distributes

\* Of parts put together, filtering finds the only one with elements of S.
LEMMA OnlyOfFlatten ==
    ASSUME NEW X, NEW parts \in Seq(Seq(X)), NEW k \in 1..Len(parts), NEW S,
           ToSet(parts[k]) \subseteq S,
           \A i \in 1..Len(parts) : i # k => ToSet(parts[i]) \cap S = {}
    PROVE  Only(FlattenSeq(parts), S) = parts[k]
<1> DEFINE N == Len(parts)
<1>1. N \in Nat /\ \A i \in 1..N : parts[i] \in Seq(X)
  OBVIOUS
<1>2. PICK f \in [0..N -> Seq(X)] :
          /\ f[0] = <<>> /\ FlattenSeq(parts) = f[N]
          /\ \A n \in 1..N : f[n] = f[n - 1] \o parts[n]
  <2>1. FlattenFrom(X, parts) # {}
    BY FlattenSteps
  <2> QED
    BY <2>1 DEF FlattenFrom
<1> DEFINE P == {n \in 0..N : Only(f[n], S) = IF n < k THEN <<>> ELSE parts[k]}
<1>3. 0 \in P
  <2> DEFINE none == <<>>
  <2>1. none \in Seq(X) /\ ToSet(none) \cap S = {}
    BY DEF ToSet
  <2> HIDE DEF none
  <2>2. Only(none, S) = <<>>
    BY <2>1, OnlyNone
  <2> QED
    BY <1>1, <1>2, <2>2 DEF none
<1>4. ASSUME NEW n \in 0..(N - 1), n \in P PROVE n + 1 \in P
  <2>1. n + 1 \in 1..N /\ (n + 1) - 1 = n /\ n \in 0..N /\ n + 1 \in 0..N /\ n \in Nat
    BY <1>1
  <2> DEFINE a == f[n]
             b == parts[n + 1]
  <2>2. a \in Seq(X) /\ b \in Seq(X) /\ f[n + 1] = a \o b
    BY <1>1, <1>2, <2>1
  <2>3. Only(a, S) = IF n < k THEN <<>> ELSE parts[k]
    BY <1>4
  <2> HIDE DEF a, b
  <2>4. Only(f[n + 1], S) = Only(a, S) \o Only(b, S)
    <3>1. Distributes(a, b, S)
      BY <2>2, OnlyConcat
    <3> QED
      BY <2>2, <3>1 DEF Distributes
  <2>5. CASE n + 1 = k
    <3>1. ToSet(b) \subseteq S
      BY <2>5 DEF b
    <3>2. Only(b, S) = b
      BY <2>2, <3>1, OnlyAll
    <3>3. <<>> \o b = b
      BY <2>2, ConcatEmptySeq
    <3>4. n < k
      BY <2>1, <2>5
    <3>5. Only(f[n + 1], S) = b /\ b = parts[k]
      BY <2>3, <2>4, <2>5, <3>2, <3>3, <3>4 DEF b
    <3>6. ~(n + 1 < k)
      BY <2>1, <2>5
    <3> QED
      BY <2>1, <3>5, <3>6
  <2>6. CASE n + 1 # k
    <3>1. ToSet(b) \cap S = {}
      BY <2>1, <2>6 DEF b
    <3>2. Only(b, S) = <<>>
      BY <2>2, <3>1, OnlyNone
    <3>3. Only(a, S) \in Seq(X)
      BY <2>2, OnlyIs
    <3>4. Only(a, S) \o <<>> = Only(a, S)
      BY <3>3, ConcatEmptySeq
    <3>5. n < k <=> n + 1 < k
      BY <2>1, <2>6
    <3> QED
      BY <2>1, <2>3, <2>4, <3>2, <3>4, <3>5
  <2> QED
    BY <2>5, <2>6
<1>5. N \in P
  <2> HIDE DEF P, N
  <2>1. 0..N \subseteq P
    BY <1>1, <1>3, <1>4, Induction
  <2> QED
    BY <1>1, <2>1
<1> QED
  BY <1>1, <1>2, <1>5

------------------------------------------------------------------------------
(* What was saved is loaded as it was.                                       *)

\* The tables of the saved file by name.
LEMMA SavedTable ==
    ASSUME NEW a, IsCatalog(a), NEW m, IsSaved(a, m), NEW t \in a.tables
    PROVE  Named(m.tables, t) = [name      |-> t,
                                 described |-> t \in a.described,
                                 columns   |-> SavedColumns(a, t),
                                 measures  |-> SavedMeasures(a, t)]
<1>1. PICK i \in DOMAIN a.tableOrder : a.tableOrder[i] = t
  BY DEF IsCatalog, TablesOK, Lists, ToSet
<1>2. IsInjective(NamesOf(m.tables)) /\ i \in DOMAIN m.tables
  BY DEF IsSaved, IsFile
<1>3. Named(m.tables, m.tables[i].name) = m.tables[i]
  BY <1>2, NamedIs
<1>4. m.tables[i] = [name      |-> t,
                     described |-> t \in a.described,
                     columns   |-> SavedColumns(a, t),
                     measures  |-> SavedMeasures(a, t)]
  BY <1>1 DEF IsSaved
<1> QED
  BY <1>3, <1>4

\* The columns of the saved file are those of the catalog.
LEMMA SavedDeclares ==
    ASSUME NEW a, IsCatalog(a), NEW m, IsSaved(a, m)
    PROVE  /\ Declared(m) = DOMAIN a.columns
           /\ \A k \in DOMAIN a.columns :
                 FileColumn(m, k) = [name   |-> k[2],
                                     type   |-> a.columns[k].type,
                                     sortBy |-> a.columns[k].sortBy]
<1>1. ToSet(NamesOf(m.tables)) = a.tables /\ IsFile(m)
  BY DEF IsSaved, IsCatalog, TablesOK, Lists
<1>2. ASSUME NEW t \in a.tables
      PROVE  /\ Named(m.tables, t).columns = SavedColumns(a, t)
             /\ NamesOf(Named(m.tables, t).columns) = a.columnOrder[t]
             /\ ToSet(a.columnOrder[t]) = ColumnsOf(a.columns, t)
  <2>1. Named(m.tables, t).columns = SavedColumns(a, t)
    <3>1. Named(m.tables, t) = [name      |-> t,
                                described |-> t \in a.described,
                                columns   |-> SavedColumns(a, t),
                                measures  |-> SavedMeasures(a, t)]
      BY SavedTable
    <3> QED
      BY <3>1
  <2>2. NamesOf(SavedColumns(a, t)) = a.columnOrder[t]
    BY SavedColumnsAre
  <2>3. ToSet(a.columnOrder[t]) = ColumnsOf(a.columns, t)
    BY DEF IsCatalog, ColumnsOK, Lists
  <2> QED
    BY <2>1, <2>2, <2>3
<1>3. DOMAIN a.columns \subseteq a.tables \X Columns
  BY DEF IsCatalog, ColumnsOK
<1>4. Declared(m) \subseteq a.tables \X Columns
  BY <1>1, DeclaredIs
<1>5. \A t \in a.tables, c \in Columns : <<t, c>> \in Declared(m) <=> <<t, c>> \in DOMAIN a.columns
  <2>1. \A t \in a.tables, c \in Columns :
           <<t, c>> \in Declared(m) <=> c \in ToSet(NamesOf(Named(m.tables, t).columns))
    BY <1>1, DeclaredIs
  <2> QED
    BY <1>2, <2>1 DEF ColumnsOf
<1>6. Declared(m) = DOMAIN a.columns
  BY <1>3, <1>4, <1>5
<1>7. ASSUME NEW k \in DOMAIN a.columns
      PROVE  FileColumn(m, k) = [name |-> k[2], type |-> a.columns[k].type,
                                 sortBy |-> a.columns[k].sortBy]
  <2> DEFINE t == k[1]
             c == k[2]
             saved == SavedColumns(a, t)
             order == a.columnOrder[t]
  <2>1. t \in a.tables /\ c \in Columns /\ k = <<t, c>>
    BY <1>3
  <2> HIDE DEF t, c
  <2>2. FileColumn(m, k) = Named(saved, c)
    BY <1>2, <2>1 DEF FileColumn, t, c
  <2>3. PICK i \in DOMAIN order : order[i] = c
    BY <1>2, <2>1 DEF ColumnsOf, ToSet
  <2>4. saved[i] = [name |-> order[i], type |-> a.columns[<<t, order[i]>>].type,
                    sortBy |-> a.columns[<<t, order[i]>>].sortBy]
    BY <2>1, SavedColumnsAre
  <2>5. NamesOf(saved) = order /\ IsInjective(order)
    BY <2>1, SavedColumnsAre DEF IsCatalog, ColumnsOK, Lists
  <2>6. i \in DOMAIN saved
    BY <2>5 DEF NamesOf
  <2> HIDE DEF saved, order
  <2>7. Named(saved, saved[i].name) = saved[i]
    BY <2>5, <2>6, NamedIs
  <2>8. saved[i] = [name |-> c, type |-> a.columns[k].type, sortBy |-> a.columns[k].sortBy]
    BY <2>1, <2>3, <2>4
  <2>9. saved[i].name = c
    BY <2>8
  <2> QED
    BY <2>2, <2>7, <2>8, <2>9 DEF c
<1> QED
  BY <1>6, <1>7

\* A measure is in one table of the saved file, its own.
LEMMA SavedOccurrences ==
    ASSUME NEW a, IsCatalog(a), NEW m, IsSaved(a, m), NEW n \in DOMAIN a.measures
    PROVE  \E i \in DOMAIN m.tables :
              /\ Occurrences(m, n) = {i} /\ Min(Occurrences(m, n)) = i /\ Max(Occurrences(m, n)) = i
              /\ m.tables[i].name = a.measureTables[n]
              /\ Named(m.tables[i].measures, n) = [name |-> n, expr |-> a.measures[n],
                                                   formatted |-> n \in a.formatted]
<1> DEFINE t == a.measureTables[n]
<1>1. t \in a.tables
  BY DEF IsCatalog, MeasuresOK
<1>2. /\ a.tableOrder \in Seq(Tables) /\ IsInjective(a.tableOrder)
      /\ ToSet(a.tableOrder) = a.tables
  BY DEF IsCatalog, TablesOK, Lists
<1>3. PICK i \in DOMAIN a.tableOrder : a.tableOrder[i] = t
  BY <1>1, <1>2 DEF ToSet
<1>4. \A j \in DOMAIN a.tableOrder :
         /\ m.tables[j].name = a.tableOrder[j]
         /\ m.tables[j].measures = SavedMeasures(a, a.tableOrder[j])
         /\ a.tableOrder[j] \in a.tables
  <2>1. \A j \in DOMAIN a.tableOrder : a.tableOrder[j] \in a.tables
    BY <1>2 DEF ToSet
  <2>2. ASSUME NEW j \in DOMAIN a.tableOrder
        PROVE  /\ m.tables[j].name = a.tableOrder[j]
               /\ m.tables[j].measures = SavedMeasures(a, a.tableOrder[j])
    <3> DEFINE u == a.tableOrder[j]
               d == u \in a.described
    <3>1. m.tables[j] = [name |-> u, described |-> d,
                         columns |-> SavedColumns(a, u), measures |-> SavedMeasures(a, u)]
      BY DEF IsSaved
    <3> HIDE DEF u, d
    <3> QED
      BY <3>1 DEF u
  <2> QED
    BY <2>1, <2>2
<1>5. DOMAIN m.tables = DOMAIN a.tableOrder
  BY DEF IsSaved
<1>6. ASSUME NEW u \in a.tables
      PROVE  ToSet(NamesOf(SavedMeasures(a, u))) = MeasuresOf(a, u)
  <2>1. NamesOf(SavedMeasures(a, u)) \in Lists(Measures, MeasuresOf(a, u))
    BY SavedMeasuresAre
  <2> QED
    BY <2>1 DEF Lists
<1>7. ASSUME NEW j \in DOMAIN a.tableOrder
      PROVE  n \in ToSet(NamesOf(m.tables[j].measures)) <=> j = i
  <2>1. n \in ToSet(NamesOf(m.tables[j].measures)) <=> a.tableOrder[j] = t
    BY <1>4, <1>6 DEF MeasuresOf
  <2>2. a.tableOrder[j] = t <=> j = i
    BY <1>2, <1>3 DEF IsInjective
  <2> QED
    BY <2>1, <2>2
<1>8. Occurrences(m, n) = {i}
  BY <1>5, <1>7 DEF Occurrences
<1>9. Min({i}) = i /\ Max({i}) = i
  <2>1. i \in Nat /\ {i} \in SUBSET Nat /\ {i} \in SUBSET (0..i)
    BY <1>2
  <2> QED
    BY <2>1, MinIs, MaxIs
<1> DEFINE saved == SavedMeasures(a, t)
           own   == Only(a.measureOrder, MeasuresOf(a, t))
<1>10. /\ NamesOf(saved) = own /\ own \in Lists(Measures, MeasuresOf(a, t))
       /\ \A j \in DOMAIN saved :
             saved[j] = [name |-> own[j], expr |-> a.measures[own[j]],
                         formatted |-> own[j] \in a.formatted]
  BY <1>1, SavedMeasuresAre
<1>11. m.tables[i].measures = saved
  BY <1>3, <1>4
<1> HIDE DEF saved, own
<1>12. PICK j \in DOMAIN saved : own[j] = n
  <2>1. n \in ToSet(own)
    BY <1>10 DEF Lists, MeasuresOf
  <2> QED
    BY <1>10, <2>1 DEF ToSet, NamesOf
<1>13. IsInjective(NamesOf(saved))
  BY <1>10 DEF Lists
<1>14. saved[j] = [name |-> n, expr |-> a.measures[n], formatted |-> n \in a.formatted]
  BY <1>10, <1>12
<1>15. Named(saved, saved[j].name) = saved[j]
  BY <1>13, NamedIs
<1>16. Named(saved, n) = saved[j]
  BY <1>14, <1>15
<1> QED
  BY <1>3, <1>4, <1>5, <1>8, <1>9, <1>11, <1>14, <1>16

\* c is a, but that measures of different tables may be listed in another order.
SameButMeasureOrder(a, c) ==
    /\ c.tableOrder = a.tableOrder       /\ c.tables = a.tables
    /\ c.described = a.described         /\ c.columnOrder = a.columnOrder
    /\ c.columns = a.columns             /\ c.measures = a.measures
    /\ c.measureTables = a.measureTables /\ c.formatted = a.formatted
    /\ c.relationships = a.relationships
    /\ \A t \in a.tables : Only(c.measureOrder, MeasuresOf(a, t)) = Only(a.measureOrder, MeasuresOf(a, t))

\* Tables and columns come back.
LEMMA TablesComeBack ==
    ASSUME NEW a, IsCatalog(a), NEW m, IsSaved(a, m)
    PROVE  /\ FromModel(m).tableOrder = a.tableOrder
           /\ FromModel(m).tables = a.tables
           /\ FromModel(m).described = a.described
           /\ FromModel(m).columnOrder = a.columnOrder
           /\ FromModel(m).columns = a.columns
           /\ FromModel(m).relationships = a.relationships
<1> DEFINE T == ToSet(NamesOf(m.tables))
           d == {t \in T : Named(m.tables, t).described}
           order == [t \in T |-> NamesOf(Named(m.tables, t).columns)]
           C == [k \in Declared(m) |-> [type   |-> FileColumn(m, k).type,
                                        sortBy |-> FileColumn(m, k).sortBy]]
<1>1. /\ FromModel(m).tableOrder = NamesOf(m.tables) /\ FromModel(m).tables = T
      /\ FromModel(m).described = d /\ FromModel(m).columnOrder = order
      /\ FromModel(m).columns = C /\ FromModel(m).relationships = m.relationships
  BY DEF FromModel
<1>2. T = a.tables
  BY DEF IsSaved, IsCatalog, TablesOK, Lists
<1>3. ASSUME NEW t \in a.tables
      PROVE  /\ Named(m.tables, t).described <=> t \in a.described
             /\ NamesOf(Named(m.tables, t).columns) = a.columnOrder[t]
  <2> DEFINE r == Named(m.tables, t)
             in == t \in a.described
  <2>1. r = [name |-> t, described |-> in,
             columns |-> SavedColumns(a, t), measures |-> SavedMeasures(a, t)]
    BY SavedTable
  <2> HIDE DEF r, in
  <2>2. r.described = in /\ r.columns = SavedColumns(a, t)
    BY <2>1
  <2>3. NamesOf(SavedColumns(a, t)) = a.columnOrder[t]
    BY SavedColumnsAre
  <2> QED
    BY <2>2, <2>3 DEF r, in
<1>4. d = a.described
  <2>1. a.described \subseteq a.tables
    BY DEF IsCatalog, TablesOK
  <2> QED
    BY <1>2, <1>3, <2>1
<1>5. order = a.columnOrder
  <2>1. a.columnOrder = [t \in a.tables |-> a.columnOrder[t]]
    BY DEF IsCatalog, ColumnsOK
  <2>2. order = [t \in a.tables |-> a.columnOrder[t]]
    BY <1>2, <1>3
  <2> QED
    BY <2>1, <2>2
<1>6. C = a.columns
  <2> DEFINE D == DOMAIN a.columns
             fact(k) == [type |-> a.columns[k].type, sortBy |-> a.columns[k].sortBy]
  <2>1. a.columns \in [D -> ColumnFacts]
    BY DEF IsCatalog, ColumnsOK
  <2>2. \A k \in D : a.columns[k] = fact(k)
    <3>1. ASSUME NEW k \in D PROVE a.columns[k] = fact(k)
      <4>1. a.columns[k] \in ColumnFacts
        BY <2>1
      <4> QED
        BY <4>1 DEF ColumnFacts
    <3> QED
      BY <3>1
  <2>3. Declared(m) = D
    BY SavedDeclares
  <2>4. \A k \in D : FileColumn(m, k).type = a.columns[k].type /\ FileColumn(m, k).sortBy = a.columns[k].sortBy
    <3>1. ASSUME NEW k \in D
          PROVE  FileColumn(m, k).type = a.columns[k].type /\ FileColumn(m, k).sortBy = a.columns[k].sortBy
      <4>1. FileColumn(m, k) = [name |-> k[2], type |-> a.columns[k].type, sortBy |-> a.columns[k].sortBy]
        BY SavedDeclares
      <4> QED
        BY <4>1
    <3> QED
      BY <3>1
  <2>5. C = [k \in D |-> fact(k)]
    BY <2>3, <2>4
  <2> HIDE DEF fact, D, C
  <2> QED
    BY <2>1, <2>2, <2>5
<1>7. NamesOf(m.tables) = a.tableOrder /\ m.relationships = a.relationships
  BY DEF IsSaved
<1> HIDE DEF T, d, order, C
<1> QED
  BY <1>1, <1>2, <1>4, <1>5, <1>6, <1>7

\* Measures come back, those of a table in their order.
LEMMA MeasuresComeBack ==
    ASSUME NEW a, IsCatalog(a), NEW m, IsSaved(a, m)
    PROVE  /\ FromModel(m).measures = a.measures
           /\ FromModel(m).measureTables = a.measureTables
           /\ FromModel(m).formatted = a.formatted
           /\ \A t \in a.tables :
                 Only(FromModel(m).measureOrder, MeasuresOf(a, t)) = Only(a.measureOrder, MeasuresOf(a, t))
<1> DEFINE D        == DOMAIN m.tables
           occ(n)   == Occurrences(m, n)
           M        == UNION {ToSet(NamesOf(t.measures)) : t \in ToSet(m.tables)}
           last(n)  == m.tables[Max(occ(n))]
           own(i)   == {n \in M : Min(occ(n)) = i}
           first(i) == Only(NamesOf(m.tables[i].measures), own(i))
           parts    == [i \in D |-> first(i)]
           exprs    == [n \in M |-> Named(last(n).measures, n).expr]
           tabs     == [n \in M |-> last(n).name]
           fmt      == {n \in M : \E i \in occ(n) : Named(m.tables[i].measures, n).formatted}
<1>1. /\ FromModel(m).measureOrder = FlattenSeq(parts)
      /\ FromModel(m).measures = exprs /\ FromModel(m).measureTables = tabs
      /\ FromModel(m).formatted = fmt
  BY DEF FromModel
<1>2. /\ D = DOMAIN a.tableOrder /\ a.tableOrder \in Seq(Tables)
      /\ D = 1..Len(a.tableOrder) /\ Len(a.tableOrder) \in Nat
      /\ IsInjective(a.tableOrder) /\ ToSet(a.tableOrder) = a.tables
  BY DEF IsSaved, IsCatalog, TablesOK, Lists
<1>3. \A i \in D : a.tableOrder[i] \in a.tables
  BY <1>2 DEF ToSet
<1>4. ASSUME NEW i \in D
      PROVE  /\ m.tables[i].name = a.tableOrder[i]
             /\ NamesOf(m.tables[i].measures) = Only(a.measureOrder, MeasuresOf(a, a.tableOrder[i]))
             /\ NamesOf(m.tables[i].measures) \in Lists(Measures, MeasuresOf(a, a.tableOrder[i]))
  <2> DEFINE u == a.tableOrder[i]
             d == u \in a.described
             r == m.tables[i]
  <2>1. r = [name |-> u, described |-> d, columns |-> SavedColumns(a, u), measures |-> SavedMeasures(a, u)]
    BY <1>2 DEF IsSaved
  <2>2. u \in a.tables
    BY <1>3
  <2> HIDE DEF u, d, r
  <2>3. r.name = u /\ r.measures = SavedMeasures(a, u)
    BY <2>1
  <2>4. /\ NamesOf(SavedMeasures(a, u)) = Only(a.measureOrder, MeasuresOf(a, u))
        /\ NamesOf(SavedMeasures(a, u)) \in Lists(Measures, MeasuresOf(a, u))
    BY <2>2, SavedMeasuresAre
  <2> QED
    BY <2>3, <2>4 DEF u, r
<1>5. M = DOMAIN a.measures
  <2>1. \A n : n \in M <=> \E i \in D : n \in ToSet(NamesOf(m.tables[i].measures))
    BY DEF ToSet
  <2>2. \A n : n \in M <=> \E i \in D : n \in MeasuresOf(a, a.tableOrder[i])
    <3>1. \A i \in D : ToSet(NamesOf(m.tables[i].measures)) = MeasuresOf(a, a.tableOrder[i])
      BY <1>4 DEF Lists
    <3> HIDE DEF M, D
    <3> QED
      BY <2>1, <3>1
  <2>3. ASSUME NEW n \in DOMAIN a.measures PROVE \E i \in D : n \in MeasuresOf(a, a.tableOrder[i])
    <3>1. a.measureTables[n] \in a.tables
      BY DEF IsCatalog, MeasuresOK
    <3>2. PICK i \in D : a.tableOrder[i] = a.measureTables[n]
      BY <1>2, <3>1 DEF ToSet
    <3> QED
      BY <3>2 DEF MeasuresOf
  <2> HIDE DEF M
  <2> QED
    BY <2>2, <2>3 DEF MeasuresOf
<1>6. ASSUME NEW n \in DOMAIN a.measures
      PROVE  /\ last(n).name = a.measureTables[n]
             /\ Named(last(n).measures, n).expr = a.measures[n]
             /\ (\E i \in occ(n) : Named(m.tables[i].measures, n).formatted) <=> n \in a.formatted
             /\ Min(occ(n)) \in D /\ a.tableOrder[Min(occ(n))] = a.measureTables[n]
  <2> DEFINE in == n \in a.formatted
  <2>1. PICK i \in DOMAIN m.tables :
              /\ occ(n) = {i} /\ Min(occ(n)) = i /\ Max(occ(n)) = i
              /\ m.tables[i].name = a.measureTables[n]
              /\ Named(m.tables[i].measures, n) = [name |-> n, expr |-> a.measures[n], formatted |-> in]
    BY SavedOccurrences
  <2> HIDE DEF occ, in
  <2>2. /\ Named(m.tables[i].measures, n).expr = a.measures[n]
        /\ Named(m.tables[i].measures, n).formatted = in
    BY <2>1
  <2> QED
    BY <1>4, <2>1, <2>2 DEF in
<1> HIDE DEF M, occ, last
<1>7. exprs = a.measures
  <2>1. a.measures = [n \in DOMAIN a.measures |-> a.measures[n]]
    BY DEF IsCatalog, MeasuresOK
  <2> QED
    BY <1>5, <1>6, <2>1
<1>8. tabs = a.measureTables
  <2>1. a.measureTables = [n \in DOMAIN a.measures |-> a.measureTables[n]]
    BY DEF IsCatalog, MeasuresOK
  <2> QED
    BY <1>5, <1>6, <2>1
<1>9. fmt = a.formatted
  <2>1. a.formatted \subseteq DOMAIN a.measures
    BY DEF IsCatalog, MeasuresOK
  <2> QED
    BY <1>5, <1>6, <2>1
<1>10. \A i \in D : own(i) = MeasuresOf(a, a.tableOrder[i])
  <2>1. ASSUME NEW i \in D, NEW n \in DOMAIN a.measures
        PROVE  Min(occ(n)) = i <=> a.measureTables[n] = a.tableOrder[i]
    BY <1>2, <1>6 DEF IsInjective
  <2> QED
    BY <1>5, <2>1 DEF MeasuresOf
<1>11. ASSUME NEW i \in D
       PROVE  /\ parts[i] = Only(a.measureOrder, MeasuresOf(a, a.tableOrder[i]))
              /\ parts[i] \in Seq(Measures) /\ ToSet(parts[i]) = MeasuresOf(a, a.tableOrder[i])
  <2> DEFINE names == NamesOf(m.tables[i].measures)
             S     == MeasuresOf(a, a.tableOrder[i])
  <2>1. names \in Seq(Measures) /\ ToSet(names) = S /\ names = Only(a.measureOrder, S)
    BY <1>4 DEF Lists
  <2>2. parts[i] = Only(names, S)
    BY <1>10
  <2> HIDE DEF names, S, parts
  <2>3. Only(names, S) = names
    BY <2>1, OnlyAll
  <2> QED
    BY <2>1, <2>2, <2>3 DEF S
<1>12. parts \in Seq(Seq(Measures)) /\ Len(parts) = Len(a.tableOrder) /\ 1..Len(parts) = D
  <2>1. parts = [i \in 1..Len(a.tableOrder) |-> parts[i]]
    BY <1>2
  <2>2. \A i \in 1..Len(a.tableOrder) : parts[i] \in Seq(Measures)
    BY <1>2, <1>11
  <2> DEFINE K == Len(a.tableOrder)
             Y == Seq(Measures)
  <2>3. K \in Nat /\ 1..K = D
    BY <1>2
  <2>4. parts \in [1..K -> Y]
    BY <2>1, <2>2
  <2> HIDE DEF parts, D, K, Y
  <2>5. parts \in Seq(Y) /\ Len(parts) = K
    BY <2>3, <2>4
  <2> QED
    BY <2>3, <2>5 DEF K, Y
<1> HIDE DEF parts, D, own, first
<1>13. ASSUME NEW t \in a.tables
       PROVE  Only(FlattenSeq(parts), MeasuresOf(a, t)) = Only(a.measureOrder, MeasuresOf(a, t))
  <2> DEFINE S == MeasuresOf(a, t)
  <2>1. PICK k \in D : a.tableOrder[k] = t
    BY <1>2 DEF ToSet
  <2>2. ToSet(parts[k]) \subseteq S /\ parts[k] = Only(a.measureOrder, S)
    BY <1>11, <2>1
  <2>3. ASSUME NEW i \in D, i # k PROVE ToSet(parts[i]) \cap S = {}
    <3>1. a.tableOrder[i] # t
      BY <1>2, <2>1, <2>3 DEF IsInjective
    <3> QED
      BY <1>11, <3>1 DEF MeasuresOf
  <2> HIDE DEF S
  <2>4. k \in 1..Len(parts) /\ \A i \in 1..Len(parts) : i # k => ToSet(parts[i]) \cap S = {}
    BY <1>12, <2>3
  <2>5. Only(FlattenSeq(parts), S) = parts[k]
    BY <1>12, <2>2, <2>4, OnlyOfFlatten
  <2> QED
    BY <2>2, <2>5 DEF S
<1> HIDE DEF exprs, tabs, fmt
<1> QED
  BY <1>1, <1>7, <1>8, <1>9, <1>13

\* Such a catalog is saved as the same file.
LEMMA SavedTheSame ==
    ASSUME NEW a, IsCatalog(a), NEW c, SameButMeasureOrder(a, c)
    PROVE  ToModel(c) = ToModel(a)
<1>1. \A t : SavedColumns(c, t) = SavedColumns(a, t)
  BY DEF SavedColumns, SameButMeasureOrder
<1>2. ASSUME NEW t \in a.tables PROVE SavedMeasures(c, t) = SavedMeasures(a, t)
  <2> DEFINE S == {n \in DOMAIN a.measures \cap DOMAIN a.measureTables : a.measureTables[n] = t}
             mea(n) == [name |-> n, expr |-> a.measures[n], formatted |-> n \in a.formatted]
             saved(own) == [i \in DOMAIN own |-> mea(own[i])]
  <2>1. SavedMeasures(a, t) = saved(Only(a.measureOrder, S))
    BY DEF SavedMeasures
  <2>2. SavedMeasures(c, t) = saved(Only(c.measureOrder, S))
    BY DEF SavedMeasures, SameButMeasureOrder
  <2>3. S = MeasuresOf(a, t)
    BY DEF IsCatalog, MeasuresOK, MeasuresOf
  <2> HIDE DEF S, saved
  <2>4. Only(c.measureOrder, S) = Only(a.measureOrder, S)
    BY <2>3 DEF SameButMeasureOrder
  <2> QED
    BY <2>1, <2>2, <2>4
<1> DEFINE order == a.tableOrder
           tab(b, t) == [name |-> t, described |-> t \in a.described,
                         columns |-> SavedColumns(b, t), measures |-> SavedMeasures(b, t)]
<1>3. /\ ToModel(a) = [tables |-> [i \in DOMAIN order |-> tab(a, order[i])],
                       relationships |-> a.relationships]
      /\ ToModel(c) = [tables |-> [i \in DOMAIN order |-> tab(c, order[i])],
                       relationships |-> a.relationships]
  BY DEF ToModel, SameButMeasureOrder
<1>4. \A i \in DOMAIN order : order[i] \in a.tables
  BY DEF IsCatalog, TablesOK, Lists, ToSet
<1>5. \A t \in a.tables : tab(c, t) = tab(a, t)
  BY <1>1, <1>2
<1> HIDE DEF order, tab
<1> QED
  BY <1>3, <1>4, <1>5

\* Whatever commands made the catalog, save_tmsl_to_op and load_tmsl_from_op
\* bring back everything it has, but for the order of measures of different
\* tables, and the next save writes the same file.
THEOREM RoundTripAlways == Spec => []RoundTrip
<1>1. ASSUME CatalogInv PROVE RoundTrip
  <2> DEFINE a == Current
             m == ToModel(a)
             c == FromModel(m)
  <2>1. IsCatalog(a)
    BY <1>1 DEF CatalogInv, IsCatalog, Current
  <2>2. DOMAIN Current \ {"measureOrder"} =
           {"tableOrder", "tables", "described", "columnOrder", "columns",
            "measures", "measureTables", "formatted", "relationships"}
    BY DEF Current
  <2> HIDE DEF a
  <2>3. IsSaved(a, m)
    BY <2>1, SavedIsFile
  <2> HIDE DEF m
  <2>4. SameButMeasureOrder(a, c)
    <3>1. /\ c.tableOrder = a.tableOrder /\ c.tables = a.tables /\ c.described = a.described
          /\ c.columnOrder = a.columnOrder /\ c.columns = a.columns
          /\ c.relationships = a.relationships
      BY <2>1, <2>3, TablesComeBack
    <3>2. /\ c.measures = a.measures /\ c.measureTables = a.measureTables
          /\ c.formatted = a.formatted
          /\ \A t \in a.tables :
                Only(c.measureOrder, MeasuresOf(a, t)) = Only(a.measureOrder, MeasuresOf(a, t))
      BY <2>1, <2>3, MeasuresComeBack
    <3> HIDE DEF c
    <3> QED
      BY <3>1, <3>2 DEF SameButMeasureOrder
  <2> HIDE DEF c
  <2>5. ToModel(c) = m
    BY <2>1, <2>4, SavedTheSame DEF m
  <2>6. \A f \in DOMAIN Current \ {"measureOrder"} : c[f] = a[f]
    BY <2>2, <2>4 DEF SameButMeasureOrder
  <2> QED
    BY <2>5, <2>6 DEF RoundTrip, a, m, c
<1>2. CatalogInv => RoundTrip
  BY <1>1
<1> QED
  BY <1>2, CatalogInvAlways, PTL
------------------------------------------------------------------------------
(* Which commands may leave a model the loader refuses.                      *)

\* Every sort column is a column of its table, every relationship joins two
\* columns of one type.
Loadable(C, rs) ==
    /\ \A k \in DOMAIN C : C[k].sortBy = NoColumn \/ <<k[1], C[k].sortBy>> \in DOMAIN C
    /\ \A i \in DOMAIN rs : /\ rs[i].from \in DOMAIN C /\ rs[i].to \in DOMAIN C
                            /\ C[rs[i].from].type = C[rs[i].to].type

\* The sort columns of a table in the file are those of its columns.
LEMMA SavedSorts ==
    ASSUME NEW a, IsCatalog(a), NEW t \in a.tables
    PROVE  /\ ToSet(NamesOf(SavedColumns(a, t))) = ColumnsOf(a.columns, t)
           /\ \A c \in ToSet(SavedColumns(a, t)) :
                 \E n \in ColumnsOf(a.columns, t) : c.sortBy = a.columns[<<t, n>>].sortBy
           /\ \A n \in ColumnsOf(a.columns, t) :
                 \E c \in ToSet(SavedColumns(a, t)) : c.sortBy = a.columns[<<t, n>>].sortBy
<1> DEFINE order == a.columnOrder[t]
           saved == SavedColumns(a, t)
           own   == ColumnsOf(a.columns, t)
           sort(n) == a.columns[<<t, n>>].sortBy
<1>1. ToSet(order) = own
  BY DEF IsCatalog, ColumnsOK, Lists
<1>2. /\ NamesOf(saved) = order
      /\ \A i \in DOMAIN order : saved[i].sortBy = sort(order[i])
  <2>1. NamesOf(saved) = order
    BY SavedColumnsAre
  <2>2. ASSUME NEW i \in DOMAIN order PROVE saved[i].sortBy = sort(order[i])
    <3>1. saved[i] = [name   |-> order[i],
                      type   |-> a.columns[<<t, order[i]>>].type,
                      sortBy |-> sort(order[i])]
      BY <2>2, SavedColumnsAre
    <3> HIDE DEF saved, sort
    <3> QED
      BY <3>1
  <2> QED
    BY <2>1, <2>2
<1>3. DOMAIN saved = DOMAIN order
  BY <1>2 DEF NamesOf
<1> HIDE DEF order, saved, own, sort
<1>4. ASSUME NEW c \in ToSet(saved) PROVE \E n \in own : c.sortBy = sort(n)
  <2>1. PICK i \in DOMAIN saved : c = saved[i]
    BY DEF ToSet
  <2> QED
    BY <1>1, <1>2, <1>3, <2>1 DEF ToSet
<1>5. ASSUME NEW n \in own PROVE \E c \in ToSet(saved) : c.sortBy = sort(n)
  <2>1. PICK i \in DOMAIN order : n = order[i]
    BY <1>1 DEF ToSet
  <2> QED
    BY <1>2, <1>3, <2>1 DEF ToSet
<1> QED
  BY <1>1, <1>2, <1>4, <1>5 DEF saved, own, sort

\* The loader takes the file of a catalog exactly if the catalog is loadable.
LEMMA LoadsMeans ==
    ASSUME NEW a, IsCatalog(a), NEW m, IsSaved(a, m)
    PROVE  Loads(m) <=> Loadable(a.columns, a.relationships)
<1> DEFINE C  == a.columns
           rs == a.relationships
           sorts == \A u \in ToSet(m.tables) : \A c \in ToSet(u.columns) :
                       c.sortBy \in ToSet(NamesOf(u.columns)) \cup {NoColumn}
           joins == \A r \in ToSet(m.relationships) :
                       /\ {r.from, r.to} \subseteq Declared(m)
                       /\ FileColumn(m, r.from).type = FileColumn(m, r.to).type
<1>1. Loads(m) <=> sorts /\ joins
  BY DEF Loads
<1>2. /\ C \in [DOMAIN C -> ColumnFacts] /\ DOMAIN C \subseteq a.tables \X Columns
      /\ a.tableOrder \in Lists(Tables, a.tables)
  BY DEF IsCatalog, ColumnsOK, TablesOK
<1>3. \A i \in DOMAIN a.tableOrder : m.tables[i].columns = SavedColumns(a, a.tableOrder[i])
  <2>1. ASSUME NEW i \in DOMAIN a.tableOrder
        PROVE  m.tables[i].columns = SavedColumns(a, a.tableOrder[i])
    <3>1. m.tables[i] = [name      |-> a.tableOrder[i],
                           described |-> a.tableOrder[i] \in a.described,
                           columns   |-> SavedColumns(a, a.tableOrder[i]),
                           measures  |-> SavedMeasures(a, a.tableOrder[i])]
      BY DEF IsSaved
    <3> QED
      BY <3>1
  <2> QED
    BY <2>1
<1>4. \A t \in a.tables : \E u \in ToSet(m.tables) : u.columns = SavedColumns(a, t)
  <2>1. ASSUME NEW t \in a.tables
        PROVE  \E u \in ToSet(m.tables) : u.columns = SavedColumns(a, t)
    <3>1. PICK i \in DOMAIN a.tableOrder : a.tableOrder[i] = t
      BY <1>2 DEF Lists, ToSet
    <3>2. i \in DOMAIN m.tables /\ m.tables[i].columns = SavedColumns(a, t)
      BY <1>3, <3>1 DEF IsSaved
    <3> QED
      BY <3>2 DEF ToSet
  <2> QED
    BY <2>1
<1>5. \A u \in ToSet(m.tables) : \E t \in a.tables : u.columns = SavedColumns(a, t)
  <2>1. ASSUME NEW u \in ToSet(m.tables)
        PROVE  \E t \in a.tables : u.columns = SavedColumns(a, t)
    <3>1. PICK i \in DOMAIN m.tables : u = m.tables[i]
      BY DEF ToSet
    <3>2. i \in DOMAIN a.tableOrder /\ u.columns = SavedColumns(a, a.tableOrder[i])
      BY <1>3, <3>1 DEF IsSaved
    <3>3. a.tableOrder[i] \in a.tables
      BY <1>2, <3>2 DEF Lists, ToSet
    <3> QED
      BY <3>2, <3>3
  <2> QED
    BY <2>1
<1>6. ASSUME sorts, NEW k \in DOMAIN C
      PROVE  C[k].sortBy = NoColumn \/ <<k[1], C[k].sortBy>> \in DOMAIN C
  <2>1. PICK t \in a.tables, n \in Columns : k = <<t, n>>
    BY <1>2
  <2>2. PICK u \in ToSet(m.tables) : u.columns = SavedColumns(a, t)
    BY <1>4
  <2>3. n \in ColumnsOf(C, t)
    BY <2>1 DEF ColumnsOf
  <2>4. PICK c \in ToSet(u.columns) : c.sortBy = C[<<t, n>>].sortBy
    BY <2>2, <2>3, SavedSorts
  <2>5. c.sortBy \in ColumnsOf(C, t) \cup {NoColumn}
    BY <1>6, <2>2, <2>4, SavedSorts
  <2> HIDE DEF C
  <2> QED
    BY <2>1, <2>4, <2>5 DEF ColumnsOf
<1>7. ASSUME \A k \in DOMAIN C : C[k].sortBy = NoColumn \/ <<k[1], C[k].sortBy>> \in DOMAIN C,
             NEW u \in ToSet(m.tables), NEW c \in ToSet(u.columns)
      PROVE  c.sortBy \in ToSet(NamesOf(u.columns)) \cup {NoColumn}
  <2>1. PICK t \in a.tables : u.columns = SavedColumns(a, t)
    BY <1>5
  <2>2. PICK n \in ColumnsOf(C, t) : c.sortBy = C[<<t, n>>].sortBy
    BY <2>1, SavedSorts
  <2>3. ToSet(NamesOf(u.columns)) = ColumnsOf(C, t)
    BY <2>1, SavedSorts
  <2> HIDE DEF C
  <2>4. <<t, n>> \in DOMAIN C /\ <<t, n>>[1] = t
    BY <2>2 DEF ColumnsOf
  <2>5. c.sortBy = NoColumn \/ <<t, c.sortBy>> \in DOMAIN C
    BY <1>7, <2>2, <2>4
  <2>6. C[<<t, n>>].sortBy \in Columns \cup {NoColumn}
    BY <1>2, <2>4 DEF ColumnFacts
  <2> QED
    BY <2>2, <2>3, <2>5, <2>6 DEF ColumnsOf
<1>8. joins <=> \A i \in DOMAIN rs : /\ rs[i].from \in DOMAIN C /\ rs[i].to \in DOMAIN C
                                     /\ C[rs[i].from].type = C[rs[i].to].type
  <2>1. /\ Declared(m) = DOMAIN C
        /\ \A k \in DOMAIN C : FileColumn(m, k).type = C[k].type
    BY SavedDeclares
  <2>2. ToSet(m.relationships) = {rs[i] : i \in DOMAIN rs}
    BY DEF IsSaved, ToSet
  <2> HIDE DEF C, rs
  <2> QED
    BY <2>1, <2>2
<1> HIDE DEF joins
<1> QED
  BY <1>1, <1>6, <1>7, <1>8 DEF Loadable

\* Deleting a table takes its sort columns and its relationships with it.
LEMMA DeleteTableLoadable ==
    ASSUME NEW t \in Tables, CatalogInv, DeleteTable(t), Loadable(columns, relationships)
    PROVE  Loadable(columns', relationships')
<1> DEFINE cols == ToSet(columnOrder[t])
           K    == {k \in DOMAIN columns : k \notin {t} \X cols}
           gone == {r \in ToSet(relationships) : Touches(r, t)}
           rs   == Without(relationships, gone)
           C    == Restrict(columns, K)
<1>1. t \in tables /\ t \in DOMAIN columnOrder
  BY DEF DeleteTable, CatalogInv, ColumnsOK
<1>2. columns' = C /\ relationships' = rs
  BY <1>1 DEF DeleteTable
<1>3. cols = ColumnsOf(columns, t)
  BY <1>1 DEF CatalogInv, ColumnsOK, Lists
<1>4. \A k \in DOMAIN columns : k \in K <=> k[1] # t
  BY <1>3 DEF CatalogInv, ColumnsOK, ColumnsOf
<1>5. K \subseteq DOMAIN columns
  OBVIOUS
<1> HIDE DEF K, cols
<1>6. DOMAIN C = K /\ \A k \in K : C[k] = columns[k]
  BY <1>5 DEF Restrict
<1>7. rs \in Seq(Relations) /\ ToSet(rs) = ToSet(relationships) \cap (ToSet(relationships) \ gone)
  BY OnlyIs DEF Without, CatalogInv, RelationsOK
<1> HIDE DEF C, rs
<1>8. ASSUME NEW k \in DOMAIN C
      PROVE  C[k].sortBy = NoColumn \/ <<k[1], C[k].sortBy>> \in DOMAIN C
  <2>1. k \in DOMAIN columns /\ k[1] # t /\ C[k] = columns[k]
    BY <1>4, <1>5, <1>6
  <2> DEFINE j == <<k[1], columns[k].sortBy>>
  <2>2. columns[k].sortBy = NoColumn \/ j \in DOMAIN columns
    BY <2>1 DEF Loadable
  <2>3. j[1] = k[1]
    OBVIOUS
  <2> HIDE DEF j
  <2>4. columns[k].sortBy = NoColumn \/ j \in DOMAIN C
    BY <1>4, <1>6, <2>1, <2>2, <2>3
  <2> QED
    BY <2>1, <2>4 DEF j
<1>9. ASSUME NEW i \in DOMAIN rs
      PROVE  /\ rs[i].from \in DOMAIN C /\ rs[i].to \in DOMAIN C
             /\ C[rs[i].from].type = C[rs[i].to].type
  <2> DEFINE r == rs[i]
  <2>1. r \in ToSet(relationships) /\ ~Touches(r, t)
    BY <1>7 DEF ToSet
  <2> HIDE DEF r
  <2>2. /\ r.from \in DOMAIN columns /\ r.to \in DOMAIN columns
        /\ columns[r.from].type = columns[r.to].type
    BY <2>1 DEF Loadable, ToSet
  <2>3. r.from \in K /\ r.to \in K
    BY <1>4, <2>1, <2>2 DEF Touches
  <2> QED
    BY <1>6, <2>2, <2>3 DEF r
<1> QED
  BY <1>2, <1>8, <1>9 DEF Loadable

\* Renaming a table renames it in its sort columns and relationships.
LEMMA RenameTableLoadable ==
    ASSUME NEW old \in Tables, NEW new \in Tables, CatalogInv, RenameTable(old, new),
           Loadable(columns, relationships)
    PROVE  Loadable(columns', relationships')
<1> DEFINE key(k)  == IF k[1] = old THEN <<new, k[2]>> ELSE k
           D       == DOMAIN columns
           K       == {key(j) : j \in D}
           from(k) == CHOOSE j \in D : key(j) = k
           C       == [k \in K |-> columns[from(k)]]
           moved(r) == [r EXCEPT !.from = key(@), !.to = key(@)]
           rs      == [i \in DOMAIN relationships |-> moved(relationships[i])]
<1>1. columns' = C /\ relationships' = rs
  BY DEF RenameTable
<1>2. D \subseteq tables \X Columns /\ new \notin tables
  BY DEF RenameTable, CatalogInv, ColumnsOK
<1>3. ASSUME NEW j \in D, NEW k \in D, key(j) = key(k)
      PROVE  j = k
  <2>0. j \in tables \X Columns /\ k \in tables \X Columns
    BY <1>2
  <2>1. j = <<j[1], j[2]>> /\ k = <<k[1], k[2]>> /\ j[1] # new /\ k[1] # new
    BY ONLY <1>2, <2>0
  <2>2. CASE j[1] = old
    BY <1>3, <2>1, <2>2
  <2>3. CASE j[1] # old
    BY <1>3, <2>1, <2>3
  <2> QED
    BY <2>2, <2>3
<1>4. ASSUME NEW j \in D PROVE key(j) \in DOMAIN C /\ C[key(j)] = columns[j]
  <2>1. key(j) \in K /\ \E i \in D : key(i) = key(j)
    OBVIOUS
  <2>2. from(key(j)) \in D /\ key(from(key(j))) = key(j)
    BY <2>1
  <2> HIDE DEF key, from
  <2>3. from(key(j)) = j
    BY <1>3, <2>2
  <2> QED
    BY <2>1, <2>3
<1>5. ASSUME NEW k \in DOMAIN C PROVE \E j \in D : k = key(j)
  OBVIOUS
<1>6. ASSUME NEW k \in DOMAIN C
      PROVE  C[k].sortBy = NoColumn \/ <<k[1], C[k].sortBy>> \in DOMAIN C
  <2>1. PICK j \in D : k = key(j)
    BY <1>5
  <2>2. C[k].sortBy = columns[j].sortBy
    <3> HIDE DEF C, key, D
    <3> QED
      BY <1>4, <2>1
  <2> DEFINE s == columns[j].sortBy
             l == <<j[1], s>>
  <2>3. s = NoColumn \/ l \in D
    BY DEF Loadable
  <2>4. key(l) = <<key(j)[1], s>>
    BY <1>2
  <2> HIDE DEF C, key, l, D, s
  <2>5. s = NoColumn \/ key(l) \in DOMAIN C
    BY <1>4, <2>3
  <2> QED
    BY <2>1, <2>2, <2>4, <2>5 DEF s
<1>7. ASSUME NEW i \in DOMAIN rs
      PROVE  /\ rs[i].from \in DOMAIN C /\ rs[i].to \in DOMAIN C
             /\ C[rs[i].from].type = C[rs[i].to].type
  <2> DEFINE r == relationships[i]
             a == r.from
             b == r.to
  <2>1. i \in DOMAIN relationships /\ r \in Relations
    BY DEF CatalogInv, RelationsOK
  <2>2. a \in D /\ b \in D /\ columns[a].type = columns[b].type
    BY <2>1 DEF Loadable
  <2>3. rs[i].from = key(a) /\ rs[i].to = key(b)
    <3>1. r = [name |-> r.name, from |-> a, to |-> b, active |-> r.active]
      BY <2>1 DEF Relations
    <3>2. rs[i] = moved(r)
      BY <2>1
    <3> DEFINE x == key(a)
               y == key(b)
    <3>3. moved(r) = [r EXCEPT !.from = x, !.to = y]
      OBVIOUS
    <3> HIDE DEF r, a, b, x, y, moved, rs, key
    <3> QED
      BY <3>1, <3>2, <3>3 DEF x, y
  <2> HIDE DEF r, a, b, key, rs, C, D
  <2> QED
    BY <1>4, <2>2, <2>3
<1> HIDE DEF C, rs
<1> QED
  BY <1>1, <1>6, <1>7 DEF Loadable

\* No command on tables or measures makes a loadable catalog one that is not.
LEMMA StaysLoadable ==
    ASSUME CatalogInv, TableCommand \/ MeasureCommand, Loadable(columns, relationships)
    PROVE  Loadable(columns', relationships')
<1>1. ASSUME NEW t \in Tables, CreateTable(t) PROVE Loadable(columns', relationships')
  BY <1>1 DEF CreateTable
<1>2. ASSUME NEW t \in Tables, NEW value \in BOOLEAN, SetTableDescription(t, value)
      PROVE  Loadable(columns', relationships')
  BY <1>2 DEF SetTableDescription, columnVars
<1>3. CASE MeasureCommand
  <2>1. UNCHANGED <<columns, relationships>>
    BY <1>3 DEF MeasureCommand, CreateMeasure, DeleteMeasure, RenameMeasure,
                UpdateMeasureExpression, SetMeasureFormatString, columnVars
  <2> QED
    BY <2>1
<1> QED
  BY <1>1, <1>2, <1>3, DeleteTableLoadable, RenameTableLoadable DEF TableCommand

\* The loader takes the file of the current catalog exactly if it is loadable.
LEMMA WholeMeans ==
    ASSUME CatalogInv
    PROVE  Loads(ToModel(Current)) <=> Loadable(columns, relationships)
<1> DEFINE c == Current
           m == ToModel(c)
<1>1. IsCatalog(c) /\ c.columns = columns /\ c.relationships = relationships
  BY DEF CatalogInv, IsCatalog, Current
<1> HIDE DEF c
<1>2. IsSaved(c, m)
  BY <1>1, SavedIsFile
<1> HIDE DEF m
<1>3. Loads(m) <=> Loadable(c.columns, c.relationships)
  BY <1>1, <1>2, LoadsMeans
<1> QED
  BY <1>1, <1>3 DEF m, c

\* TableCommandsKeepItLoadable (Catalog::delete_table, rename_table and the
\* measure commands): only commands on columns and new relationships can make
\* from_model refuse what to_tmsl_model writes.
THEOREM StaysLoadableAlways == Spec => TableCommandsKeepItLoadable
<1> DEFINE Saveable == Loads(ToModel(Current)) <=> Loadable(columns, relationships)
<1>1. CatalogInv => Saveable
  BY WholeMeans
<1>2. CatalogInv /\ Saveable /\ Saveable' /\ [Next]_vars
         => [TableCommand \/ MeasureCommand =>
               (Loads(ToModel(Current)) => Loads(ToModel(Current))')]_vars
  <2> SUFFICES ASSUME CatalogInv, Saveable, Saveable', TableCommand \/ MeasureCommand,
                      Loads(ToModel(Current))
               PROVE  Loads(ToModel(Current))'
    OBVIOUS
  <2>1. Loadable(columns', relationships')
    BY StaysLoadable
  <2> QED
    BY <2>1
<1> HIDE DEF Saveable
<1> QED
  BY <1>1, <1>2, CatalogInvAlways, PTL DEF Spec, TableCommandsKeepItLoadable
==============================================================================
