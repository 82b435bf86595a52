--------------------------- MODULE MeasureGraphProofs ---------------------------
(***************************************************************************)
(* Theorems about MeasureGraph for any measures and expressions: the order *)
(* the depth-first search finds is topological and the cycle it reports is *)
(* one, inlining misses nothing it looks for, and the breadth-first search *)
(* of lineage finds exactly what a change has an effect on.                *)
(***************************************************************************)
EXTENDS MeasureGraph, SequenceTheorems, TLAPS

\* The search: the path runs through measures in progress from one to what it
\* is built from, and the sorted measures are those that are done.
SearchInv ==
    /\ \A i \in DOMAIN path : state[path[i]] = "inprogress"
    /\ \A i, j \in DOMAIN path : path[i] = path[j] => i = j
    /\ \A i \in 1..(Len(path) - 1) : path[i + 1] \in Deps(path[i])
    /\ \A i \in DOMAIN order : state[order[i]] = "done"
    /\ \A n \in DOMAIN source : state[n] = "done" => \E i \in DOMAIN order : order[i] = n
    /\ phase = "inlining" => \A n \in DOMAIN source : state[n] = "done"
    /\ phase = "sorting" => inlined = NoneOf

\* Whoever contains the expression of a measure, or looks it up, is in every set
\* that is closed over it.
ReachedIn(c, trees) ==
    \A n \in DOMAIN trees : \A a \in trees[n].built \cup trees[n].stubs :
        \A S \in ClosedOver(c, a) : n \in S

LoadTypes ==
    /\ source \in Catalogs
    /\ state \in [DOMAIN source -> {"unvisited", "inprogress", "done"}]
    /\ path \in Seq(DOMAIN source) /\ order \in Seq(DOMAIN source) /\ cycle \in Seq(DOMAIN source)
    /\ DOMAIN inlined \subseteq DOMAIN source

LoadInv ==
    /\ LoadTypes /\ SearchInv /\ DependenciesComeFirst /\ CycleIsReal /\ MeasuresAreInlined
    /\ ReachedIn(source, inlined)

EngineInv ==
    /\ file \in Catalogs /\ measures \in Catalogs /\ loaded \in Catalogs
    /\ DOMAIN resolved = DOMAIN loaded
    /\ ReachedIn(loaded, resolved)

\* The request: what has been looked up is closed, and nothing was found that
\* a closed set could do without.
RequestInv ==
    /\ asked = Nothing => visited = {} /\ queue = {}
    /\ queue \subseteq visited /\ visited \subseteq DOMAIN measures
    /\ asked # Nothing =>
         /\ Dependents(measures, asked) \subseteq visited
         /\ \A n \in visited \ queue : Dependents(measures, n) \subseteq visited
         /\ \A S \in ClosedOver(measures, asked) : visited \subseteq S

------------------------------------------------------------------------------
\* A sequence without its last element.
LEMMA FrontOf ==
    ASSUME NEW S, NEW s \in Seq(S), s # <<>>
    PROVE  /\ SubSeq(s, 1, Len(s) - 1) \in Seq(S)
           /\ Len(SubSeq(s, 1, Len(s) - 1)) = Len(s) - 1
           /\ \A i \in 1..(Len(s) - 1) : SubSeq(s, 1, Len(s) - 1)[i] = s[i]
<1> DEFINE n == Len(s) - 1
<1>1. Len(s) \in Nat \ {0}
  OBVIOUS
<1>2. n \in Int /\ 1 \in Int /\ \A i \in 1..n : s[i] \in S
  BY <1>1
<1>3. /\ SubSeq(s, 1, n) \in Seq(S) /\ Len(SubSeq(s, 1, n)) = (IF 1 <= n THEN n - 1 + 1 ELSE 0)
      /\ \A i \in 1..(n - 1 + 1) : SubSeq(s, 1, n)[i] = s[1 + i - 1]
  BY <1>2, SubSeqProperties
<1>4. n \in Nat /\ n - 1 + 1 = n /\ \A i \in 1..n : 1 + i - 1 = i
  BY <1>1
<1> HIDE DEF n
<1>5. Len(SubSeq(s, 1, n)) = n
  BY <1>3, <1>4
<1>6. \A i \in 1..n : SubSeq(s, 1, n)[i] = s[i]
  BY <1>3, <1>4
<1> QED
  BY <1>3, <1>5, <1>6 DEF n

\* t is s from its i-th element on.
IsRest(t, s, i, S) ==
    /\ t \in Seq(S) /\ Len(t) \in Nat \ {0}
    /\ t[1] = s[i] /\ t[Len(t)] = s[Len(s)]
    /\ \A j \in 1..(Len(t) - 1) :
         /\ i + j - 1 \in 1..(Len(s) - 1)
         /\ t[j] = s[i + j - 1] /\ t[j + 1] = s[(i + j - 1) + 1]

\* That is what SubSeq leaves of it.
LEMMA Rest ==
    ASSUME NEW S, NEW s \in Seq(S), NEW i \in 1..Len(s)
    PROVE  \A t : t = SubSeq(s, i, Len(s)) => IsRest(t, s, i, S)
<1> TAKE t
<1> HAVE t = SubSeq(s, i, Len(s))
<1> DEFINE n == Len(s)
<1>1. n \in Nat /\ i \in Nat /\ i \in 1..n
  OBVIOUS
<1>2. \A j \in i..n : s[j] \in S
  BY <1>1
<1>3. t = SubSeq(s, i, n)
  OBVIOUS
<1> HIDE DEF n
<1>4. /\ t \in Seq(S) /\ Len(t) = (IF i <= n THEN n - i + 1 ELSE 0)
      /\ \A j \in 1..(n - i + 1) : t[j] = s[i + j - 1]
  BY <1>1, <1>2, <1>3, SubSeqProperties
<1>5. Len(t) = n - i + 1 /\ Len(t) \in Nat \ {0}
  BY <1>1, <1>4
<1>6. t[1] = s[i]
  <2>1. 1 \in 1..(n - i + 1) /\ i + 1 - 1 = i
    BY <1>1
  <2> QED
    BY <1>4, <2>1
<1>7. t[Len(t)] = s[n]
  <2>1. n - i + 1 \in 1..(n - i + 1) /\ i + (n - i + 1) - 1 = n
    BY <1>1
  <2>2. t[n - i + 1] = s[i + (n - i + 1) - 1]
    BY <1>4, <2>1
  <2> QED
    BY <1>5, <2>1, <2>2
<1>8. ASSUME NEW j \in 1..(Len(t) - 1)
      PROVE  /\ i + j - 1 \in 1..(n - 1)
             /\ t[j] = s[i + j - 1] /\ t[j + 1] = s[(i + j - 1) + 1]
  <2>1. /\ j \in 1..(n - i + 1) /\ j + 1 \in 1..(n - i + 1) /\ i + (j + 1) - 1 = (i + j - 1) + 1
        /\ i + j - 1 \in 1..(n - 1)
    BY <1>1, <1>5
  <2>2. t[j + 1] = s[i + (j + 1) - 1]
    BY <1>4, <2>1
  <2> QED
    BY <1>4, <2>1, <2>2
<1> QED
  BY <1>4, <1>5, <1>6, <1>7, <1>8 DEF n, IsRest

\* Nothing has happened in a load that begins.
LEMMA FreshLoad ==
    ASSUME source' \in Catalogs, state' = [n \in DOMAIN source' |-> "unvisited"],
           path' = <<>>, order' = <<>>, cycle' = <<>>, inlined' = NoneOf,
           phase' \in {"sorting", "refused"}
    PROVE  LoadInv'
<1>1. DOMAIN path' = {} /\ DOMAIN order' = {} /\ Len(path') = 0 /\ DOMAIN inlined' = {}
  BY DEF NoneOf
<1>2. LoadTypes'
  BY <1>1 DEF LoadTypes
<1>3. SearchInv'
  BY <1>1 DEF SearchInv
<1>4. (DependenciesComeFirst /\ CycleIsReal /\ MeasuresAreInlined)'
  BY <1>1 DEF DependenciesComeFirst, CycleIsReal, MeasuresAreInlined
<1>5. ReachedIn(source, inlined)'
  BY <1>1 DEF ReachedIn
<1> QED
  BY <1>2, <1>3, <1>4, <1>5 DEF LoadInv

\* The search goes on to an unvisited measure.
LEMMA EnterKeeps ==
    ASSUME LoadInv, NEW n \in Names, Root(n) \/ Descend(n)
    PROVE  LoadInv'
<1> USE DEF LoadInv, LoadTypes
<1>1. /\ n \in DOMAIN source /\ state[n] = "unvisited" /\ phase = "sorting"
      /\ state' = [state EXCEPT ![n] = "inprogress"] /\ path' = Append(path, n)
      /\ UNCHANGED <<phase, source, order, cycle, inlined>>
  BY DEF Root, Descend, Enter, Deps
<1>2. path # <<>> => n \in Deps(path[Len(path)])
  BY DEF Root, Descend, Top
<1>3. LoadTypes'
  BY <1>1
<1>4. SearchInv'
  <2>1. /\ Len(path') = Len(path) + 1 /\ path'[Len(path) + 1] = n
        /\ \A i \in DOMAIN path : path'[i] = path[i]
    BY <1>1
  <2>2. \A i \in DOMAIN path : path[i] # n
    BY <1>1 DEF SearchInv
  <2>3. \A i \in DOMAIN path' : state'[path'[i]] = "inprogress"
    BY <1>1, <2>1 DEF SearchInv
  <2>4. \A i, j \in DOMAIN path' : path'[i] = path'[j] => i = j
    BY <1>1, <2>1, <2>2 DEF SearchInv
  <2>5. \A i \in 1..(Len(path') - 1) : path'[i + 1] \in Deps(path[i])'
    <3> TAKE i \in 1..(Len(path') - 1)
    <3>1. i \in 1..Len(path) => Deps(path[i])' = Deps(path[i])
      BY <1>1, <2>1 DEF Deps
    <3>2. CASE i = Len(path)
      BY <1>2, <2>1, <3>1, <3>2
    <3>3. CASE i < Len(path)
      <4>1. i \in 1..(Len(path) - 1) /\ i \in DOMAIN path /\ i + 1 \in DOMAIN path
        BY <2>1, <3>3
      <4>2. path[i + 1] \in Deps(path[i])
        BY <4>1 DEF SearchInv
      <4> QED
        BY <2>1, <3>1, <4>1, <4>2
    <3> QED
      BY <2>1, <3>2, <3>3
  <2>6. \A i \in DOMAIN order' : state'[order'[i]] = "done"
    BY <1>1 DEF SearchInv
  <2>7. \A m \in DOMAIN source' : state'[m] = "done" => \E i \in DOMAIN order' : order'[i] = m
    BY <1>1 DEF SearchInv
  <2> QED
    BY <1>1, <2>3, <2>4, <2>5, <2>6, <2>7 DEF SearchInv
<1>5. (DependenciesComeFirst /\ CycleIsReal /\ MeasuresAreInlined)'
  BY <1>1 DEF DependenciesComeFirst, CycleIsReal, MeasuresAreInlined, Deps
<1> QED
  BY <1>1, <1>3, <1>4, <1>5 DEF ReachedIn

\* The path from a measure on, whose first the last one is built from, is a cycle.
LEMMA FindCycleKeeps ==
    ASSUME LoadInv, NEW i \in DOMAIN path, FindCycle(i)
    PROVE  LoadInv'
<1> USE DEF LoadInv, LoadTypes
<1>1. /\ phase' = "refused" /\ cycle' = SubSeq(path, i, Len(path)) /\ path[i] \in Deps(Top)
      /\ UNCHANGED <<source, state, path, order, inlined>>
  BY DEF FindCycle
<1>2. path \in Seq(DOMAIN source) /\ i \in 1..Len(path)
  OBVIOUS
<1>3. IsRest(cycle', path, i, DOMAIN source)
  <2>1. \A t : t = SubSeq(path, i, Len(path)) => IsRest(t, path, i, DOMAIN source)
    BY <1>2, Rest
  <2> QED
    BY <1>1, <2>1
<1>6. CycleIsReal'
  <2>1. ASSUME NEW j \in 1..(Len(cycle') - 1) PROVE cycle'[j + 1] \in Deps(cycle[j])'
    <3>1. path[(i + j - 1) + 1] \in Deps(path[i + j - 1])
      BY <1>3 DEF SearchInv, IsRest
    <3> QED
      BY <1>1, <1>3, <3>1 DEF Deps, IsRest
  <2>2. cycle'[1] \in Deps(cycle[Len(cycle)])'
    BY <1>1, <1>3 DEF Top, Deps, IsRest
  <2> QED
    BY <2>1, <2>2 DEF CycleIsReal
<1>4. LoadTypes' /\ SearchInv'
  BY <1>1, <1>3 DEF SearchInv, Deps, IsRest
<1>5. (DependenciesComeFirst /\ MeasuresAreInlined)'
  BY <1>1 DEF DependenciesComeFirst, MeasuresAreInlined, Deps
<1> QED
  BY <1>1, <1>4, <1>5, <1>6 DEF ReachedIn

\* A measure is sorted when all it is built from is.
LEMMA LeaveKeeps ==
    ASSUME LoadInv, Leave
    PROVE  LoadInv'
<1> USE DEF LoadInv, LoadTypes
<1> DEFINE n == path[Len(path)] front == SubSeq(path, 1, Len(path) - 1)
<1>1. /\ phase = "sorting" /\ path # <<>> /\ \A d \in Deps(n) : state[d] = "done"
      /\ state' = [state EXCEPT ![n] = "done"] /\ order' = Append(order, n) /\ path' = front
      /\ UNCHANGED <<phase, source, cycle, inlined>>
  BY DEF Leave, Top
<1>2. /\ Len(path) \in DOMAIN path /\ n \in DOMAIN source /\ state[n] = "inprogress"
  BY <1>1 DEF SearchInv
<1>3. /\ front \in Seq(DOMAIN source) /\ Len(front) = Len(path) - 1
      /\ \A i \in DOMAIN front : i \in DOMAIN path /\ front[i] = path[i] /\ path[i] # n
  <2>1. /\ Len(path) \in Nat /\ front \in Seq(DOMAIN source) /\ Len(front) = Len(path) - 1
        /\ \A i \in 1..(Len(path) - 1) : front[i] = path[i]
    BY <1>1, FrontOf
  <2>2. \A i \in 1..(Len(path) - 1) : i \in DOMAIN path /\ i # Len(path)
    BY <1>2
  <2>3. \A i \in DOMAIN path : i # Len(path) => path[i] # n
    BY <1>2 DEF SearchInv
  <2> QED
    BY <2>1, <2>2, <2>3
<1>4. /\ Len(order') = Len(order) + 1 /\ order'[Len(order) + 1] = n
      /\ \A i \in DOMAIN order : order'[i] = order[i] /\ order[i] # n
  BY <1>1, <1>2 DEF SearchInv
<1> HIDE DEF n, front
<1>5. LoadTypes'
  BY <1>1, <1>2, <1>3
<1>6. SearchInv'
  <2>1. \A i \in DOMAIN path' : state'[path'[i]] = "inprogress"
    BY <1>1, <1>2, <1>3 DEF SearchInv
  <2>2. \A i, j \in DOMAIN path' : path'[i] = path'[j] => i = j
    BY <1>1, <1>3 DEF SearchInv
  <2>3. \A i \in 1..(Len(path') - 1) : path'[i + 1] \in Deps(path[i])'
    BY <1>1, <1>3 DEF SearchInv, Deps
  <2>4. \A i \in DOMAIN order' : state'[order'[i]] = "done"
    BY <1>1, <1>2, <1>4 DEF SearchInv
  <2>5. ASSUME NEW m \in DOMAIN source', state'[m] = "done" PROVE \E i \in DOMAIN order' : order'[i] = m
    <3>1. CASE m = n
      BY <1>1, <1>4, <3>1
    <3>2. CASE m # n
      <4>1. PICK i \in DOMAIN order : order[i] = m
        BY <1>1, <1>2, <2>5, <3>2 DEF SearchInv
      <4> QED
        BY <1>1, <1>4, <4>1
    <3> QED
      BY <3>1, <3>2
  <2> QED
    BY <1>1, <2>1, <2>2, <2>3, <2>4, <2>5 DEF SearchInv
<1>7. DependenciesComeFirst'
  <2>1. ASSUME NEW i \in DOMAIN order', NEW d \in Deps(order[i])'
        PROVE  \E j \in 1..(i - 1) : order'[j] = d
    <3>1. CASE i = Len(order) + 1
      <4>1. d \in DOMAIN source /\ state[d] = "done"
        BY <1>1, <1>4, <2>1, <3>1 DEF Deps
      <4>2. PICK j \in DOMAIN order : order[j] = d
        BY <4>1 DEF SearchInv
      <4>3. DOMAIN order = 1..Len(order) /\ Len(order) \in Nat
        OBVIOUS
      <4>4. j \in 1..(i - 1)
        BY <3>1, <4>2, <4>3
      <4>5. order'[j] = d
        BY <1>4, <4>2
      <4> QED
        BY <4>4, <4>5
    <3>2. CASE i \in DOMAIN order
      <4>1. d \in Deps(order[i])
        BY <1>1, <1>4, <2>1, <3>2 DEF Deps
      <4>2. PICK j \in 1..(i - 1) : order[j] = d
        BY <3>2, <4>1 DEF DependenciesComeFirst
      <4> QED
        BY <1>4, <3>2, <4>2
    <3> QED
      BY <1>1, <1>4, <3>1, <3>2
  <2>2. \A i, j \in DOMAIN order' : order'[i] = order'[j] => i = j
    BY <1>1, <1>4 DEF DependenciesComeFirst
  <2>3. \A m : Deps(m)' = Deps(m)
    BY <1>1 DEF Deps
  <2> QED
    BY <2>1, <2>2, <2>3 DEF DependenciesComeFirst
<1>8. (CycleIsReal /\ MeasuresAreInlined)'
  BY <1>1 DEF CycleIsReal, MeasuresAreInlined, Deps
<1> QED
  BY <1>1, <1>5, <1>6, <1>7, <1>8 DEF ReachedIn

\* The search is over.
LEMMA SortedKeeps ==
    ASSUME LoadInv, Sorted
    PROVE  LoadInv'
<1>1. /\ phase' = "inlining" /\ \A n \in DOMAIN source : state[n] = "done"
      /\ UNCHANGED <<source, state, path, order, cycle, inlined>>
  BY DEF Sorted
<1> QED
  BY <1>1 DEF LoadInv, LoadTypes, SearchInv, DependenciesComeFirst, CycleIsReal,
              MeasuresAreInlined, ReachedIn, Deps

\* What a tree contains, and leaves to be looked up, was mentioned in it or in
\* the tree of a measure that was.
LEMMA InlinedFrom ==
    ASSUME NEW b, NEW known, NEW a, a \in Inlined(b, known).built \cup Inlined(b, known).stubs
    PROVE  \/ a \in Mentioned(b)
           \/ \E d \in Mentioned(b) \cap DOMAIN known : a \in known[d].built \cup known[d].stubs
BY DEF Inlined, Inlinable, Mentioned

\* A measure is inlined after all it depends on, so that nothing the search has
\* looked into is left.
LEMMA InlineKeeps ==
    ASSUME LoadInv, NEW n \in Names, Inline(n)
    PROVE  LoadInv'
<1> DEFINE b == source[n] tree == Inlined(b, inlined)
<1>1. /\ phase = "inlining" /\ n \notin DOMAIN inlined
      /\ UNCHANGED <<phase, source, state, path, order, cycle>>
      /\ inlined' = [m \in DOMAIN inlined \cup {n} |-> IF m = n THEN tree ELSE inlined[m]]
  BY DEF Inline
<1>2. PICK i \in DOMAIN order : order[i] = n /\ \A j \in 1..(i - 1) : order[j] \in DOMAIN inlined
  BY DEF Inline
<1>3. n \in DOMAIN source
  BY <1>2 DEF LoadInv, LoadTypes
<1>4. Deps(n) \subseteq DOMAIN inlined
  BY <1>2 DEF LoadInv, DependenciesComeFirst
<1>5. /\ DOMAIN inlined' = DOMAIN inlined \cup {n} /\ inlined'[n] = tree
      /\ \A m \in DOMAIN inlined : inlined'[m] = inlined[m]
  BY <1>1
<1> HIDE DEF tree
<1>6. LoadTypes' /\ SearchInv'
  BY <1>1, <1>3, <1>5 DEF LoadInv, LoadTypes, SearchInv, Deps
<1>7. (DependenciesComeFirst /\ CycleIsReal)'
  BY <1>1 DEF LoadInv, DependenciesComeFirst, CycleIsReal, Deps
<1>8. MeasuresAreInlined'
  <2>1. Deps(n) \subseteq tree.built
    BY <1>4 DEF tree, Inlined, Inlinable, Deps
  <2>2. ASSUME NEW m \in tree.stubs \cap DOMAIN source
        PROVE  \E k \in {n} \cup tree.built : m \in source[k].cells \cup source[k].summarized
    <3>1. m \in Inlinable(b) \ DOMAIN inlined => m \in b.cells
      BY <1>4, <2>2 DEF Inlinable, Deps
    <3>2. ASSUME NEW d \in Inlinable(b) \cap DOMAIN inlined, m \in inlined[d].stubs
          PROVE  \E k \in tree.built : m \in source[k].cells \cup source[k].summarized
      <4>1. PICK k \in {d} \cup inlined[d].built : m \in source[k].cells \cup source[k].summarized
        BY <2>2, <3>2 DEF LoadInv, MeasuresAreInlined
      <4> QED
        BY <3>2, <4>1 DEF tree, Inlined
    <3> QED
      BY <2>2, <3>1, <3>2 DEF tree, Inlined
  <2>3. \A m : Deps(m)' = Deps(m)
    BY <1>1 DEF Deps
  <2>4. ASSUME NEW m \in DOMAIN inlined'
        PROVE  /\ Deps(m) \subseteq inlined'[m].built
               /\ \A q \in inlined'[m].stubs \cap DOMAIN source :
                     \E k \in {m} \cup inlined'[m].built : q \in source[k].cells \cup source[k].summarized
    BY <1>5, <2>1, <2>2 DEF LoadInv, MeasuresAreInlined
  <2> QED
    BY <1>1, <2>3, <2>4 DEF MeasuresAreInlined
<1>9. ReachedIn(source, inlined)'
  <2>1. ASSUME NEW a \in tree.built \cup tree.stubs, NEW S \in ClosedOver(source, a)
        PROVE  n \in S
    <3>1. CASE a \in Mentioned(b)
      BY <1>3, <2>1, <3>1 DEF ClosedOver, Dependents
    <3>2. CASE \E d \in Mentioned(b) \cap DOMAIN inlined : a \in inlined[d].built \cup inlined[d].stubs
      <4>1. PICK d \in Mentioned(b) \cap DOMAIN inlined : a \in inlined[d].built \cup inlined[d].stubs
        BY <3>2
      <4>2. d \in S
        BY <2>1, <4>1 DEF LoadInv, ReachedIn
      <4>3. n \in Dependents(source, d)
        BY <1>3, <4>1 DEF Dependents
      <4> QED
        BY <2>1, <4>2, <4>3 DEF ClosedOver
    <3> QED
      BY <2>1, <3>1, <3>2, InlinedFrom DEF tree
  <2> QED
    BY <1>1, <1>5, <2>1 DEF LoadInv, ReachedIn
<1> QED
  BY <1>6, <1>7, <1>8, <1>9 DEF LoadInv

\* A load is sound before its first step.
LEMMA InitLoad == GraphInit => LoadInv
<1> SUFFICES ASSUME GraphInit PROVE LoadInv
  OBVIOUS
<1>1. /\ DOMAIN path = {} /\ DOMAIN order = {} /\ Len(path) = 0 /\ DOMAIN inlined = {}
      /\ source \in Catalogs /\ phase # "inlining" /\ cycle = <<>> /\ path = <<>> /\ order = <<>>
      /\ state = [n \in DOMAIN source |-> "unvisited"] /\ inlined = NoneOf
  BY MeasureGraphAssumption DEF GraphInit, NoneOf
<1> QED
  BY <1>1 DEF LoadInv, LoadTypes, SearchInv, DependenciesComeFirst, CycleIsReal,
              MeasuresAreInlined, ReachedIn

\* Every step keeps it so.
LEMMA LoadStep ==
    ASSUME LoadInv, EngineInv, [GraphNext]_graphVars
    PROVE  LoadInv'
<1>1. ASSUME UNCHANGED loadVars PROVE LoadInv'
  BY <1>1 DEF loadVars, LoadInv, LoadTypes, SearchInv, DependenciesComeFirst, CycleIsReal,
              MeasuresAreInlined, ReachedIn, Deps
<1>2. CASE Load
  <2>1. source' \in Catalogs
    BY <1>2 DEF Load, EngineInv
  <2> QED
    BY <1>2, <2>1, FreshLoad DEF Load
<1>3. ASSUME NEW n \in Names, Root(n) \/ Descend(n) PROVE LoadInv'
  BY <1>3, EnterKeeps
<1>4. ASSUME NEW n \in Names, Inline(n) PROVE LoadInv'
  BY <1>4, InlineKeeps
<1>5. ASSUME NEW i \in DOMAIN path, FindCycle(i) PROVE LoadInv'
  BY <1>5, FindCycleKeeps
<1>6. CASE Leave \/ Sorted
  BY <1>6, LeaveKeeps, SortedKeeps
<1>7. CASE Serve
  BY <1>7 DEF Serve, LoadInv, LoadTypes, SearchInv, DependenciesComeFirst, CycleIsReal,
              MeasuresAreInlined, ReachedIn, Deps
<1>8. ASSUME NEW n \in Names, LookUp(n) \/ DeleteMeasure(n) PROVE LoadInv'
  BY <1>1, <1>8 DEF LookUp, DeleteMeasure, Edit
<1>9. ASSUME NEW n \in Names, NEW m \in Names, RenameMeasure(n, m) PROVE LoadInv'
  BY <1>1, <1>9 DEF RenameMeasure, Edit
<1>10. ASSUME NEW n \in Names, NEW b \in Bodies, SetMeasure(n, b) PROVE LoadInv'
  BY <1>1, <1>10 DEF SetMeasure, Edit
<1>11. ASSUME NEW x \in Names \cup Columns, Ask(x) PROVE LoadInv'
  BY <1>1, <1>11 DEF Ask
<1>12. CASE Answer
  BY <1>1, <1>12 DEF Answer
<1>13. CASE UNCHANGED graphVars
  BY <1>1, <1>13 DEF graphVars, loadVars
<1> QED
  BY <1>2, <1>3, <1>4, <1>5, <1>6, <1>7, <1>8, <1>9, <1>10, <1>11, <1>12, <1>13 DEF GraphNext

\* A catalog, from its parts.
LEMMA CatalogParts ==
    ASSUME NEW c \in Catalogs
    PROVE  DOMAIN c \in SUBSET Names /\ \A n \in DOMAIN c : c[n] \in Bodies
  BY DEF Catalogs

LEMMA CatalogFrom ==
    ASSUME NEW some \in SUBSET Names, NEW f \in [some -> Bodies]
    PROVE  f \in Catalogs
  BY DEF Catalogs

\* The engine serves what a load has made.
LEMMA EngineStep ==
    ASSUME LoadInv, EngineInv, [GraphNext]_graphVars
    PROVE  EngineInv'
<1>1. ASSUME UNCHANGED engineVars PROVE EngineInv'
  BY <1>1 DEF engineVars, EngineInv, ReachedIn
<1>2. ASSUME NEW c \in Catalogs, Edit(c) PROVE EngineInv'
  BY <1>2 DEF Edit, EngineInv, ReachedIn
<1>3. ASSUME NEW n \in Names, NEW b \in Bodies, SetMeasure(n, b) PROVE EngineInv'
  <2>1. [m \in DOMAIN measures \cup {n} |-> IF m = n THEN b ELSE measures[m]]
           \in [DOMAIN measures \cup {n} -> Bodies]
    BY CatalogParts DEF EngineInv
  <2>2. DOMAIN measures \cup {n} \in SUBSET Names
    BY CatalogParts DEF EngineInv
  <2>3. [m \in DOMAIN measures \cup {n} |-> IF m = n THEN b ELSE measures[m]] \in Catalogs
    BY <2>1, <2>2, CatalogFrom
  <2> QED
    BY <1>2, <1>3, <2>3 DEF SetMeasure
<1>4. ASSUME NEW n \in Names, DeleteMeasure(n) PROVE EngineInv'
  <2>1. [m \in DOMAIN measures \ {n} |-> measures[m]] \in [DOMAIN measures \ {n} -> Bodies]
    BY CatalogParts DEF EngineInv
  <2>2. DOMAIN measures \ {n} \in SUBSET Names
    BY CatalogParts DEF EngineInv
  <2>3. [m \in DOMAIN measures \ {n} |-> measures[m]] \in Catalogs
    BY <2>1, <2>2, CatalogFrom
  <2> QED
    BY <1>2, <1>4, <2>3 DEF DeleteMeasure
<1>5. ASSUME NEW old \in Names, NEW new \in Names, RenameMeasure(old, new) PROVE EngineInv'
  <2> DEFINE some == (DOMAIN measures \ {old}) \cup {new}
  <2>1. [m \in some |-> measures[IF m = new THEN old ELSE m]] \in [some -> Bodies]
    BY <1>5, CatalogParts DEF EngineInv, RenameMeasure
  <2>2. some \in SUBSET Names
    BY CatalogParts DEF EngineInv
  <2>3. [m \in some |-> measures[IF m = new THEN old ELSE m]] \in Catalogs
    BY <2>1, <2>2, CatalogFrom
  <2> QED
    BY <1>2, <1>5, <2>3 DEF RenameMeasure
<1>6. CASE Serve
  <2>1. DOMAIN inlined = DOMAIN source
    <3>1. /\ DOMAIN inlined \subseteq DOMAIN source
          /\ \A n \in DOMAIN source : \E i \in DOMAIN order : order[i] = n
      BY <1>6 DEF Serve, LoadInv, LoadTypes, SearchInv
    <3>2. \A i \in DOMAIN order : order[i] \in DOMAIN inlined
      BY <1>6 DEF Serve
    <3> QED
      BY <3>1, <3>2
  <2> QED
    BY <1>6, <2>1 DEF Serve, LoadInv, LoadTypes, EngineInv, ReachedIn
<1>7. ASSUME NEW n \in Names, Root(n) \/ Descend(n) \/ Inline(n) \/ LookUp(n) PROVE EngineInv'
  BY <1>1, <1>7 DEF Root, Descend, Enter, Inline, LookUp
<1>8. ASSUME NEW i \in DOMAIN path, FindCycle(i) PROVE EngineInv'
  BY <1>1, <1>8 DEF FindCycle
<1>9. CASE Load \/ Leave \/ Sorted \/ Answer
  BY <1>1, <1>9 DEF Load, Leave, Sorted, Answer
<1>10. ASSUME NEW x \in Names \cup Columns, Ask(x) PROVE EngineInv'
  BY <1>1, <1>10 DEF Ask
<1>11. CASE UNCHANGED graphVars
  BY <1>1, <1>11 DEF graphVars, engineVars
<1> QED
  BY <1>3, <1>4, <1>5, <1>6, <1>7, <1>8, <1>9, <1>10, <1>11 DEF GraphNext

\* Loads and the engine together.
LEMMA Foundations == GraphSpec => [](LoadInv /\ EngineInv)
<1>1. GraphInit => EngineInv
  <2>1. NoneOf \in Catalogs /\ DOMAIN NoneOf = {}
    BY DEF Catalogs, NoneOf
  <2> QED
    BY <2>1, MeasureGraphAssumption DEF GraphInit, EngineInv, ReachedIn
<1> QED
  BY <1>1, InitLoad, LoadStep, EngineStep, PTL DEF GraphSpec

\* measure_resolver.rs: however the maps are ordered, a measure is inlined after
\* all that it is built from, what is reported as a cycle is one, and a model
\* that is accepted has no name of a measure left where the search looks.
THEOREM ResolutionIsAlwaysSound == GraphSpec => []ResolutionIsSound
<1>1. LoadInv => ResolutionIsSound
  BY DEF LoadInv, ResolutionIsSound
<1> QED
  BY <1>1, Foundations, PTL

------------------------------------------------------------------------------
\* One look-up keeps what was found within every closed set, and closes it a
\* little more.
LEMMA RequestStep ==
    ASSUME EngineInv, RequestInv, [GraphNext]_graphVars
    PROVE  RequestInv'
<1>1. ASSUME UNCHANGED <<measures, asked, visited, queue>> PROVE RequestInv'
  BY <1>1 DEF RequestInv, Dependents, ClosedOver
<1>2. ASSUME asked = Nothing, UNCHANGED requestVars PROVE RequestInv'
  BY <1>2 DEF RequestInv, requestVars
<1>3. ASSUME NEW x \in Names \cup Columns, Ask(x) PROVE RequestInv'
  <2>1. /\ asked' = x /\ visited' = Dependents(measures, x) /\ queue' = visited' /\ measures' = measures
        /\ x # Nothing
    BY <1>3, MeasureGraphAssumption DEF Ask, engineVars
  <2>2. visited' \subseteq DOMAIN measures
    BY <2>1 DEF Dependents
  <2>3. \A S \in ClosedOver(measures, x) : visited' \subseteq S
    BY <2>1 DEF ClosedOver
  <2> QED
    BY <2>1, <2>2, <2>3 DEF RequestInv
<1>4. ASSUME NEW n \in Names, LookUp(n) PROVE RequestInv'
  <2> DEFINE found == Dependents(measures, n)
  <2>1. /\ n \in queue /\ visited' = visited \cup found /\ queue' = (queue \ {n}) \cup (found \ visited)
        /\ measures' = measures /\ asked' = asked
    BY <1>4 DEF LookUp, engineVars
  <2>2. asked # Nothing /\ n \in visited
    BY <2>1 DEF RequestInv
  <2>3. found \subseteq DOMAIN measures
    BY DEF Dependents
  <2>4. \A S \in ClosedOver(measures, asked) : visited' \subseteq S
    BY <2>1, <2>2 DEF RequestInv, ClosedOver
  <2>5. \A m \in visited' \ queue' : Dependents(measures, m) \subseteq visited'
    BY <2>1, <2>2 DEF RequestInv
  <2> HIDE DEF found
  <2> QED
    BY <2>1, <2>2, <2>3, <2>4, <2>5 DEF RequestInv
<1>5. CASE Answer
  BY <1>5 DEF Answer, RequestInv
<1>6. ASSUME NEW n \in Names, Root(n) \/ Descend(n) \/ Inline(n) PROVE RequestInv'
  BY <1>1, <1>6 DEF Root, Descend, Enter, Inline, engineVars, requestVars
<1>7. ASSUME NEW i \in DOMAIN path, FindCycle(i) PROVE RequestInv'
  BY <1>1, <1>7 DEF FindCycle, engineVars, requestVars
<1>8. CASE Load \/ Leave \/ Sorted
  BY <1>1, <1>8 DEF Load, Leave, Sorted, engineVars, requestVars
<1>9. CASE Serve
  BY <1>2, <1>9 DEF Serve
<1>10. ASSUME NEW c, Edit(c) PROVE RequestInv'
  BY <1>2, <1>10 DEF Edit
<1>11. ASSUME NEW n \in Names, DeleteMeasure(n) PROVE RequestInv'
  BY <1>10, <1>11 DEF DeleteMeasure
<1>12. ASSUME NEW n \in Names, NEW b \in Bodies, SetMeasure(n, b) PROVE RequestInv'
  BY <1>10, <1>12 DEF SetMeasure
<1>13. ASSUME NEW n \in Names, NEW m \in Names, RenameMeasure(n, m) PROVE RequestInv'
  BY <1>10, <1>13 DEF RenameMeasure
<1>14. CASE UNCHANGED graphVars
  BY <1>1, <1>14 DEF graphVars
<1> QED
  BY <1>3, <1>4, <1>5, <1>6, <1>7, <1>8, <1>9, <1>11, <1>12, <1>13, <1>14 DEF GraphNext

\* lineage.rs: what is reported as the impact of a change is the least set that
\* has every measure that mentions the object or one of the set; and for a model
\* as it was loaded, all that contain or look up the measure in memory are there.
THEOREM ImpactIsAlwaysExact == GraphSpec => []ImpactIsExact
<1>1. GraphInit => RequestInv
  BY DEF GraphInit, RequestInv
<1>2. EngineInv /\ RequestInv => ImpactIsExact
  <2> SUFFICES ASSUME EngineInv, RequestInv, asked # Nothing, queue = {}
               PROVE  /\ visited \in ClosedOver(measures, asked)
                      /\ \A S \in ClosedOver(measures, asked) : visited \subseteq S
                      /\ measures = loaded =>
                           \A n \in DOMAIN resolved :
                               asked \in resolved[n].built \cup resolved[n].stubs => n \in visited
    BY DEF ImpactIsExact
  <2>1. visited \in ClosedOver(measures, asked)
    BY DEF RequestInv, ClosedOver
  <2> QED
    BY <2>1 DEF EngineInv, ReachedIn, RequestInv
<1>3. GraphSpec => []RequestInv
  BY <1>1, RequestStep, Foundations, PTL DEF GraphSpec
<1> QED
  BY <1>2, <1>3, Foundations, PTL

------------------------------------------------------------------------------
\* What the other invariants do not say of the types.
Marks ==
    /\ edits \in 0..MaxEdits
    /\ phase \in {"sorting", "inlining", "served", "refused"}
    /\ asked \in Names \cup Columns \cup {Nothing}

LEMMA MarksStep ==
    ASSUME EngineInv, RequestInv, Marks, [GraphNext]_graphVars
    PROVE  Marks'
<1>1. ASSUME UNCHANGED <<edits, phase, asked>> PROVE Marks'
  BY <1>1 DEF Marks
<1>2. ASSUME NEW c, Edit(c) PROVE Marks'
  BY <1>2, MeasureGraphAssumption DEF Edit, Marks, loadVars, requestVars
<1>3. ASSUME NEW n \in Names, DeleteMeasure(n) PROVE Marks'
  BY <1>2, <1>3 DEF DeleteMeasure
<1>4. ASSUME NEW n \in Names, NEW b \in Bodies, SetMeasure(n, b) PROVE Marks'
  BY <1>2, <1>4 DEF SetMeasure
<1>5. ASSUME NEW n \in Names, NEW m \in Names, RenameMeasure(n, m) PROVE Marks'
  BY <1>2, <1>5 DEF RenameMeasure
<1>6. CASE Load \/ Serve
  BY <1>6 DEF Load, Serve, Marks, engineVars, requestVars
<1>7. CASE Leave \/ Sorted
  BY <1>7 DEF Leave, Sorted, Marks, engineVars, requestVars
<1>8. ASSUME NEW i \in DOMAIN path, FindCycle(i) PROVE Marks'
  BY <1>8 DEF FindCycle, Marks, engineVars, requestVars
<1>9. ASSUME NEW n \in Names, Root(n) \/ Descend(n) \/ Inline(n) \/ LookUp(n) PROVE Marks'
  BY <1>1, <1>9 DEF Root, Descend, Enter, Inline, LookUp, engineVars, loadVars, requestVars
<1>10. ASSUME NEW x \in Names \cup Columns, Ask(x) PROVE Marks'
  BY <1>10 DEF Ask, Marks, engineVars, loadVars
<1>11. CASE Answer
  BY <1>11 DEF Answer, Marks, engineVars, loadVars
<1>12. CASE UNCHANGED graphVars
  BY <1>1, <1>12 DEF graphVars
<1> QED
  BY <1>3, <1>4, <1>5, <1>6, <1>7, <1>8, <1>9, <1>10, <1>11, <1>12 DEF GraphNext

\* The load, the engine and the request are type-correct for any measures.
THEOREM GraphTypesAlways == GraphSpec => []GraphTypeOK
<1>1. GraphInit => RequestInv /\ Marks
  BY MeasureGraphAssumption DEF GraphInit, RequestInv, Marks
<1>2. LoadInv /\ EngineInv /\ RequestInv /\ Marks => GraphTypeOK
  BY DEF LoadInv, LoadTypes, EngineInv, RequestInv, Marks, GraphTypeOK
<1> QED
  BY <1>1, <1>2, Foundations, RequestStep, MarksStep, PTL DEF GraphSpec
=================================================================================
