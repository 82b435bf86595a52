---------------------------- MODULE DiscoverProofs ----------------------------
(***************************************************************************)
(* Theorems about Discover: what the rowsets say of any catalog that       *)
(* commands can make, whatever is hidden in it.                            *)
(***************************************************************************)
EXTENDS CatalogProofs, Discover

------------------------------------------------------------------------------
(* What list_tables returns.                                                 *)

ListedColumn(c, hidden, keys, t, n) ==
    [name   |-> n,
     sortBy |-> c.columns[<<t, n>>].sortBy,
     hidden |-> <<t, n>> \in hidden,
     key    |-> <<t, n>> \in keys]

ListedColumns(c, hidden, keys, t) ==
    [j \in DOMAIN c.columnOrder[t] |-> ListedColumn(c, hidden, keys, t, c.columnOrder[t][j])]

ListedTable(c, hidden, keys, t) ==
    [name |-> t, hidden |-> t \in hidden, columns |-> ListedColumns(c, hidden, keys, t)]

\* T has the tables of c in their order, each with all its columns in theirs.
IsListing(c, hidden, keys, T) ==
    T = [i \in DOMAIN c.tableOrder |-> ListedTable(c, hidden, keys, c.tableOrder[i])]

\* The maps know everything the order lists name: nothing is filtered out.
LEMMA ListTablesIs ==
    ASSUME NEW c, IsCatalog(c), NEW hidden, NEW keys
    PROVE  IsListing(c, hidden, keys, ListTables(c, hidden, keys))
<1> DEFINE order == c.tableOrder
           known(t) == Only(c.columnOrder[t], {k[2] : k \in {j \in DOMAIN c.columns : j[1] = t}})
           row(t) == LET names == known(t) IN
                     [name |-> t, hidden |-> t \in hidden,
                      columns |-> [j \in DOMAIN names |->
                           [name   |-> names[j],
                            sortBy |-> c.columns[<<t, names[j]>>].sortBy,
                            hidden |-> <<t, names[j]>> \in hidden,
                            key    |-> <<t, names[j]>> \in keys]]]
<1>1. /\ order \in Seq(Tables) /\ ToSet(order) = c.tables
      /\ DOMAIN c.columnOrder = c.tables
      /\ \A t \in c.tables : c.columnOrder[t] \in Lists(Columns, ColumnsOf(c.columns, t))
  BY DEF IsCatalog, TablesOK, ColumnsOK, Lists
<1>2. Only(order, DOMAIN c.columnOrder) = order
  BY <1>1, OnlyAll
<1>3. ASSUME NEW t \in c.tables PROVE known(t) = c.columnOrder[t]
  <2> DEFINE s == c.columnOrder[t]
             have == {k[2] : k \in {j \in DOMAIN c.columns : j[1] = t}}
  <2>1. s \in Seq(Columns) /\ ToSet(s) = ColumnsOf(c.columns, t)
    BY <1>1 DEF Lists
  <2>2. ASSUME NEW n \in ColumnsOf(c.columns, t) PROVE n \in have
    <3>1. <<t, n>> \in {j \in DOMAIN c.columns : j[1] = t} /\ <<t, n>>[2] = n
      BY DEF ColumnsOf
    <3> QED
      BY <3>1
  <2> HIDE DEF s, have
  <2>3. Only(s, have) = s
    BY <2>1, <2>2, OnlyAll
  <2> QED
    BY <2>3 DEF s, have
<1>4. ASSUME NEW t \in c.tables PROVE row(t) = ListedTable(c, hidden, keys, t)
  <2>1. known(t) = c.columnOrder[t]
    BY <1>3
  <2> HIDE DEF known
  <2> QED
    BY <2>1 DEF ListedTable, ListedColumns, ListedColumn
<1>5. ListTables(c, hidden, keys) = [i \in DOMAIN order |-> row(order[i])]
  BY <1>2 DEF ListTables
<1>6. \A i \in DOMAIN order : order[i] \in c.tables
  BY <1>1 DEF ToSet
<1> HIDE DEF order, row
<1>7. [i \in DOMAIN order |-> row(order[i])]
        = [i \in DOMAIN order |-> ListedTable(c, hidden, keys, order[i])]
  BY <1>4, <1>6
<1> QED
  BY <1>5, <1>7 DEF IsListing, order

\* What a client can rely on when it reads such a list: tables and columns are
\* at the places 1, 2, ..., and each is there exactly once.
Tidy(T, names, C) ==
    /\ Len(T) \in Nat /\ DOMAIN T = 1..Len(T)
    /\ \A i \in DOMAIN T : /\ Len(T[i].columns) \in Nat
                           /\ DOMAIN T[i].columns = 1..Len(T[i].columns)
                           /\ T[i].columns # <<>> => 1 \in DOMAIN T[i].columns
    /\ {T[i].name : i \in DOMAIN T} = names
    /\ \A i, j \in DOMAIN T : T[i].name = T[j].name => i = j
    /\ {KeyAt(T, p) : p \in Places(T)} = C
    /\ \A p, q \in Places(T) : KeyAt(T, p) = KeyAt(T, q) => p = q

\* A place is that of a table and of a column in it.
LEMMA PlacesAre ==
    ASSUME NEW T
    PROVE  /\ \A i \in DOMAIN T : \A j \in DOMAIN T[i].columns : <<i, j>> \in Places(T)
           /\ \A p \in Places(T) : /\ p[1] \in DOMAIN T /\ p[2] \in DOMAIN T[p[1]].columns
                                   /\ p = <<p[1], p[2]>>
BY DEF Places

\* The rows and the cells of a listing.
LEMMA ListingIs ==
    ASSUME NEW c, IsCatalog(c), NEW hidden, NEW keys, NEW T, IsListing(c, hidden, keys, T)
    PROVE  /\ Len(T) = Len(c.tableOrder) /\ DOMAIN T = DOMAIN c.tableOrder
           /\ DOMAIN T = 1..Len(T) /\ Len(T) \in Nat
           /\ \A i \in DOMAIN T :
                /\ c.tableOrder[i] \in c.tables
                /\ T[i].name = c.tableOrder[i]
                /\ T[i].hidden <=> c.tableOrder[i] \in hidden
                /\ T[i].columns = ListedColumns(c, hidden, keys, c.tableOrder[i])
<1> DEFINE order == c.tableOrder
<1>1. order \in Seq(Tables) /\ ToSet(order) = c.tables
  BY DEF IsCatalog, TablesOK, Lists
<1>2. T = [i \in DOMAIN order |-> ListedTable(c, hidden, keys, order[i])]
  BY DEF IsListing
<1> HIDE DEF order
<1>3. DOMAIN T = DOMAIN order /\ Len(T) = Len(order) /\ DOMAIN T = 1..Len(T) /\ Len(T) \in Nat
  BY <1>1, <1>2
<1>4. ASSUME NEW i \in DOMAIN T
      PROVE  /\ order[i] \in c.tables
             /\ T[i].name = order[i]
             /\ T[i].hidden <=> order[i] \in hidden
             /\ T[i].columns = ListedColumns(c, hidden, keys, order[i])
  <2>1. T[i] = ListedTable(c, hidden, keys, order[i])
    BY <1>2, <1>3
  <2>2. order[i] \in c.tables
    BY <1>1, <1>3 DEF ToSet
  <2> DEFINE t == order[i]
             cols == ListedColumns(c, hidden, keys, t)
             h    == t \in hidden
  <2>3. T[i] = [name |-> t, hidden |-> h, columns |-> cols]
    BY <2>1 DEF ListedTable
  <2> HIDE DEF t, cols, h
  <2>4. T[i].name = t /\ T[i].columns = cols /\ T[i].hidden = h
    BY <2>3
  <2>5. T[i].hidden <=> t \in hidden
    BY <2>4, Zenon DEF h
  <2> QED
    BY <2>2, <2>4, <2>5 DEF t, cols
<1> QED
  BY <1>3, <1>4 DEF order

\* The columns of the table at place i.
LEMMA ListedColumnsAre ==
    ASSUME NEW c, IsCatalog(c), NEW hidden, NEW keys, NEW T, IsListing(c, hidden, keys, T),
           NEW i \in DOMAIN T
    PROVE  /\ Len(T[i].columns) \in Nat
           /\ DOMAIN T[i].columns = 1..Len(T[i].columns)
           /\ Len(T[i].columns) = Len(c.columnOrder[T[i].name])
           /\ T[i].columns # <<>> => 1 \in DOMAIN T[i].columns
           /\ DOMAIN T[i].columns = DOMAIN c.columnOrder[T[i].name]
           /\ \A j \in DOMAIN T[i].columns :
                 LET n == c.columnOrder[T[i].name][j] IN
                 /\ T[i].columns[j] = ListedColumn(c, hidden, keys, T[i].name, n)
                 /\ T[i].columns[j].name = n
                 /\ n \in ColumnsOf(c.columns, T[i].name)
<1> DEFINE t == T[i].name
           s == c.columnOrder[t]
           cols == [j \in DOMAIN s |-> ListedColumn(c, hidden, keys, t, s[j])]
<1>0. t \in c.tables /\ T[i].columns = ListedColumns(c, hidden, keys, t)
  BY ListingIs
<1>1. t \in c.tables /\ T[i].columns = cols
  BY <1>0 DEF ListedColumns
<1>2. s \in Seq(Columns) /\ ToSet(s) = ColumnsOf(c.columns, t)
  BY <1>1 DEF IsCatalog, ColumnsOK, Lists
<1> HIDE DEF s, t
<1>3. /\ DOMAIN s = 1..Len(s) /\ Len(s) \in Nat
      /\ \A j \in DOMAIN s : s[j] \in ColumnsOf(c.columns, t)
  BY <1>2 DEF ToSet
<1>4. DOMAIN cols = 1..Len(s) /\ Len(cols) = Len(s)
  BY <1>3
<1>5. cols # <<>> => 1 \in DOMAIN cols
  BY <1>3, <1>4
<1>6. \A j \in DOMAIN s : /\ cols[j] = ListedColumn(c, hidden, keys, t, s[j])
                         /\ cols[j].name = s[j]
  BY DEF ListedColumn
<1> HIDE DEF cols
<1> QED
  BY <1>1, <1>3, <1>4, <1>5, <1>6 DEF s, t

\* The listing of a catalog has every table and every column once.
LEMMA ListingIsTidy ==
    ASSUME NEW c, IsCatalog(c), NEW hidden, NEW keys, NEW T, IsListing(c, hidden, keys, T)
    PROVE  Tidy(T, c.tables, DOMAIN c.columns)
<1> DEFINE order == c.tableOrder
           C == DOMAIN c.columns
<1>1. ToSet(order) = c.tables /\ IsInjective(order)
  BY DEF IsCatalog, TablesOK, Lists
<1>2. /\ DOMAIN T = DOMAIN order /\ DOMAIN T = 1..Len(T) /\ Len(T) \in Nat
      /\ \A i \in DOMAIN T : T[i].name = order[i] /\ order[i] \in c.tables
  BY ListingIs
<1>3. \A i \in DOMAIN T : /\ Len(T[i].columns) \in Nat
                         /\ DOMAIN T[i].columns = 1..Len(T[i].columns)
                         /\ T[i].columns # <<>> => 1 \in DOMAIN T[i].columns
  BY ListedColumnsAre
<1>4. {T[i].name : i \in DOMAIN T} = c.tables
  BY <1>1, <1>2 DEF ToSet
<1>5. \A i, j \in DOMAIN T : T[i].name = T[j].name => i = j
  BY <1>1, <1>2 DEF IsInjective
<1>6. ASSUME NEW p \in Places(T)
      PROVE  /\ KeyAt(T, p) \in C
             /\ p[1] \in DOMAIN T /\ p[2] \in DOMAIN c.columnOrder[T[p[1]].name]
             /\ KeyAt(T, p) = <<T[p[1]].name, c.columnOrder[T[p[1]].name][p[2]]>>
             /\ p = <<p[1], p[2]>>
  <2>1. p[1] \in DOMAIN T /\ p[2] \in DOMAIN T[p[1]].columns /\ p = <<p[1], p[2]>>
    BY PlacesAre
  <2>2. /\ DOMAIN T[p[1]].columns = DOMAIN c.columnOrder[T[p[1]].name]
        /\ T[p[1]].columns[p[2]].name = c.columnOrder[T[p[1]].name][p[2]]
        /\ c.columnOrder[T[p[1]].name][p[2]] \in ColumnsOf(c.columns, T[p[1]].name)
    BY <2>1, ListedColumnsAre
  <2> QED
    BY <2>1, <2>2 DEF KeyAt, ColumnsOf
<1>7. ASSUME NEW k \in C PROVE \E p \in Places(T) : KeyAt(T, p) = k
  <2>1. k = <<k[1], k[2]>> /\ k[1] \in c.tables /\ k[2] \in ColumnsOf(c.columns, k[1])
    <3>1. k \in c.tables \X Columns
      BY DEF IsCatalog, ColumnsOK
    <3>2. k = <<k[1], k[2]>> /\ k[1] \in c.tables /\ k[2] \in Columns
      BY <3>1
    <3> QED
      BY <3>2 DEF ColumnsOf
  <2>2. PICK i \in DOMAIN T : T[i].name = k[1]
    BY <1>4, <2>1
  <2>3. ToSet(c.columnOrder[k[1]]) = ColumnsOf(c.columns, k[1])
    BY <2>1 DEF IsCatalog, ColumnsOK, Lists
  <2>4. PICK j \in DOMAIN c.columnOrder[k[1]] : c.columnOrder[k[1]][j] = k[2]
    BY <2>1, <2>3 DEF ToSet
  <2>5. j \in DOMAIN T[i].columns /\ T[i].columns[j].name = k[2]
    BY <2>2, <2>4, ListedColumnsAre
  <2> DEFINE p == <<i, j>>
  <2>6. p \in Places(T) /\ p[1] = i /\ p[2] = j
    BY <2>5, PlacesAre
  <2> HIDE DEF p
  <2>7. KeyAt(T, p) = k
    BY <2>1, <2>2, <2>5, <2>6 DEF KeyAt
  <2> QED
    BY <2>6, <2>7
<1>8. ASSUME NEW p \in Places(T), NEW q \in Places(T), KeyAt(T, p) = KeyAt(T, q)
      PROVE  p = q
  <2> DEFINE s == c.columnOrder[T[p[1]].name]
  <2>1. T[p[1]].name = T[q[1]].name
    BY <1>8 DEF KeyAt
  <2>2. p[1] = q[1]
    BY <1>5, <1>6, <2>1
  <2>3. p[2] \in DOMAIN s /\ q[2] \in DOMAIN s /\ s[p[2]] = s[q[2]]
    <3>1. /\ KeyAt(T, p) = <<T[p[1]].name, s[p[2]]>> /\ KeyAt(T, q) = <<T[p[1]].name, s[q[2]]>>
          /\ p[2] \in DOMAIN s /\ q[2] \in DOMAIN s
      BY <1>6, <2>2
    <3> DEFINE t == T[p[1]].name
    <3>2. <<t, s[p[2]]>> = <<t, s[q[2]]>>
      BY <1>8, <3>1
    <3> HIDE DEF s, t
    <3>3. s[p[2]] = s[q[2]]
      BY ONLY <3>2
    <3> QED
      BY <3>1, <3>3
  <2>4. IsInjective(s)
    BY <1>2, <1>6 DEF IsCatalog, ColumnsOK, Lists
  <2>5. p[2] = q[2]
    BY <2>3, <2>4 DEF IsInjective
  <2> QED
    BY <1>6, <2>2, <2>5
<1>9. {KeyAt(T, p) : p \in Places(T)} = C
  BY <1>6, <1>7
<1> QED
  BY <1>2, <1>3, <1>4, <1>5, <1>8, <1>9 DEF Tidy

\* What is shown as hidden is what is hidden.
Hides(T, hidden) ==
    /\ \A i \in DOMAIN T : T[i].hidden <=> T[i].name \in hidden
    /\ \A p \in Places(T) : T[p[1]].columns[p[2]].hidden <=> KeyAt(T, p) \in hidden

\* list_tables reads the flags of each table and each column.
LEMMA ListingHides ==
    ASSUME NEW c, IsCatalog(c), NEW hidden, NEW keys, NEW T, IsListing(c, hidden, keys, T)
    PROVE  Hides(T, hidden)
<1>1. \A i \in DOMAIN T : T[i].hidden <=> T[i].name \in hidden
  BY ListingIs
<1>2. ASSUME NEW p \in Places(T)
      PROVE  T[p[1]].columns[p[2]].hidden <=> KeyAt(T, p) \in hidden
  <2> DEFINE t   == T[p[1]].name
             col == T[p[1]].columns[p[2]]
             n   == c.columnOrder[t][p[2]]
  <2>1. p[1] \in DOMAIN T /\ p[2] \in DOMAIN T[p[1]].columns
    BY PlacesAre
  <2>2. col = ListedColumn(c, hidden, keys, t, n) /\ col.name = n
    BY <2>1, ListedColumnsAre
  <2>3. KeyAt(T, p) = <<t, n>>
    BY <2>2 DEF KeyAt
  <2> DEFINE key == <<t, n>>
             h == key \in hidden
  <2> HIDE DEF col, t, n
  <2>4. col = [name |-> n, sortBy |-> c.columns[key].sortBy, hidden |-> h, key |-> key \in keys]
    BY <2>2 DEF ListedColumn
  <2> HIDE DEF key, h
  <2>5. col.hidden = h
    BY <2>4
  <2> QED
    BY <2>3, <2>5, Zenon DEF h, key, col
<1> QED
  BY <1>1, <1>2 DEF Hides

------------------------------------------------------------------------------
(* Numbers of objects.                                                       *)

\* Position of a table by its name: Iterator::position, counted from 1.
LEMMA TableIdIs ==
    ASSUME NEW T, NEW names, NEW C, Tidy(T, names, C), NEW t
    PROVE  /\ t \in names => TableId(T, t) \in DOMAIN T /\ T[TableId(T, t)].name = t
           /\ t \notin names => TableId(T, t) = 0
           /\ \A i \in DOMAIN T : T[i].name = t => TableId(T, t) = i
<1> DEFINE I == {i \in 1..Len(T) : T[i].name = t}
<1>1. /\ Len(T) \in Nat /\ DOMAIN T = 1..Len(T)
      /\ {T[i].name : i \in DOMAIN T} = names
      /\ \A i, j \in DOMAIN T : T[i].name = T[j].name => i = j
  BY DEF Tidy
<1>2. I \in SUBSET Nat
  BY <1>1
<1>3. I # {} => Min(I) \in I
  <2> HIDE DEF I
  <2> QED
    BY <1>2, MinIs
<1>4. TableId(T, t) = IF I # {} THEN Min(I) ELSE 0
  BY DEF TableId, SelectInSeq
<1> QED
  BY <1>1, <1>3, <1>4

\* The number of a column: that of its place.
LEMMA ColumnIdIs ==
    ASSUME NEW T, NEW names, NEW C, Tidy(T, names, C), NEW k
    PROVE  /\ \A p \in Places(T) : KeyAt(T, p) = k => ColumnId(T, k) = ColumnIdAt(p)
           /\ k \notin C => ColumnId(T, k) = 0
<1> DEFINE at == {p \in Places(T) : KeyAt(T, p) = k}
           place == CHOOSE p \in at : TRUE
<1>1. /\ {KeyAt(T, p) : p \in Places(T)} = C
      /\ \A p, q \in Places(T) : KeyAt(T, p) = KeyAt(T, q) => p = q
  BY DEF Tidy
<1>2. ColumnId(T, k) = IF at = {} THEN 0 ELSE ColumnIdAt(place)
  BY DEF ColumnId
<1>3. at # {} => place \in at
  OBVIOUS
<1> HIDE DEF place
<1>4. ASSUME NEW p \in Places(T), KeyAt(T, p) = k PROVE ColumnId(T, k) = ColumnIdAt(p)
  <2>1. p \in at
    BY <1>4
  <2>2. place \in Places(T) /\ KeyAt(T, place) = k
    BY <1>3, <2>1
  <2>3. place = p
    BY <1>1, <1>4, <2>2
  <2> QED
    BY <1>2, <2>1, <2>3
<1>5. k \notin C => at = {}
  BY <1>1
<1> QED
  BY <1>2, <1>4, <1>5

\* Two columns of tables that are not wider than the stride differ in number.
LEMMA ColumnIdsDiffer ==
    ASSUME NEW p \in Nat \X (1..Stride), NEW q \in Nat \X (1..Stride),
           ColumnIdAt(p) = ColumnIdAt(q)
    PROVE  p = q
<1>1. /\ p[1] \in Nat /\ q[1] \in Nat /\ p[2] \in 1..1000 /\ q[2] \in 1..1000
      /\ p[1] * 1000 + p[2] = q[1] * 1000 + q[2]
      /\ p = <<p[1], p[2]>> /\ q = <<q[1], q[2]>>
  BY DEF Stride, ColumnIdAt
<1>2. p[1] = q[1] /\ p[2] = q[2]
  <2> DEFINE a == p[1]
             b == q[1]
             i == p[2]
             j == q[2]
  <2>1. a \in Nat /\ b \in Nat /\ i \in 1..1000 /\ j \in 1..1000 /\ a * 1000 + i = b * 1000 + j
    BY <1>1
  <2> HIDE DEF a, b, i, j
  <2>2. a = b /\ i = j
    BY ONLY <2>1
  <2> QED
    BY <2>2 DEF a, b, i, j
<1> QED
  BY <1>1, <1>2

------------------------------------------------------------------------------
(* Finite sets of places and rows.                                           *)

\* What a function makes of a finite set is finite, and as many if it tells
\* the elements apart.
LEMMA ImageIs ==
    ASSUME NEW S, IsFiniteSet(S), NEW f, DOMAIN f = S, NEW I, I = {f[x] : x \in S}
    PROVE  /\ IsFiniteSet(I)
           /\ (\A x, y \in S : f[x] = f[y] => x = y) => Cardinality(I) = Cardinality(S)
<1> DEFINE g == [x \in S |-> f[x]]
<1>1. g \in Surjection(S, I)
  BY DEF Surjection
<1>2. IsFiniteSet(I) /\ (Cardinality(I) = Cardinality(S) <=> g \in Injection(S, I))
  BY <1>1, FS_Surjection
<1>3. (\A x, y \in S : f[x] = f[y] => x = y) => g \in Injection(S, I)
  BY <1>1 DEF Injection, Surjection, IsInjective
<1> QED
  BY <1>2, <1>3

\* There are finitely many places.
LEMMA PlacesFinite ==
    ASSUME NEW T, NEW names, NEW C, Tidy(T, names, C)
    PROVE  IsFiniteSet(Places(T))
<1> DEFINE row(i) == {<<i, j>> : j \in DOMAIN T[i].columns}
           rows   == {row(i) : i \in DOMAIN T}
<1>1. /\ Len(T) \in Nat /\ DOMAIN T = 1..Len(T)
      /\ \A i \in DOMAIN T : /\ Len(T[i].columns) \in Nat
                             /\ DOMAIN T[i].columns = 1..Len(T[i].columns)
  BY DEF Tidy
<1>2. ASSUME NEW i \in DOMAIN T PROVE IsFiniteSet(row(i))
  <2> DEFINE S == DOMAIN T[i].columns
             f == [j \in S |-> <<i, j>>]
             R == row(i)
             n == Len(T[i].columns)
  <2>1. IsFiniteSet(S)
    <3>1. n \in Int /\ S = 1..n
      BY <1>1
    <3> HIDE DEF n, S
    <3> QED
      BY <3>1, FS_Interval
  <2>2. DOMAIN f = S /\ R = {f[j] : j \in S}
    OBVIOUS
  <2> HIDE DEF S, f, R
  <2>3. IsFiniteSet(R)
    BY <2>1, <2>2, ImageIs
  <2> QED
    BY <2>3 DEF R
<1>3. IsFiniteSet(rows)
  <2> DEFINE S == DOMAIN T
             f == [i \in S |-> row(i)]
  <2>1. IsFiniteSet(S)
    BY <1>1, FS_Interval
  <2>2. DOMAIN f = S /\ rows = {f[i] : i \in S}
    OBVIOUS
  <2> HIDE DEF S, f, rows
  <2> QED
    BY <2>1, <2>2, ImageIs
<1>4. \A R \in rows : IsFiniteSet(R)
  BY <1>2
<1>5. Places(T) = UNION rows
  BY DEF Places
<1> HIDE DEF rows
<1> QED
  BY <1>3, <1>4, <1>5, FS_UNION

\* The places a hierarchy is counted after, its own with them.
UpTo(T, p) == {q \in OpenPlaces(T) : q[1] < p[1] \/ (q[1] = p[1] /\ q[2] <= p[2])}

\* HIERARCHY_ORDINAL counts: the columns of visible tables have the numbers
\* from 2, and no two the same.
LEMMA OrdinalsDiffer ==
    ASSUME NEW T, NEW names, NEW C, Tidy(T, names, C), NEW p \in OpenPlaces(T)
    PROVE  /\ HierarchyOrdinal(T, p) \in Nat /\ HierarchyOrdinal(T, p) >= 2
           /\ \A q \in OpenPlaces(T) : HierarchyOrdinal(T, p) = HierarchyOrdinal(T, q) => p = q
<1> DEFINE N(q) == Cardinality(UpTo(T, q))
<1>1. \A q \in OpenPlaces(T) : HierarchyOrdinal(T, q) = 1 + N(q)
  BY DEF HierarchyOrdinal, UpTo
<1>2. \A q \in OpenPlaces(T) : /\ q[1] \in Nat /\ q[2] \in Nat /\ q = <<q[1], q[2]>>
                               /\ q \in Places(T)
  <2>1. \A q \in Places(T) : /\ q[1] \in DOMAIN T /\ q[2] \in DOMAIN T[q[1]].columns
                            /\ q = <<q[1], q[2]>>
    BY PlacesAre
  <2>2. /\ DOMAIN T = 1..Len(T)
        /\ \A i \in DOMAIN T : DOMAIN T[i].columns = 1..Len(T[i].columns)
    BY DEF Tidy
  <2> QED
    BY <2>1, <2>2 DEF OpenPlaces
<1>3. ASSUME NEW q \in OpenPlaces(T)
      PROVE  IsFiniteSet(UpTo(T, q)) /\ q \in UpTo(T, q) /\ N(q) \in Nat /\ N(q) # 0
  <2>1. UpTo(T, q) \in SUBSET Places(T)
    BY <1>2 DEF UpTo
  <2>2. IsFiniteSet(UpTo(T, q))
    BY <2>1, PlacesFinite, FS_Subset
  <2>3. q \in UpTo(T, q)
    BY <1>2 DEF UpTo
  <2> QED
    BY <2>2, <2>3, FS_CardinalityType, FS_EmptySet
<1>4. ASSUME NEW r \in OpenPlaces(T), NEW q \in OpenPlaces(T),
             r[1] < q[1] \/ (r[1] = q[1] /\ r[2] < q[2])
      PROVE  N(r) < N(q)
  <2>1. UpTo(T, r) \in SUBSET UpTo(T, q)
    BY <1>2, <1>4 DEF UpTo
  <2>2. q \notin UpTo(T, r)
    BY <1>2, <1>4 DEF UpTo
  <2>3. N(r) <= N(q) /\ (N(q) = N(r) => UpTo(T, q) = UpTo(T, r))
    BY <1>3, <2>1, FS_Subset
  <2> QED
    BY <1>3, <2>2, <2>3
<1> HIDE DEF N
<1>5. HierarchyOrdinal(T, p) \in Nat /\ HierarchyOrdinal(T, p) >= 2
  BY <1>1, <1>3
<1>6. ASSUME NEW q \in OpenPlaces(T), HierarchyOrdinal(T, p) = HierarchyOrdinal(T, q)
      PROVE  p = q
  <2>1. N(p) = N(q) /\ N(p) \in Nat /\ N(q) \in Nat
    BY <1>1, <1>3, <1>6
  <2>2. p[1] = q[1] /\ p[2] = q[2]
    BY <1>2, <1>4, <2>1
  <2> QED
    BY <1>2, <2>2
<1> QED
  BY <1>5, <1>6

------------------------------------------------------------------------------
(* The rows of the MDSCHEMA rowsets.                                         *)

\* What is put after a unique name is its third part.
LEMMA ThirdPart ==
    ASSUME NEW a, NEW b, NEW e
    PROVE  <<a, b>> \o <<e>> = <<a, b, e>>
<1> DEFINE X == {a, b, e}
           s == <<a, b>>
           t == <<e>>
           u == <<a, b, e>>
<1>1. s \in Seq(X) /\ t \in Seq(X) /\ u \in Seq(X) /\ Len(s) = 2 /\ Len(t) = 1 /\ Len(u) = 3
  OBVIOUS
<1>2. s[1] = a /\ s[2] = b /\ t[1] = e /\ u[1] = a /\ u[2] = b /\ u[3] = e
  OBVIOUS
<1> HIDE DEF s, t, u, X
<1> DEFINE w == s \o t
<1>3. /\ w \in Seq(X) /\ Len(w) = Len(s) + Len(t)
      /\ \A i \in 1..Len(s) + Len(t) : w[i] = IF i <= Len(s) THEN s[i] ELSE t[i - Len(s)]
  BY <1>1, ConcatProperties
<1> HIDE DEF w
<1>4. w \in Seq(X) /\ Len(w) = 3 /\ w[1] = a /\ w[2] = b /\ w[3] = e
  BY <1>1, <1>2, <1>3
<1> HIDE DEF w
<1>5. w = u
  <2>1. \A i \in 1..Len(w) : w[i] = u[i]
    BY <1>2, <1>4
  <2> QED
    BY <1>1, <1>4, <2>1, SeqEqual
<1> QED
  BY <1>5 DEF w, s, t, u

\* The row of the measures, and that of the column at a place.
MeasuresHierarchy ==
    [dimension |-> <<"Measures">>, name |-> <<"Measures">>, ordinal |-> 1,
     default |-> <<"Measures", "__Default measure">>, all |-> <<>>]

HierarchyAt(T, p) ==
    LET key == KeyAt(T, p) IN
    [dimension |-> <<key[1]>>, name |-> key, ordinal |-> HierarchyOrdinal(T, p),
     default |-> key \o <<"All">>, all |-> key \o <<"All">>]

\* These are the rows there are.
LEMMA HierarchiesAre ==
    ASSUME NEW T
    PROVE  /\ Hierarchies(T) = {MeasuresHierarchy} \cup {HierarchyAt(T, p) : p \in ShownPlaces(T)}
           /\ MeasuresHierarchy.name = <<"Measures">> /\ MeasuresHierarchy.ordinal = 1
           /\ MeasuresHierarchy.dimension = <<"Measures">> /\ MeasuresHierarchy.all = <<>>
           /\ \A p : /\ HierarchyAt(T, p).name = KeyAt(T, p)
                     /\ HierarchyAt(T, p).dimension = <<T[p[1]].name>>
                     /\ HierarchyAt(T, p).ordinal = HierarchyOrdinal(T, p)
                     /\ HierarchyAt(T, p).all = <<KeyAt(T, p)[1], KeyAt(T, p)[2], "All">>
<1>1. Hierarchies(T) = {MeasuresHierarchy} \cup {HierarchyAt(T, p) : p \in ShownPlaces(T)}
  BY DEF Hierarchies, MeasuresHierarchy, HierarchyAt
<1>2. /\ MeasuresHierarchy.name = <<"Measures">> /\ MeasuresHierarchy.ordinal = 1
      /\ MeasuresHierarchy.dimension = <<"Measures">> /\ MeasuresHierarchy.all = <<>>
  BY DEF MeasuresHierarchy
<1>3. ASSUME NEW p
      PROVE  /\ HierarchyAt(T, p).name = KeyAt(T, p)
             /\ HierarchyAt(T, p).dimension = <<T[p[1]].name>>
             /\ HierarchyAt(T, p).ordinal = HierarchyOrdinal(T, p)
             /\ HierarchyAt(T, p).all = <<KeyAt(T, p)[1], KeyAt(T, p)[2], "All">>
  <2> DEFINE key == KeyAt(T, p)
             dim == <<key[1]>>
             all == key \o <<"All">>
             ord == HierarchyOrdinal(T, p)
             row == HierarchyAt(T, p)
  <2>1. row = [dimension |-> dim, name |-> key, ordinal |-> ord, default |-> all, all |-> all]
    BY DEF HierarchyAt
  <2>2. dim = <<T[p[1]].name>>
    BY DEF KeyAt
  <2>3. key = <<key[1], key[2]>>
    BY DEF KeyAt
  <2>4. all = <<key[1], key[2], "All">>
    <3> DEFINE x == key[1]
               y == key[2]
    <3>1. key = <<x, y>>
      BY <2>3
    <3> HIDE DEF x, y, key
    <3>2. <<x, y>> \o <<"All">> = <<x, y, "All">>
      BY ThirdPart
    <3>3. all = <<x, y>> \o <<"All">>
      BY <3>1
    <3> QED
      BY <3>2, <3>3 DEF x, y
  <2> HIDE DEF key, dim, all, ord, row
  <2>5. row.name = key /\ row.dimension = dim /\ row.ordinal = ord /\ row.all = all
    BY <2>1
  <2> QED
    BY <2>2, <2>4, <2>5 DEF row, key, ord
<1> QED
  BY <1>1, <1>2, <1>3

\* HIERARCHY_ORDINAL tells the hierarchies apart.
LEMMA HierarchiesNumbered ==
    ASSUME NEW T, NEW names, NEW C, Tidy(T, names, C)
    PROVE  Cardinality({h.ordinal : h \in Hierarchies(T)}) = Cardinality(Hierarchies(T))
<1> DEFINE H == Hierarchies(T)
           R == {HierarchyAt(T, p) : p \in ShownPlaces(T)}
           I == {h.ordinal : h \in H}
<1>1. ShownPlaces(T) \subseteq OpenPlaces(T) /\ ShownPlaces(T) \in SUBSET Places(T)
  BY DEF ShownPlaces, OpenPlaces
<1>2. IsFiniteSet(H)
  <2> DEFINE S == ShownPlaces(T)
             f == [p \in S |-> HierarchyAt(T, p)]
  <2>1. IsFiniteSet(S)
    BY <1>1, PlacesFinite, FS_Subset
  <2>2. DOMAIN f = S /\ R = {f[p] : p \in S}
    OBVIOUS
  <2> HIDE DEF S, f, R
  <2>3. IsFiniteSet(R)
    BY <2>1, <2>2, ImageIs
  <2>4. H = R \cup {MeasuresHierarchy}
    BY HierarchiesAre DEF R
  <2> QED
    BY <2>3, <2>4, FS_AddElement
<1>3. ASSUME NEW g \in H, NEW h \in H, g.ordinal = h.ordinal PROVE g = h
  <2>1. ASSUME NEW k \in H, k # MeasuresHierarchy
        PROVE  \E p \in ShownPlaces(T) : k = HierarchyAt(T, p)
    BY <2>1, HierarchiesAre
  <2>2. ASSUME NEW k \in H, k # MeasuresHierarchy PROVE k.ordinal # MeasuresHierarchy.ordinal
    <3>1. PICK p \in ShownPlaces(T) : k = HierarchyAt(T, p)
      BY <2>1, <2>2
    <3>2. k.ordinal = HierarchyOrdinal(T, p) /\ MeasuresHierarchy.ordinal = 1
      BY <3>1, HierarchiesAre
    <3>3. HierarchyOrdinal(T, p) \in Nat /\ HierarchyOrdinal(T, p) >= 2
      BY <1>1, OrdinalsDiffer
    <3> QED
      BY <3>2, <3>3
  <2>3. CASE g # MeasuresHierarchy /\ h # MeasuresHierarchy
    <3>1. PICK p \in ShownPlaces(T) : g = HierarchyAt(T, p)
      BY <2>1, <2>3
    <3>2. PICK q \in ShownPlaces(T) : h = HierarchyAt(T, q)
      BY <2>1, <2>3
    <3>3. HierarchyOrdinal(T, p) = HierarchyOrdinal(T, q)
      BY <1>3, <3>1, <3>2, HierarchiesAre
    <3>4. p = q
      BY <1>1, <3>3, OrdinalsDiffer
    <3> QED
      BY <3>1, <3>2, <3>4
  <2> QED
    BY <1>3, <2>2, <2>3
<1> DEFINE f == [h \in H |-> h.ordinal]
<1>4. DOMAIN f = H /\ I = {f[h] : h \in H}
  OBVIOUS
<1>5. \A g, h \in H : f[g] = f[h] => g = h
  BY <1>3
<1> HIDE DEF H, f, I
<1>6. Cardinality(I) = Cardinality(H)
  BY <1>2, <1>4, <1>5, ImageIs
<1> QED
  BY <1>6 DEF I, H

\* The dimension of the measures, and that of the table at a place.
MeasuresDimension ==
    [name |-> <<"Measures">>, ordinal |-> 1, default |-> <<"Measures">>, visible |-> TRUE]

DimensionAt(T, i) ==
    [name    |-> <<T[i].name>>,
     ordinal |-> i + 1,
     default |-> IF T[i].columns = <<>> THEN <<>>
                 ELSE <<T[i].name, T[i].columns[1].name>>,
     visible |-> ~T[i].hidden]

\* These are the dimensions there are.
LEMMA DimensionsAre ==
    ASSUME NEW T
    PROVE  /\ Dimensions(T) = {MeasuresDimension} \cup {DimensionAt(T, i) : i \in DOMAIN T}
           /\ MeasuresDimension.name = <<"Measures">> /\ MeasuresDimension.ordinal = 1
           /\ MeasuresDimension.default = <<"Measures">> /\ MeasuresDimension.visible
<1>1. Dimensions(T) = {MeasuresDimension} \cup {DimensionAt(T, i) : i \in DOMAIN T}
  BY DEF Dimensions, MeasuresDimension, DimensionAt
<1>2. /\ MeasuresDimension.name = <<"Measures">> /\ MeasuresDimension.ordinal = 1
      /\ MeasuresDimension.default = <<"Measures">> /\ MeasuresDimension.visible
  BY DEF MeasuresDimension
<1> QED
  BY <1>1, <1>2

\* The cells of the row of a table.
LEMMA DimensionAtIs ==
    ASSUME NEW T, NEW i
    PROVE  /\ DimensionAt(T, i).name = <<T[i].name>>
           /\ DimensionAt(T, i).ordinal = i + 1
           /\ DimensionAt(T, i).visible <=> ~T[i].hidden
           /\ T[i].columns = <<>> => DimensionAt(T, i).default = <<>>
           /\ T[i].columns # <<>> =>
                 DimensionAt(T, i).default = <<T[i].name, T[i].columns[1].name>>
<1> DEFINE n == <<T[i].name>>
           o == i + 1
           d == IF T[i].columns = <<>> THEN <<>> ELSE <<T[i].name, T[i].columns[1].name>>
           v == ~T[i].hidden
           row == DimensionAt(T, i)
<1>1. row = [name |-> n, ordinal |-> o, default |-> d, visible |-> v]
  BY DEF DimensionAt
<1>2. /\ T[i].columns = <<>> => d = <<>>
      /\ T[i].columns # <<>> => d = <<T[i].name, T[i].columns[1].name>>
  OBVIOUS
<1> HIDE DEF n, o, d, v, row
<1>3. row.name = n /\ row.ordinal = o /\ row.default = d /\ row.visible = v
  BY <1>1
<1>4. row.visible <=> ~T[i].hidden
  BY <1>3, Zenon DEF v
<1> QED
  BY <1>2, <1>3, <1>4 DEF row, n, o

\* Every hierarchy is of a dimension that is not hidden.
LEMMA HierarchiesHaveDimensions ==
    ASSUME NEW T, NEW names, NEW C, Tidy(T, names, C), NEW h \in Hierarchies(T)
    PROVE  \E d \in Dimensions(T) : d.name = h.dimension /\ d.visible
<1>1. CASE h = MeasuresHierarchy
  <2>1. MeasuresDimension \in Dimensions(T)
    BY DimensionsAre
  <2> QED
    BY <1>1, <2>1, DimensionsAre, HierarchiesAre
<1>2. CASE h # MeasuresHierarchy
  <2>1. PICK p \in ShownPlaces(T) : h = HierarchyAt(T, p)
    BY <1>2, HierarchiesAre
  <2>2. p[1] \in DOMAIN T /\ ~T[p[1]].hidden
    BY PlacesAre DEF ShownPlaces, OpenPlaces
  <2> DEFINE d == DimensionAt(T, p[1])
  <2>3. d \in Dimensions(T)
    BY <2>2, DimensionsAre
  <2>4. d.name = <<T[p[1]].name>> /\ d.visible
    BY <2>2, DimensionAtIs
  <2>5. h.dimension = <<T[p[1]].name>>
    BY <2>1, HierarchiesAre
  <2> HIDE DEF d
  <2> QED
    BY <2>3, <2>4, <2>5
<1> QED
  BY <1>1, <1>2

\* DIMENSION_ORDINAL: 1 for the measures, then the tables.
LEMMA DimensionsNumbered ==
    ASSUME NEW T, NEW names, NEW C, Tidy(T, names, C)
    PROVE  Cardinality({d.ordinal : d \in Dimensions(T)}) = Len(T) + 1
<1> DEFINE n == Len(T) + 1
           O == {d.ordinal : d \in Dimensions(T)}
<1>1. Len(T) \in Nat /\ DOMAIN T = 1..Len(T)
  BY DEF Tidy
<1>2. ASSUME NEW d \in Dimensions(T) PROVE d.ordinal \in 1..n
  <2>1. CASE d = MeasuresDimension
    BY <1>1, <2>1, DimensionsAre
  <2>2. CASE d # MeasuresDimension
    <3>1. PICK i \in DOMAIN T : d = DimensionAt(T, i)
      BY <2>2, DimensionsAre
    <3>2. d.ordinal = i + 1
      BY <3>1, DimensionAtIs
    <3> QED
      BY <1>1, <3>2
  <2> QED
    BY <2>1, <2>2
<1>3. ASSUME NEW o \in 1..n PROVE \E d \in Dimensions(T) : d.ordinal = o
  <2>1. CASE o = 1
    BY <2>1, DimensionsAre
  <2>2. CASE o # 1
    <3>1. o - 1 \in DOMAIN T /\ (o - 1) + 1 = o
      BY <1>1, <2>2
    <3>2. DimensionAt(T, o - 1) \in Dimensions(T)
      BY <3>1, DimensionsAre
    <3>3. DimensionAt(T, o - 1).ordinal = o
      BY <3>1, DimensionAtIs
    <3> QED
      BY <3>2, <3>3
  <2> QED
    BY <2>1, <2>2
<1>4. O = 1..n
  BY <1>2, <1>3
<1>5. n \in Int /\ n >= 1
  BY <1>1
<1> HIDE DEF n, O
<1>6. Cardinality(O) = n
  BY <1>4, <1>5, FS_Interval
<1> QED
  BY <1>6 DEF O, n

\* A visible column of a visible table has a hierarchy.
LEMMA ShownHaveHierarchies ==
    ASSUME NEW T, NEW names, NEW C, NEW hidden, Tidy(T, names, C), Hides(T, hidden),
           NEW k \in C \ hidden, k[1] \in names \ hidden
    PROVE  \E h \in Hierarchies(T) : h.name = k
<1>1. PICK p \in Places(T) : KeyAt(T, p) = k
  BY DEF Tidy
<1>2. p[1] \in DOMAIN T /\ T[p[1]].name = k[1]
  BY <1>1, PlacesAre DEF KeyAt
<1>3. p \in ShownPlaces(T)
  BY <1>1, <1>2 DEF Hides, ShownPlaces, OpenPlaces
<1>4. HierarchyAt(T, p) \in Hierarchies(T) /\ HierarchyAt(T, p).name = KeyAt(T, p)
  BY <1>3, HierarchiesAre
<1> QED
  BY <1>1, <1>4

\* So has the default hierarchy of a visible dimension, unless it is hidden.
LEMMA DefaultsHaveRows ==
    ASSUME NEW T, NEW names, NEW C, NEW hidden, Tidy(T, names, C), Hides(T, hidden), <<>> \notin C,
           NEW d \in Dimensions(T), d.visible, d.default \in C \ hidden
    PROVE  \E h \in Hierarchies(T) : h.name = d.default
<1>1. CASE d = MeasuresDimension
  BY <1>1, DimensionsAre, HierarchiesAre
<1>2. CASE d # MeasuresDimension
  <2>1. PICK i \in DOMAIN T : d = DimensionAt(T, i)
    BY <1>2, DimensionsAre
  <2>2. ~T[i].hidden
    BY <2>1, DimensionAtIs
  <2>3. T[i].columns # <<>>
    <3>1. d.default # <<>>
      OBVIOUS
    <3> QED
      BY <2>1, <3>1, DimensionAtIs
  <2> DEFINE k == d.default
  <2>4. k = <<T[i].name, T[i].columns[1].name>>
    BY <2>1, <2>3, DimensionAtIs
  <2>5. k \in C \ hidden /\ k[1] = T[i].name
    BY <2>4
  <2>6. k[1] \in names \ hidden
    BY <2>2, <2>5 DEF Hides, Tidy
  <2> HIDE DEF k
  <2>7. \E h \in Hierarchies(T) : h.name = k
    BY <2>5, <2>6, ShownHaveHierarchies
  <2> QED
    BY <2>7 DEF k
<1> QED
  BY <1>1, <1>2

\* The two levels of a hierarchy, and the names of both.
AllLevel(key) == key \o <<"(All)">>
OwnLevel(key) == key \o <<key[2]>>

LevelsOf(key) ==
    {[hierarchy |-> key, name |-> AllLevel(key), number |-> 0],
     [hierarchy |-> key, name |-> OwnLevel(key), number |-> 1]}

MeasuresLevel ==
    [hierarchy |-> <<"Measures">>, name |-> <<"Measures", "MeasuresLevel">>, number |-> 0]

LevelNames(T) ==
    {<<"Measures", "MeasuresLevel">>}
    \cup UNION {{AllLevel(key), OwnLevel(key)} : key \in ShownColumns(T)}

\* Every level is one of the measures or of a visible column, and each has its.
LEMMA LevelsAre ==
    ASSUME NEW T
    PROVE  /\ Levels(T) = {MeasuresLevel} \cup UNION {LevelsOf(key) : key \in ShownColumns(T)}
           /\ MeasuresLevel.hierarchy = <<"Measures">>
           /\ MeasuresLevel.name = <<"Measures", "MeasuresLevel">>
<1>1. Levels(T) = {MeasuresLevel} \cup UNION {LevelsOf(key) : key \in ShownColumns(T)}
  BY DEF Levels, MeasuresLevel, LevelsOf, AllLevel, OwnLevel
<1>2. /\ MeasuresLevel.hierarchy = <<"Measures">>
      /\ MeasuresLevel.name = <<"Measures", "MeasuresLevel">>
  BY DEF MeasuresLevel
<1> QED
  BY <1>1, <1>2

\* The cells of the levels of a column.
LEMMA LevelsOfAre ==
    ASSUME NEW key
    PROVE  /\ \A l \in LevelsOf(key) : /\ l.hierarchy = key
                                      /\ l.name \in {AllLevel(key), OwnLevel(key)}
           /\ \E l \in LevelsOf(key) : l.name = AllLevel(key) /\ l.number = 0
           /\ \E l \in LevelsOf(key) : l.name = OwnLevel(key)
<1> DEFINE x == AllLevel(key)
           y == OwnLevel(key)
           l == [hierarchy |-> key, name |-> x, number |-> 0]
           m == [hierarchy |-> key, name |-> y, number |-> 1]
<1>1. LevelsOf(key) = {l, m}
  BY DEF LevelsOf
<1> HIDE DEF x, y
<1>2. /\ l.hierarchy = key /\ l.name = x /\ l.number = 0
      /\ m.hierarchy = key /\ m.name = y
  OBVIOUS
<1> HIDE DEF l, m
<1> QED
  BY <1>1, <1>2 DEF x, y

\* MDSCHEMA_LEVELS has levels of the hierarchies in MDSCHEMA_HIERARCHIES.
LEMMA LevelsOfHierarchies ==
    ASSUME NEW T
    PROVE  {l.hierarchy : l \in Levels(T)} = {h.name : h \in Hierarchies(T)}
<1>1. ASSUME NEW l \in Levels(T) PROVE \E h \in Hierarchies(T) : h.name = l.hierarchy
  <2>1. CASE l = MeasuresLevel
    BY <2>1, LevelsAre, HierarchiesAre
  <2>2. CASE l # MeasuresLevel
    <3>1. PICK key \in ShownColumns(T) : l \in LevelsOf(key)
      BY <2>2, LevelsAre
    <3>2. PICK p \in ShownPlaces(T) : key = KeyAt(T, p)
      BY DEF ShownColumns
    <3>3. l.hierarchy = KeyAt(T, p)
      BY <3>1, <3>2, LevelsOfAre
    <3> QED
      BY <3>3, HierarchiesAre
  <2> QED
    BY <2>1, <2>2
<1>2. ASSUME NEW h \in Hierarchies(T) PROVE \E l \in Levels(T) : l.hierarchy = h.name
  <2>1. CASE h = MeasuresHierarchy
    <3>1. MeasuresLevel \in Levels(T)
      BY LevelsAre
    <3> QED
      BY <2>1, <3>1, LevelsAre, HierarchiesAre
  <2>2. CASE h # MeasuresHierarchy
    <3>1. PICK p \in ShownPlaces(T) : h = HierarchyAt(T, p)
      BY <2>2, HierarchiesAre
    <3> DEFINE key == KeyAt(T, p)
    <3>2. key \in ShownColumns(T) /\ h.name = key
      BY <3>1, HierarchiesAre DEF ShownColumns
    <3> HIDE DEF key
    <3>3. PICK l \in LevelsOf(key) : l.name = AllLevel(key) /\ l.number = 0
      BY LevelsOfAre
    <3>4. l \in Levels(T)
      BY <3>2, LevelsAre
    <3>5. l.hierarchy = key
      BY LevelsOfAre
    <3> QED
      BY <3>2, <3>4, <3>5
  <2> QED
    BY <2>1, <2>2
<1> QED
  BY <1>1, <1>2

\* The names of the levels.
LEMMA LevelNamesAre ==
    ASSUME NEW T
    PROVE  {l.name : l \in Levels(T)} = LevelNames(T)
<1>1. ASSUME NEW l \in Levels(T) PROVE l.name \in LevelNames(T)
  <2>1. CASE l = MeasuresLevel
    BY <2>1, LevelsAre DEF LevelNames
  <2>2. CASE l # MeasuresLevel
    <3>1. PICK key \in ShownColumns(T) : l \in LevelsOf(key)
      BY <2>2, LevelsAre
    <3>2. l.name \in {AllLevel(key), OwnLevel(key)}
      BY <3>1, LevelsOfAre
    <3> QED
      BY <3>2 DEF LevelNames
  <2> QED
    BY <2>1, <2>2
<1>2. ASSUME NEW n \in LevelNames(T) PROVE \E l \in Levels(T) : l.name = n
  <2>1. CASE n = <<"Measures", "MeasuresLevel">>
    <3>1. MeasuresLevel \in Levels(T)
      BY LevelsAre
    <3> QED
      BY <2>1, <3>1, LevelsAre
  <2>2. CASE n # <<"Measures", "MeasuresLevel">>
    <3>1. PICK key \in ShownColumns(T) : n \in {AllLevel(key), OwnLevel(key)}
      BY <2>2 DEF LevelNames
    <3>4. CASE n = AllLevel(key)
      BY <3>1, <3>4, LevelsOfAre, LevelsAre
    <3>5. CASE n = OwnLevel(key)
      BY <3>1, <3>5, LevelsOfAre, LevelsAre
    <3> QED
      BY <3>1, <3>4, <3>5
  <2> QED
    BY <2>1, <2>2
<1> QED
  BY <1>1, <1>2

\* The member properties are those of the levels.
LEMMA PropertiesOfLevels ==
    ASSUME NEW T
    PROVE  {r.level : r \in MemberProperties(T)} = {l.name : l \in Levels(T)}
<1> DEFINE first == [dimension |-> <<"Measures">>, hierarchy |-> <<"Measures">>,
                     level |-> <<"Measures", "MeasuresLevel">>]
           lower(key) == [dimension |-> <<key[1]>>, hierarchy |-> key, level |-> AllLevel(key)]
           upper(key) == [dimension |-> <<key[1]>>, hierarchy |-> key, level |-> OwnLevel(key)]
<1>1. MemberProperties(T) =
         {first} \cup UNION {{lower(key), upper(key)} : key \in ShownColumns(T)}
  BY DEF MemberProperties, AllLevel, OwnLevel
<1>2. first.level = <<"Measures", "MeasuresLevel">>
  OBVIOUS
<1>3. ASSUME NEW key
      PROVE  lower(key).level = AllLevel(key) /\ upper(key).level = OwnLevel(key)
  <2> DEFINE x == AllLevel(key)
             y == OwnLevel(key)
             d == <<key[1]>>
  <2> HIDE DEF x, y, d
  <2>1. /\ [dimension |-> d, hierarchy |-> key, level |-> x].level = x
        /\ [dimension |-> d, hierarchy |-> key, level |-> y].level = y
    OBVIOUS
  <2> QED
    BY <2>1 DEF x, y, d
<1> HIDE DEF first, lower, upper
<1>4. ASSUME NEW r \in MemberProperties(T) PROVE r.level \in LevelNames(T)
  <2>1. CASE r = first
    BY <1>2, <2>1 DEF LevelNames
  <2>2. CASE r # first
    <3>1. PICK key \in ShownColumns(T) : r \in {lower(key), upper(key)}
      BY <1>1, <2>2
    <3>2. r.level \in {AllLevel(key), OwnLevel(key)}
      BY <1>3, <3>1
    <3> QED
      BY <3>2 DEF LevelNames
  <2> QED
    BY <2>1, <2>2
<1>5. ASSUME NEW n \in LevelNames(T) PROVE \E r \in MemberProperties(T) : r.level = n
  <2>1. CASE n = <<"Measures", "MeasuresLevel">>
    BY <1>1, <1>2, <2>1
  <2>2. CASE n # <<"Measures", "MeasuresLevel">>
    <3>1. PICK key \in ShownColumns(T) : n \in {AllLevel(key), OwnLevel(key)}
      BY <2>2 DEF LevelNames
    <3>2. lower(key) \in MemberProperties(T) /\ upper(key) \in MemberProperties(T)
      BY <1>1
    <3> QED
      BY <1>3, <3>1, <3>2
  <2> QED
    BY <2>1, <2>2
<1> QED
  BY <1>4, <1>5, LevelNamesAre

\* The All member of a hierarchy is found, and is of its first level.
LEMMA AllMembersFound ==
    ASSUME NEW T, NEW h \in Hierarchies(T), h.all # <<>>
    PROVE  /\ Members(T, h.all) # {}
           /\ \A m \in Members(T, h.all) : \E l \in Levels(T) : l.name = m.level /\ l.number = 0
<1>1. PICK p \in ShownPlaces(T) : h = HierarchyAt(T, p)
  BY HierarchiesAre
<1> DEFINE a == KeyAt(T, p)[1]
           b == KeyAt(T, p)[2]
           name == h.all
           level == <<a, b, "(All)">>
           row == [hierarchy |-> <<a, b>>, level |-> level, name |-> <<a, b, "All">>]
<1>2. KeyAt(T, p) = <<a, b>>
  BY DEF KeyAt
<1>3. name = <<a, b, "All">>
  BY <1>1, HierarchiesAre
<1>4. p \in Places(T) /\ <<a, b>> \in ShownColumns(T)
  BY <1>2 DEF ShownColumns, ShownPlaces, OpenPlaces
<1> HIDE DEF a, b, name
<1>5. Len(name) >= 3 /\ name[1] = a /\ name[2] = b /\ name[3] = "All"
  BY <1>3
<1>6. Members(T, name) = {row}
  BY <1>2, <1>4, <1>5 DEF Members
<1>7. row.level = level
  OBVIOUS
<1>8. \E l \in Levels(T) : l.name = level /\ l.number = 0
  <2> DEFINE key == <<a, b>>
  <2>1. PICK l \in LevelsOf(key) : l.name = AllLevel(key) /\ l.number = 0
    BY LevelsOfAre
  <2>2. AllLevel(key) = level
    BY ThirdPart DEF AllLevel
  <2>3. key \in ShownColumns(T)
    BY <1>4
  <2> HIDE DEF key
  <2>4. l \in Levels(T)
    BY <2>3, LevelsAre
  <2> QED
    BY <2>1, <2>2, <2>4
<1> HIDE DEF row, level
<1> QED
  BY <1>6, <1>7, <1>8 DEF name

\* The measure groups are the visible tables.
LEMMA MeasureGroupsAre ==
    ASSUME NEW T, NEW names, NEW C, NEW hidden, Tidy(T, names, C), Hides(T, hidden)
    PROVE  MeasureGroups(T) = names \ hidden
BY DEF MeasureGroups, ShownTables, Tidy, Hides

\* DBSCHEMA_TABLES has a row of each as a measure group.
LEMMA DbschemaGroups ==
    ASSUME NEW T
    PROVE  {r.name[1] : r \in {q \in DbschemaTables(T) : q.type = "MEASURE_GROUP"}} = MeasureGroups(T)
<1> DEFINE group(i) == [name |-> <<T[i].name>>, type |-> "MEASURE_GROUP"]
           dim(i)   == [name |-> <<"$", T[i].name>>, type |-> "CUBE_DIMENSION"]
<1>1. DbschemaTables(T) = UNION {{group(i), dim(i)} : i \in ShownTables(T)}
  BY DEF DbschemaTables
<1>2. ASSUME NEW i
      PROVE  /\ group(i).type = "MEASURE_GROUP" /\ group(i).name[1] = T[i].name
             /\ dim(i).type # "MEASURE_GROUP"
  OBVIOUS
<1> HIDE DEF group, dim
<1>3. ASSUME NEW r \in DbschemaTables(T), r.type = "MEASURE_GROUP"
      PROVE  \E i \in ShownTables(T) : r.name[1] = T[i].name
  <2>1. PICK i \in ShownTables(T) : r \in {group(i), dim(i)}
    BY <1>1
  <2>2. r = group(i)
    BY <1>2, <1>3, <2>1
  <2> QED
    BY <1>2, <2>2
<1>4. ASSUME NEW i \in ShownTables(T)
      PROVE  group(i) \in {q \in DbschemaTables(T) : q.type = "MEASURE_GROUP"}
  BY <1>1, <1>2
<1> QED
  BY <1>2, <1>3, <1>4 DEF MeasureGroups

\* What list_measures returns: every measure with its table.
LEMMA ListMeasuresIs ==
    ASSUME NEW c, IsCatalog(c), NEW hidden
    PROVE  LET M == ListMeasures(c, hidden) IN
           /\ DOMAIN M = DOMAIN c.measureOrder
           /\ \A i \in DOMAIN M : /\ M[i].name = c.measureOrder[i]
                                  /\ M[i].name \in DOMAIN c.measures
                                  /\ M[i].table = c.measureTables[M[i].name]
                                  /\ M[i].table \in c.tables
<1> DEFINE order == c.measureOrder
           M == ListMeasures(c, hidden)
<1>1. /\ order \in Seq(Measures) /\ ToSet(order) = DOMAIN c.measures
      /\ c.measureTables \in [DOMAIN c.measures -> c.tables]
  BY DEF IsCatalog, MeasuresOK, Lists
<1>2. Only(order, DOMAIN c.measures) = order
  BY <1>1, OnlyAll
<1>3. M = [i \in DOMAIN order |-> [name |-> order[i], table |-> c.measureTables[order[i]],
                                  hidden |-> order[i] \in hidden]]
  BY <1>2 DEF ListMeasures
<1> HIDE DEF order, M
<1>4. ASSUME NEW i \in DOMAIN order
      PROVE  /\ M[i].name = order[i] /\ order[i] \in DOMAIN c.measures
             /\ M[i].table = c.measureTables[order[i]]
             /\ c.measureTables[order[i]] \in c.tables
  <2> DEFINE n == order[i]
             t == c.measureTables[n]
             h == n \in hidden
  <2>1. n \in DOMAIN c.measures /\ t \in c.tables
    BY <1>1 DEF ToSet
  <2>2. M[i] = [name |-> n, table |-> t, hidden |-> h]
    BY <1>3
  <2> HIDE DEF n, t, h
  <2>3. M[i].name = n /\ M[i].table = t
    BY <2>2
  <2> QED
    BY <2>1, <2>3 DEF n, t
<1>5. DOMAIN M = DOMAIN order
  BY <1>3
<1> QED
  BY <1>4, <1>5 DEF M, order

\* The measure group of a measure is its table.
LEMMA GroupsOfMeasures ==
    ASSUME NEW M, NEW r \in DmvMeasureRows(M)
    PROVE  \E i \in DOMAIN M : r.groups = {M[i].table}
<1> DEFINE row(i) == [name |-> <<"Measures", M[i].name>>, groups |-> {M[i].table},
                      visible |-> ~M[i].hidden]
           first == [name |-> <<"Measures", "__Default measure">>, groups |-> {}, visible |-> FALSE]
<1>1. r \in {first} \cup {row(i) : i \in DOMAIN M} /\ r.groups # {}
  BY DEF DmvMeasureRows, MeasureRows
<1>2. first.groups = {}
  OBVIOUS
<1> HIDE DEF first
<1>3. PICK i \in DOMAIN M : r = row(i)
  BY <1>1, <1>2
<1>4. row(i).groups = {M[i].table}
  OBVIOUS
<1> QED
  BY <1>3, <1>4

\* The rows of MDSCHEMA_MEASUREGROUP_DIMENSIONS join visible tables; what a row
\* matches is in the table it names.
LEMMA GroupDimensionsAre ==
    ASSUME NEW T, NEW R, NEW r \in MeasureGroupDimensions(T, R)
    PROVE  /\ r.group \in MeasureGroups(T) /\ r.dimension[1] \in MeasureGroups(T)
           /\ r.granularity[1] = r.dimension[1]
<1> DEFINE row(i) == [group |-> R[i].from[1], dimension |-> <<R[i].to[1]>>, fact |-> FALSE,
                      path |-> <<R[i].to[1], R[i].from[1]>>, granularity |-> R[i].to]
           joins == {j \in DOMAIN R :
                       R[j].active /\ {R[j].from[1], R[j].to[1]} \subseteq MeasureGroups(T)}
<1>1. MeasureGroupDimensions(T, R)
        = {FactDimension(T[i]) : i \in ShownTables(T)} \cup {row(i) : i \in joins}
  BY DEF MeasureGroupDimensions
<1>2. CASE \E i \in ShownTables(T) : r = FactDimension(T[i])
  <2>1. PICK i \in ShownTables(T) : r = FactDimension(T[i])
    BY <1>2
  <2> DEFINE t    == T[i]
             n    == t.name
             keys == {j \in DOMAIN t.columns : t.columns[j].key}
             col  == CASE keys # {} -> t.columns[Min(keys)].name
                       [] keys = {} /\ t.columns # <<>> -> t.columns[1].name
                       [] OTHER -> t.name
  <2>2. r = [group |-> n, dimension |-> <<n>>, fact |-> TRUE, path |-> <<>>,
             granularity |-> <<n, col>>]
    BY <2>1 DEF FactDimension
  <2>3. n \in MeasureGroups(T)
    BY DEF MeasureGroups
  <2> HIDE DEF t, n, keys, col
  <2>4. r.group = n /\ r.dimension = <<n>> /\ r.granularity = <<n, col>>
    BY <2>2
  <2> QED
    BY <2>3, <2>4
<1>3. CASE \E i \in joins : r = row(i)
  <2>1. PICK i \in joins : r = row(i)
    BY <1>3
  <2> DEFINE from == R[i].from[1]
             end == R[i].to
  <2>2. from \in MeasureGroups(T) /\ end[1] \in MeasureGroups(T)
    OBVIOUS
  <2>3. r = [group |-> from, dimension |-> <<end[1]>>, fact |-> FALSE,
             path |-> <<end[1], from>>, granularity |-> end]
    BY <2>1
  <2> HIDE DEF from, end, joins
  <2>4. r.group = from /\ r.dimension = <<end[1]>> /\ r.granularity = end
    BY <2>3
  <2> QED
    BY <2>2, <2>4
<1> HIDE DEF joins, row
<1> QED
  BY <1>1, <1>2, <1>3

\* All rowsets of one catalog, whatever is hidden.
LEMMA RowsetsOfCatalog ==
    ASSUME CatalogInv
    PROVE  RowsetsAgree
<1> DEFINE c == Current
           C == DOMAIN columns
<1>1. /\ IsCatalog(c) /\ c.tables = tables /\ c.columns = columns
      /\ c.relationships = relationships
  BY DEF CatalogInv, IsCatalog, Current
<1>2. <<>> \notin C
  <2>1. <<>> \notin tables \X Columns
    OBVIOUS
  <2> QED
    BY <2>1 DEF CatalogInv, ColumnsOK
<1>3. ListRelationships(c) = relationships
  BY <1>1 DEF ListRelationships
<1> HIDE DEF c
<1>4. ASSUME NEW hidden, NEW keys
      PROVE  LET T == ListTables(c, hidden, keys)
             IN  Tidy(T, tables, C) /\ Hides(T, hidden) /\ MeasureGroups(T) = tables \ hidden
  <2> DEFINE T == ListTables(c, hidden, keys)
  <2>1. IsListing(c, hidden, keys, T)
    BY <1>1, ListTablesIs
  <2> HIDE DEF T
  <2>2. Tidy(T, tables, C) /\ Hides(T, hidden)
    BY <1>1, <2>1, ListingIsTidy, ListingHides
  <2>3. MeasureGroups(T) = tables \ hidden
    BY <2>2, MeasureGroupsAre
  <2> QED
    BY <2>2, <2>3 DEF T
<1>5. ASSUME NEW hidden \in AtMostOneHidden
      PROVE  LET T      == ListTables(c, hidden, {})
                 hiers  == Hierarchies(T)
                 named  == {h.name : h \in hiers}
                 levels == Levels(T)
                 shown(names) == {x \in names : x \in DOMAIN columns \ hidden}
             IN
             /\ \A h \in hiers : \E d \in Dimensions(T) : d.name = h.dimension /\ d.visible
             /\ Cardinality({h.ordinal : h \in hiers}) = Cardinality(hiers)
             /\ Cardinality({d.ordinal : d \in Dimensions(T)}) = Len(T) + 1
             /\ {l.hierarchy : l \in levels} = named
             /\ {p.level : p \in MemberProperties(T)} = {l.name : l \in levels}
             /\ \A h \in hiers : h.all # <<>> =>
                   /\ Members(T, h.all) # {}
                   /\ \A m \in Members(T, h.all) : \E l \in levels : l.name = m.level /\ l.number = 0
             /\ shown({d.default : d \in {e \in Dimensions(T) : e.visible}}) \subseteq named
             /\ {r.name[1] : r \in {q \in DbschemaTables(T) : q.type = "MEASURE_GROUP"}} = MeasureGroups(T)
             /\ \A r \in DmvMeasureRows(ListMeasures(c, hidden)) :
                   r.groups \subseteq MeasureGroups(T) \cup hidden
             /\ \A keys \in AtMostOneKey :
                   LET rows == MeasureGroupDimensions(ListTables(c, hidden, keys),
                                                      ListRelationships(c)) IN
                   /\ \A r \in rows : /\ r.group \in MeasureGroups(T)
                                      /\ r.dimension[1] \in MeasureGroups(T)
                   /\ shown({r.granularity : r \in rows}) \subseteq named
  <2> DEFINE T      == ListTables(c, hidden, {})
             hiers  == Hierarchies(T)
             named  == {h.name : h \in hiers}
             levels == Levels(T)
             shown(names) == {x \in names : x \in DOMAIN columns \ hidden}
  <2>0. Tidy(T, tables, C) /\ Hides(T, hidden) /\ MeasureGroups(T) = tables \ hidden
    BY <1>4
  <2> HIDE DEF T
  <2>1. \A h \in hiers : \E d \in Dimensions(T) : d.name = h.dimension /\ d.visible
    BY <2>0, HierarchiesHaveDimensions
  <2>2. Cardinality({h.ordinal : h \in hiers}) = Cardinality(hiers)
    BY <2>0, HierarchiesNumbered
  <2>3. Cardinality({d.ordinal : d \in Dimensions(T)}) = Len(T) + 1
    BY <2>0, DimensionsNumbered
  <2>4. {l.hierarchy : l \in levels} = named
    BY LevelsOfHierarchies
  <2>5. {p.level : p \in MemberProperties(T)} = {l.name : l \in levels}
    BY PropertiesOfLevels
  <2>6. \A h \in hiers : h.all # <<>> =>
           /\ Members(T, h.all) # {}
           /\ \A m \in Members(T, h.all) : \E l \in levels : l.name = m.level /\ l.number = 0
    BY AllMembersFound
  <2>7. shown({d.default : d \in {e \in Dimensions(T) : e.visible}}) \subseteq named
    <3>1. ASSUME NEW d \in Dimensions(T), d.visible, d.default \in C \ hidden
          PROVE  d.default \in named
      <4> HIDE DEF C
      <4>1. \E h \in Hierarchies(T) : h.name = d.default
        BY <1>2, <2>0, <3>1, DefaultsHaveRows
      <4> QED
        BY <4>1
    <3> QED
      BY <3>1
  <2>8. {r.name[1] : r \in {q \in DbschemaTables(T) : q.type = "MEASURE_GROUP"}} = MeasureGroups(T)
    BY DbschemaGroups
  <2>9. ASSUME NEW r \in DmvMeasureRows(ListMeasures(c, hidden))
        PROVE  r.groups \subseteq MeasureGroups(T) \cup hidden
    <3> DEFINE M == ListMeasures(c, hidden)
    <3>1. \A i \in DOMAIN M : M[i].table \in tables
      BY <1>1, ListMeasuresIs
    <3> HIDE DEF M
    <3>2. PICK i \in DOMAIN M : r.groups = {M[i].table}
      BY GroupsOfMeasures DEF M
    <3> QED
      BY <2>0, <3>1, <3>2
  <2>10. ASSUME NEW keys \in AtMostOneKey
         PROVE  LET rows == MeasureGroupDimensions(ListTables(c, hidden, keys),
                                                   ListRelationships(c)) IN
                /\ \A r \in rows : /\ r.group \in MeasureGroups(T)
                                   /\ r.dimension[1] \in MeasureGroups(T)
                /\ shown({r.granularity : r \in rows}) \subseteq named
    <3> DEFINE U == ListTables(c, hidden, keys)
               R == ListRelationships(c)
               rows == MeasureGroupDimensions(U, R)
    <3>1. MeasureGroups(U) = MeasureGroups(T)
      BY <1>4, <2>0
    <3> HIDE DEF U, R
    <3>2. \A r \in rows : /\ r.group \in MeasureGroups(T) /\ r.dimension[1] \in MeasureGroups(T)
                         /\ r.granularity[1] = r.dimension[1]
      BY <3>1, GroupDimensionsAre
    <3> HIDE DEF rows
    <3>3. ASSUME NEW r \in rows, r.granularity \in C \ hidden
          PROVE  r.granularity \in named
      <4>1. r.granularity[1] \in tables \ hidden
        BY <2>0, <3>2
      <4> DEFINE k == r.granularity
      <4>2. k \in C \ hidden /\ k[1] \in tables \ hidden
        BY <3>3, <4>1
      <4> HIDE DEF k
      <4>3. \E h \in Hierarchies(T) : h.name = k
        BY <2>0, <4>2, ShownHaveHierarchies
      <4> QED
        BY <4>3 DEF k
    <3> QED
      BY <3>2, <3>3 DEF rows, U, R
  <2> QED
    BY <2>1, <2>2, <2>3, <2>4, <2>5, <2>6, <2>7, <2>8, <2>9, <2>10 DEF T
<1> QED
  BY <1>5 DEF RowsetsAgree, c

\* RowsetsAgree (mdschema_hierarchies, mdschema_levels, mdschema_members and
\* the other rowsets of handlers.rs): after any commands and with anything
\* hidden, what a row of one rowset refers to is a row of the other.
THEOREM RowsetsAgreeAlways == Spec => []RowsetsAgree
<1>1. CatalogInv => RowsetsAgree
  BY RowsetsOfCatalog
<1> QED
  BY <1>1, CatalogInvAlways, PTL

------------------------------------------------------------------------------
(* Names of relationships.  create_relationship refuses a name there is, but  *)
(* from_model takes a file as it is: that they differ is inductive, and has   *)
(* to be true of the files the server may start from.                         *)

NamesDiffer(rs) == \A i, j \in DOMAIN rs : rs[i].name = rs[j].name => i = j

DistinctRelationships == \A m \in InitialModels : NamesDiffer(m.relationships)

\* Names differ if no relationship comes twice and none shares its name.
LEMMA NamesDifferMeans ==
    ASSUME NEW X, NEW rs \in Seq(X)
    PROVE  NamesDiffer(rs) <=> /\ IsInjective(rs)
                               /\ \A q, r \in ToSet(rs) : q.name = r.name => q = r
BY DEF NamesDiffer, IsInjective, ToSet

\* Without one element nothing comes twice that did not before.
LEMMA RemoveAtInjective ==
    ASSUME NEW X, NEW s \in Seq(X), NEW k \in 1..Len(s), IsInjective(s)
    PROVE  IsInjective(RemoveAt(s, k))
<1> DEFINE a == SubSeq(s, 1, k - 1)
           b == SubSeq(s, k + 1, Len(s))
<1>1. Len(s) \in Nat /\ DOMAIN s = 1..Len(s) /\ k \in Nat
  OBVIOUS
<1>2. /\ a \in Seq(X) /\ Len(a) = k - 1 /\ DOMAIN a = 1..(k - 1)
      /\ \A i \in 1..(k - 1) : a[i] = s[i]
  BY <1>1, SubSeqProperties
<1>3. /\ b \in Seq(X) /\ Len(b) = Len(s) - k /\ DOMAIN b = 1..(Len(s) - k)
      /\ \A i \in 1..(Len(s) - k) : b[i] = s[k + i]
  <2> DEFINE m == k + 1
             n == Len(s)
  <2>1. m \in Int /\ n \in Int /\ \A i \in m..n : s[i] \in X
    BY <1>1
  <2>2. m = k + 1 /\ b = SubSeq(s, m, n) /\ n = Len(s)
    OBVIOUS
  <2>0. /\ SubSeq(s, m, n) \in Seq(X) /\ Len(SubSeq(s, m, n)) = IF m <= n THEN n - m + 1 ELSE 0
        /\ \A i \in 1..(n - m + 1) : SubSeq(s, m, n)[i] = s[m + i - 1]
    <3> HIDE DEF m, n
    <3> QED
      BY <2>1, SubSeqProperties
  <2> HIDE DEF m, n, b
  <2>3. /\ b \in Seq(X) /\ Len(b) = IF m <= n THEN n - m + 1 ELSE 0
        /\ \A i \in 1..(n - m + 1) : b[i] = s[m + i - 1]
    BY <2>0, <2>2
  <2>4. Len(b) = n - k /\ n - m + 1 = n - k
    <3>1. n \in Nat /\ k \in Nat /\ k <= n
      BY <1>1, <2>2
    <3>2. n - m + 1 = n - k /\ (m <= n <=> k # n)
      BY ONLY <2>2, <3>1
    <3> QED
      BY ONLY <2>3, <3>1, <3>2
  <2>5. DOMAIN b = 1..(n - k)
    BY <2>3, <2>4
  <2>6. ASSUME NEW i \in 1..(n - k) PROVE b[i] = s[k + i]
    <3>1. m + i - 1 = k + i
      BY <1>1, <2>2
    <3> QED
      BY <2>3, <2>4, <3>1
  <2> QED
    BY <2>2, <2>3, <2>4, <2>5, <2>6
<1> HIDE DEF a, b
<1>4. IsInjective(a) /\ IsInjective(b) /\ ToSet(a) \cap ToSet(b) = {}
  <2>1. \A i, j \in 1..Len(s) : s[i] = s[j] => i = j
    BY <1>1 DEF IsInjective
  <2>2. \A i \in 1..(k - 1) : i \in 1..Len(s) /\ i < k
    BY <1>1
  <2>3. \A i \in 1..(Len(s) - k) : k + i \in 1..Len(s) /\ k + i > k /\ i \in Nat
    BY <1>1
  <2>4. IsInjective(a)
    BY <1>2, <2>1, <2>2 DEF IsInjective
  <2>5. IsInjective(b)
    <3>1. ASSUME NEW i \in DOMAIN b, NEW j \in DOMAIN b, b[i] = b[j] PROVE i = j
      <4>1. k + i = k + j
        BY <1>3, <2>1, <2>3, <3>1
      <4>2. i \in Nat /\ j \in Nat
        BY <1>3, <2>3
      <4> QED
        BY <1>1, <4>1, <4>2
    <3> QED
      BY <3>1 DEF IsInjective
  <2>6. ASSUME NEW i \in DOMAIN a, NEW j \in DOMAIN b PROVE a[i] # b[j]
    <3>1. a[i] = s[i] /\ b[j] = s[k + j] /\ i \in 1..Len(s) /\ k + j \in 1..Len(s)
      BY <1>2, <1>3, <2>2, <2>3
    <3>2. i # k + j
      BY <1>2, <1>3, <1>1, <2>2, <2>3
    <3> QED
      BY <2>1, <3>1, <3>2
  <2> QED
    BY <2>4, <2>5, <2>6 DEF ToSet
<1>5. IsInjective(a \o b)
  BY <1>2, <1>3, <1>4, ConcatIs
<1> QED
  BY <1>5 DEF RemoveAt, a, b

\* Nor without the first of a name.
LEMMA RemoveNamedInjective ==
    ASSUME NEW X, NEW s \in Seq(X), NEW name, IsInjective(s)
    PROVE  IsInjective(RemoveNamed(s, name))
<1> DEFINE k == Position(s, name)
<1>1. CASE \E i \in 1..Len(s) : s[i].name = name
  <2>1. RemoveNamed(s, name) = RemoveAt(s, k)
    BY <1>1 DEF RemoveNamed, RemoveFirstMatch, Position
  <2>2. k \in 1..Len(s)
    <3>1. k \in 0..Len(s) /\ ((\E i \in 1..Len(s) : s[i].name = name) => k # 0)
      BY PositionIs
    <3> HIDE DEF k
    <3> QED
      BY <1>1, <3>1
  <2> HIDE DEF k
  <2>3. IsInjective(RemoveAt(s, k))
    BY <2>2, RemoveAtInjective
  <2> QED
    BY <2>1, <2>3
<1>2. CASE ~\E i \in 1..Len(s) : s[i].name = name
  <2>1. RemoveNamed(s, name) = s
    BY <1>2 DEF RemoveNamed, RemoveFirstMatch
  <2> QED
    BY <2>1
<1> QED
  BY <1>1, <1>2

\* Fewer relationships have different names if more have.
LEMMA FewerNamesDiffer ==
    ASSUME NEW X, NEW rs \in Seq(X), NEW qs \in Seq(X), NamesDiffer(rs),
           IsInjective(rs) => IsInjective(qs), ToSet(qs) \subseteq ToSet(rs)
    PROVE  NamesDiffer(qs)
BY NamesDifferMeans

\* Every command keeps names different.
LEMMA NamesDifferStep ==
    ASSUME CatalogInv, [Next]_vars, NamesDiffer(relationships)
    PROVE  NamesDiffer(relationships')
<1> DEFINE rs == relationships
<1>0. rs \in Seq(Relations)
  BY DEF CatalogInv, RelationsOK
<1>1. ASSUME NEW t \in Tables, DeleteTable(t) PROVE NamesDiffer(relationships')
  <2> DEFINE gone == {r \in ToSet(rs) : Touches(r, t)}
  <2>1. rs' = Without(rs, gone)
    BY <1>1 DEF DeleteTable
  <2> DEFINE qs == Without(rs, gone)
  <2>2. qs \in Seq(Relations) /\ ToSet(qs) \subseteq ToSet(rs) /\ (IsInjective(rs) => IsInjective(qs))
    BY <1>0, OnlyIs DEF Without
  <2> HIDE DEF qs
  <2>3. NamesDiffer(qs)
    BY <1>0, <2>2, FewerNamesDiffer
  <2> QED
    BY <2>1, <2>3 DEF qs
<1>2. ASSUME NEW t \in Tables, NEW u \in Tables, RenameTable(t, u) PROVE NamesDiffer(relationships')
  <2> DEFINE key(k) == IF k[1] = t THEN <<u, k[2]>> ELSE k
             moved(r) == [r EXCEPT !.from = key(@), !.to = key(@)]
  <2>1. rs' = [i \in DOMAIN rs |-> moved(rs[i])]
    BY <1>2 DEF RenameTable
  <2>2. ASSUME NEW i \in DOMAIN rs PROVE moved(rs[i]).name = rs[i].name
    <3> DEFINE r == rs[i]
               a == key(r.from)
               b == key(r.to)
    <3>1. r \in Relations
      BY <1>0
    <3>2. moved(r) = [r EXCEPT !.from = a, !.to = b]
      OBVIOUS
    <3> HIDE DEF r, a, b, moved
    <3>3. [r EXCEPT !.from = a, !.to = b].name = r.name
      BY <3>1 DEF Relations
    <3> QED
      BY <3>2, <3>3 DEF r
  <2> HIDE DEF moved
  <2> QED
    BY <2>1, <2>2 DEF NamesDiffer
<1>3. ASSUME NEW r \in Relations, CreateRelationship(r) PROVE NamesDiffer(relationships')
  <2> DEFINE qs == Append(rs, r)
  <2>1. rs' = qs /\ \A i \in DOMAIN rs : rs[i].name # r.name
    BY <1>3 DEF CreateRelationship
  <2>2. /\ DOMAIN qs = 1..(Len(rs) + 1) /\ DOMAIN rs = 1..Len(rs) /\ Len(rs) \in Nat
        /\ (\A i \in 1..Len(rs) : qs[i] = rs[i]) /\ qs[Len(rs) + 1] = r
    BY <1>0
  <2> HIDE DEF qs
  <2>3. ASSUME NEW i \in DOMAIN qs, NEW j \in DOMAIN qs, qs[i].name = qs[j].name PROVE i = j
    <3>1. CASE i \in 1..Len(rs) /\ j \in 1..Len(rs)
      BY <2>2, <2>3, <3>1 DEF NamesDiffer
    <3>2. CASE ~(i \in 1..Len(rs) /\ j \in 1..Len(rs))
      BY <2>1, <2>2, <2>3, <3>2
    <3> QED
      BY <3>1, <3>2
  <2> QED
    BY <2>1, <2>3 DEF NamesDiffer
<1>4. ASSUME NEW name, DeleteRelationship(name) PROVE NamesDiffer(relationships')
  <2> DEFINE qs == RemoveNamed(rs, name)
  <2>1. rs' = qs
    BY <1>4 DEF DeleteRelationship, RemoveNamed
  <2>2. qs \in Seq(Relations) /\ ToSet(qs) \subseteq ToSet(rs) /\ (IsInjective(rs) => IsInjective(qs))
    BY <1>0, RemoveNamedIs, RemoveNamedInjective
  <2> HIDE DEF qs
  <2>3. NamesDiffer(qs)
    BY <1>0, <2>2, FewerNamesDiffer
  <2> QED
    BY <2>1, <2>3
<1>5. ASSUME NEW name, NEW active, UpdateRelationship(name, active) PROVE NamesDiffer(relationships')
  <2> DEFINE k == Position(rs, name)
  <2>1. rs' = [rs EXCEPT ![k].active = active]
    BY <1>5 DEF UpdateRelationship, Position
  <2> HIDE DEF k
  <2>2. DOMAIN rs' = DOMAIN rs
    BY <2>1
  <2>3. ASSUME NEW i \in DOMAIN rs PROVE rs'[i].name = rs[i].name
    <3> DEFINE r == rs[i]
    <3>1. r \in Relations
      BY <1>0
    <3>2. rs'[i] = r \/ rs'[i] = [r EXCEPT !.active = active]
      BY <2>1
    <3> HIDE DEF r
    <3>3. [r EXCEPT !.active = active].name = r.name
      BY <3>1 DEF Relations
    <3> QED
      BY <3>2, <3>3 DEF r
  <2> QED
    BY <2>2, <2>3 DEF NamesDiffer
<1>6. ASSUME SaveAndLoad PROVE NamesDiffer(relationships')
  <2>1. rs' = rs
    BY <1>6 DEF SaveAndLoad, Become, FromModel, ToModel, Current
  <2> QED
    BY <2>1
<1>7. ASSUME UNCHANGED relationships PROVE NamesDiffer(relationships')
  BY <1>7
<1>8. CASE TableCommand
  <2>1. PICK t \in Tables : \/ CreateTable(t) \/ DeleteTable(t)
                           \/ \E u \in Tables : RenameTable(t, u)
                           \/ \E value \in BOOLEAN : SetTableDescription(t, value)
    BY <1>8 DEF TableCommand
  <2>2. ASSUME CreateTable(t) \/ \E value \in BOOLEAN : SetTableDescription(t, value)
        PROVE  UNCHANGED relationships
    BY <2>2 DEF CreateTable, SetTableDescription
  <2> QED
    BY <1>1, <1>2, <1>7, <2>1, <2>2
<1>9. CASE ColumnCommand \/ MeasureCommand \/ UNCHANGED vars
  <2>1. UNCHANGED relationships
    BY <1>9 DEF ColumnCommand, AddColumn, DeleteColumn, RenameColumn, ChangeColumnType,
                SetColumnSortBy, MeasureCommand, CreateMeasure, DeleteMeasure, RenameMeasure,
                UpdateMeasureExpression, SetMeasureFormatString, vars
  <2> QED
    BY <1>7, <2>1
<1>10. CASE RelationshipCommand
  BY <1>3, <1>4, <1>5, <1>10 DEF RelationshipCommand
<1> QED
  BY <1>6, <1>8, <1>9, <1>10 DEF Next

------------------------------------------------------------------------------
(* IDs.                                                                      *)

\* The row of a column in TMSCHEMA_COLUMNS.
SchemaColumn(T, p) ==
    LET c == T[p[1]].columns[p[2]] IN
    [id |-> ColumnIdAt(p), table |-> p[1], name |-> c.name, ordinal |-> p[2] - 1,
     hidden |-> c.hidden, key |-> c.key,
     sortBy |-> ColumnId(T, <<T[p[1]].name, c.sortBy>>)]

\* An ID that is the one of a table, of a column.
IsTable(T, id, t) == \E r \in SchemaTables(T) : r.id = id /\ r.name = t

IsColumn(T, id, key) == \E r \in SchemaColumns(T) : r.id = id /\ <<T[r.table].name, r.name>> = key

\* The cells of such a row.
LEMMA SchemaColumnIs ==
    ASSUME NEW T, NEW p
    PROVE  /\ SchemaColumn(T, p).id = ColumnIdAt(p)
           /\ SchemaColumn(T, p).table = p[1]
           /\ SchemaColumn(T, p).name = T[p[1]].columns[p[2]].name
           /\ SchemaColumn(T, p).sortBy
                 = ColumnId(T, <<T[p[1]].name, T[p[1]].columns[p[2]].sortBy>>)
           /\ <<T[SchemaColumn(T, p).table].name, SchemaColumn(T, p).name>> = KeyAt(T, p)
<1> DEFINE c == T[p[1]].columns[p[2]]
           id == ColumnIdAt(p)
           table == p[1]
           name == c.name
           ordinal == p[2] - 1
           h == c.hidden
           key == c.key
           sort == ColumnId(T, <<T[p[1]].name, c.sortBy>>)
           row == SchemaColumn(T, p)
<1>1. row = [id |-> id, table |-> table, name |-> name, ordinal |-> ordinal,
             hidden |-> h, key |-> key, sortBy |-> sort]
  BY DEF SchemaColumn
<1> HIDE DEF id, table, name, ordinal, h, key, sort, row
<1>2. row.id = id /\ row.table = table /\ row.name = name /\ row.sortBy = sort
  BY <1>1
<1>3. <<T[table].name, name>> = KeyAt(T, p)
  BY DEF table, name, KeyAt
<1> QED
  BY <1>2, <1>3 DEF row, id, table, name, sort

\* There is one for each place.
LEMMA SchemaColumnsAre ==
    ASSUME NEW T
    PROVE  SchemaColumns(T) = {SchemaColumn(T, p) : p \in Places(T)}
BY DEF SchemaColumns, SchemaColumn

\* A column that is listed has an ID, and it is its own; one that is not has none.
LEMMA ColumnFound ==
    ASSUME NEW T, NEW names, NEW C, Tidy(T, names, C), NEW k
    PROVE  /\ k \in C => ColumnId(T, k) # 0 /\ IsColumn(T, ColumnId(T, k), k)
           /\ k \notin C => ColumnId(T, k) = 0
<1>1. CASE k \in C
  <2>1. PICK p \in Places(T) : KeyAt(T, p) = k
    BY <1>1 DEF Tidy
  <2>2. ColumnId(T, k) = ColumnIdAt(p)
    BY <2>1, ColumnIdIs
  <2>3. p[1] \in Nat /\ p[1] >= 1 /\ p[2] \in Nat
    <3>1. p[1] \in DOMAIN T /\ p[2] \in DOMAIN T[p[1]].columns
      BY PlacesAre
    <3> DEFINE i == p[1]
               j == p[2]
    <3>2. i \in 1..Len(T) /\ Len(T) \in Nat /\ j \in 1..Len(T[i].columns)
      BY <3>1 DEF Tidy
    <3> HIDE DEF i, j
    <3>3. i \in Nat /\ i >= 1 /\ j \in Nat
      BY <3>2
    <3> QED
      BY <3>3 DEF i, j
  <2>4. ColumnIdAt(p) # 0
    <3> DEFINE i == p[1]
               j == p[2]
    <3>1. ColumnIdAt(p) = i * 1000 + j /\ i \in Nat /\ i >= 1 /\ j \in Nat
      BY <2>3 DEF ColumnIdAt, Stride
    <3> HIDE DEF i, j
    <3> QED
      BY <3>1
  <2> DEFINE r == SchemaColumn(T, p)
  <2>5. r \in SchemaColumns(T)
    BY SchemaColumnsAre
  <2>6. r.id = ColumnIdAt(p) /\ <<T[r.table].name, r.name>> = k
    BY <2>1, SchemaColumnIs
  <2> HIDE DEF r
  <2>7. IsColumn(T, ColumnIdAt(p), k)
    BY <2>5, <2>6 DEF IsColumn
  <2> QED
    BY <1>1, <2>2, <2>4, <2>7
<1>2. CASE k \notin C
  BY <1>2, ColumnIdIs
<1> QED
  BY <1>1, <1>2

\* A table that is listed has the ID of its place.
LEMMA TableFound ==
    ASSUME NEW T, NEW names, NEW C, Tidy(T, names, C), NEW t \in names
    PROVE  IsTable(T, TableId(T, t), t) /\ TableId(T, t) \in DOMAIN T /\ TableId(T, t) # 0
<1> DEFINE i == TableId(T, t)
           r == [id |-> i, name |-> T[i].name, hidden |-> T[i].hidden]
<1>1. i \in DOMAIN T /\ T[i].name = t
  BY TableIdIs
<1>2. Len(T) \in Nat /\ DOMAIN T = 1..Len(T)
  BY DEF Tidy
<1> HIDE DEF i
<1>3. r \in SchemaTables(T) /\ r.id = i /\ r.name = t
  BY <1>1 DEF SchemaTables
<1> HIDE DEF r
<1>4. IsTable(T, i, t)
  BY <1>3 DEF IsTable
<1> QED
  BY <1>1, <1>2, <1>4 DEF i

\* As long as no table has more columns than the stride, there are as many IDs
\* as columns.
LEMMA ColumnsNumbered ==
    ASSUME NEW T, NEW names, NEW C, Tidy(T, names, C),
           \A i \in DOMAIN T : Len(T[i].columns) <= Stride
    PROVE  Cardinality({r.id : r \in SchemaColumns(T)}) = Cardinality(C)
<1> DEFINE S == Places(T)
           I == {r.id : r \in SchemaColumns(T)}
           ids  == [p \in S |-> ColumnIdAt(p)]
           keys == [p \in S |-> KeyAt(T, p)]
<1>1. IsFiniteSet(S)
  BY PlacesFinite
<1>2. I = {ids[p] : p \in S}
  <2>1. \A p \in S : SchemaColumn(T, p).id = ids[p]
    BY SchemaColumnIs
  <2>2. I = {SchemaColumn(T, p).id : p \in S}
    BY SchemaColumnsAre
  <2> HIDE DEF I, ids
  <2> QED
    BY <2>1, <2>2
<1>3. C = {keys[p] : p \in S}
  BY DEF Tidy
<1>4. ASSUME NEW p \in S PROVE p \in Nat \X (1..Stride)
  <2>1. p[1] \in DOMAIN T /\ p[2] \in DOMAIN T[p[1]].columns /\ p = <<p[1], p[2]>>
    BY PlacesAre
  <2> DEFINE i == p[1]
             j == p[2]
             n == Len(T[i].columns)
  <2>2. /\ i \in 1..Len(T) /\ Len(T) \in Nat /\ j \in 1..n /\ n \in Nat /\ n <= 1000
        /\ p = <<i, j>>
    BY <2>1 DEF Tidy, Stride
  <2> HIDE DEF i, j, n
  <2>3. i \in Nat /\ j \in 1..1000
    BY <2>2
  <2> QED
    BY <2>2, <2>3 DEF Stride
<1>5. \A p, q \in S : ids[p] = ids[q] => p = q
  BY <1>4, ColumnIdsDiffer
<1>6. \A p, q \in S : keys[p] = keys[q] => p = q
  BY DEF Tidy
<1>7. DOMAIN ids = S /\ DOMAIN keys = S
  OBVIOUS
<1> HIDE DEF S, I, ids, keys
<1>8. Cardinality(I) = Cardinality(S)
  BY <1>1, <1>2, <1>5, <1>7, ImageIs
<1>9. Cardinality(C) = Cardinality(S)
  BY <1>1, <1>3, <1>6, <1>7, ImageIs
<1> QED
  BY <1>8, <1>9 DEF I

\* SORT_BY_COLUMN_ID is that of the sort column, if the table has it.
LEMMA SortColumnsFound ==
    ASSUME NEW c, IsCatalog(c), NEW hidden, NEW keys, NEW T, IsListing(c, hidden, keys, T),
           NEW r \in SchemaColumns(T)
    PROVE  LET sortBy == <<T[r.table].name, c.columns[<<T[r.table].name, r.name>>].sortBy>> IN
           IF sortBy \in DOMAIN c.columns THEN IsColumn(T, r.sortBy, sortBy) ELSE r.sortBy = 0
<1>1. PICK p \in Places(T) : r = SchemaColumn(T, p)
  BY SchemaColumnsAre
<1>2. Tidy(T, c.tables, DOMAIN c.columns)
  BY ListingIsTidy
<1> DEFINE i == p[1]
           j == p[2]
           t == T[i].name
           col == T[i].columns[j]
           n == c.columnOrder[t][j]
           key == <<t, n>>
           sort == c.columns[key].sortBy
<1>3. i \in DOMAIN T /\ j \in DOMAIN T[i].columns
  BY PlacesAre
<1>4. col = ListedColumn(c, hidden, keys, t, n) /\ col.name = n
  BY <1>3, ListedColumnsAre
<1>5. col.sortBy = sort
  <2> DEFINE h == key \in hidden
             k == key \in keys
  <2>1. col = [name |-> n, sortBy |-> sort, hidden |-> h, key |-> k]
    BY <1>4 DEF ListedColumn
  <2> HIDE DEF col, n, sort, h, k
  <2> QED
    BY <2>1
<1>6. /\ <<T[r.table].name, r.name>> = KeyAt(T, p) /\ r.table = i
      /\ r.sortBy = ColumnId(T, <<t, col.sortBy>>)
  BY <1>1, SchemaColumnIs
<1>7. KeyAt(T, p) = key
  BY <1>4 DEF KeyAt
<1> DEFINE s == <<t, sort>>
<1>8. /\ s \in DOMAIN c.columns => IsColumn(T, ColumnId(T, s), s)
      /\ s \notin DOMAIN c.columns => ColumnId(T, s) = 0
  <2> HIDE DEF s
  <2> QED
    BY <1>2, ColumnFound
<1>9. <<T[r.table].name, c.columns[<<T[r.table].name, r.name>>].sortBy>> = s
  BY <1>6, <1>7
<1>10. r.sortBy = ColumnId(T, s)
  BY <1>5, <1>6
<1> HIDE DEF s, col, n, key, sort, t
<1> QED
  BY <1>8, <1>9, <1>10

\* A measure is shown in its table, if that is listed: then never in the first
\* for want of its own.
LEMMA MeasuresResolve ==
    ASSUME NEW T, NEW names, NEW C, Tidy(T, names, C), NEW M, NEW r \in SchemaMeasures(M, T)
    PROVE  \E i \in DOMAIN M : /\ r.id = i /\ r.name = M[i].name
                               /\ M[i].table \in names =>
                                     /\ r.table \in DOMAIN T /\ T[r.table].name = M[i].table
                                     /\ IsTable(T, r.table, M[i].table)
<1> DEFINE home(i) == IF TableId(T, M[i].table) = 0 THEN 1 ELSE TableId(T, M[i].table)
           row(i) == [id |-> i, name |-> M[i].name, hidden |-> M[i].hidden, table |-> home(i)]
<1>1. PICK i \in DOMAIN M : r = row(i)
  BY DEF SchemaMeasures
<1> DEFINE n == M[i].name
           h == M[i].hidden
           t == home(i)
<1>2. r = [id |-> i, name |-> n, hidden |-> h, table |-> t]
  BY <1>1
<1> HIDE DEF n, h, t
<1>3. r.id = i /\ r.name = n /\ r.table = t
  BY <1>2
<1>4. ASSUME M[i].table \in names
      PROVE  t \in DOMAIN T /\ T[t].name = M[i].table /\ IsTable(T, t, M[i].table)
  <2> DEFINE u == M[i].table
  <2>1. t = IF TableId(T, u) = 0 THEN 1 ELSE TableId(T, u)
    BY DEF t
  <2>2. u \in names
    BY <1>4
  <2> HIDE DEF u
  <2>3. /\ IsTable(T, TableId(T, u), u) /\ TableId(T, u) # 0
        /\ TableId(T, u) \in DOMAIN T /\ T[TableId(T, u)].name = u
    BY <2>2, TableFound, TableIdIs
  <2> QED
    BY <2>1, <2>3 DEF u
<1> QED
  BY <1>3, <1>4 DEF n

\* The row of the relationship at place i.
SchemaRelationship(R, T, i) ==
    [id |-> i, name |-> R[i].name, active |-> R[i].active,
     fromTable |-> TableId(T, R[i].from[1]), fromColumn |-> ColumnId(T, R[i].from),
     toTable |-> TableId(T, R[i].to[1]), toColumn |-> ColumnId(T, R[i].to)]

\* Its cells.
LEMMA SchemaRelationshipsAre ==
    ASSUME NEW R, NEW T, NEW r \in SchemaRelationships(R, T)
    PROVE  \E i \in DOMAIN R :
              /\ r.id = i
              /\ r.fromTable = TableId(T, R[i].from[1]) /\ r.fromColumn = ColumnId(T, R[i].from)
              /\ r.toTable = TableId(T, R[i].to[1])     /\ r.toColumn = ColumnId(T, R[i].to)
<1>1. PICK i \in DOMAIN R : r = SchemaRelationship(R, T, i)
  BY DEF SchemaRelationships, SchemaRelationship
<1> DEFINE n  == R[i].name
           h  == R[i].active
           ft == TableId(T, R[i].from[1])
           fc == ColumnId(T, R[i].from)
           tt == TableId(T, R[i].to[1])
           tc == ColumnId(T, R[i].to)
<1>2. r = [id |-> i, name |-> n, active |-> h, fromTable |-> ft, fromColumn |-> fc,
           toTable |-> tt, toColumn |-> tc]
  BY <1>1 DEF SchemaRelationship
<1> HIDE DEF n, h, ft, fc, tt, tc
<1>3. /\ r.id = i /\ r.fromTable = ft /\ r.fromColumn = fc
      /\ r.toTable = tt /\ r.toColumn = tc
  BY <1>2
<1> QED
  BY <1>3 DEF ft, fc, tt, tc

\* Partitions refer to their tables.
LEMMA PartitionsResolve ==
    ASSUME NEW T, NEW p \in SchemaPartitions(T)
    PROVE  IsTable(T, p.table, p.name)
<1>1. PICK i \in DOMAIN T : p = [id |-> i, table |-> i, name |-> T[i].name]
  BY DEF SchemaPartitions
<1> DEFINE n == T[i].name
           h == T[i].hidden
           r == [id |-> i, name |-> n, hidden |-> h]
<1>2. r \in SchemaTables(T)
  BY DEF SchemaTables
<1> HIDE DEF n, h
<1>3. p.table = i /\ p.name = n /\ r.id = i /\ r.name = n
  BY <1>1 DEF n
<1> HIDE DEF r
<1> QED
  BY <1>2, <1>3 DEF IsTable

------------------------------------------------------------------------------
(* The CSDL document.                                                        *)

MeasuresOfType(M, t) == {M[i].name : i \in {k \in DOMAIN M : M[k].table = t}}

Navigation(R, t) ==
    {[relationship |-> R[i].name, from |-> R[i].from, to |-> R[i].to] :
     i \in {k \in DOMAIN R : R[k].from[1] = t}}

\* The parts of an entity type.
LEMMA EntityTypeIs ==
    ASSUME NEW t, NEW M, NEW R
    PROVE  /\ EntityType(t, M, R).name = t.name
           /\ EntityType(t, M, R).columns = {t.columns[j].name : j \in DOMAIN t.columns}
           /\ EntityType(t, M, R).measures = MeasuresOfType(M, t.name)
           /\ EntityType(t, M, R).navigation = Navigation(R, t.name)
<1> DEFINE n == t.name
           c == {t.columns[j].name : j \in DOMAIN t.columns}
           m == MeasuresOfType(M, t.name)
           v == Navigation(R, t.name)
           e == EntityType(t, M, R)
<1>1. e = [name |-> n, columns |-> c, measures |-> m, navigation |-> v]
  BY DEF EntityType, MeasuresOfType, Navigation
<1> HIDE DEF n, c, m, v, e
<1>2. e.name = n /\ e.columns = c /\ e.measures = m /\ e.navigation = v
  BY <1>1
<1> QED
  BY <1>2 DEF n, c, m, v, e

\* A relationship navigates from its many side.
LEMMA NavigationIs ==
    ASSUME NEW R, NEW t
    PROVE  /\ \A i \in DOMAIN R : R[i].from[1] = t =>
                 \E n \in Navigation(R, t) : n.relationship = R[i].name
           /\ \A n \in Navigation(R, t) :
                 \E i \in DOMAIN R : R[i].from[1] = t /\ n.relationship = R[i].name
<1> DEFINE nav(i) == [relationship |-> R[i].name, from |-> R[i].from, to |-> R[i].to]
<1>1. Navigation(R, t) = {nav(i) : i \in {k \in DOMAIN R : R[k].from[1] = t}}
  BY DEF Navigation
<1>2. ASSUME NEW i PROVE nav(i).relationship = R[i].name
  <2> DEFINE a == R[i].name
             b == R[i].from
             d == R[i].to
  <2>1. nav(i) = [relationship |-> a, from |-> b, to |-> d]
    OBVIOUS
  <2> HIDE DEF a, b, d, nav
  <2>2. nav(i).relationship = a
    BY <2>1
  <2> QED
    BY <2>2 DEF a
<1> HIDE DEF nav
<1> QED
  BY <1>1, <1>2

\* The four parts of the document.
LEMMA CsdlIs ==
    ASSUME NEW T, NEW M, NEW R, NEW version
    PROVE  LET csdl == Csdl(T, M, R, version) IN
           /\ csdl.entityTypes = {EntityType(T[i], M, R) : i \in DOMAIN T}
           /\ \A i \in DOMAIN T : \E e \in csdl.entitySets : e.name = T[i].name
           /\ \A a \in csdl.associationSets :
                 \E i \in DOMAIN R : a.ends = <<R[i].from[1], R[i].to[1]>>
           /\ \A a \in csdl.associations :
                 \E i \in DOMAIN R : a.name = R[i].name /\ a.many = R[i].from /\ a.one = R[i].to
<1> DEFINE set(i)    == [name |-> T[i].name, hidden |-> T[i].hidden]
           ends(i)   == [association |-> R[i].name, ends |-> <<R[i].from[1], R[i].to[1]>>,
                         inactive |-> ~R[i].active]
           assoc(i)  == [name |-> R[i].name, many |-> R[i].from, one |-> R[i].to,
                         constraint |-> version = "2.5"]
           sets      == {set(i) : i \in DOMAIN T}
           types     == {EntityType(T[i], M, R) : i \in DOMAIN T}
           endings   == {ends(i) : i \in DOMAIN R}
           assocs    == {assoc(i) : i \in DOMAIN R}
           csdl      == Csdl(T, M, R, version)
<1>1. csdl = [entitySets |-> sets, entityTypes |-> types, associationSets |-> endings,
              associations |-> assocs]
  BY DEF Csdl
<1>2. ASSUME NEW i PROVE set(i).name = T[i].name
  <2> DEFINE a == T[i].name
             b == T[i].hidden
  <2>1. set(i) = [name |-> a, hidden |-> b]
    OBVIOUS
  <2> HIDE DEF a, b, set
  <2>2. set(i).name = a
    BY <2>1
  <2> QED
    BY <2>2 DEF a
<1>3. ASSUME NEW i PROVE ends(i).ends = <<R[i].from[1], R[i].to[1]>>
  <2> DEFINE a == R[i].name
             b == <<R[i].from[1], R[i].to[1]>>
             d == ~R[i].active
  <2>1. ends(i) = [association |-> a, ends |-> b, inactive |-> d]
    OBVIOUS
  <2> HIDE DEF a, b, d, ends
  <2>2. ends(i).ends = b
    BY <2>1
  <2> QED
    BY <2>2 DEF b
<1>4. ASSUME NEW i
      PROVE  assoc(i).name = R[i].name /\ assoc(i).many = R[i].from /\ assoc(i).one = R[i].to
  <2> DEFINE a == R[i].name
             b == R[i].from
             d == R[i].to
             e == version = "2.5"
  <2>1. assoc(i) = [name |-> a, many |-> b, one |-> d, constraint |-> e]
    OBVIOUS
  <2> HIDE DEF a, b, d, e, assoc
  <2>2. assoc(i).name = a /\ assoc(i).many = b /\ assoc(i).one = d
    BY <2>1
  <2> QED
    BY <2>2 DEF a, b, d
<1> HIDE DEF set, ends, assoc
<1>5. /\ \A i \in DOMAIN T : \E e \in sets : e.name = T[i].name
      /\ \A a \in endings : \E i \in DOMAIN R : a.ends = <<R[i].from[1], R[i].to[1]>>
      /\ \A a \in assocs :
            \E i \in DOMAIN R : a.name = R[i].name /\ a.many = R[i].from /\ a.one = R[i].to
  BY <1>2, <1>3, <1>4
<1> HIDE DEF sets, types, endings, assocs, csdl
<1>6. /\ csdl.entitySets = sets /\ csdl.entityTypes = types
      /\ csdl.associationSets = endings /\ csdl.associations = assocs
  BY <1>1
<1> QED
  BY <1>5, <1>6 DEF csdl, types

\* If relationships have different names, each is declared by one entity type.
LEMMA OneTypeNavigates ==
    ASSUME NEW T, NEW names, NEW C, Tidy(T, names, C), NEW M, NEW R, NamesDiffer(R),
           \A i \in DOMAIN R : R[i].from[1] \in names, NEW k \in DOMAIN R
    PROVE  Cardinality({e \in {EntityType(T[i], M, R) : i \in DOMAIN T} :
                           \E n \in e.navigation : n.relationship = R[k].name}) = 1
<1> DEFINE type(i) == EntityType(T[i], M, R)
           S == {e \in {type(i) : i \in DOMAIN T} : \E n \in e.navigation : n.relationship = R[k].name}
           t == R[k].from[1]
<1>1. PICK m \in DOMAIN T : T[m].name = t
  BY DEF Tidy
<1>2. ASSUME NEW i \in DOMAIN T
      PROVE  (\E n \in type(i).navigation : n.relationship = R[k].name) <=> i = m
  <2>1. type(i).navigation = Navigation(R, T[i].name)
    BY EntityTypeIs
  <2>2. ASSUME NEW n \in Navigation(R, T[i].name), n.relationship = R[k].name PROVE i = m
    <3>1. PICK j \in DOMAIN R : R[j].from[1] = T[i].name /\ n.relationship = R[j].name
      BY NavigationIs
    <3>2. j = k
      BY <2>2, <3>1 DEF NamesDiffer
    <3> QED
      BY <1>1, <3>1, <3>2 DEF Tidy
  <2>3. ASSUME i = m PROVE \E n \in Navigation(R, T[i].name) : n.relationship = R[k].name
    BY <1>1, <2>3, NavigationIs
  <2> HIDE DEF type
  <2> QED
    BY <2>1, <2>2, <2>3
<1> HIDE DEF type
<1>3. S = {type(m)}
  BY <1>2
<1>4. Cardinality({type(m)}) = 1
  BY FS_Singleton
<1> QED
  BY <1>3, <1>4 DEF type

\* A column that an entity type declares.
IsDeclared(T, M, R, key) ==
    \E i \in DOMAIN T : /\ EntityType(T[i], M, R).name = key[1]
                        /\ key[2] \in EntityType(T[i], M, R).columns

\* The columns of an entity type are those of its table.
LEMMA EndsDeclared ==
    ASSUME NEW T, NEW names, NEW C, Tidy(T, names, C), NEW M, NEW R, NEW key \in C
    PROVE  IsDeclared(T, M, R, key)
<1>1. PICK p \in Places(T) : KeyAt(T, p) = key
  BY DEF Tidy
<1> DEFINE i == p[1]
           j == p[2]
           e == EntityType(T[i], M, R)
<1>2. i \in DOMAIN T /\ j \in DOMAIN T[i].columns
  BY PlacesAre
<1>3. key[1] = T[i].name /\ key[2] = T[i].columns[j].name
  BY <1>1 DEF KeyAt
<1>4. e.name = T[i].name /\ e.columns = {T[i].columns[l].name : l \in DOMAIN T[i].columns}
  BY EntityTypeIs
<1> HIDE DEF e, i, j
<1>5. e.name = key[1] /\ key[2] \in e.columns
  BY <1>2, <1>3, <1>4
<1> QED
  BY <1>2, <1>5 DEF e, IsDeclared

\* The measures of the two documents.
SameMeasures(T, M, R) ==
    UNION {e.measures : e \in {EntityType(T[i], M, R) : i \in DOMAIN T}}
       = {m.name : m \in Tom(T, M, R).measures}

\* The two documents have the same measures.
LEMMA DocumentsHaveMeasures ==
    ASSUME NEW T, NEW names, NEW C, Tidy(T, names, C), NEW M, NEW R,
           \A i \in DOMAIN M : M[i].table \in names
    PROVE  SameMeasures(T, M, R)
<1> DEFINE type(i) == EntityType(T[i], M, R)
           L == UNION {e.measures : e \in {type(i) : i \in DOMAIN T}}
           row(i) == [name |-> M[i].name, hidden |-> M[i].hidden]
           rows == {row(i) : i \in DOMAIN M}
           N == {M[i].name : i \in DOMAIN M}
<1>1. Tom(T, M, R).measures = rows
  <2> DEFINE t == {[name |-> T[i].name, hidden |-> T[i].hidden,
                    columns |-> {[name |-> T[i].columns[j].name,
                                  hidden |-> T[i].columns[j].hidden] :
                                 j \in DOMAIN T[i].columns}] : i \in DOMAIN T}
             r == {[name |-> R[i].name, from |-> R[i].from, to |-> R[i].to,
                    active |-> R[i].active] : i \in DOMAIN R}
             d == Tom(T, M, R)
  <2>1. d = [tables |-> t, measures |-> rows, relationships |-> r]
    BY DEF Tom
  <2> HIDE DEF t, r, d, rows
  <2>2. d.measures = rows
    BY <2>1
  <2> QED
    BY <2>2 DEF d
<1>2. ASSUME NEW i PROVE row(i).name = M[i].name
  <2> DEFINE a == M[i].name
             b == M[i].hidden
  <2>1. row(i) = [name |-> a, hidden |-> b]
    OBVIOUS
  <2> HIDE DEF a, b, row
  <2>2. row(i).name = a
    BY <2>1
  <2> QED
    BY <2>2 DEF a
<1>3. {m.name : m \in rows} = N
  <2> HIDE DEF row
  <2> QED
    BY <1>2
<1>4. ASSUME NEW i PROVE type(i).measures = MeasuresOfType(M, T[i].name)
  BY EntityTypeIs
<1>5. ASSUME NEW x \in N PROVE x \in L
  <2>1. PICK k \in DOMAIN M : x = M[k].name
    OBVIOUS
  <2>2. PICK i \in DOMAIN T : T[i].name = M[k].table
    BY DEF Tidy
  <2>3. x \in MeasuresOfType(M, T[i].name)
    BY <2>1, <2>2 DEF MeasuresOfType
  <2> HIDE DEF type
  <2> QED
    BY <1>4, <2>3
<1>6. ASSUME NEW x \in L PROVE x \in N
  <2> HIDE DEF type
  <2>1. PICK i \in DOMAIN T : x \in type(i).measures
    OBVIOUS
  <2>2. x \in MeasuresOfType(M, T[i].name)
    BY <1>4, <2>1
  <2> QED
    BY <2>2 DEF MeasuresOfType
<1> HIDE DEF L, N, rows
<1>7. L = N
  BY <1>5, <1>6
<1> QED
  BY <1>1, <1>3, <1>7 DEF L, SameMeasures

------------------------------------------------------------------------------
(* All references of one catalog.                                            *)

\* No table has more columns than there are IDs between two tables, which
\* nothing in the code sees to.
NarrowTables == \A t \in tables : Len(columnOrder[t]) <= Stride

\* The IDs and names of one catalog, if its relationships have different names.
LEMMA IdsOfCatalog ==
    ASSUME CatalogInv, NamesDiffer(relationships), NarrowTables
    PROVE  IdsResolve
<1> DEFINE c == Current
           C == DOMAIN columns
           T == ListTables(c, {}, {})
           M == ListMeasures(c, {})
           R == ListRelationships(c)
           whole == Loads(ToModel(c))
           csdl == Csdl(T, M, R, "2.5")
<1>1. /\ IsCatalog(c) /\ c.tables = tables /\ c.columns = columns
      /\ c.columnOrder = columnOrder /\ c.measureTables = measureTables
      /\ c.relationships = relationships
  BY DEF CatalogInv, IsCatalog, Current
<1>2. R = relationships
  BY <1>1 DEF ListRelationships
<1>3. whole => Loadable(columns, relationships)
  BY WholeMeans
<1> HIDE DEF c, whole
<1>4. IsListing(c, {}, {}, T)
  BY <1>1, ListTablesIs
<1>5. /\ \A i \in DOMAIN M : /\ M[i].table = c.measureTables[M[i].name]
                             /\ M[i].table \in c.tables
  BY <1>1, ListMeasuresIs
<1> HIDE DEF T, M, R
<1>6. Tidy(T, tables, C)
  BY <1>1, <1>4, ListingIsTidy
<1>7. \A i \in DOMAIN R : /\ R[i].from[1] \in tables /\ R[i].to[1] \in tables
  BY <1>2 DEF CatalogInv, RelationsOK
<1>8. whole => \A i \in DOMAIN R : R[i].from \in C /\ R[i].to \in C
  BY <1>2, <1>3 DEF Loadable
<1>9. Cardinality({r.id : r \in SchemaColumns(T)}) = Cardinality(C)
  <2>1. ASSUME NEW i \in DOMAIN T PROVE Len(T[i].columns) <= Stride
    <3>1. Len(T[i].columns) = Len(c.columnOrder[T[i].name])
      BY <1>1, <1>4, ListedColumnsAre
    <3>2. T[i].name \in tables
      BY <1>6 DEF Tidy
    <3> QED
      BY <1>1, <3>1, <3>2 DEF NarrowTables
  <2> QED
    BY <1>6, <2>1, ColumnsNumbered
<1>10. ASSUME NEW r \in SchemaColumns(T)
       PROVE  LET sortBy == <<T[r.table].name, columns[<<T[r.table].name, r.name>>].sortBy>> IN
              IF sortBy \in C THEN IsColumn(T, r.sortBy, sortBy) ELSE r.sortBy = 0
  BY <1>1, <1>4, SortColumnsFound
<1>11. ASSUME NEW r \in SchemaMeasures(M, T) PROVE IsTable(T, r.table, measureTables[r.name])
  <2>1. PICK i \in DOMAIN M : /\ r.name = M[i].name
                              /\ M[i].table \in tables => IsTable(T, r.table, M[i].table)
    BY <1>6, MeasuresResolve
  <2> QED
    BY <1>1, <1>5, <2>1
<1>12. ASSUME NEW r \in SchemaRelationships(R, T)
       PROVE  /\ IsTable(T, r.fromTable, R[r.id].from[1]) /\ IsTable(T, r.toTable, R[r.id].to[1])
              /\ r.fromColumn = 0 => ~whole
              /\ r.fromColumn # 0 => IsColumn(T, r.fromColumn, R[r.id].from)
              /\ r.toColumn = 0 => ~whole
              /\ r.toColumn # 0 => IsColumn(T, r.toColumn, R[r.id].to)
  <2>1. PICK i \in DOMAIN R :
           /\ r.id = i
           /\ r.fromTable = TableId(T, R[i].from[1]) /\ r.fromColumn = ColumnId(T, R[i].from)
           /\ r.toTable = TableId(T, R[i].to[1])     /\ r.toColumn = ColumnId(T, R[i].to)
    BY SchemaRelationshipsAre
  <2> DEFINE from == R[i].from
             to   == R[i].to
  <2>2. from[1] \in tables /\ to[1] \in tables
    BY <1>7
  <2>3. whole => from \in C /\ to \in C
    BY <1>8
  <2>4. /\ r.fromTable = TableId(T, from[1]) /\ r.fromColumn = ColumnId(T, from)
        /\ r.toTable = TableId(T, to[1])     /\ r.toColumn = ColumnId(T, to)
    BY <2>1
  <2>5. R[r.id].from = from /\ R[r.id].to = to
    BY <2>1
  <2> HIDE DEF from, to, C
  <2>6. IsTable(T, TableId(T, from[1]), from[1]) /\ IsTable(T, TableId(T, to[1]), to[1])
    BY <1>6, <2>2, TableFound
  <2>7. /\ from \in C => ColumnId(T, from) # 0 /\ IsColumn(T, ColumnId(T, from), from)
        /\ from \notin C => ColumnId(T, from) = 0
    BY <1>6, ColumnFound
  <2>8. /\ to \in C => ColumnId(T, to) # 0 /\ IsColumn(T, ColumnId(T, to), to)
        /\ to \notin C => ColumnId(T, to) = 0
    BY <1>6, ColumnFound
  <2> QED
    BY <2>3, <2>4, <2>5, <2>6, <2>7, <2>8
<1>13. \A p \in SchemaPartitions(T) : IsTable(T, p.table, p.name)
  BY PartitionsResolve
<1>14. /\ csdl.entityTypes = {EntityType(T[i], M, R) : i \in DOMAIN T}
       /\ \A i \in DOMAIN T : \E e \in csdl.entitySets : e.name = T[i].name
       /\ \A a \in csdl.associationSets :
             \E i \in DOMAIN R : a.ends = <<R[i].from[1], R[i].to[1]>>
       /\ \A a \in csdl.associations :
             \E i \in DOMAIN R : a.name = R[i].name /\ a.many = R[i].from /\ a.one = R[i].to
  BY CsdlIs
<1> HIDE DEF csdl
<1>15. ASSUME NEW a \in csdl.associationSets
       PROVE  ToSet(a.ends) \subseteq {e.name : e \in csdl.entitySets}
  <2>1. PICK i \in DOMAIN R : a.ends = <<R[i].from[1], R[i].to[1]>>
    BY <1>14
  <2> DEFINE x == R[i].from[1]
             y == R[i].to[1]
             s == <<x, y>>
  <2>2. x \in tables /\ y \in tables
    BY <1>7
  <2> HIDE DEF x, y
  <2>3. ToSet(s) = {x, y}
    BY DEF ToSet
  <2>4. ASSUME NEW z \in tables PROVE z \in {e.name : e \in csdl.entitySets}
    <3>1. PICK j \in DOMAIN T : T[j].name = z
      BY <1>6 DEF Tidy
    <3> QED
      BY <1>14, <3>1
  <2>5. a.ends = s
    BY <2>1 DEF x, y
  <2> HIDE DEF s
  <2> QED
    BY <2>2, <2>3, <2>4, <2>5
<1>16. ASSUME NEW a \in csdl.associations
       PROVE  /\ Cardinality({e \in csdl.entityTypes :
                                 \E n \in e.navigation : n.relationship = a.name}) = 1
              /\ whole => \A end \in {a.many, a.one} :
                    \E e \in csdl.entityTypes : e.name = end[1] /\ end[2] \in e.columns
  <2>1. PICK k \in DOMAIN R : a.name = R[k].name /\ a.many = R[k].from /\ a.one = R[k].to
    BY <1>14
  <2>2. NamesDiffer(R)
    BY <1>2
  <2>3. Cardinality({e \in {EntityType(T[i], M, R) : i \in DOMAIN T} :
                        \E n \in e.navigation : n.relationship = R[k].name}) = 1
    BY <1>6, <1>7, <2>2, OneTypeNavigates
  <2>4. ASSUME whole, NEW end \in {a.many, a.one}
        PROVE  \E e \in csdl.entityTypes : e.name = end[1] /\ end[2] \in e.columns
    <3>1. end \in C
      BY <1>8, <2>1, <2>4
    <3> HIDE DEF C
    <3>2. IsDeclared(T, M, R, end)
      BY <1>6, <3>1, EndsDeclared
    <3> QED
      BY <1>14, <3>2 DEF IsDeclared
  <2> QED
    BY <1>14, <2>1, <2>3, <2>4
<1>17. UNION {e.measures : e \in csdl.entityTypes} = {m.name : m \in Tom(T, M, R).measures}
  <2>1. \A i \in DOMAIN M : M[i].table \in tables
    BY <1>1, <1>5
  <2> HIDE DEF C
  <2>2. SameMeasures(T, M, R)
    BY <1>6, <2>1, DocumentsHaveMeasures
  <2> QED
    BY <1>14, <2>2 DEF SameMeasures
<1> QED
  BY <1>9, <1>10, <1>11, <1>12, <1>13, <1>15, <1>16, <1>17
   DEF IdsResolve, IsTable, IsColumn, T, M, R, C, c, whole, csdl

\* IdsResolve (tmschema_columns, tmschema_relationships, build_csdl and the
\* other functions of handlers.rs that number and name objects): if no file the
\* server starts from has two relationships of one name, then after any commands
\* every ID is one object's and every reference is to the object meant, as long
\* as no table has more columns than the stride of their IDs.
THEOREM IdsResolveAlways ==
    ASSUME DistinctRelationships
    PROVE  Spec => [](NarrowTables => IdsResolve)
<1> DEFINE Inv == CatalogInv /\ NamesDiffer(relationships)
<1>1. Init => Inv
  <2>1. ASSUME Init PROVE NamesDiffer(relationships)
    <3>1. PICK m \in InitialModels : relationships = FromModel(m).relationships
      BY <2>1 DEF Init, InitFrom
    <3>2. FromModel(m).relationships = m.relationships
      BY DEF FromModel
    <3> QED
      BY <3>1, <3>2 DEF DistinctRelationships
  <2> QED
    BY <2>1, InitIsCatalog
<1>2. Inv /\ [Next]_vars => Inv'
  <2>1. ASSUME CatalogInv, NamesDiffer(relationships), [Next]_vars PROVE CatalogInv'
    BY <2>1, CatalogStep
  <2>2. ASSUME CatalogInv, NamesDiffer(relationships), [Next]_vars
        PROVE  NamesDiffer(relationships)'
    <3>1. NamesDiffer(relationships')
      BY <2>2, NamesDifferStep
    <3> QED
      BY <3>1 DEF NamesDiffer
  <2> QED
    BY <2>1, <2>2
<1>3. Inv => (NarrowTables => IdsResolve)
  BY IdsOfCatalog
<1> HIDE DEF Inv
<1> QED
  BY <1>1, <1>2, <1>3, PTL DEF Spec

------------------------------------------------------------------------------
(* Places across a command.                                                  *)

\* A list has as many places as elements.
LEMMA ListsCount ==
    ASSUME NEW X, NEW E, NEW s \in Lists(X, E)
    PROVE  IsFiniteSet(E) /\ Cardinality(E) = Len(s)
<1> DEFINE n == Len(s)
           S == 1..n
<1>1. /\ s \in Seq(X) /\ n \in Nat /\ DOMAIN s = S /\ E = {s[i] : i \in S}
      /\ \A i, j \in S : s[i] = s[j] => i = j
  BY DEF Lists, IsInjective, ToSet
<1>2. IsFiniteSet(S) /\ Cardinality(S) = n
  <2> HIDE DEF n
  <2>1. 1 \in Int /\ n \in Int
    BY <1>1
  <2>2. IsFiniteSet(1..n) /\ Cardinality(1..n) = IF 1 > n THEN 0 ELSE n - 1 + 1
    BY <2>1, FS_Interval
  <2> QED
    BY <1>1, <2>2
<1> HIDE DEF S, n
<1>3. IsFiniteSet(E) /\ Cardinality(E) = Cardinality(S)
  BY <1>1, <1>2, ImageIs
<1> QED
  BY <1>2, <1>3 DEF n

\* What is in both lists has the place in the second that it has in the first.
KeepsPlaces(s, t) == \A i \in DOMAIN s : s[i] \in ToSet(t) => i \in DOMAIN t /\ t[i] = s[i]

\* So it is after something is added at the end.
LEMMA AppendKeeps ==
    ASSUME NEW X, NEW s \in Seq(X), NEW e \in X
    PROVE  KeepsPlaces(s, Append(s, e))
BY DEF KeepsPlaces

\* So it is after something gets another name.
LEMMA ReplaceKeeps ==
    ASSUME NEW X, NEW E, NEW s \in Lists(X, E), NEW old \in E, NEW new \in X, new \notin E
    PROVE  KeepsPlaces(s, ReplaceAll(s, old, new))
<1> DEFINE t == ReplaceAll(s, old, new)
<1>1. DOMAIN t = DOMAIN s /\ \A i \in DOMAIN s : t[i] = IF s[i] = old THEN new ELSE s[i]
  BY DEF Lists, ReplaceAll
<1>2. old \notin ToSet(t)
  <2>1. t \in Lists(X, (E \ {old}) \cup {new})
    BY ReplaceLists
  <2> QED
    BY <2>1 DEF Lists
<1> HIDE DEF t
<1>3. KeepsPlaces(s, t)
  BY <1>1, <1>2 DEF KeepsPlaces
<1> QED
  BY <1>3 DEF t

\* The tables, the columns of one table keep their places unless one is deleted.
TablesKeepPlaces ==
    Cardinality(tables') >= Cardinality(tables) => KeepsPlaces(tableOrder, tableOrder')

ColumnsKeepPlaces(t) ==
    Len(columnOrder'[t]) >= Len(columnOrder[t]) => KeepsPlaces(columnOrder[t], columnOrder'[t])

\* Nothing moves in a list that stays as it is.
LEMMA NothingMoves ==
    /\ tableOrder' = tableOrder => TablesKeepPlaces
    /\ \A t : columnOrder'[t] = columnOrder[t] => ColumnsKeepPlaces(t)
BY DEF TablesKeepPlaces, ColumnsKeepPlaces, KeepsPlaces

\* No command on tables moves a table or a column.
LEMMA TableCommandsKeepPlaces ==
    ASSUME CatalogInv, TableCommand
    PROVE  TablesKeepPlaces /\ \A u \in tables \cap tables' : ColumnsKeepPlaces(u)
<1>1. /\ tableOrder \in Lists(Tables, tables) /\ tableOrder \in Seq(Tables)
      /\ columnOrder \in [tables -> Seq(Columns)]
  BY DEF CatalogInv, TablesOK, ColumnsOK, Lists
<1>2. IsFiniteSet(tables) /\ Cardinality(tables) \in Nat
  BY <1>1, ListsCount, FS_CardinalityType
<1>3. ASSUME NEW t \in Tables, CreateTable(t)
      PROVE  TablesKeepPlaces /\ \A u \in tables \cap tables' : ColumnsKeepPlaces(u)
  <2>1. TablesKeepPlaces
    BY <1>1, <1>3, AppendKeeps DEF CreateTable, TablesKeepPlaces
  <2>2. ASSUME NEW u \in tables PROVE columnOrder'[u] = columnOrder[u]
    BY <1>1, <1>3 DEF CreateTable, Put
  <2> QED
    BY <2>1, <2>2, NothingMoves
<1>4. ASSUME NEW t \in Tables, DeleteTable(t)
      PROVE  TablesKeepPlaces /\ \A u \in tables \cap tables' : ColumnsKeepPlaces(u)
  <2>1. TablesKeepPlaces
    <3>1. t \in tables /\ tables' = tables \ {t}
      BY <1>4 DEF DeleteTable
    <3>2. Cardinality(tables') = Cardinality(tables) - 1
      BY <1>2, <3>1, FS_RemoveElement
    <3> QED
      BY <1>2, <3>2 DEF TablesKeepPlaces
  <2>2. ASSUME NEW u \in tables, u # t PROVE columnOrder'[u] = columnOrder[u]
    <3>1. columnOrder' = Drop(columnOrder, t)
      BY <1>4 DEF DeleteTable, OrderDropped
    <3>2. u \in DOMAIN columnOrder \ {t}
      BY <1>1, <2>2
    <3> QED
      BY <3>1, <3>2 DEF Drop, Restrict
  <2>3. t \notin tables'
    BY <1>4 DEF DeleteTable
  <2> QED
    BY <2>1, <2>2, <2>3, NothingMoves
<1>5. ASSUME NEW t \in Tables, NEW u \in Tables, RenameTable(t, u)
      PROVE  TablesKeepPlaces /\ \A v \in tables \cap tables' : ColumnsKeepPlaces(v)
  <2>1. /\ t \in tables /\ u \notin tables /\ tableOrder' = ReplaceAll(tableOrder, t, u)
        /\ tables' = (tables \ {t}) \cup {u} /\ columnOrder' = MoveKey(columnOrder, t, u)
    BY <1>5 DEF RenameTable, MoveMember
  <2>2. TablesKeepPlaces
    BY <1>1, <2>1, ReplaceKeeps DEF TablesKeepPlaces
  <2>3. ASSUME NEW v \in tables \ {t} PROVE columnOrder'[v] = columnOrder[v]
    <3>1. IsMoved(tables, Seq(Columns), columnOrder, columnOrder', t, u)
      BY <1>1, <2>1, MoveKeyIs
    <3> QED
      BY <3>1 DEF IsMoved
  <2> QED
    BY <2>1, <2>2, <2>3, NothingMoves
<1>6. ASSUME NEW t \in Tables, NEW value \in BOOLEAN, SetTableDescription(t, value)
      PROVE  TablesKeepPlaces /\ \A u \in tables \cap tables' : ColumnsKeepPlaces(u)
  <2>1. UNCHANGED <<tableOrder, columnOrder>>
    BY <1>6 DEF SetTableDescription, columnVars
  <2> QED
    BY <2>1, NothingMoves
<1> QED
  BY <1>3, <1>4, <1>5, <1>6 DEF TableCommand

\* No command on columns moves a table or another column.
LEMMA ColumnCommandsKeepPlaces ==
    ASSUME CatalogInv, ColumnCommand
    PROVE  TablesKeepPlaces /\ \A u \in tables \cap tables' : ColumnsKeepPlaces(u)
<1>1. /\ columnOrder \in [tables -> Seq(Columns)]
      /\ \A t \in tables : columnOrder[t] \in Lists(Columns, ColumnsOf(columns, t))
      /\ DOMAIN columns \subseteq tables \X Columns
  BY DEF CatalogInv, ColumnsOK
<1>2. PICK t \in Tables, c \in Columns :
         \/ \E type \in Types : AddColumn(t, c, type) \/ ChangeColumnType(t, c, type)
         \/ DeleteColumn(t, c)
         \/ \E new \in Columns : RenameColumn(t, c, new)
         \/ \E sortBy \in Columns \cup {NoColumn} : SetColumnSortBy(t, c, sortBy)
  BY DEF ColumnCommand
<1>3. UNCHANGED <<tableOrder, tables>>
  BY <1>2 DEF AddColumn, ChangeColumnType, DeleteColumn, RenameColumn, SetColumnSortBy, tableVars
<1>4. ASSUME NEW s, t \in tables, columnOrder' = [columnOrder EXCEPT ![t] = s],
             Len(s) >= Len(columnOrder[t]) => KeepsPlaces(columnOrder[t], s)
      PROVE  \A u \in tables : ColumnsKeepPlaces(u)
  <2>1. columnOrder'[t] = s /\ \A u \in tables \ {t} : columnOrder'[u] = columnOrder[u]
    BY <1>1, <1>4
  <2>2. ColumnsKeepPlaces(t)
    BY <1>4, <2>1 DEF ColumnsKeepPlaces
  <2> QED
    BY <2>1, <2>2, NothingMoves
<1>5. ASSUME NEW type \in Types, AddColumn(t, c, type) PROVE \A u \in tables : ColumnsKeepPlaces(u)
  <2> DEFINE s == columnOrder[t]
             a == Append(s, c)
  <2>1. t \in tables /\ columnOrder' = [columnOrder EXCEPT ![t] = a]
    BY <1>1, <1>5 DEF AddColumn
  <2>2. s \in Seq(Columns)
    BY <1>1, <2>1
  <2> HIDE DEF s
  <2>3. KeepsPlaces(s, a)
    BY <2>2, AppendKeeps
  <2> HIDE DEF a
  <2> QED
    BY <1>4, <2>1, <2>3 DEF s
<1>6. ASSUME DeleteColumn(t, c) PROVE \A u \in tables : ColumnsKeepPlaces(u)
  <2> DEFINE s == columnOrder[t]
             a == Without(s, {c})
             E == ColumnsOf(columns, t)
  <2>1. columnOrder' = [columnOrder EXCEPT ![t] = a] /\ t \in tables /\ c \in E
    BY <1>1, <1>6 DEF DeleteColumn, ColumnsOf
  <2>2. s \in Lists(Columns, E)
    BY <1>1, <2>1
  <2> HIDE DEF s, E
  <2>3. a \in Lists(Columns, E \ {c})
    BY <2>2, WithoutLists
  <2> HIDE DEF a
  <2>4. /\ IsFiniteSet(E) /\ Cardinality(E) = Len(s) /\ Cardinality(E \ {c}) = Len(a)
        /\ Cardinality(E \ {c}) = Cardinality(E) - 1
    BY <2>1, <2>2, <2>3, ListsCount, FS_RemoveElement
  <2>5. Len(s) \in Nat
    BY <2>2 DEF Lists
  <2>6. ~(Len(a) >= Len(s))
    BY <2>4, <2>5
  <2> QED
    BY <1>4, <2>1, <2>6 DEF s
<1>7. ASSUME NEW new \in Columns, RenameColumn(t, c, new)
      PROVE  \A u \in tables : ColumnsKeepPlaces(u)
  <2> DEFINE s == columnOrder[t]
             a == ReplaceAll(s, c, new)
             E == ColumnsOf(columns, t)
  <2>1. /\ columnOrder' = [columnOrder EXCEPT ![t] = a] /\ t \in tables /\ c \in E
        /\ new \notin E
    BY <1>1, <1>7 DEF RenameColumn, OrderRenamed, ColumnsOf
  <2>2. s \in Lists(Columns, E)
    BY <1>1, <2>1
  <2> HIDE DEF s, E
  <2>3. KeepsPlaces(s, a)
    BY <2>1, <2>2, ReplaceKeeps
  <2> HIDE DEF a
  <2> QED
    BY <1>4, <2>1, <2>3 DEF s
<1>8. ASSUME UNCHANGED columnOrder PROVE \A u \in tables : ColumnsKeepPlaces(u)
  BY <1>8, NothingMoves
<1>9. \A u \in tables : ColumnsKeepPlaces(u)
  BY <1>2, <1>5, <1>6, <1>7, <1>8 DEF ChangeColumnType, SetColumnSortBy
<1> QED
  BY <1>3, <1>9, NothingMoves

\* No command moves a table or a column, unless it deletes one.
LEMMA CommandsKeepPlaces ==
    ASSUME CatalogInv, [Next]_vars
    PROVE  TablesKeepPlaces /\ \A u \in tables \cap tables' : ColumnsKeepPlaces(u)
<1>1. CASE UNCHANGED <<tableOrder, columnOrder>>
  BY <1>1, NothingMoves
<1>2. CASE MeasureCommand \/ RelationshipCommand \/ UNCHANGED vars
  <2>1. UNCHANGED <<tableOrder, columnOrder>>
    BY <1>2 DEF MeasureCommand, CreateMeasure, DeleteMeasure, RenameMeasure,
                UpdateMeasureExpression, SetMeasureFormatString, RelationshipCommand,
                CreateRelationship, DeleteRelationship, UpdateRelationship,
                tableVars, columnVars, vars
  <2> QED
    BY <1>1, <2>1
<1>3. CASE SaveAndLoad
  <2> DEFINE a == Current
             m == ToModel(a)
  <2>1. /\ IsCatalog(a) /\ a.tableOrder = tableOrder /\ a.columnOrder = columnOrder
    BY DEF CatalogInv, IsCatalog, Current
  <2>2. tableOrder' = FromModel(m).tableOrder /\ columnOrder' = FromModel(m).columnOrder
    BY <1>3 DEF SaveAndLoad, Become
  <2> HIDE DEF a
  <2>3. IsSaved(a, m)
    BY <2>1, SavedIsFile
  <2> HIDE DEF m
  <2>4. FromModel(m).tableOrder = a.tableOrder /\ FromModel(m).columnOrder = a.columnOrder
    BY <2>1, <2>3, TablesComeBack
  <2> QED
    BY <1>1, <2>1, <2>2, <2>4
<1> QED
  BY <1>2, <1>3, TableCommandsKeepPlaces, ColumnCommandsKeepPlaces DEF Next

\* Where the places are kept, so are the IDs of tables.
LEMMA TableIdKept ==
    ASSUME NEW a, IsCatalog(a), NEW b, IsCatalog(b), KeepsPlaces(a.tableOrder, b.tableOrder),
           NEW S, IsListing(a, {}, {}, S), NEW T, IsListing(b, {}, {}, T),
           NEW t \in a.tables, t \in b.tables
    PROVE  /\ TableId(S, t) = TableId(T, t)
           /\ TableId(S, t) \in DOMAIN S /\ TableId(S, t) \in DOMAIN T
           /\ S[TableId(S, t)].name = t  /\ T[TableId(S, t)].name = t
<1> DEFINE i == TableId(S, t)
<1>1. Tidy(S, a.tables, DOMAIN a.columns) /\ Tidy(T, b.tables, DOMAIN b.columns)
  BY ListingIsTidy
<1>2. i \in DOMAIN S /\ S[i].name = t
  BY <1>1, TableIdIs
<1>3. i \in DOMAIN a.tableOrder /\ a.tableOrder[i] = t
  BY <1>2, ListingIs
<1>4. t \in ToSet(b.tableOrder)
  BY DEF IsCatalog, TablesOK, Lists
<1> HIDE DEF i
<1>5. i \in DOMAIN b.tableOrder /\ b.tableOrder[i] = t
  BY <1>3, <1>4 DEF KeepsPlaces
<1>6. i \in DOMAIN T /\ T[i].name = t
  BY <1>5, ListingIs
<1>7. TableId(T, t) = i
  BY <1>1, <1>6, TableIdIs
<1> QED
  BY <1>2, <1>6, <1>7 DEF i

\* And those of columns.
LEMMA ColumnIdKept ==
    ASSUME NEW a, IsCatalog(a), NEW b, IsCatalog(b), KeepsPlaces(a.tableOrder, b.tableOrder),
           NEW S, IsListing(a, {}, {}, S), NEW T, IsListing(b, {}, {}, T),
           NEW k \in DOMAIN a.columns, k \in DOMAIN b.columns,
           KeepsPlaces(a.columnOrder[k[1]], b.columnOrder[k[1]])
    PROVE  ColumnId(S, k) = ColumnId(T, k)
<1> DEFINE t == k[1]
           n == k[2]
<1>1. Tidy(S, a.tables, DOMAIN a.columns) /\ Tidy(T, b.tables, DOMAIN b.columns)
  BY ListingIsTidy
<1>2. /\ t \in a.tables /\ t \in b.tables /\ n \in Columns /\ k = <<t, n>>
      /\ b.columnOrder[t] \in Lists(Columns, ColumnsOf(b.columns, t))
  BY DEF IsCatalog, ColumnsOK
<1>3. PICK p \in Places(S) : KeyAt(S, p) = k
  BY <1>1 DEF Tidy
<1> DEFINE i == p[1]
           j == p[2]
<1>4. i \in DOMAIN S /\ j \in DOMAIN S[i].columns /\ p = <<i, j>>
  BY PlacesAre
<1>5. S[i].name = t /\ S[i].columns[j].name = n
  BY <1>3 DEF KeyAt
<1>6. TableId(S, t) = i
  BY <1>1, <1>4, <1>5, TableIdIs
<1> HIDE DEF i, j, t, n
<1>7. i \in DOMAIN T /\ T[i].name = t
  BY <1>2, <1>6, TableIdKept
<1>8. j \in DOMAIN a.columnOrder[t] /\ a.columnOrder[t][j] = n
  BY <1>4, <1>5, ListedColumnsAre
<1>9. n \in ToSet(b.columnOrder[t])
  BY <1>2 DEF Lists, ColumnsOf
<1>10. j \in DOMAIN b.columnOrder[t] /\ b.columnOrder[t][j] = n
  BY <1>8, <1>9 DEF KeepsPlaces, t
<1>11. j \in DOMAIN T[i].columns /\ T[i].columns[j].name = n
  BY <1>7, <1>10, ListedColumnsAre
<1>12. p \in Places(T) /\ KeyAt(T, p) = k
  BY <1>2, <1>4, <1>7, <1>11, PlacesAre DEF KeyAt
<1>13. ColumnId(S, k) = ColumnIdAt(p)
  BY <1>1, <1>3, ColumnIdIs
<1>14. ColumnId(T, k) = ColumnIdAt(p)
  BY <1>1, <1>12, ColumnIdIs
<1> QED
  BY <1>13, <1>14

\* A column has the ID of its place in its table.
LEMMA PlaceOfId ==
    ASSUME NEW T, NEW names, NEW C, Tidy(T, names, C), NEW k \in C
    PROVE  LET place == <<TableId(T, k[1]), ColumnId(T, k) - TableId(T, k[1]) * Stride>> IN
           place \in Places(T) /\ KeyAt(T, place) = k
<1>1. PICK p \in Places(T) : KeyAt(T, p) = k
  BY DEF Tidy
<1> DEFINE i == p[1]
           j == p[2]
           t == TableId(T, k[1])
           id == ColumnId(T, k)
<1>2. i \in DOMAIN T /\ j \in DOMAIN T[i].columns /\ p = <<i, j>>
  BY PlacesAre
<1>3. T[i].name = k[1]
  BY <1>1 DEF KeyAt
<1>4. t = i
  BY <1>2, <1>3, TableIdIs
<1>5. id = i * Stride + j
  BY <1>1, ColumnIdIs DEF ColumnIdAt
<1>6. i \in Nat /\ j \in Nat
  <2>1. i \in 1..Len(T) /\ j \in 1..Len(T[i].columns)
    BY <1>2 DEF Tidy
  <2> HIDE DEF i, j
  <2> QED
    BY <2>1
<1> HIDE DEF i, j, t, id
<1>7. id - t * Stride = j
  BY <1>4, <1>5, <1>6 DEF Stride
<1>8. <<t, id - t * Stride>> = p
  BY <1>2, <1>4, <1>7
<1> QED
  BY <1>1, <1>8 DEF t, id
\* The three parts of the property for one command.
LEMMA ReadsAcrossCommand ==
    ASSUME CatalogInv, CatalogInv', [Next]_vars
    PROVE  IdsStay /\ OldMeasuresFit /\ OldRelationshipsFit
<1> DEFINE a == Current
           b == Current'
           S == ListTables(a, {}, {})
           T == ListTables(b, {}, {})
           M == ListMeasures(a, {})
           R == ListRelationships(a)
<1>1. /\ IsCatalog(a) /\ a.tables = tables /\ a.columns = columns
      /\ a.tableOrder = tableOrder /\ a.columnOrder = columnOrder
      /\ a.measureTables = measureTables /\ a.relationships = relationships
  BY DEF CatalogInv, IsCatalog, Current
<1>2. /\ IsCatalog(b) /\ b.tables = tables' /\ b.columns = columns'
      /\ b.tableOrder = tableOrder' /\ b.columnOrder = columnOrder'
  BY DEF CatalogInv, IsCatalog, Current
<1>3. TablesKeepPlaces /\ \A u \in tables \cap tables' : ColumnsKeepPlaces(u)
  BY CommandsKeepPlaces
<1> HIDE DEF a, b
<1>4. IsListing(a, {}, {}, S) /\ IsListing(b, {}, {}, T)
  BY <1>1, <1>2, ListTablesIs
<1>5. \A i \in DOMAIN M : M[i].table = measureTables[M[i].name]
  BY <1>1, ListMeasuresIs
<1> HIDE DEF S, T, M, R
<1>6. Tidy(T, tables', DOMAIN columns')
  BY <1>2, <1>4, ListingIsTidy
<1>7. ASSUME Cardinality(tables') >= Cardinality(tables), NEW t \in tables \cap tables'
      PROVE  /\ TableId(S, t) = TableId(T, t)
             /\ Len(columnOrder'[t]) >= Len(columnOrder[t]) =>
                   \A k \in DOMAIN columns \cap DOMAIN columns' :
                       k[1] = t => ColumnId(S, k) = ColumnId(T, k)
  <2>1. KeepsPlaces(a.tableOrder, b.tableOrder)
    BY <1>1, <1>2, <1>3, <1>7 DEF TablesKeepPlaces
  <2>2. TableId(S, t) = TableId(T, t)
    BY <1>1, <1>2, <1>4, <2>1, TableIdKept
  <2>3. ASSUME Len(columnOrder'[t]) >= Len(columnOrder[t]),
               NEW k \in DOMAIN columns \cap DOMAIN columns', k[1] = t
        PROVE  ColumnId(S, k) = ColumnId(T, k)
    <3>1. KeepsPlaces(a.columnOrder[k[1]], b.columnOrder[k[1]])
      BY <1>1, <1>2, <1>3, <2>3 DEF ColumnsKeepPlaces
    <3> QED
      BY <1>1, <1>2, <1>4, <2>1, <3>1, ColumnIdKept
  <2> QED
    BY <2>2, <2>3
<1>8. ASSUME NEW r \in SchemaMeasures(M, T), measureTables[r.name] \in tables'
      PROVE  r.table \in DOMAIN T /\ T[r.table].name = measureTables[r.name]
  <2>1. PICK i \in DOMAIN M : /\ r.name = M[i].name
                              /\ M[i].table \in tables' =>
                                    r.table \in DOMAIN T /\ T[r.table].name = M[i].table
    BY <1>6, MeasuresResolve
  <2> QED
    BY <1>5, <1>8, <2>1
<1>9. ASSUME NEW r \in SchemaRelationships(R, T),
             R[r.id].from \in DOMAIN columns \cap DOMAIN columns'
      PROVE  LET place == <<r.fromTable, r.fromColumn - r.fromTable * Stride>> IN
             place \in Places(T) /\ KeyAt(T, place) = R[r.id].from
  <2>1. PICK i \in DOMAIN R : /\ r.id = i /\ r.fromTable = TableId(T, R[i].from[1])
                              /\ r.fromColumn = ColumnId(T, R[i].from)
    BY SchemaRelationshipsAre
  <2> DEFINE k == R[i].from
             place == <<TableId(T, k[1]), ColumnId(T, k) - TableId(T, k[1]) * Stride>>
  <2>2. k \in DOMAIN columns'
    BY <1>9, <2>1
  <2> HIDE DEF k
  <2>3. place \in Places(T) /\ KeyAt(T, place) = k
    BY <1>6, <2>2, PlaceOfId
  <2> QED
    BY <2>1, <2>3 DEF k
<1>10. IdsStay
  BY <1>7 DEF IdsStay, S, T, a, b
<1>11. OldMeasuresFit
  BY <1>8 DEF OldMeasuresFit, M, T, a, b
<1>12. OldRelationshipsFit
  BY <1>9 DEF OldRelationshipsFit, R, T, a, b
<1> QED
  BY <1>10, <1>11, <1>12

\* SplitReadsMeanTheSame (resolve_tables, resolve_measures and
\* resolve_relationships in server/xmla/mod.rs, each under a lock of its own):
\* whichever command comes between two requests or between the lists of one, no
\* ID that is still given means another object than it did before.
THEOREM SplitReadsAlways == Spec => SplitReadsMeanTheSame
<1>1. CatalogInv /\ CatalogInv' /\ [Next]_vars
         => [<<tableOrder, columnOrder>>' # <<tableOrder, columnOrder>> =>
                IdsStay /\ OldMeasuresFit /\ OldRelationshipsFit]_vars
  BY ReadsAcrossCommand
<1> QED
  BY <1>1, CatalogInvAlways, PTL DEF Spec, SplitReadsMeanTheSame
===============================================================================
