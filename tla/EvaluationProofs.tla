--------------------------- MODULE EvaluationProofs ---------------------------
(***************************************************************************)
(* Theorems about Evaluation for any catalog, any rows, any arguments and  *)
(* any nesting of calls.                                                   *)
(***************************************************************************)
EXTENDS Evaluation, Recursions

\* What table_overrides can hold, and the contexts, as sets.  The frame that
\* stands for a table has no columns of another.
Frames == UNION {[cols : {c}, rows : SUBSET [c -> Values]] : c \in SUBSET Keys}

Overrides == {o \in [Tables -> Frames] : \A t \in Tables : o[t].cols \subseteq ColumnsOf[t]}

Contexts == [filters   : [Keys -> Seq(Predicate)],
             direct    : SUBSET Keys,
             derived   : SUBSET Keys,
             overrides : Overrides,
             rels      : [Rel -> RelMode]]

\* A context is the record NewContext() builds, field by field.
LEMMA ContextIsOne == ASSUME NEW fc \in Contexts PROVE IsContext(fc)
<1>1. fc \in [filters   : [Keys -> Seq(Predicate)],
              direct    : SUBSET Keys,
              derived   : SUBSET Keys,
              overrides : {fc.overrides},
              rels      : [Rel -> RelMode]]
  BY DEF Contexts
<1>2. ASSUME NEW t \in Tables PROVE IsFrame(fc.overrides[t])
  <2>1. fc.overrides[t] \in Frames
    BY DEF Contexts, Overrides
  <2>2. PICK c \in SUBSET Keys :
            fc.overrides[t] \in [cols : {c}, rows : SUBSET [c -> Values]]
    BY <2>1 DEF Frames
  <2> QED
    BY <2>2 DEF IsFrame
<1>3. fc.overrides = [t \in Tables |-> fc.overrides[t]]
  BY DEF Contexts, Overrides
<1> QED
  BY <1>1, <1>2, <1>3 DEF IsContext

\* A frame of columns and of rows over them.
LEMMA FrameIsOne ==
    ASSUME NEW c \in SUBSET Keys, NEW rows \in SUBSET [c -> Values]
    PROVE  [cols |-> c, rows |-> rows] \in Frames
BY DEF Frames

\* The empty context, which every evaluation starts from, is one.
LEMMA NewContextIsOne == NewContext \in Contexts
<1>1. NoOverride \in Frames
  BY FrameIsOne DEF NoOverride
<1> QED
  BY <1>1 DEF NewContext, Contexts, Overrides, NoOverride, RelMode

\* A frame is a set of columns and rows over them.
LEMMA FrameFields ==
    ASSUME NEW f \in Frames
    PROVE  f.cols \in SUBSET Keys /\ f.rows \in SUBSET [f.cols -> Values]
BY DEF Frames

\* An installed override has no column of another table.
LEMMA OverrideFields ==
    ASSUME NEW fc \in Contexts, NEW t \in Tables
    PROVE  fc.overrides[t] \in Frames /\ fc.overrides[t].cols \subseteq ColumnsOf[t]
BY DEF Contexts, Overrides

\* The rows of a table and the relationships of the catalog.
LEMMA RowsAreTyped == ASSUME NEW t \in Tables PROVE Rows[t] \subseteq [ColumnsOf[t] -> Values]
BY FilterAssumption

\* The relationships of the model join columns it has.
LEMMA RelationshipsAreTyped ==
    ASSUME NEW i \in Rel
    PROVE  /\ Relationships[i].from \in Keys /\ Relationships[i].to \in Keys
           /\ Relationships[i].active \in BOOLEAN
           /\ Relationships[i].bidirectional \in BOOLEAN
<1> DEFINE R == [from : Keys, to : Keys, active : BOOLEAN, bidirectional : BOOLEAN]
<1>1. Relationships \in Seq(R)
  BY FilterAssumption
<1> HIDE DEF R
<1>2. Relationships[i] \in R
  BY <1>1 DEF Rel
<1> QED
  BY <1>2 DEF R

------------------------------------------------------------------------------
(* The operators on contexts give contexts.                                 *)

\* Emptying the filters of some columns.
LEMMA Emptied ==
    ASSUME NEW fc \in Contexts, NEW gone, NEW D \in SUBSET Keys
    PROVE  [fc EXCEPT !.filters = [k \in Keys |-> IF k \in gone THEN <<>> ELSE @[k]],
                      !.derived = D] \in Contexts
<1> DEFINE F == [k \in Keys |-> IF k \in gone THEN <<>> ELSE fc.filters[k]]
<1>1. F \in [Keys -> Seq(Predicate)]
  <2>1. ASSUME NEW k \in Keys PROVE fc.filters[k] \in Seq(Predicate) /\ <<>> \in Seq(Predicate)
    BY DEF Contexts
  <2> QED
    BY <2>1
<1> HIDE DEF F
<1>2. [fc EXCEPT !.filters = F, !.derived = D] \in Contexts
  BY <1>1 DEF Contexts
<1> QED
  BY <1>2 DEF F

\* Dropping what propagation derived leaves a context.
LEMMA StripDerivedIsOne == ASSUME NEW fc \in Contexts PROVE StripDerived(fc) \in Contexts
BY Emptied DEF StripDerived

\* A filter that propagation makes from join values is a predicate.
LEMMA PredicateIn == ASSUME NEW vals \in SUBSET Values PROVE In(vals) \in Predicate
BY DEF In, Predicate

\* Replacing the filters of one column.
LEMMA WithFilter ==
    ASSUME NEW fc \in Contexts, NEW k \in Keys, NEW preds \in Seq(Predicate)
    PROVE  [fc EXCEPT !.filters[k] = preds] \in Contexts
BY DEF Contexts

\* Installing a frame over a table's own columns leaves a context.
LEMMA WithOverride ==
    ASSUME NEW fc \in Contexts, NEW t \in Tables, NEW f \in Frames,
           f.cols \subseteq ColumnsOf[t]
    PROVE  [fc EXCEPT !.overrides[t] = f] \in Contexts
BY DEF Contexts, Overrides

\* So does marking columns as derived,
LEMMA WithDerived ==
    ASSUME NEW fc \in Contexts, NEW D \in SUBSET Keys
    PROVE  [fc EXCEPT !.derived = D] \in Contexts
BY DEF Contexts

\* and so does setting the modes of relationships.
LEMMA WithRels ==
    ASSUME NEW fc \in Contexts, NEW R \in [Rel -> RelMode]
    PROVE  [fc EXCEPT !.rels = R] \in Contexts
BY DEF Contexts

\* A merge into a column.
LEMMA MergedIsOne ==
    ASSUME NEW fc \in Contexts, NEW k \in Keys, NEW vals \in SUBSET Values
    PROVE  Merged(fc, k, vals).fc \in Contexts /\ Merged(fc, k, vals).changed \in BOOLEAN
<1> DEFINE preds == fc.filters[k]
           i == CHOOSE j \in InAt(preds) : TRUE
           cut == [preds EXCEPT ![i] = In(Intersected(preds[i].vals, vals))]
<1>1. preds \in Seq(Predicate)
  BY DEF Contexts
<1>2. Append(preds, In(vals)) \in Seq(Predicate)
  BY <1>1, PredicateIn
<1>3. CASE InAt(preds) # {}
  <2>1. i \in DOMAIN preds
    BY <1>3 DEF InAt
  <2>2. preds[i].vals \in SUBSET Values
    <3> HIDE DEF i, preds
    <3>1. preds[i] \in Predicate
      BY <1>1, <2>1
    <3> QED
      BY <3>1 DEF Predicate
  <2>3. In(Intersected(preds[i].vals, vals)) \in Predicate
    BY <2>2, PredicateIn DEF Intersected
  <2>4. cut \in Seq(Predicate)
    <3> HIDE DEF i
    <3> QED
      BY <1>1, <2>1, <2>3
  <2> HIDE DEF cut
  <2>5. [fc EXCEPT !.derived = @ \cup {k}, !.filters[k] = cut] \in Contexts
    BY <2>4 DEF Contexts
  <2> QED
    BY <1>3, <2>5 DEF Merged, cut
<1>4. CASE InAt(preds) = {}
  <2>1. [fc EXCEPT !.derived = @ \cup {k}, !.filters[k] = Append(@, In(vals))]
           \in Contexts
    BY <1>2 DEF Contexts
  <2> QED
    BY <1>4, <2>1 DEF Merged
<1> QED
  BY <1>3, <1>4

------------------------------------------------------------------------------
(* Reads and their cache.                                                   *)

\* Every entry of the cache is what some context made it.
CacheOK(c) ==
    \A f \in DOMAIN c : \E t \in Tables, fc \in Contexts :
        f = Fingerprint(t, fc) /\ c[f] = Filtered(t, fc)

\* A hit gives the rows of a context with the same fingerprint.
LEMMA HitIsARead ==
    ASSUME NEW c, CacheOK(c), NEW t \in Tables, NEW fc,
           Fingerprint(t, fc) \in DOMAIN c
    PROVE  \E d \in Contexts : /\ Fingerprint(t, d) = Fingerprint(t, fc)
                              /\ c[Fingerprint(t, fc)] = Filtered(t, d)
<1>1. PICK u \in Tables, d \in Contexts :
          Fingerprint(t, fc) = Fingerprint(u, d) /\ c[Fingerprint(t, fc)] = Filtered(u, d)
  BY DEF CacheOK
<1>2. u = t
  BY <1>1 DEF Fingerprint
<1> QED
  BY <1>1, <1>2

\* What a read stores under its fingerprint is what it read.
LEMMA CachingIsOK ==
    ASSUME NEW c, CacheOK(c), NEW t \in Tables, NEW fc \in Contexts
    PROVE  CacheOK(Caching(t, fc, c))
<1> DEFINE fp == Fingerprint(t, fc)
           grown == [f \in DOMAIN c \cup {fp} |->
                       IF f \in DOMAIN c THEN c[f] ELSE Filtered(t, fc)]
<1>1. CASE Overridden(t, fc) \/ fp \in DOMAIN c
  BY <1>1 DEF Caching
<1>2. CASE ~(Overridden(t, fc) \/ fp \in DOMAIN c)
  <2>1. Caching(t, fc, c) = grown
    BY <1>2 DEF Caching
  <2>2. ASSUME NEW f \in DOMAIN grown
        PROVE  \E u \in Tables, d \in Contexts :
                   f = Fingerprint(u, d) /\ grown[f] = Filtered(u, d)
    <3>1. CASE f \in DOMAIN c
      <4>1. grown[f] = c[f]
        BY <3>1
      <4> QED
        BY <3>1, <4>1 DEF CacheOK
    <3>2. CASE f \notin DOMAIN c
      <4>1. f = fp /\ grown[f] = Filtered(t, fc)
        BY <3>2
      <4> QED
        BY <4>1
    <3> QED
      BY <3>1, <3>2
  <2> HIDE DEF grown
  <2> QED
    BY <2>1, <2>2 DEF CacheOK
<1> QED
  BY <1>1, <1>2

\* Filtering by masks yields rows of the table.
LEMMA FilteredRows ==
    ASSUME NEW t \in Tables, NEW fc
    PROVE  Filtered(t, fc) \in SUBSET [ColumnsOf[t] -> Values]
BY RowsAreTyped DEF Filtered

\* The columns of a table are columns of the model.
LEMMA ColumnsAreKeys ==
    ASSUME NEW t \in Tables PROVE ColumnsOf[t] \in SUBSET Keys
BY DEF ColumnsOf

\* A widened override has the columns of its table.
LEMMA WidenedRows ==
    ASSUME NEW t \in Tables, NEW f \in Frames, f.cols \subseteq ColumnsOf[t]
    PROVE  Widened(t, f) \in SUBSET [ColumnsOf[t] -> Values]
<1>1. f.rows \in SUBSET [f.cols -> Values]
  BY FrameFields
<1>2. CASE ColumnsOf[t] \subseteq f.cols
  <2>1. f.cols = ColumnsOf[t]
    BY <1>2
  <2> QED
    BY <1>1, <1>2, <2>1 DEF Widened
<1>3. CASE ~(ColumnsOf[t] \subseteq f.cols)
  <2> DEFINE partners(r) == {full \in Rows[t] : \A c \in f.cols : full[c] = r[c]}
             padded(r) == [c \in ColumnsOf[t] |-> IF c \in f.cols THEN r[c] ELSE Null]
             from(r) == IF partners(r) # {} THEN partners(r) ELSE {padded(r)}
  <2>1. ASSUME NEW r \in f.rows PROVE from(r) \in SUBSET [ColumnsOf[t] -> Values]
    <3>1. partners(r) \in SUBSET [ColumnsOf[t] -> Values]
      BY RowsAreTyped
    <3>2. padded(r) \in [ColumnsOf[t] -> Values]
      BY <1>1, FilterAssumption
    <3> QED
      BY <3>1, <3>2
  <2>2. Widened(t, f) = UNION {from(r) : r \in f.rows}
    BY <1>3 DEF Widened
  <2> HIDE DEF from
  <2> QED
    BY <2>1, <2>2
<1> QED
  BY <1>2, <1>3

\* Reading a table, from the cache, an override or its rows, yields rows of it.
LEMMA FilteredFrameRows ==
    ASSUME NEW c, CacheOK(c), NEW t \in Tables, NEW fc \in Contexts
    PROVE  FilteredFrame(t, fc, c) \in SUBSET [ColumnsOf[t] -> Values]
<1>1. CASE Overridden(t, fc)
  BY <1>1, WidenedRows, OverrideFields DEF FilteredFrame
<1>2. CASE ~Overridden(t, fc) /\ Fingerprint(t, fc) \in DOMAIN c
  BY <1>2, HitIsARead, FilteredRows DEF FilteredFrame
<1>3. CASE ~Overridden(t, fc) /\ Fingerprint(t, fc) \notin DOMAIN c
  BY <1>3, FilteredRows DEF FilteredFrame
<1> QED
  BY <1>1, <1>2, <1>3

------------------------------------------------------------------------------
(* One relationship of an expansion.                                        *)

\* The state an expansion carries from relationship to relationship.
IsExpansion(e) ==
    /\ e = [fc |-> e.fc, cache |-> e.cache, changed |-> e.changed]
    /\ e.fc \in Contexts /\ CacheOK(e.cache) /\ e.changed \in BOOLEAN

\* d is e but for the filters and the marks of the columns in cols.
ChangesOnly(cols, e, d) ==
    /\ \A k \in Keys \ cols : d.fc.filters[k] = e.fc.filters[k]
    /\ d.fc.overrides = e.fc.overrides /\ d.fc.rels = e.fc.rels
    /\ d.fc.derived \subseteq e.fc.derived \cup cols

\* A merge touches one column.
LEMMA MergedChanges ==
    ASSUME NEW fc \in Contexts, NEW k \in Keys, NEW vals
    PROVE  /\ \A j \in Keys \ {k} : Merged(fc, k, vals).fc.filters[j] = fc.filters[j]
           /\ Merged(fc, k, vals).fc.overrides = fc.overrides
           /\ Merged(fc, k, vals).fc.rels = fc.rels
           /\ Merged(fc, k, vals).fc.derived = fc.derived \cup {k}
<1> DEFINE preds == fc.filters[k]
           i == CHOOSE j \in InAt(preds) : TRUE
           cut == [preds EXCEPT ![i] = In(Intersected(preds[i].vals, vals))]
           new == IF InAt(preds) = {} THEN Append(preds, In(vals)) ELSE cut
<1>1. Merged(fc, k, vals).fc = [fc EXCEPT !.derived = @ \cup {k}, !.filters[k] = new]
  BY DEF Merged
<1> HIDE DEF new
<1> QED
  BY <1>1 DEF Contexts

\* Propagating over one direction of a relationship touches only the far
\* column, and nothing at all when the direction is not wanted.
LEMMA PropagatedIsOne ==
    ASSUME NEW near \in Keys, NEW far \in Keys, NEW wanted \in BOOLEAN,
           NEW e, IsExpansion(e)
    PROVE  /\ IsExpansion(Propagated(near, far, wanted, e))
           /\ ChangesOnly({far}, e, Propagated(near, far, wanted, e))
           /\ ~wanted => Propagated(near, far, wanted, e) = e
<1> DEFINE vals == JoinValues(near, e.fc, e.cache)
           m == Merged(e.fc, far, vals)
           d == Propagated(near, far, wanted, e)
<1>1. CASE ~wanted
  BY <1>1 DEF Propagated, ChangesOnly
<1>2. CASE wanted
  <2>1. TableOf[near] \in Tables /\ near \in ColumnsOf[TableOf[near]]
    BY DEF Tables, ColumnsOf
  <2>2. vals \in SUBSET Values
    <3>1. FilteredFrame(TableOf[near], e.fc, e.cache)
             \in SUBSET [ColumnsOf[TableOf[near]] -> Values]
      BY <2>1, FilteredFrameRows DEF IsExpansion
    <3> QED
      BY <2>1, <3>1 DEF JoinValues
  <2> HIDE DEF vals
  <2>3. m.fc \in Contexts /\ m.changed \in BOOLEAN
    BY <2>2, MergedIsOne DEF IsExpansion
  <2>4. d = [fc |-> m.fc, cache |-> Caching(TableOf[near], e.fc, e.cache),
             changed |-> e.changed \/ m.changed]
    BY <1>2 DEF Propagated, Flowed, vals
  <2>5. CacheOK(Caching(TableOf[near], e.fc, e.cache))
    BY <2>1, CachingIsOK DEF IsExpansion
  <2>6. IsExpansion(d)
    BY <2>3, <2>4, <2>5 DEF IsExpansion
  <2>7. ChangesOnly({far}, e, d)
    BY <2>4, MergedChanges DEF ChangesOnly, IsExpansion
  <2> QED
    BY <1>2, <2>6, <2>7
<1> QED
  BY <1>1, <1>2

\* Both directions of one relationship: only its join columns change, and
\* nothing does if it is disabled.
LEMMA FlowIsOne ==
    ASSUME NEW i \in Rel, NEW e, IsExpansion(e)
    PROVE  LET d == FlowReverse(i, FlowForward(i, e)) IN
           /\ IsExpansion(d)
           /\ ChangesOnly({Relationships[i].from, Relationships[i].to}, e, d)
           /\ e.fc.rels[i] = "disabled" => d = e
<1> DEFINE f == FlowForward(i, e)
           d == FlowReverse(i, f)
           from == Relationships[i].from
           to == Relationships[i].to
<1>1. from \in Keys /\ to \in Keys
  BY RelationshipsAreTyped
<1>2. /\ IsExpansion(f) /\ ChangesOnly({from}, e, f)
      /\ e.fc.rels[i] = "disabled" => f = e
  <2> DEFINE wanted == /\ Followed(i, e.fc)
                       /\ HasFilters(TableOf[to], e.fc) \/ Overridden(TableOf[to], e.fc)
  <2>1. wanted \in BOOLEAN
    OBVIOUS
  <2>2. f = Propagated(to, from, wanted, e)
    BY DEF FlowForward
  <2>3. e.fc.rels[i] = "disabled" => ~wanted
    BY DEF Followed
  <2> HIDE DEF wanted, f
  <2> QED
    BY <1>1, <2>1, <2>2, <2>3, PropagatedIsOne
<1>3. /\ IsExpansion(d) /\ ChangesOnly({to}, f, d)
      /\ f.fc.rels[i] = "disabled" => d = f
  <2> DEFINE wanted == BothWays(i, f.fc) /\ HasFilters(TableOf[from], f.fc)
  <2>1. wanted \in BOOLEAN
    BY DEF HasFilters
  <2>2. d = Propagated(from, to, wanted, f)
    BY DEF FlowReverse
  <2>3. f.fc.rels[i] = "disabled" => ~wanted
    BY DEF BothWays
  <2> HIDE DEF wanted, d, f
  <2> QED
    BY <1>1, <1>2, <2>1, <2>2, <2>3, PropagatedIsOne
<1> HIDE DEF f, d
<1>4. ChangesOnly({from, to}, e, d)
  BY <1>2, <1>3 DEF ChangesOnly
<1> QED
  BY <1>2, <1>3, <1>4 DEF f, d

------------------------------------------------------------------------------
(* The arguments of CALCULATE.                                              *)

TableKinds == {"filter", "keepTable"}

ContextKinds == {"all", "allColumn", "allExcept", "allSelected", "allSelectedColumn",
                 "treatAs", "useRelationship", "crossFilter", "keep"}

\* What a modifier names.
LEMMA ModifierFields ==
    ASSUME NEW m \in Modifiers
    PROVE  /\ m.kind \in ContextKinds \cup TableKinds
           /\ m.kind \in {"all", "allSelected", "allExcept"} => m.table \in Tables
           /\ m.kind \in {"allColumn", "allSelectedColumn", "treatAs", "keep"} => m.key \in Keys
           /\ m.kind = "treatAs" => m.vals \in SUBSET Values
           /\ m.kind \in {"useRelationship", "crossFilter"} => m.rel \in Rel
           /\ m.kind = "crossFilter" => m.direction \in {"disabled", "uni", "bi"}
           /\ m.kind = "keep" => m.pred \in Predicate
           /\ m.kind \in TableKinds => m.of \in TableExpr
<1>1. m \in ModifierKinds
  BY EvaluationAssumption
<1> QED
  BY <1>1 DEF ModifierKinds, ContextKinds, TableKinds

\* Cutting relationships and emptying columns.
LEMMA RemovalsAreOnes ==
    ASSUME NEW fc \in Contexts, NEW t \in Tables, NEW gone, NEW cut
    PROVE  /\ WithoutColumns(gone, fc) \in Contexts
           /\ Disabling(cut, fc) \in Contexts
           /\ RemoveTableExcept(t, gone, fc) \in Contexts
<1>1. \A g : WithoutColumns(g, fc) \in Contexts
  <2>1. ASSUME NEW g PROVE WithoutColumns(g, fc) \in Contexts
    <3>1. fc.derived \ g \in SUBSET Keys
      BY DEF Contexts
    <3> QED
      BY <3>1, Emptied DEF WithoutColumns
  <2> QED
    BY <2>1
<1>2. Disabling(cut, fc) \in Contexts
  <2>1. [i \in Rel |-> IF i \in cut THEN "disabled" ELSE fc.rels[i]] \in [Rel -> RelMode]
    BY DEF Contexts, RelMode
  <2> QED
    BY <2>1, WithRels DEF Disabling
<1>3. RemoveTableExcept(t, gone, fc) \in Contexts
  <2>1. NoOverride \in Frames /\ NoOverride.cols \subseteq ColumnsOf[t]
    BY FrameIsOne DEF NoOverride
  <2> QED
    BY <1>1, <2>1, WithOverride DEF RemoveTableExcept
<1> QED
  BY <1>1, <1>2, <1>3

\* Every modifier that only changes a context leaves one.
LEMMA ChangedIsOne ==
    ASSUME NEW m \in Modifiers, m.kind \in ContextKinds,
           NEW outer \in Contexts, NEW fc \in Contexts
    PROVE  Changed(m, outer, fc) \in Contexts
<1>1. CASE m.kind = "all"
  <2>1. RemoveTable(m.table, fc) \in Contexts
    BY <1>1, ModifierFields, RemovalsAreOnes DEF RemoveTable
  <2> QED
    BY <1>1, <2>1, ModifierFields, RemovalsAreOnes DEF Changed, AllTable
<1>2. CASE m.kind = "allColumn"
  <2>1. TableOf[m.key] \in Tables
    BY <1>2, ModifierFields DEF Tables
  <2>2. WithoutColumns({m.key}, fc) \in Contexts
    BY <2>1, RemovalsAreOnes
  <2> QED
    BY <1>2, <2>1, <2>2, RemovalsAreOnes DEF Changed, AllColumn
<1>3. CASE m.kind = "allExcept"
  BY <1>3, ModifierFields, RemovalsAreOnes DEF Changed, AllExcept
<1>4. CASE m.kind = "allSelected"
  <2> DEFINE base == RemoveTable(m.table, fc)
             F == [k \in Keys |-> IF k \in ColumnsOf[m.table] THEN outer.filters[k]
                                  ELSE base.filters[k]]
  <2>1. base \in Contexts /\ m.table \in Tables
    BY <1>4, ModifierFields, RemovalsAreOnes DEF RemoveTable
  <2> HIDE DEF base
  <2>2. F \in [Keys -> Seq(Predicate)]
    BY <2>1 DEF Contexts
  <2>3. outer.overrides[m.table] \in Frames
        /\ outer.overrides[m.table].cols \subseteq ColumnsOf[m.table]
    BY <2>1, OverrideFields
  <2> HIDE DEF F
  <2>4. [base EXCEPT !.filters = F] \in Contexts
    BY <2>1, <2>2 DEF Contexts
  <2>5. [base EXCEPT !.filters = F, !.overrides[m.table] = outer.overrides[m.table]]
           = [[base EXCEPT !.filters = F] EXCEPT !.overrides[m.table] = outer.overrides[m.table]]
    OBVIOUS
  <2> QED
    BY <1>4, <2>1, <2>3, <2>4, <2>5, WithOverride DEF Changed, AllSelectedTable, base, F
<1>5. CASE m.kind = "allSelectedColumn"
  <2>1. outer.filters[m.key] \in Seq(Predicate) /\ m.key \in Keys
    BY <1>5, ModifierFields DEF Contexts
  <2> QED
    BY <1>5, <2>1, WithFilter DEF Changed, AllSelectedColumn
<1>6. CASE m.kind = "treatAs"
  <2>1. Append(fc.filters[m.key], In(m.vals)) \in Seq(Predicate) /\ m.key \in Keys
    BY <1>6, ModifierFields, PredicateIn DEF Contexts
  <2> QED
    BY <1>6, <2>1, WithFilter DEF Changed, TreatAs
<1>7. CASE m.kind = "useRelationship"
  <2> DEFINE rivals == {j \in Rel \ {m.rel} : /\ Ends(j) \subseteq Ends(m.rel)
                                             /\ Relationships[j].active
                                             /\ fc.rels[j] = "default"}
             R == [j \in Rel |->
                     CASE j = m.rel    -> IF Relationships[m.rel].bidirectional THEN "bi" ELSE "uni"
                       [] j \in rivals -> "disabled"
                       [] OTHER        -> fc.rels[j]]
  <2>1. ASSUME NEW j \in Rel PROVE R[j] \in RelMode
    <3>1. fc.rels[j] \in RelMode
      BY DEF Contexts
    <3>2. R[j] \in {"bi", "uni", "disabled", fc.rels[j]}
      <4> HIDE DEF rivals
      <4> QED
        OBVIOUS
    <3> QED
      BY <3>1, <3>2 DEF RelMode
  <2>2. R \in [Rel -> RelMode]
    BY <2>1
  <2>3. Changed(m, outer, fc) = [fc EXCEPT !.rels = R]
    BY <1>7 DEF Changed, UseRelationship
  <2> HIDE DEF R
  <2> QED
    BY <2>2, <2>3, WithRels
<1>8. CASE m.kind = "crossFilter"
  <2>1. [fc.rels EXCEPT ![m.rel] = m.direction] \in [Rel -> RelMode]
    BY <1>8, ModifierFields DEF Contexts, RelMode
  <2> QED
    BY <1>8, <2>1, WithRels DEF Changed, CrossFilter
<1>9. CASE m.kind = "keep"
  <2>1. Append(fc.filters[m.key], m.pred) \in Seq(Predicate) /\ m.key \in Keys
    BY <1>9, ModifierFields DEF Contexts
  <2> QED
    BY <1>9, <2>1 DEF Changed, Keep, Contexts
<1> QED
  BY <1>1, <1>2, <1>3, <1>4, <1>5, <1>6, <1>7, <1>8, <1>9 DEF ContextKinds

\* FILTER's frame has columns of its table only.
LEMMA FrameOfRows ==
    ASSUME NEW e \in TableExpr, NEW rows \in SUBSET [ColumnsOf[TableOf[e.key]] -> Values]
    PROVE  /\ TableOf[e.key] \in Tables
           /\ Frame(e, rows) \in Frames
           /\ Frame(e, rows).cols \subseteq ColumnsOf[TableOf[e.key]]
<1> DEFINE t == TableOf[e.key]
           cols == IF e.source = "column" THEN {e.key} ELSE ColumnsOf[t]
           kept == {[c \in cols |-> r[c]] : r \in {q \in rows : q[e.key] \in e.vals}}
<1>1. e.key \in Keys
  BY DEF TableExpr
<1>2. t \in Tables /\ e.key \in ColumnsOf[t]
  BY <1>1 DEF Tables, ColumnsOf
<1>3. cols \in SUBSET ColumnsOf[t] /\ cols \in SUBSET Keys
  BY <1>2, ColumnsAreKeys
<1> HIDE DEF cols
<1>4. kept \in SUBSET [cols -> Values]
  BY <1>3
<1>5. Frame(e, rows) = [cols |-> cols, rows |-> kept]
  BY DEF Frame, cols
<1> HIDE DEF kept, t
<1>6. Frame(e, rows).cols = cols
  BY <1>5
<1> QED
  BY <1>2, <1>3, <1>4, <1>5, <1>6, FrameIsOne DEF t

\* The context a table argument leaves.
Tabled(m, frame, fc, c) ==
    LET t == TableOf[m.of.key] IN
    IF m.kind = "filter" THEN Override(t, frame, fc) ELSE KeepFrame(t, frame, fc, c)

\* So does every modifier that first reads a table.
LEMMA TabledIsOne ==
    ASSUME NEW m \in Modifiers, m.kind \in TableKinds, NEW fc \in Contexts,
           NEW c, CacheOK(c), NEW f \in Frames,
           f.cols \subseteq ColumnsOf[TableOf[m.of.key]]
    PROVE  Tabled(m, f, fc, c) \in Contexts
<1> DEFINE t == TableOf[m.of.key]
           rows == {r \in FilteredFrame(t, fc, c) :
                      \E kept \in f.rows : \A k \in f.cols : r[k] = kept[k] /\ r[k] # Null}
           g == [cols |-> ColumnsOf[t], rows |-> rows]
<1>1. t \in Tables
  <2>1. m.of.key \in Keys
    BY ModifierFields DEF TableExpr
  <2> QED
    BY <2>1 DEF Tables
<1>2. Override(t, f, fc) \in Contexts
  BY <1>1, WithOverride DEF Override
<1>3. rows \in SUBSET [ColumnsOf[t] -> Values]
  BY <1>1, FilteredFrameRows
<1> HIDE DEF rows
<1>4. g \in Frames
  BY <1>1, <1>3, ColumnsAreKeys, FrameIsOne
<1>5. g.cols \subseteq ColumnsOf[t]
  OBVIOUS
<1>6. KeepFrame(t, f, fc, c) = Override(t, g, fc)
  BY DEF KeepFrame, rows
<1> HIDE DEF g, t
<1>7. Override(t, g, fc) \in Contexts
  BY <1>1, <1>4, <1>5, WithOverride DEF Override, t
<1> QED
  BY <1>2, <1>6, <1>7 DEF Tabled, t

\* A predicate argument.
LEMMA ReplaceIsOne ==
    ASSUME NEW p \in Predicates, NEW fc \in Contexts, NEW done
    PROVE  /\ p.key \in Keys
           /\ Replace(p.key, p.pred, done, fc) \in Contexts
<1>1. p.key \in Keys /\ p.pred \in Predicate
  BY EvaluationAssumption
<1> DEFINE new == IF p.key \in done THEN Append(fc.filters[p.key], p.pred) ELSE <<p.pred>>
<1>2. new \in Seq(Predicate)
  BY <1>1 DEF Contexts
<1> DEFINE set == [fc EXCEPT !.filters[p.key] = new]
<1>3. set \in Contexts
  BY <1>1, <1>2, WithFilter
<1>4. Replace(p.key, p.pred, done, fc) = [set EXCEPT !.direct = fc.direct \cup {p.key}]
  BY DEF Replace
<1> HIDE DEF set
<1>5. fc.direct \cup {p.key} \in SUBSET Keys
  BY <1>1 DEF Contexts
<1> QED
  BY <1>1, <1>3, <1>4, <1>5 DEF Contexts

------------------------------------------------------------------------------
(* Types.                                                                   *)

Calls == [fc : Contexts, phase : {"modifiers", "predicates", "body"},
          replaced : SUBSET Keys, said : [Keys -> Seq(Predicate)],
          shown : SUBSET Tables]

\* What an expansion is for.
Thens == [kind : {"body"}]
         \cup [kind : {"argument"}, of : {m \in Modifiers : m.kind \in TableKinds}]
         \cup [kind : {"column", "table"}, table : Tables]

IsJob(j) == j \in [fc : Contexts, rel : 1..(Len(Relationships) + 1),
                   changed : BOOLEAN, then : Thens, left : {j.left}]

\* Types; the query itself is no CALCULATE call, so every argument has a caller;
\* nothing is expanded while a body has a result in hand.
EvalInv ==
    /\ stack \in Seq(Calls) /\ stack # <<>> /\ stack[1].phase = "body"
    /\ job # NoJob => IsJob(job) /\ result = NoResult
    /\ CacheOK(cache)
    /\ calls \in 0..MaxCalls /\ args \in 0..MaxArgs

\* There is always a call on top, and a caller below it while it is set up.
LEMMA TopIsOne ==
    ASSUME EvalInv
    PROVE  /\ Len(stack) \in Nat /\ Len(stack) >= 1 /\ Top \in Calls
           /\ Top.phase # "body" => Len(stack) > 1 /\ Caller \in Calls
<1>1. stack \in Seq(Calls) /\ stack # <<>>
  BY DEF EvalInv
<1>2. Len(stack) \in Nat /\ Len(stack) >= 1
  BY <1>1
<1>3. Top \in Calls
  BY <1>1, <1>2 DEF Top
<1>4. Top.phase # "body" => Len(stack) > 1
  BY <1>2 DEF Top, EvalInv
<1>5. Len(stack) > 1 => Caller \in Calls
  BY <1>1, <1>2 DEF Caller
<1> QED
  BY <1>2, <1>3, <1>4, <1>5

\* The context a call would have if only what was asked for had been done.
LEMMA AskedIsOne == ASSUME NEW f \in Calls PROVE Asked(f) \in Contexts
BY DEF Asked, Calls, Contexts

\* Replacing the innermost call.
LEMMA SetTopIsOne ==
    ASSUME EvalInv, NEW f \in Calls, SetTop(f), Len(stack) > 1 \/ f.phase = "body"
    PROVE  /\ stack' \in Seq(Calls) /\ stack' # <<>> /\ stack'[1].phase = "body"
           /\ Len(stack') = Len(stack) /\ Top' = f
           /\ \A i \in 1..(Len(stack) - 1) : stack'[i] = stack[i]
<1>1. stack \in Seq(Calls) /\ stack # <<>> /\ Len(stack) \in Nat /\ Len(stack) >= 1
  BY TopIsOne DEF EvalInv
<1>2. stack' = [stack EXCEPT ![Len(stack)] = f]
  BY DEF SetTop
<1>3. /\ stack' \in Seq(Calls) /\ Len(stack') = Len(stack)
      /\ \A i \in 1..(Len(stack) - 1) : stack'[i] = stack[i]
      /\ stack'[Len(stack)] = f
  BY <1>1, <1>2
<1>4. stack'[1].phase = "body"
  <2>1. CASE Len(stack) > 1
    BY <1>1, <1>3, <2>1 DEF EvalInv
  <2>2. CASE ~(Len(stack) > 1)
    BY <1>1, <1>3, <2>2
  <2> QED
    BY <2>1, <2>2
<1> QED
  BY <1>1, <1>3, <1>4 DEF Top

\* An evaluation starts with the invariant,
LEMMA EvalInitInv == EvalInit => EvalInv
<1> SUFFICES ASSUME EvalInit PROVE EvalInv
  OBVIOUS
<1>1. Root \in Calls /\ Root.phase = "body"
  BY NewContextIsOne DEF Root, Calls, NewContext
<1>2. stack = <<Root>>
  BY DEF EvalInit
<1>3. stack \in Seq(Calls) /\ stack # <<>> /\ stack[1].phase = "body"
  BY <1>1, <1>2
<1>4. CacheOK(cache)
  BY DEF EvalInit, CacheOK
<1> QED
  BY <1>3, <1>4, EvaluationAssumption DEF EvalInit, EvalInv

\* An expansion starts as one.
LEMMA ExpandingIsOne ==
    ASSUME NEW fc \in Contexts, NEW then \in Thens, Expanding(fc, then)
    PROVE  IsJob(job')
<1>1. Len(Relationships) \in Nat
  BY FilterAssumption
<1> QED
  BY <1>1, StripDerivedIsOne DEF Expanding, IsJob

\* What Installed does to the innermost call.
Installing(m, f, c) == [Top EXCEPT !.fc = Tabled(m, f, @, c), !.shown = @ \ Restricts(m)]

\* Installing what a table modifier read rebuilds the call on top.
LEMMA InstalledIsOne ==
    ASSUME EvalInv, NEW m \in Modifiers, m.kind \in TableKinds,
           NEW f \in Frames, f.cols \subseteq ColumnsOf[TableOf[m.of.key]],
           NEW c, CacheOK(c), Installed(m, f, c)
    PROVE  /\ SetTop(Installing(m, f, c)) /\ Installing(m, f, c) \in Calls
           /\ Installing(m, f, c).phase = Top.phase
           /\ CacheOK(cache')
<1>1. Top \in Calls /\ Top.fc \in Contexts
  BY TopIsOne DEF Calls
<1>2. TableOf[m.of.key] \in Tables
  <2>1. m.of.key \in Keys
    BY ModifierFields DEF TableExpr
  <2> QED
    BY <2>1 DEF Tables
<1>3. Tabled(m, f, Top.fc, c) \in Contexts
  BY <1>1, TabledIsOne
<1>4. Installing(m, f, c) \in Calls /\ Installing(m, f, c).phase = Top.phase
  BY <1>1, <1>3 DEF Installing, Calls
<1>5. SetTop(Installing(m, f, c))
  BY DEF Installed, Installing, Tabled
<1>6. CacheOK(cache')
  BY <1>1, <1>2, CachingIsOK DEF Installed
<1> QED
  BY <1>4, <1>5, <1>6

\* What a modifier and a predicate make of the innermost call.
LEMMA ModifyStep ==
    ASSUME EvalInv, NEW m \in Modifiers, Modify(m)
    PROVE  /\ m.kind \in ContextKinds /\ Len(stack) > 1 /\ Caller \in Calls
           /\ \E f \in Calls :
                /\ SetTop(f) /\ f.phase = Top.phase
                /\ f.fc = Changed(m, Caller.fc, Top.fc)
                /\ f.said = Changed(m, Asked(Caller), Asked(Top)).filters
                /\ f.shown = (Top.shown \ Restricts(m))
                             \cup (IF m.kind = "all" THEN {m.table} ELSE {})
           /\ job' = NoJob /\ result' = NoResult /\ UNCHANGED <<cache, calls>>
           /\ args' \in 0..MaxArgs
<1> DEFINE fc == Changed(m, Caller.fc, Top.fc)
           said == Changed(m, Asked(Caller), Asked(Top)).filters
           shown == (Top.shown \ Restricts(m)) \cup (IF m.kind = "all" THEN {m.table} ELSE {})
           f == [Top EXCEPT !.fc = Changed(m, Caller.fc, @), !.said = said, !.shown = shown]
<1>1. m.kind \in ContextKinds
  BY ModifierFields DEF Modify, TableKinds
<1>2. Top \in Calls /\ Top.phase = "modifiers" /\ Len(stack) > 1 /\ Caller \in Calls
  BY TopIsOne DEF Modify, Argument
<1>3. fc \in Contexts
  <2>1. Caller.fc \in Contexts /\ Top.fc \in Contexts
    BY <1>2 DEF Calls
  <2> QED
    BY <1>1, <2>1, ChangedIsOne
<1>4. said \in [Keys -> Seq(Predicate)]
  <2>1. Changed(m, Asked(Caller), Asked(Top)) \in Contexts
    BY <1>1, <1>2, AskedIsOne, ChangedIsOne
  <2> QED
    BY <2>1 DEF Contexts
<1>5. shown \in SUBSET Tables
  BY <1>2, ModifierFields DEF Calls
<1>6. SetTop(f)
  BY DEF Modify
<1>7. f \in Calls /\ f.phase = Top.phase /\ f.fc = fc /\ f.said = said /\ f.shown = shown
  <2> HIDE DEF said, shown
  <2> QED
    BY <1>2, <1>3, <1>4, <1>5 DEF Calls
<1> HIDE DEF f
<1>8. /\ job' = NoJob /\ result' = NoResult /\ UNCHANGED <<cache, calls>>
      /\ args' \in 0..MaxArgs
  BY EvaluationAssumption DEF Modify, Argument, Idle, EvalInv
<1> QED
  BY <1>1, <1>2, <1>6, <1>7, <1>8

\* The same for a filter argument: the columns it replaced are replaced in
\* what was asked for as well.
LEMMA FilterStep ==
    ASSUME EvalInv, NEW p \in Predicates, Filter(p)
    PROVE  /\ \E f \in Calls :
                /\ SetTop(f)
                /\ f.fc = Replace(p.key, p.pred, Top.replaced, Top.fc)
                /\ f.said = Replace(p.key, p.pred, Top.replaced, Asked(Top)).filters
                /\ f.shown = Top.shown \ {TableOf[p.key]}
           /\ job' = NoJob /\ result' = NoResult /\ UNCHANGED <<cache, calls>>
           /\ Len(stack) > 1 /\ args' \in 0..MaxArgs
<1> DEFINE said == Replace(p.key, p.pred, Top.replaced, Asked(Top)).filters
           f == [Top EXCEPT !.fc = Replace(p.key, p.pred, Top.replaced, @),
                            !.said = said, !.phase = "predicates",
                            !.replaced = @ \cup {p.key}, !.shown = @ \ {TableOf[p.key]}]
<1>1. Top \in Calls /\ Len(stack) > 1
  BY TopIsOne DEF Filter
<1>2. Replace(p.key, p.pred, Top.replaced, Top.fc) \in Contexts /\ p.key \in Keys
  BY <1>1, ReplaceIsOne DEF Calls
<1>3. said \in [Keys -> Seq(Predicate)]
  <2>1. Replace(p.key, p.pred, Top.replaced, Asked(Top)) \in Contexts
    BY <1>1, AskedIsOne, ReplaceIsOne
  <2> QED
    BY <2>1 DEF Contexts
<1>4. SetTop(f)
  BY DEF Filter
<1>5. /\ f \in Calls /\ f.said = said /\ f.shown = Top.shown \ {TableOf[p.key]}
      /\ f.fc = Replace(p.key, p.pred, Top.replaced, Top.fc)
  <2> HIDE DEF said
  <2> QED
    BY <1>1, <1>2, <1>3 DEF Calls
<1> HIDE DEF f
<1>6. /\ job' = NoJob /\ result' = NoResult /\ UNCHANGED <<cache, calls>>
      /\ args' \in 0..MaxArgs
  BY EvaluationAssumption DEF Filter, Idle, EvalInv
<1> QED
  BY <1>1, <1>4, <1>5, <1>6

\* FILTER and KEEPFILTERS of a table, with or without an expansion, install a
\* frame of columns of its table.
LEMMA TableStep ==
    ASSUME EvalInv, TakeTable \/ \E m \in Modifiers : ModifyTable(m)
    PROVE  \E m \in Modifiers, g \in Frames : \E c :
              /\ m.kind \in TableKinds /\ g.cols \subseteq ColumnsOf[TableOf[m.of.key]]
              /\ CacheOK(c) /\ Installed(m, g, c)
              /\ job' = NoJob /\ result' = NoResult /\ UNCHANGED calls /\ args' \in 0..MaxArgs
<1>1. ASSUME NEW m \in Modifiers, ModifyTable(m)
      PROVE  /\ m.kind \in TableKinds /\ CacheOK(cache)
             /\ Frame(m.of, Rows[TableOf[m.of.key]]) \in Frames
             /\ Frame(m.of, Rows[TableOf[m.of.key]]).cols \subseteq ColumnsOf[TableOf[m.of.key]]
             /\ Installed(m, Frame(m.of, Rows[TableOf[m.of.key]]), cache)
             /\ job' = NoJob /\ result' = NoResult /\ UNCHANGED calls /\ args' \in 0..MaxArgs
  <2> DEFINE g == Frame(m.of, Rows[TableOf[m.of.key]])
  <2>1. m.kind \in TableKinds /\ m.of \in TableExpr
    BY <1>1, ModifierFields DEF ModifyTable, TableKinds
  <2>2. TableOf[m.of.key] \in Tables
    BY <2>1 DEF TableExpr, Tables
  <2>3. g \in Frames /\ g.cols \subseteq ColumnsOf[TableOf[m.of.key]]
    BY <2>1, <2>2, RowsAreTyped, FrameOfRows
  <2>4. Installed(m, g, cache)
    BY <1>1 DEF ModifyTable
  <2> HIDE DEF g
  <2>5. job' = NoJob /\ result' = NoResult /\ UNCHANGED calls /\ args' \in 0..MaxArgs
    BY <1>1, EvaluationAssumption DEF ModifyTable, Argument, Idle, EvalInv
  <2> QED
    BY <2>1, <2>3, <2>4, <2>5 DEF EvalInv, g
<1>2. CASE TakeTable
  <2> DEFINE m == job.then.of
             t == TableOf[m.of.key]
             rows == WithoutBlank(t, FilteredFrame(t, job.fc, cache))
             g == Frame(m.of, rows)
             read == Caching(t, job.fc, cache)
  <2>1. IsJob(job) /\ job.then.kind = "argument" /\ CacheOK(cache) /\ result = NoResult
    BY <1>2 DEF TakeTable, Expanded, EvalInv
  <2>2. m \in Modifiers /\ m.kind \in TableKinds
    <3>1. job.then \in Thens /\ job.then.kind = "argument"
      BY <2>1 DEF IsJob
    <3>2. job.then \in [kind : {"argument"}, of : {n \in Modifiers : n.kind \in TableKinds}]
      BY <3>1 DEF Thens
    <3> QED
      BY <3>2
  <2>3. m.of \in TableExpr /\ t \in Tables
    <3>1. m.of \in TableExpr
      BY <2>2, ModifierFields
    <3> QED
      BY <3>1 DEF TableExpr, Tables
  <2>4. rows \in SUBSET [ColumnsOf[t] -> Values] /\ CacheOK(read)
    <3>1. job.fc \in Contexts
      BY <2>1 DEF IsJob
    <3>2. FilteredFrame(t, job.fc, cache) \in SUBSET [ColumnsOf[t] -> Values]
      BY <2>1, <2>3, <3>1, FilteredFrameRows
    <3> QED
      BY <2>1, <2>3, <3>1, <3>2, CachingIsOK DEF WithoutBlank
  <2>5. g \in Frames /\ g.cols \subseteq ColumnsOf[t]
    BY <2>3, <2>4, FrameOfRows
  <2>6. /\ Installed(m, g, read) /\ job' = NoJob /\ result' = NoResult
        /\ UNCHANGED calls /\ args' \in 0..MaxArgs
    BY <1>2, <2>1 DEF TakeTable, EvalInv
  <2> HIDE DEF m, g, read
  <2> QED
    BY <2>2, <2>4, <2>5, <2>6
<1>3. CASE \E m \in Modifiers : ModifyTable(m)
  <2>1. PICK m \in Modifiers : ModifyTable(m)
    BY <1>3
  <2> DEFINE g == Frame(m.of, Rows[TableOf[m.of.key]])
  <2>2. /\ m.kind \in TableKinds /\ CacheOK(cache) /\ g \in Frames
        /\ g.cols \subseteq ColumnsOf[TableOf[m.of.key]] /\ Installed(m, g, cache)
        /\ job' = NoJob /\ result' = NoResult /\ UNCHANGED calls /\ args' \in 0..MaxArgs
    BY <1>1, <2>1
  <2> HIDE DEF g
  <2> QED
    BY <2>2
<1> QED
  BY <1>2, <1>3

\* The table a body reads, in the context its expansion came to.
LEMMA ReadStep ==
    ASSUME EvalInv, TakeRows
    PROVE  /\ job # NoJob /\ job.then.table \in Tables /\ job.fc \in Contexts
           /\ job.then.kind \in {"column", "table"}
<1>1. /\ job.then \in Thens /\ job.then.kind \in {"column", "table"} /\ job.fc \in Contexts
      /\ job # NoJob
  BY DEF TakeRows, Expanded, EvalInv, IsJob
<1>2. job.then \in [kind : {"column", "table"}, table : Tables]
  BY <1>1 DEF Thens
<1> QED
  BY <1>1, <1>2

\* Every step of the evaluation keeps the types.
LEMMA EvalNextInv == ASSUME EvalInv, [EvalNext]_vars PROVE EvalInv'
<1>0. /\ Len(stack) \in Nat /\ Len(stack) >= 1 /\ Top \in Calls
      /\ Top.phase # "body" => Len(stack) > 1 /\ Caller \in Calls
      /\ stack \in Seq(Calls)
  BY TopIsOne DEF EvalInv
<1>1. CASE Calculate
  <2> DEFINE f == [Top EXCEPT !.phase = "modifiers", !.replaced = {}, !.shown = {}]
  <2>1. f \in Calls
    BY <1>0 DEF Calls
  <2>2. stack' = Append(stack, f)
    BY <1>1 DEF Calculate
  <2> HIDE DEF f
  <2>3. stack' \in Seq(Calls) /\ stack' # <<>> /\ stack'[1] = stack[1]
    BY <1>0, <2>1, <2>2
  <2> QED
    BY <1>1, <2>3, EvaluationAssumption DEF Calculate, Idle, EvalInv
<1>2. ASSUME NEW m \in Modifiers, Modify(m) PROVE EvalInv'
  <2>1. PICK f \in Calls : SetTop(f) /\ f.phase = Top.phase
    BY <1>2, ModifyStep
  <2>2. /\ Len(stack) > 1 /\ job' = NoJob /\ UNCHANGED <<cache, calls>>
        /\ args' \in 0..MaxArgs
    BY <1>2, ModifyStep
  <2>3. stack' \in Seq(Calls) /\ stack' # <<>> /\ stack'[1].phase = "body"
    BY <2>1, <2>2, SetTopIsOne
  <2> QED
    BY <2>2, <2>3 DEF EvalInv
<1>3. CASE TakeTable \/ \E m \in Modifiers : ModifyTable(m)
  <2>0. PICK m \in Modifiers, g \in Frames :
            \E c :
              /\ m.kind \in TableKinds /\ g.cols \subseteq ColumnsOf[TableOf[m.of.key]]
              /\ CacheOK(c) /\ Installed(m, g, c)
              /\ job' = NoJob /\ result' = NoResult /\ UNCHANGED calls /\ args' \in 0..MaxArgs
    BY <1>3, TableStep
  <2>1. PICK c :
            /\ m.kind \in TableKinds /\ g.cols \subseteq ColumnsOf[TableOf[m.of.key]]
            /\ CacheOK(c) /\ Installed(m, g, c)
            /\ job' = NoJob /\ result' = NoResult /\ UNCHANGED calls /\ args' \in 0..MaxArgs
    BY <2>0
  <2>2. /\ SetTop(Installing(m, g, c)) /\ Installing(m, g, c) \in Calls
        /\ Installing(m, g, c).phase = Top.phase /\ CacheOK(cache')
    BY <2>1, InstalledIsOne
  <2>3. stack' \in Seq(Calls) /\ stack' # <<>> /\ stack'[1].phase = "body"
    BY <1>0, <2>2, SetTopIsOne
  <2> QED
    BY <2>1, <2>2, <2>3 DEF EvalInv
<1>4. ASSUME NEW m \in Modifiers, EvaluateTable(m) PROVE EvalInv'
  <2>1. [kind |-> "argument", of |-> m] \in Thens
    BY <1>4 DEF EvaluateTable, TableKinds, Thens
  <2>2. Top.fc \in Contexts
    BY <1>0 DEF Calls
  <2>3. IsJob(job')
    BY <1>4, <2>1, <2>2, ExpandingIsOne DEF EvaluateTable
  <2> QED
    BY <1>4, <2>3, EvaluationAssumption DEF EvaluateTable, Argument, Idle, EvalInv
<1>5. ASSUME NEW p \in Predicates, Filter(p) PROVE EvalInv'
  <2>1. PICK f \in Calls : SetTop(f)
    BY <1>5, FilterStep
  <2>2. /\ Len(stack) > 1 /\ job' = NoJob /\ UNCHANGED <<cache, calls>>
        /\ args' \in 0..MaxArgs
    BY <1>5, FilterStep
  <2>3. stack' \in Seq(Calls) /\ stack' # <<>> /\ stack'[1].phase = "body"
    BY <2>1, <2>2, SetTopIsOne
  <2> QED
    BY <2>2, <2>3 DEF EvalInv
<1>6. CASE Enter
  <2>1. [kind |-> "body"] \in Thens /\ Top.fc \in Contexts
    BY <1>0 DEF Thens, Calls
  <2>2. IsJob(job')
    BY <1>6, <2>1, ExpandingIsOne DEF Enter
  <2> QED
    BY <1>6, <2>2 DEF Enter, Idle, EvalInv
<1>7. ASSUME NEW t \in Tables, NEW kind \in {"column", "table"}, Read(t, kind)
      PROVE  EvalInv'
  <2>1. [kind |-> kind, table |-> t] \in Thens /\ Top.fc \in Contexts
    BY <1>0 DEF Thens, Calls
  <2>2. IsJob(job')
    BY <1>7, <2>1, ExpandingIsOne DEF Read
  <2> QED
    BY <1>7, <2>2 DEF Read, Idle, EvalInv
<1>8. CASE ExpandVia
  <2> DEFINE e == [fc |-> job.fc, cache |-> cache, changed |-> job.changed]
             d == FlowReverse(job.rel, FlowForward(job.rel, e))
  <2>1. IsJob(job) /\ job.rel \in Rel /\ result = NoResult
    BY <1>8 DEF ExpandVia, EvalInv
  <2>2. IsExpansion(e)
    BY <2>1 DEF IsExpansion, IsJob, EvalInv
  <2>3. IsExpansion(d)
    BY <2>1, <2>2, FlowIsOne
  <2>4. job' = [job EXCEPT !.fc = d.fc, !.rel = @ + 1, !.changed = d.changed]
        /\ cache' = d.cache
    BY <1>8 DEF ExpandVia
  <2> HIDE DEF d
  <2>5. job.rel + 1 \in 1..(Len(Relationships) + 1)
    BY <2>1, FilterAssumption DEF Rel
  <2>6. IsJob(job')
    BY <2>1, <2>3, <2>4, <2>5 DEF IsJob, IsExpansion
  <2> QED
    BY <1>8, <2>1, <2>3, <2>4, <2>6 DEF ExpandVia, IsExpansion, EvalInv
<1>9. CASE Again
  <2>1. IsJob(job) /\ result = NoResult
    BY <1>9 DEF Again, EvalInv
  <2>2. 1 \in 1..(Len(Relationships) + 1)
    BY FilterAssumption
  <2>3. IsJob(job')
    BY <1>9, <2>1, <2>2 DEF Again, IsJob
  <2> QED
    BY <1>9, <2>1, <2>3 DEF Again, EvalInv
<1>10. CASE EnterBody
  <2> DEFINE f == [Top EXCEPT !.fc = job.fc, !.phase = "body"]
  <2>1. job.fc \in Contexts
    BY <1>10 DEF EnterBody, Expanded, EvalInv, IsJob
  <2>2. f \in Calls /\ f.phase = "body" /\ SetTop(f)
    BY <1>0, <1>10, <2>1 DEF EnterBody, Calls
  <2> HIDE DEF f
  <2>3. stack' \in Seq(Calls) /\ stack' # <<>> /\ stack'[1].phase = "body"
    BY <2>2, SetTopIsOne
  <2> QED
    BY <1>10, <2>3 DEF EnterBody, EvalInv
<1>12. CASE TakeRows
  <2>1. CacheOK(cache')
    BY <1>12, ReadStep, CachingIsOK DEF TakeRows, EvalInv
  <2> QED
    BY <1>12, <2>1 DEF TakeRows, EvalInv
<1>13. CASE Return
  <2>1. stack' = SubSeq(stack, 1, Len(stack) - 1) /\ Len(stack) > 1
    BY <1>13 DEF Return
  <2>2. stack' \in Seq(Calls) /\ stack' # <<>> /\ stack'[1] = stack[1]
    <3>1. /\ stack' \in Seq(Calls) /\ Len(stack') = Len(stack) - 1
          /\ \A i \in 1..(Len(stack) - 1) : stack'[i] = stack[i]
      BY <1>0, <2>1
    <3>2. Len(stack') >= 1
      BY <1>0, <2>1, <3>1
    <3>3. stack' # <<>>
      BY <3>1, <3>2
    <3>4. 1 \in 1..(Len(stack) - 1)
      BY <1>0, <2>1
    <3> QED
      BY <3>1, <3>3, <3>4
  <2> QED
    BY <1>13, <2>2 DEF Return, EvalInv
<1>14. CASE UNCHANGED vars
  BY <1>14 DEF vars, EvalInv
<1> QED
  BY <1>1, <1>2, <1>3, <1>4, <1>5, <1>6, <1>7, <1>8, <1>9, <1>10, <1>12,
     <1>13, <1>14 DEF EvalNext, Expand

\* The inductive invariant of an evaluation: the stack of CALCULATE calls, the
\* expansion that is running and the cache always fit together, and an entry of
\* the cache is what some context with its fingerprint reads.
THEOREM EvalInvAlways == EvalSpec => []EvalInv
<1> QED
  BY EvalInitInv, EvalNextInv, PTL DEF EvalSpec

\* Whatever a query nests, its contexts and its expansion keep their types.
THEOREM EvalTypesAlways == EvalSpec => []EvalTypeOK
<1>1. EvalInv => EvalTypeOK
  <2> SUFFICES ASSUME EvalInv PROVE EvalTypeOK
    OBVIOUS
  <2>1. ASSUME NEW i \in DOMAIN stack
        PROVE  /\ IsContext(stack[i].fc)
               /\ stack[i].phase \in {"modifiers", "predicates", "body"}
               /\ stack[i].replaced \in SUBSET Keys
               /\ stack[i].said \in [Keys -> Seq(Predicate)]
               /\ stack[i].shown \in SUBSET Tables
    <3>1. stack[i] \in Calls
      BY DEF EvalInv
    <3> QED
      BY <3>1, ContextIsOne DEF Calls
  <2>2. job # NoJob => /\ IsContext(job.fc)
                       /\ job.rel \in 1..(Len(Relationships) + 1)
                       /\ job.changed \in BOOLEAN
    BY ContextIsOne DEF EvalInv, IsJob
  <2> QED
    BY <2>1, <2>2 DEF EvalTypeOK, EvalInv
<1> QED
  BY <1>1, EvalInvAlways, PTL

------------------------------------------------------------------------------
(* The filter cache.                                                        *)

\* No column has more values than Polars prints of a series.
PrintsInFull == \A vals \in SUBSET Values : Cardinality(vals) <= PrintLimit

\* Then the printed predicates tell which predicates they are.
LEMMA PrintedTells ==
    ASSUME PrintsInFull, NEW p \in Seq(Predicate), NEW q \in Seq(Predicate),
           Printed(p) = Printed(q)
    PROVE  p = q
<1>1. DOMAIN p = DOMAIN q
  <2>1. DOMAIN Printed(p) = DOMAIN p /\ DOMAIN Printed(q) = DOMAIN q
    BY DEF Printed
  <2> QED
    BY <2>1
<1>2. ASSUME NEW i \in DOMAIN p PROVE p[i] = q[i]
  <2>1. p[i] \in Predicate /\ q[i] \in Predicate
    BY <1>1
  <2>2. Printed(p)[i] = [op |-> p[i].op, vals |-> Shown(p[i].vals)]
        /\ Printed(q)[i] = [op |-> q[i].op, vals |-> Shown(q[i].vals)]
    BY <1>1 DEF Printed
  <2>3. p[i].op = q[i].op /\ Shown(p[i].vals) = Shown(q[i].vals)
    BY <2>2
  <2>4. p[i].vals \in SUBSET Values /\ q[i].vals \in SUBSET Values
    BY <2>1 DEF Predicate
  <2>5. Shown(p[i].vals).values = p[i].vals /\ Shown(q[i].vals).values = q[i].vals
    BY <2>4 DEF PrintsInFull, Shown
  <2> QED
    BY <2>1, <2>3, <2>5 DEF Predicate
<1> QED
  BY <1>1, <1>2

\* Two contexts with the same fingerprint leave the same rows.
LEMMA FingerprintTells ==
    ASSUME PrintsInFull, NEW t \in Tables, NEW fc \in Contexts, NEW d \in Contexts,
           Fingerprint(t, fc) = Fingerprint(t, d)
    PROVE  Filtered(t, fc) = Filtered(t, d)
<1>1. ASSUME NEW k \in ColumnsOf[t] PROVE fc.filters[k] = d.filters[k]
  <2>1. k \in Keys
    BY ColumnsAreKeys
  <2>2. Printed(fc.filters[k]) = Printed(d.filters[k])
    BY DEF Fingerprint
  <2>3. fc.filters[k] \in Seq(Predicate) /\ d.filters[k] \in Seq(Predicate)
    BY <2>1 DEF Contexts
  <2> QED
    BY <2>2, <2>3, PrintedTells
<1> QED
  BY <1>1 DEF Filtered, Visible

\* A hit gives what a fresh read would.
LEMMA HitIsFresh ==
    ASSUME PrintsInFull, NEW c, CacheOK(c), NEW t \in Tables, NEW fc \in Contexts,
           Fingerprint(t, fc) \in DOMAIN c
    PROVE  c[Fingerprint(t, fc)] = Filtered(t, fc)
BY HitIsARead, FingerprintTells

\* As long as every series is printed in full, the cache never answers with the
\* rows of another context.
THEOREM CacheIsSoundAlways == PrintsInFull => (EvalSpec => []CacheIsSound)
<1> SUFFICES ASSUME PrintsInFull PROVE EvalSpec => []CacheIsSound
  OBVIOUS
<1>1. EvalInv => CacheIsSound
  <2> SUFFICES ASSUME EvalInv, NEW t \in Tables,
                      NEW fc \in {stack[i].fc : i \in DOMAIN stack}
                                \cup (IF job = NoJob THEN {} ELSE {job.fc}),
                      Fingerprint(t, fc) \in DOMAIN cache
               PROVE  cache[Fingerprint(t, fc)] = Filtered(t, fc)
    BY DEF CacheIsSound
  <2>1. fc \in Contexts
    <3>1. CASE fc \in {stack[i].fc : i \in DOMAIN stack}
      <4>1. PICK i \in DOMAIN stack : fc = stack[i].fc
        BY <3>1
      <4>2. stack[i] \in Calls
        BY DEF EvalInv
      <4> QED
        BY <4>1, <4>2 DEF Calls
    <3>2. CASE job # NoJob /\ fc = job.fc
      BY <3>2 DEF EvalInv, IsJob
    <3> QED
      BY <3>1, <3>2
  <2> QED
    BY <2>1, HitIsFresh DEF EvalInv
<1> QED
  BY <1>1, EvalInvAlways, PTL

------------------------------------------------------------------------------
(* What ALL leaves visible.                                                 *)

\* The filters, the overrides and the relationships that removals leave.
LEMMA WithoutFields ==
    ASSUME NEW fc \in Contexts, NEW gone
    PROVE  /\ WithoutColumns(gone, fc).filters
                = [k \in Keys |-> IF k \in gone THEN <<>> ELSE fc.filters[k]]
           /\ WithoutColumns(gone, fc).overrides = fc.overrides
           /\ WithoutColumns(gone, fc).rels = fc.rels
BY DEF WithoutColumns, Contexts

\* Clearing a table, except some columns, also drops its override.
LEMMA RemoveFields ==
    ASSUME NEW fc \in Contexts, NEW t \in Tables, NEW keep
    PROVE  /\ RemoveTableExcept(t, keep, fc).filters
                = [k \in Keys |-> IF k \in ColumnsOf[t] \ keep THEN <<>> ELSE fc.filters[k]]
           /\ RemoveTableExcept(t, keep, fc).overrides = [fc.overrides EXCEPT ![t] = NoOverride]
           /\ RemoveTableExcept(t, keep, fc).rels = fc.rels
<1> DEFINE gone == ColumnsOf[t] \ keep
           base == WithoutColumns(gone, fc)
<1>1. base \in Contexts
  BY RemovalsAreOnes
<1>2. RemoveTableExcept(t, keep, fc) = [base EXCEPT !.overrides[t] = NoOverride]
  BY DEF RemoveTableExcept
<1>3. /\ base.filters = [k \in Keys |-> IF k \in gone THEN <<>> ELSE fc.filters[k]]
      /\ base.overrides = fc.overrides /\ base.rels = fc.rels
  <2> HIDE DEF gone
  <2> QED
    BY WithoutFields
<1> HIDE DEF gone, base
<1> QED
  BY <1>1, <1>2, <1>3 DEF Contexts, gone

\* The same, column by column.
LEMMA RemovedAt ==
    ASSUME NEW fc \in Contexts, NEW t \in Tables, NEW keep, NEW c \in Keys
    PROVE  RemoveTableExcept(t, keep, fc).filters[c]
              = IF c \in ColumnsOf[t] /\ c \notin keep THEN <<>> ELSE fc.filters[c]
<1> DEFINE gone == ColumnsOf[t] \ keep
           base == WithoutColumns(gone, fc)
<1>1. base \in Contexts
  BY RemovalsAreOnes
<1>2. RemoveTableExcept(t, keep, fc) = [base EXCEPT !.overrides[t] = NoOverride]
  BY DEF RemoveTableExcept
<1>3. base.filters = [k \in Keys |-> IF k \in gone THEN <<>> ELSE fc.filters[k]]
  <2> HIDE DEF gone
  <2> QED
    BY WithoutFields
<1> HIDE DEF gone, base
<1>4. RemoveTableExcept(t, keep, fc).filters = base.filters
  BY <1>1, <1>2 DEF Contexts
<1>5. base.filters[c] = IF c \in gone THEN <<>> ELSE fc.filters[c]
  BY <1>3
<1> QED
  BY <1>4, <1>5 DEF gone

\* Disabling relationships changes nothing but their modes.
LEMMA DisablingFields ==
    ASSUME NEW fc \in Contexts, NEW cut
    PROVE  /\ Disabling(cut, fc).filters = fc.filters
           /\ Disabling(cut, fc).overrides = fc.overrides
           /\ Disabling(cut, fc).rels
                = [i \in Rel |-> IF i \in cut THEN "disabled" ELSE fc.rels[i]]
BY DEF Disabling, Contexts

\* No filter is on the table, none stands for it, and none can flow to it.
Clear(fc, t) ==
    /\ \A k \in ColumnsOf[t] : fc.filters[k] = <<>>
    /\ fc.overrides[t] = NoOverride
    /\ \A i \in Rel : t \in Ends(i) => fc.rels[i] = "disabled"

\* ALL of a table clears it.
LEMMA AllClears ==
    ASSUME NEW t \in Tables, NEW fc \in Contexts
    PROVE  Clear(AllTable(t, fc), t)
<1> DEFINE base == RemoveTableExcept(t, {}, fc)
           cut == {i \in Rel : t \in Ends(i)}
           d == Disabling(cut, base)
<1>1. base \in Contexts
  BY RemovalsAreOnes
<1>2. /\ base.filters = [k \in Keys |-> IF k \in ColumnsOf[t] \ {} THEN <<>> ELSE fc.filters[k]]
      /\ base.overrides = [fc.overrides EXCEPT ![t] = NoOverride]
  BY RemoveFields
<1> HIDE DEF base, cut
<1>3. /\ d.filters = base.filters /\ d.overrides = base.overrides
      /\ d.rels = [i \in Rel |-> IF i \in cut THEN "disabled" ELSE base.rels[i]]
  BY <1>1, DisablingFields
<1>4. AllTable(t, fc) = d
  BY DEF AllTable, RemoveTable, base, cut
<1> HIDE DEF d
<1>5. ASSUME NEW k \in ColumnsOf[t] PROVE d.filters[k] = <<>>
  <2>1. k \in Keys
    BY ColumnsAreKeys
  <2> QED
    BY <1>2, <1>3, <2>1
<1>6. d.overrides[t] = NoOverride
  BY <1>2, <1>3 DEF Contexts, Overrides
<1>7. ASSUME NEW i \in Rel, t \in Ends(i) PROVE d.rels[i] = "disabled"
  BY <1>3, <1>7 DEF cut
<1> QED
  BY <1>4, <1>5, <1>6, <1>7 DEF Clear

\* A change that, of this table, only removes filters and relationships leaves
\* it clear.
Spares(fc, d, t) ==
    /\ \A k \in ColumnsOf[t] : d.filters[k] \in {<<>>, fc.filters[k]}
    /\ d.overrides[t] \in {NoOverride, fc.overrides[t]}
    /\ \A i \in Rel : d.rels[i] \in {"disabled", fc.rels[i]}

\* A table that is spared stays clear.
LEMMA ClearStays ==
    ASSUME NEW fc, NEW d, NEW t, Clear(fc, t), Spares(fc, d, t)
    PROVE  Clear(d, t)
BY DEF Clear, Spares

\* Every modifier spares the tables it does not restrict.
LEMMA ChangedSpares ==
    ASSUME NEW m \in Modifiers, m.kind \in ContextKinds,
           NEW outer \in Contexts, NEW fc \in Contexts,
           NEW t \in Tables, t \notin Restricts(m)
    PROVE  Spares(fc, Changed(m, outer, fc), t)
<1>0. ColumnsOf[t] \in SUBSET Keys /\ \A k \in ColumnsOf[t] : TableOf[k] = t
  BY DEF ColumnsOf
<1>r. ASSUME NEW u \in Tables, NEW keep PROVE Spares(fc, RemoveTableExcept(u, keep, fc), t)
  <2> DEFINE d == RemoveTableExcept(u, keep, fc)
  <2>1. /\ d.filters = [k \in Keys |-> IF k \in ColumnsOf[u] \ keep THEN <<>> ELSE fc.filters[k]]
        /\ d.overrides = [fc.overrides EXCEPT ![u] = NoOverride]
        /\ d.rels = fc.rels
    BY RemoveFields
  <2> HIDE DEF d
  <2>2. \A k \in ColumnsOf[t] : d.filters[k] \in {<<>>, fc.filters[k]}
    BY <1>0, <2>1
  <2>3. d.overrides[t] \in {NoOverride, fc.overrides[t]}
    BY <2>1 DEF Contexts, Overrides
  <2>4. Spares(fc, d, t)
    BY <2>1, <2>2, <2>3 DEF Spares
  <2> QED
    BY <2>4 DEF d
<1>d. ASSUME NEW base \in Contexts, NEW cut, Spares(fc, base, t)
      PROVE  Spares(fc, Disabling(cut, base), t)
  <2> DEFINE d == Disabling(cut, base)
  <2>1. /\ d.filters = base.filters /\ d.overrides = base.overrides
        /\ d.rels = [i \in Rel |-> IF i \in cut THEN "disabled" ELSE base.rels[i]]
    BY DisablingFields
  <2> HIDE DEF d
  <2>2. \A i \in Rel : d.rels[i] \in {"disabled", fc.rels[i]}
    BY <1>d, <2>1 DEF Spares
  <2>3. Spares(fc, d, t)
    BY <1>d, <2>1, <2>2 DEF Spares
  <2> QED
    BY <2>3 DEF d
<1>1. CASE m.kind = "all"
  <2>1. m.table \in Tables
    BY <1>1, ModifierFields
  <2>2. RemoveTable(m.table, fc) \in Contexts /\ Spares(fc, RemoveTable(m.table, fc), t)
    BY <1>r, <2>1, RemovalsAreOnes DEF RemoveTable
  <2> QED
    BY <1>1, <1>d, <2>2 DEF Changed, AllTable
<1>2. CASE m.kind = "allColumn"
  <2> DEFINE base == WithoutColumns({m.key}, fc)
  <2>1. base \in Contexts
    BY RemovalsAreOnes
  <2>2. Spares(fc, base, t)
    <3>1. /\ base.filters = [k \in Keys |-> IF k \in {m.key} THEN <<>> ELSE fc.filters[k]]
          /\ base.overrides = fc.overrides /\ base.rels = fc.rels
      BY WithoutFields
    <3> HIDE DEF base
    <3> QED
      BY <1>0, <3>1 DEF Spares
  <2> HIDE DEF base
  <2> QED
    BY <1>2, <1>d, <2>1, <2>2 DEF Changed, AllColumn, base
<1>3. CASE m.kind = "allExcept"
  BY <1>3, <1>r, ModifierFields DEF Changed, AllExcept
<1>4. CASE m.kind = "allSelected"
  <2> DEFINE u == m.table
             base == RemoveTable(u, fc)
             F == [k \in Keys |-> IF k \in ColumnsOf[u] THEN outer.filters[k] ELSE base.filters[k]]
             d == [base EXCEPT !.filters = F, !.overrides[u] = outer.overrides[u]]
  <2>1. u \in Tables /\ t # u
    BY <1>4, ModifierFields DEF Restricts
  <2>2. base \in Contexts /\ Spares(fc, base, t)
    BY <1>r, <2>1, RemovalsAreOnes DEF RemoveTable
  <2>3. Changed(m, outer, fc) = d
    BY <1>4 DEF Changed, AllSelectedTable
  <2> HIDE DEF base, F
  <2>4. d.filters = F /\ d.rels = base.rels
        /\ d.overrides = [base.overrides EXCEPT ![u] = outer.overrides[u]]
    BY <2>2 DEF Contexts
  <2> HIDE DEF d
  <2>5. d.overrides[t] = base.overrides[t]
    BY <2>1, <2>2, <2>4 DEF Contexts, Overrides
  <2>6. ASSUME NEW k \in ColumnsOf[t] PROVE d.filters[k] = base.filters[k]
    <3>1. k \in Keys /\ k \notin ColumnsOf[u]
      BY <1>0, <2>1 DEF ColumnsOf
    <3> QED
      BY <2>4, <3>1 DEF F
  <2> QED
    BY <2>2, <2>3, <2>4, <2>5, <2>6 DEF Spares
<1>5. CASE m.kind \in {"allSelectedColumn", "treatAs", "keep"}
  <2> DEFINE d == Changed(m, outer, fc)
             new == CASE m.kind = "allSelectedColumn" -> outer.filters[m.key]
                      [] m.kind = "treatAs" -> Append(fc.filters[m.key], In(m.vals))
                      [] m.kind = "keep" -> Append(fc.filters[m.key], m.pred)
  <2>1. m.key \in Keys /\ t # TableOf[m.key]
    BY <1>5, ModifierFields DEF Restricts
  <2>2. /\ d.filters = [fc.filters EXCEPT ![m.key] = new]
        /\ d.overrides = fc.overrides /\ d.rels = fc.rels
    BY <1>5 DEF Changed, AllSelectedColumn, TreatAs, Keep, Contexts
  <2> HIDE DEF d, new
  <2>3. ASSUME NEW k \in ColumnsOf[t] PROVE d.filters[k] = fc.filters[k]
    <3>1. k \in Keys /\ k # m.key
      BY <1>0, <2>1
    <3> QED
      BY <2>2, <3>1 DEF Contexts
  <2>4. Spares(fc, d, t)
    BY <2>2, <2>3 DEF Spares
  <2> QED
    BY <2>4 DEF d
<1>6. CASE m.kind \in {"useRelationship", "crossFilter"}
  BY <1>6 DEF Restricts
<1> QED
  BY <1>1, <1>2, <1>3, <1>4, <1>5, <1>6 DEF ContextKinds

\* So do the other steps on a context: a table argument or a predicate of
\* another table, the stripping of derived filters.
LEMMA TabledSpares ==
    ASSUME NEW m \in Modifiers, m.kind \in TableKinds, NEW fc \in Contexts, NEW f, NEW c,
           NEW t \in Tables, t \notin Restricts(m)
    PROVE  Spares(fc, Tabled(m, f, fc, c), t)
<1>1. t # TableOf[m.of.key]
  BY ModifierFields DEF Restricts, TableKinds
<1>2. ASSUME NEW u, u # t, NEW g PROVE Spares(fc, Override(u, g, fc), t)
  <2> DEFINE d == Override(u, g, fc)
  <2>1. /\ d.filters = fc.filters /\ d.rels = fc.rels
        /\ d.overrides = [fc.overrides EXCEPT ![u] = g]
    BY DEF Override, Contexts
  <2> HIDE DEF d
  <2>2. d.overrides[t] = fc.overrides[t]
    BY <1>2, <2>1 DEF Contexts, Overrides
  <2>3. Spares(fc, d, t)
    BY <2>1, <2>2 DEF Spares
  <2> QED
    BY <2>3 DEF d
<1> QED
  BY <1>1, <1>2 DEF Tabled, KeepFrame

\* A filter argument spares every table but that of its column.
LEMMA ReplaceSpares ==
    ASSUME NEW fc \in Contexts, NEW p \in Predicates, NEW done,
           NEW t \in Tables, t # TableOf[p.key]
    PROVE  Spares(fc, Replace(p.key, p.pred, done, fc), t)
<1> DEFINE d == Replace(p.key, p.pred, done, fc)
           new == IF p.key \in done THEN Append(fc.filters[p.key], p.pred) ELSE <<p.pred>>
<1>1. /\ d.filters = [fc.filters EXCEPT ![p.key] = new]
      /\ d.overrides = fc.overrides /\ d.rels = fc.rels
  BY DEF Replace, Contexts
<1> HIDE DEF d, new
<1>2. ASSUME NEW k \in ColumnsOf[t] PROVE d.filters[k] = fc.filters[k]
  <2>1. k \in Keys /\ k # p.key
    BY DEF ColumnsOf
  <2> QED
    BY <1>1, <2>1 DEF Contexts
<1>3. Spares(fc, d, t)
  BY <1>1, <1>2 DEF Spares
<1> QED
  BY <1>3 DEF d

\* Dropping derived filters spares every table.
LEMMA StripSpares ==
    ASSUME NEW fc \in Contexts, NEW t \in Tables PROVE Spares(fc, StripDerived(fc), t)
<1> DEFINE d == StripDerived(fc)
<1>1. /\ d.filters = [k \in Keys |-> IF k \in fc.derived THEN <<>> ELSE fc.filters[k]]
      /\ d.overrides = fc.overrides /\ d.rels = fc.rels
  BY DEF StripDerived, Contexts
<1> HIDE DEF d
<1>2. ColumnsOf[t] \subseteq Keys
  BY ColumnsAreKeys
<1>3. Spares(fc, d, t)
  BY <1>1, <1>2 DEF Spares
<1> QED
  BY <1>3 DEF d

\* An expansion brings no filter to a clear table: its relationships are
\* disabled, and the others touch their own join columns.
LEMMA FlowSpares ==
    ASSUME NEW i \in Rel, NEW e, IsExpansion(e), NEW t \in Tables, Clear(e.fc, t)
    PROVE  Clear(FlowReverse(i, FlowForward(i, e)).fc, t)
<1> DEFINE d == FlowReverse(i, FlowForward(i, e))
           ends == {Relationships[i].from, Relationships[i].to}
<1>1. /\ ChangesOnly(ends, e, d)
      /\ e.fc.rels[i] = "disabled" => d = e
  BY FlowIsOne
<1> HIDE DEF d
<1>2. CASE t \in Ends(i)
  BY <1>1, <1>2 DEF Clear, d
<1>3. CASE t \notin Ends(i)
  <2>1. ASSUME NEW k \in ColumnsOf[t] PROVE k \in Keys \ ends
    BY <1>3 DEF ColumnsOf, Ends
  <2>2. Spares(e.fc, d.fc, t)
    BY <1>1, <2>1 DEF ChangesOnly, Spares
  <2>3. Clear(d.fc, t)
    BY <2>2, ClearStays
  <2> QED
    BY <2>3 DEF d
<1> QED
  BY <1>2, <1>3

\* A sequence without indices is empty.
LEMMA NoIndices ==
    ASSUME NEW S, NEW p \in Seq(S), DOMAIN p = {} PROVE p = <<>>
<1>1. Len(p) \in Nat /\ DOMAIN p = 1..Len(p)
  OBVIOUS
<1>2. Len(p) = 0
  <2> SUFFICES ASSUME Len(p) > 0 PROVE FALSE
    BY <1>1
  <2>1. 1 \in 1..Len(p)
    BY <1>1
  <2> QED
    BY <1>1, <2>1
<1> QED
  BY <1>2

\* A read of a clear table gives its rows, from the cache too: no other
\* predicates are printed as none.
LEMMA ClearRead ==
    ASSUME NEW c, CacheOK(c), NEW t \in Tables, NEW fc \in Contexts, Clear(fc, t)
    PROVE  FilteredFrame(t, fc, c) = Rows[t]
<1>1. ASSUME NEW d, \A k \in ColumnsOf[t] : d.filters[k] = <<>>
      PROVE  Filtered(t, d) = Rows[t]
  BY <1>1 DEF Filtered, Visible, MaskHolds
<1>2. ~Overridden(t, fc)
  BY DEF Clear, Overridden
<1>3. CASE Fingerprint(t, fc) \in DOMAIN c
  <2>1. PICK d \in Contexts : /\ Fingerprint(t, d) = Fingerprint(t, fc)
                             /\ c[Fingerprint(t, fc)] = Filtered(t, d)
    BY <1>3, HitIsARead
  <2>2. ASSUME NEW k \in ColumnsOf[t] PROVE d.filters[k] = <<>>
    <3>1. Printed(d.filters[k]) = Printed(fc.filters[k])
      BY <2>1 DEF Fingerprint
    <3>2. fc.filters[k] = <<>>
      BY DEF Clear
    <3>3. d.filters[k] \in Seq(Predicate)
      BY ColumnsAreKeys DEF Contexts
    <3>4. DOMAIN Printed(d.filters[k]) = DOMAIN d.filters[k]
          /\ DOMAIN Printed(fc.filters[k]) = DOMAIN fc.filters[k]
      BY DEF Printed
    <3>5. DOMAIN fc.filters[k] = {}
      BY <3>2
    <3>6. DOMAIN d.filters[k] = {}
      BY <3>1, <3>4, <3>5
    <3> QED
      BY <3>3, <3>6, NoIndices
  <2> QED
    BY <1>1, <1>2, <1>3, <2>1, <2>2 DEF FilteredFrame
<1>4. CASE Fingerprint(t, fc) \notin DOMAIN c
  BY <1>1, <1>2, <1>4 DEF FilteredFrame, Clear
<1> QED
  BY <1>3, <1>4

\* The tables of shown are clear in the context of their call, and stay clear
\* while it is expanded.
ShownInv ==
    /\ \A i \in DOMAIN stack : \A t \in stack[i].shown : Clear(stack[i].fc, t)
    /\ job # NoJob => \A t \in Top.shown : Clear(job.fc, t)
    /\ AllShowsEverything

\* The invariant behind AllShowsEverything holds at the start,
LEMMA ShownInit == EvalInit => ShownInv
BY DEF EvalInit, ShownInv, AllShowsEverything, Root

\* A step that replaces the innermost call and leaves neither an expansion nor
\* a result only has to look at that call.
LEMMA ShownTop ==
    ASSUME EvalInv, ShownInv, NEW f \in Calls, SetTop(f), Len(stack) > 1 \/ f.phase = "body",
           \A t \in f.shown : Clear(f.fc, t), job' = NoJob, result' = NoResult
    PROVE  ShownInv'
<1>1. /\ stack' \in Seq(Calls) /\ Len(stack') = Len(stack) /\ Top' = f
      /\ \A i \in 1..(Len(stack) - 1) : stack'[i] = stack[i]
  BY SetTopIsOne
<1>2. Len(stack) \in Nat /\ Len(stack) >= 1 /\ stack \in Seq(Calls)
  BY TopIsOne DEF EvalInv
<1>3. ASSUME NEW i \in DOMAIN stack', NEW t \in stack'[i].shown PROVE Clear(stack'[i].fc, t)
  <2>1. CASE i = Len(stack)
    BY <1>1, <2>1 DEF Top
  <2>2. CASE i # Len(stack)
    <3>1. i \in 1..(Len(stack) - 1) /\ i \in DOMAIN stack
      BY <1>1, <1>2, <2>2
    <3> QED
      BY <1>1, <1>3, <3>1 DEF ShownInv
  <2> QED
    BY <2>1, <2>2
<1>4. AllShowsEverything'
  BY DEF AllShowsEverything
<1> QED
  BY <1>3, <1>4 DEF ShownInv

\* A step that starts an expansion of the context of the innermost call.
LEMMA ShownExpanding ==
    ASSUME EvalInv, ShownInv, NEW then, Expanding(Top.fc, then),
           stack' = stack, result' = NoResult
    PROVE  ShownInv'
<1>1. Top \in Calls /\ Len(stack) \in DOMAIN stack
  BY TopIsOne DEF EvalInv
<1>2. ASSUME NEW t \in Top.shown PROVE Clear(job'.fc, t)
  <2>1. Clear(Top.fc, t) /\ Top.fc \in Contexts /\ t \in Tables
    BY <1>1 DEF ShownInv, Top, Calls
  <2>2. Clear(StripDerived(Top.fc), t)
    BY <2>1, StripSpares, ClearStays
  <2> QED
    BY <2>2 DEF Expanding
<1>3. AllShowsEverything'
  BY DEF AllShowsEverything
<1> QED
  BY <1>2, <1>3 DEF ShownInv, Top

\* and every step keeps it: a table ALL was said of stays clear until a later
\* argument of the same call restricts it, whatever propagation does.
LEMMA ShownNext == ASSUME EvalInv, EvalInv', ShownInv, [EvalNext]_vars PROVE ShownInv'
<1>0. /\ Len(stack) \in Nat /\ Len(stack) >= 1 /\ Len(stack) \in DOMAIN stack
      /\ Top \in Calls /\ Top.fc \in Contexts /\ Top.shown \in SUBSET Tables
      /\ \A t \in Top.shown : Clear(Top.fc, t)
      /\ Top.phase # "body" => Len(stack) > 1 /\ Caller \in Calls
      /\ stack \in Seq(Calls)
  <2>1. /\ Len(stack) \in Nat /\ Len(stack) >= 1 /\ Top \in Calls /\ stack \in Seq(Calls)
        /\ Top.phase # "body" => Len(stack) > 1 /\ Caller \in Calls
    BY TopIsOne DEF EvalInv
  <2>2. Len(stack) \in DOMAIN stack
    BY <2>1
  <2> QED
    BY <2>1, <2>2 DEF ShownInv, Top, Calls
<1>1. CASE Calculate
  <2> DEFINE f == [Top EXCEPT !.phase = "modifiers", !.replaced = {}, !.shown = {}]
  <2>1. stack' = Append(stack, f) /\ f.shown = {} /\ f \in Calls
    BY <1>0, <1>1 DEF Calculate, Calls
  <2> HIDE DEF f
  <2>2. /\ DOMAIN stack' = DOMAIN stack \cup {Len(stack) + 1}
        /\ \A i \in DOMAIN stack : stack'[i] = stack[i]
        /\ stack'[Len(stack) + 1] = f
    BY <1>0, <2>1
  <2>3. job' = NoJob /\ result' = NoResult
    BY <1>1 DEF Calculate, Idle
  <2>4. \A i \in DOMAIN stack' : \A t \in stack'[i].shown : Clear(stack'[i].fc, t)
    BY <2>1, <2>2 DEF ShownInv
  <2> QED
    BY <2>3, <2>4 DEF ShownInv, AllShowsEverything
<1>2. ASSUME NEW m \in Modifiers, Modify(m) PROVE ShownInv'
  <2> DEFINE all == IF m.kind = "all" THEN {m.table} ELSE {}
             fc == Changed(m, Caller.fc, Top.fc)
  <2>1. /\ m.kind \in ContextKinds /\ Len(stack) > 1 /\ Caller \in Calls
        /\ job' = NoJob /\ result' = NoResult
    BY <1>2, ModifyStep
  <2>2. PICK f \in Calls : /\ SetTop(f) /\ f.fc = fc
                           /\ f.shown = (Top.shown \ Restricts(m)) \cup all
    BY <1>2, ModifyStep
  <2>3. Caller.fc \in Contexts
    BY <2>1 DEF Calls
  <2>4. ASSUME NEW t \in (Top.shown \ Restricts(m)) \cup all PROVE Clear(fc, t)
    <3>1. CASE t \in all
      <4>1. m.kind = "all" /\ t = m.table /\ t \in Tables
        BY <3>1, ModifierFields
      <4> QED
        BY <1>0, <4>1, AllClears DEF Changed
    <3>2. CASE t \in Top.shown \ Restricts(m)
      <4>1. Spares(Top.fc, fc, t)
        BY <1>0, <2>1, <2>3, <3>2, ChangedSpares
      <4> QED
        BY <1>0, <3>2, <4>1, ClearStays
    <3> QED
      BY <2>4, <3>1, <3>2
  <2> HIDE DEF fc, all
  <2> QED
    BY <2>1, <2>2, <2>4, ShownTop
<1>3. CASE TakeTable \/ \E m \in Modifiers : ModifyTable(m)
  <2>0. PICK m \in Modifiers, g \in Frames :
            \E c :
              /\ m.kind \in TableKinds /\ g.cols \subseteq ColumnsOf[TableOf[m.of.key]]
              /\ CacheOK(c) /\ Installed(m, g, c) /\ job' = NoJob /\ result' = NoResult
    BY <1>3, TableStep
  <2>1. PICK c :
            /\ m.kind \in TableKinds /\ g.cols \subseteq ColumnsOf[TableOf[m.of.key]]
            /\ CacheOK(c) /\ Installed(m, g, c) /\ job' = NoJob /\ result' = NoResult
    BY <2>0
  <2> DEFINE f == Installing(m, g, c)
  <2>2. SetTop(f) /\ f \in Calls /\ f.phase = Top.phase
    BY <2>1, InstalledIsOne
  <2>3. f.fc = Tabled(m, g, Top.fc, c) /\ f.shown = Top.shown \ Restricts(m)
    BY <1>0 DEF Installing, Calls
  <2>4. ASSUME NEW t \in Top.shown \ Restricts(m) PROVE Clear(Tabled(m, g, Top.fc, c), t)
    <3>1. Spares(Top.fc, Tabled(m, g, Top.fc, c), t)
      BY <1>0, <2>1, <2>4, TabledSpares
    <3> QED
      BY <1>0, <2>4, <3>1, ClearStays
  <2> HIDE DEF f
  <2> QED
    BY <1>0, <2>1, <2>2, <2>3, <2>4, ShownTop
<1>5. ASSUME NEW m \in Modifiers, EvaluateTable(m) PROVE ShownInv'
  BY <1>5, ShownExpanding DEF EvaluateTable, Argument, Idle
<1>6. ASSUME NEW p \in Predicates, Filter(p) PROVE ShownInv'
  <2> DEFINE fc == Replace(p.key, p.pred, Top.replaced, Top.fc)
  <2>1. PICK f \in Calls : SetTop(f) /\ f.fc = fc /\ f.shown = Top.shown \ {TableOf[p.key]}
    BY <1>6, FilterStep
  <2>2. ASSUME NEW t \in Top.shown \ {TableOf[p.key]} PROVE Clear(fc, t)
    <3>1. Spares(Top.fc, fc, t)
      BY <1>0, <2>2, ReplaceSpares
    <3> QED
      BY <1>0, <2>2, <3>1, ClearStays
  <2>3. job' = NoJob /\ result' = NoResult /\ Len(stack) > 1
    BY <1>6, FilterStep
  <2> HIDE DEF fc
  <2> QED
    BY <2>1, <2>2, <2>3, ShownTop
<1>7. CASE Enter
  BY <1>7, ShownExpanding DEF Enter, Idle
<1>8. ASSUME NEW t \in Tables, NEW kind \in {"column", "table"}, Read(t, kind)
      PROVE  ShownInv'
  BY <1>8, ShownExpanding DEF Read, Idle
<1>9. CASE ExpandVia
  <2> DEFINE e == [fc |-> job.fc, cache |-> cache, changed |-> job.changed]
             d == FlowReverse(job.rel, FlowForward(job.rel, e))
  <2>1. IsJob(job) /\ job.rel \in Rel /\ result = NoResult /\ job # NoJob
    BY <1>9 DEF ExpandVia, EvalInv
  <2>2. IsExpansion(e)
    BY <2>1 DEF IsExpansion, IsJob, EvalInv
  <2>3. ASSUME NEW t \in Top.shown PROVE Clear(d.fc, t)
    <3>1. Clear(e.fc, t) /\ t \in Tables
      BY <1>0, <2>1 DEF ShownInv
    <3> QED
      BY <2>1, <2>2, <3>1, FlowSpares
  <2>4. job' = [job EXCEPT !.fc = d.fc, !.rel = @ + 1, !.changed = d.changed]
        /\ stack' = stack /\ result' = result
    BY <1>9 DEF ExpandVia
  <2> HIDE DEF d
  <2>5. job'.fc = d.fc
    BY <2>1, <2>4 DEF IsJob
  <2> QED
    BY <2>1, <2>3, <2>4, <2>5 DEF ShownInv, AllShowsEverything, Top
<1>10. CASE Again
  <2>1. IsJob(job) /\ result = NoResult /\ job # NoJob
    BY <1>10 DEF Again, EvalInv
  <2>2. job'.fc = job.fc /\ stack' = stack /\ result' = result
    BY <1>10, <2>1 DEF Again, IsJob
  <2> QED
    BY <2>1, <2>2 DEF ShownInv, AllShowsEverything, Top
<1>11. CASE EnterBody
  <2> DEFINE f == [Top EXCEPT !.fc = job.fc, !.phase = "body"]
  <2>1. job # NoJob /\ job.fc \in Contexts /\ result = NoResult
    BY <1>11 DEF EnterBody, Expanded, EvalInv, IsJob
  <2>2. /\ f \in Calls /\ f.phase = "body" /\ SetTop(f)
        /\ f.fc = job.fc /\ f.shown = Top.shown
    BY <1>0, <1>11, <2>1 DEF EnterBody, Calls
  <2>3. \A t \in Top.shown : Clear(job.fc, t)
    BY <2>1 DEF ShownInv
  <2> HIDE DEF f
  <2>4. job' = NoJob /\ result' = NoResult
    BY <1>11, <2>1 DEF EnterBody
  <2> QED
    BY <2>2, <2>3, <2>4, ShownTop
<1>13. CASE TakeRows
  <2> DEFINE t == job.then.table
             rows == FilteredFrame(t, job.fc, cache)
  <2>1. t \in Tables /\ job.fc \in Contexts /\ job # NoJob
    BY <1>13, ReadStep
  <2>2. /\ result' = [table |-> t, kind |-> job.then.kind,
                      rows |-> IF job.then.kind = "table" THEN WithoutBlank(t, rows) ELSE rows]
        /\ job' = NoJob /\ stack' = stack
    BY <1>13 DEF TakeRows
  <2>3. t \in Top.shown => rows = Rows[t]
    <3> SUFFICES ASSUME t \in Top.shown PROVE rows = Rows[t]
      OBVIOUS
    <3>1. Clear(job.fc, t)
      BY <2>1 DEF ShownInv
    <3> QED
      BY <2>1, <3>1, ClearRead DEF EvalInv
  <2> HIDE DEF t, rows
  <2>4. AllShowsEverything'
    BY <2>2, <2>3 DEF AllShowsEverything, Top
  <2> QED
    BY <2>2, <2>4 DEF ShownInv
<1>14. CASE Return
  <2>1. /\ stack' = SubSeq(stack, 1, Len(stack) - 1) /\ Len(stack) > 1
        /\ job' = NoJob /\ result' = NoResult
    BY <1>14 DEF Return
  <2>2. /\ DOMAIN stack' \subseteq DOMAIN stack
        /\ \A i \in DOMAIN stack' : stack'[i] = stack[i]
    BY <1>0, <2>1
  <2> QED
    BY <2>1, <2>2 DEF ShownInv, AllShowsEverything
<1>15. CASE UNCHANGED vars
  BY <1>15 DEF vars, ShownInv, AllShowsEverything, Top
<1> QED
  BY <1>1, <1>2, <1>3, <1>5, <1>6, <1>7, <1>8, <1>9, <1>10, <1>11, <1>13,
     <1>14, <1>15 DEF EvalNext, Expand

\* In every body a table that ALL had the last word on shows all its rows,
\* whatever the calls around it filter and however the cache was filled.
THEOREM AllShowsEverythingAlways == EvalSpec => []AllShowsEverything
<1>1. EvalSpec => []ShownInv
  BY EvalInvAlways, ShownInit, ShownNext, PTL DEF EvalSpec
<1>2. ShownInv => AllShowsEverything
  BY DEF ShownInv
<1> QED
  BY <1>1, <1>2, PTL

------------------------------------------------------------------------------
(* The filters that were asked for.                                         *)

JoinColumns == UNION {{Relationships[i].from, Relationships[i].to} : i \in Rel}

\* No argument puts a filter on a join column.
NoJoinFilters ==
    /\ \A p \in Predicates : p.key \notin JoinColumns
    /\ \A m \in Modifiers : m.kind \in {"treatAs", "keep"} => m.key \notin JoinColumns

\* What a modifier makes of the predicates of one column, from those of the
\* caller and its own.
ChangedAt(m, k, outer, own) ==
    CASE m.kind = "all"               -> IF k \in ColumnsOf[m.table] THEN <<>> ELSE own
      [] m.kind = "allColumn"         -> IF k = m.key THEN <<>> ELSE own
      [] m.kind = "allExcept"         -> IF k \in ColumnsOf[m.table] \ m.keep THEN <<>> ELSE own
      [] m.kind = "allSelected"       -> IF k \in ColumnsOf[m.table] THEN outer ELSE own
      [] m.kind = "allSelectedColumn" -> IF k = m.key THEN outer ELSE own
      [] m.kind = "treatAs"           -> IF k = m.key THEN Append(own, In(m.vals)) ELSE own
      [] m.kind = "keep"              -> IF k = m.key THEN Append(own, m.pred) ELSE own
      [] m.kind \in {"useRelationship", "crossFilter"} -> own

\* Removals take marks of derived columns away, nothing adds one.
LEMMA RemovalMarks ==
    ASSUME NEW fc \in Contexts, NEW t \in Tables, NEW gone, NEW cut
    PROVE  /\ WithoutColumns(gone, fc).derived \subseteq fc.derived
           /\ Disabling(cut, fc).derived = fc.derived
           /\ RemoveTableExcept(t, gone, fc).derived \subseteq fc.derived
<1>1. ASSUME NEW g PROVE WithoutColumns(g, fc).derived \subseteq fc.derived
  BY DEF WithoutColumns, Contexts
<1>2. Disabling(cut, fc).derived = fc.derived
  BY DEF Disabling, Contexts
<1>3. RemoveTableExcept(t, gone, fc).derived \subseteq fc.derived
  <2> DEFINE base == WithoutColumns(ColumnsOf[t] \ gone, fc)
  <2>1. base \in Contexts /\ base.derived \subseteq fc.derived
    BY <1>1, RemovalsAreOnes
  <2>2. RemoveTableExcept(t, gone, fc) = [base EXCEPT !.overrides[t] = NoOverride]
    BY DEF RemoveTableExcept
  <2> HIDE DEF base
  <2>3. [base EXCEPT !.overrides[t] = NoOverride].derived = base.derived
    BY <2>1 DEF Contexts
  <2> QED
    BY <2>1, <2>2, <2>3
<1> QED
  BY <1>1, <1>2, <1>3

\* What a modifier does to the filters of one column depends on that column
\* only, and it never marks a column as derived.
LEMMA ChangedFilters ==
    ASSUME NEW m \in Modifiers, m.kind \in ContextKinds,
           NEW outer \in Contexts, NEW fc \in Contexts, NEW k \in Keys
    PROVE  /\ Changed(m, outer, fc).filters[k]
                = ChangedAt(m, k, outer.filters[k], fc.filters[k])
           /\ Changed(m, outer, fc).derived \subseteq fc.derived
<1>1. CASE m.kind = "all"
  <2> DEFINE t == m.table
             base == RemoveTableExcept(t, {}, fc)
             cut == {i \in Rel : t \in Ends(i)}
  <2>1. t \in Tables
    BY <1>1, ModifierFields
  <2>2. base \in Contexts /\ base.derived \subseteq fc.derived
    BY <2>1, RemovalsAreOnes, RemovalMarks
  <2>3. base.filters[k] = IF k \in ColumnsOf[t] THEN <<>> ELSE fc.filters[k]
    BY <2>1, RemovedAt
  <2>4. Changed(m, outer, fc) = Disabling(cut, base)
    BY <1>1 DEF Changed, AllTable, RemoveTable
  <2> HIDE DEF base, cut
  <2>5. Disabling(cut, base).filters = base.filters
        /\ Disabling(cut, base).derived = base.derived
    BY <2>1, <2>2, DisablingFields, RemovalMarks
  <2> QED
    BY <1>1, <2>2, <2>3, <2>4, <2>5 DEF ChangedAt
<1>2. CASE m.kind = "allColumn"
  <2> DEFINE base == WithoutColumns({m.key}, fc)
             cut == {i \in Rel : m.key \in {Relationships[i].from, Relationships[i].to}}
  <2>1. TableOf[m.key] \in Tables
    BY <1>2, ModifierFields DEF Tables
  <2>2. base \in Contexts /\ base.derived \subseteq fc.derived
    BY <2>1, RemovalsAreOnes, RemovalMarks
  <2>3. base.filters[k] = IF k = m.key THEN <<>> ELSE fc.filters[k]
    <3>1. base.filters = [j \in Keys |-> IF j \in {m.key} THEN <<>> ELSE fc.filters[j]]
      BY WithoutFields
    <3> HIDE DEF base
    <3> QED
      BY <3>1
  <2>4. Changed(m, outer, fc) = Disabling(cut, base)
    BY <1>2 DEF Changed, AllColumn
  <2> HIDE DEF base, cut
  <2>5. Disabling(cut, base).filters = base.filters
        /\ Disabling(cut, base).derived = base.derived
    BY <2>1, <2>2, DisablingFields, RemovalMarks
  <2> QED
    BY <1>2, <2>2, <2>3, <2>4, <2>5 DEF ChangedAt
<1>3. CASE m.kind = "allExcept"
  <2> DEFINE d == RemoveTableExcept(m.table, m.keep, fc)
  <2>1. m.table \in Tables
    BY <1>3, ModifierFields
  <2>2. d.derived \subseteq fc.derived
    BY <2>1, RemovalMarks
  <2>3. d.filters[k] = IF k \in ColumnsOf[m.table] \ m.keep THEN <<>> ELSE fc.filters[k]
    <3>1. d.filters[k] = IF k \in ColumnsOf[m.table] /\ k \notin m.keep THEN <<>>
                         ELSE fc.filters[k]
      BY <2>1, RemovedAt
    <3> HIDE DEF d
    <3> QED
      BY <3>1
  <2>4. Changed(m, outer, fc) = d
    BY <1>3 DEF Changed, AllExcept
  <2> HIDE DEF d
  <2> QED
    BY <1>3, <2>2, <2>3, <2>4 DEF ChangedAt
<1>4. CASE m.kind = "allSelected"
  <2> DEFINE u == m.table
             base == RemoveTableExcept(u, {}, fc)
             F == [j \in Keys |-> IF j \in ColumnsOf[u] THEN outer.filters[j] ELSE base.filters[j]]
             d == [base EXCEPT !.filters = F, !.overrides[u] = outer.overrides[u]]
  <2>1. u \in Tables
    BY <1>4, ModifierFields
  <2>2. base \in Contexts /\ base.derived \subseteq fc.derived
    BY <2>1, RemovalsAreOnes, RemovalMarks
  <2>3. k \notin ColumnsOf[u] => base.filters[k] = fc.filters[k]
    BY <2>1, RemovedAt
  <2>4. Changed(m, outer, fc) = d
    BY <1>4 DEF Changed, AllSelectedTable, RemoveTable
  <2> HIDE DEF base, F
  <2>5. d.filters = F /\ d.derived = base.derived
    BY <2>2 DEF Contexts
  <2> HIDE DEF d
  <2>6. F[k] = IF k \in ColumnsOf[u] THEN outer.filters[k] ELSE base.filters[k]
    BY DEF F
  <2> QED
    BY <1>4, <2>2, <2>3, <2>4, <2>5, <2>6 DEF ChangedAt
<1>5. CASE m.kind \in {"allSelectedColumn", "treatAs", "keep"}
  <2> DEFINE d == Changed(m, outer, fc)
             new == CASE m.kind = "allSelectedColumn" -> outer.filters[m.key]
                      [] m.kind = "treatAs" -> Append(fc.filters[m.key], In(m.vals))
                      [] m.kind = "keep" -> Append(fc.filters[m.key], m.pred)
  <2>1. m.key \in Keys
    BY <1>5, ModifierFields
  <2>2. d.filters = [fc.filters EXCEPT ![m.key] = new] /\ d.derived = fc.derived
    BY <1>5 DEF Changed, AllSelectedColumn, TreatAs, Keep, Contexts
  <2>3. k = m.key => new = ChangedAt(m, k, outer.filters[k], fc.filters[k])
    BY <1>5 DEF ChangedAt
  <2>4. k # m.key => ChangedAt(m, k, outer.filters[k], fc.filters[k]) = fc.filters[k]
    BY <1>5 DEF ChangedAt
  <2> HIDE DEF d, new
  <2>5. d.filters[k] = IF k = m.key THEN new ELSE fc.filters[k]
    BY <2>1, <2>2 DEF Contexts
  <2>6. d.filters[k] = ChangedAt(m, k, outer.filters[k], fc.filters[k])
    BY <2>3, <2>4, <2>5
  <2> QED
    BY <2>2, <2>6 DEF d
<1>6. CASE m.kind \in {"useRelationship", "crossFilter"}
  <2>1. Changed(m, outer, fc).filters = fc.filters
        /\ Changed(m, outer, fc).derived = fc.derived
    BY <1>6 DEF Changed, UseRelationship, CrossFilter, Contexts
  <2>2. ChangedAt(m, k, outer.filters[k], fc.filters[k]) = fc.filters[k]
    BY <1>6 DEF ChangedAt
  <2> QED
    BY <2>1, <2>2
<1> QED
  BY <1>1, <1>2, <1>3, <1>4, <1>5, <1>6 DEF ContextKinds

\* A context against the filters that were asked for: the same but for the
\* join columns, where nothing was asked for, and only those are derived.
Keeps(fc, said) ==
    /\ \A k \in Keys : IF k \in JoinColumns THEN said[k] = <<>> ELSE fc.filters[k] = said[k]
    /\ fc.derived \subseteq JoinColumns

\* A modifier does the same to what was asked for as to the context.
LEMMA ChangedKeeps ==
    ASSUME NoJoinFilters, NEW m \in Modifiers, m.kind \in ContextKinds,
           NEW outer \in Contexts, NEW fc \in Contexts, NEW a \in Contexts, NEW b \in Contexts,
           Keeps(outer, a.filters), Keeps(fc, b.filters)
    PROVE  Keeps(Changed(m, outer, fc), Changed(m, a, b).filters)
<1> DEFINE d == Changed(m, outer, fc)
           said == Changed(m, a, b).filters
<1>1. ASSUME NEW k \in Keys
      PROVE  IF k \in JoinColumns THEN said[k] = <<>> ELSE d.filters[k] = said[k]
  <2>1. /\ d.filters[k] = ChangedAt(m, k, outer.filters[k], fc.filters[k])
        /\ said[k] = ChangedAt(m, k, a.filters[k], b.filters[k])
    BY ChangedFilters
  <2> HIDE DEF d, said
  <2>2. CASE k \in JoinColumns
    <3>1. a.filters[k] = <<>> /\ b.filters[k] = <<>>
      BY <2>2 DEF Keeps
    <3>2. m.kind \in {"treatAs", "keep"} => k # m.key
      BY <2>2 DEF NoJoinFilters
    <3>3. ChangedAt(m, k, <<>>, <<>>) = <<>>
      BY <3>2 DEF ChangedAt, ContextKinds
    <3> QED
      BY <2>1, <2>2, <3>1, <3>3
  <2>3. CASE k \notin JoinColumns
    <3>1. outer.filters[k] = a.filters[k] /\ fc.filters[k] = b.filters[k]
      BY <2>3 DEF Keeps
    <3> QED
      BY <2>1, <2>3, <3>1
  <2> QED
    BY <2>2, <2>3
<1>2. CASE Keys = {}
  <2>1. JoinColumns = {}
    BY <1>2, RelationshipsAreTyped DEF JoinColumns
  <2>2. d.derived \in SUBSET Keys
    BY ChangedIsOne DEF Contexts
  <2> QED
    BY <1>1, <1>2, <2>1, <2>2 DEF Keeps
<1>3. CASE Keys # {}
  <2>1. d.derived \subseteq fc.derived
    BY <1>3, ChangedFilters
  <2> QED
    BY <1>1, <2>1 DEF Keeps
<1> QED
  BY <1>2, <1>3

\* So does a filter argument.
LEMMA ReplaceKeeps ==
    ASSUME NoJoinFilters, NEW p \in Predicates, NEW done,
           NEW fc \in Contexts, NEW b \in Contexts, Keeps(fc, b.filters)
    PROVE  Keeps(Replace(p.key, p.pred, done, fc), Replace(p.key, p.pred, done, b).filters)
<1> DEFINE new(c) == IF p.key \in done THEN Append(c.filters[p.key], p.pred) ELSE <<p.pred>>
           d == Replace(p.key, p.pred, done, fc)
           said == Replace(p.key, p.pred, done, b).filters
<1>1. ASSUME NEW c \in Contexts
      PROVE  /\ Replace(p.key, p.pred, done, c).filters = [c.filters EXCEPT ![p.key] = new(c)]
             /\ Replace(p.key, p.pred, done, c).derived = c.derived
  BY DEF Replace, Contexts
<1>2. p.key \in Keys /\ p.key \notin JoinColumns
  BY ReplaceIsOne DEF NoJoinFilters
<1>3. new(fc) = new(b)
  BY <1>2 DEF Keeps
<1>4. /\ d.filters = [fc.filters EXCEPT ![p.key] = new(fc)] /\ d.derived = fc.derived
      /\ said = [b.filters EXCEPT ![p.key] = new(b)]
  BY <1>1
<1> HIDE DEF new, d, said
<1>5. ASSUME NEW k \in Keys
      PROVE  IF k \in JoinColumns THEN said[k] = <<>> ELSE d.filters[k] = said[k]
  <2>1. /\ said[k] = IF k = p.key THEN new(b) ELSE b.filters[k]
        /\ d.filters[k] = IF k = p.key THEN new(fc) ELSE fc.filters[k]
    BY <1>4 DEF Contexts
  <2> QED
    BY <1>2, <1>3, <2>1 DEF Keeps
<1>6. Keeps(d, said)
  BY <1>4, <1>5 DEF Keeps
<1> QED
  BY <1>6 DEF d, said

\* Dropping what was derived drops nothing that was asked for,
LEMMA StripKeeps ==
    ASSUME NEW fc \in Contexts, NEW said, Keeps(fc, said)
    PROVE  Keeps(StripDerived(fc), said)
<1> DEFINE d == StripDerived(fc)
<1>1. /\ d.filters = [k \in Keys |-> IF k \in fc.derived THEN <<>> ELSE fc.filters[k]]
      /\ d.derived = {}
  BY DEF StripDerived, Contexts
<1> HIDE DEF d
<1>2. Keeps(d, said)
  BY <1>1 DEF Keeps
<1> QED
  BY <1>2 DEF d

\* and installing a table adds to it.
LEMMA TabledKeeps ==
    ASSUME NEW m, NEW f, NEW c, NEW fc \in Contexts, NEW said, Keeps(fc, said)
    PROVE  Keeps(Tabled(m, f, fc, c), said)
<1>1. ASSUME NEW u, NEW g PROVE Keeps(Override(u, g, fc), said)
  <2>1. Override(u, g, fc).filters = fc.filters /\ Override(u, g, fc).derived = fc.derived
    BY DEF Override, Contexts
  <2> QED
    BY <2>1 DEF Keeps
<1> QED
  BY <1>1 DEF Tabled, KeepFrame

\* One relationship of an expansion touches join columns only.
LEMMA FlowKeeps ==
    ASSUME NEW i \in Rel, NEW e, IsExpansion(e), NEW said, Keeps(e.fc, said)
    PROVE  Keeps(FlowReverse(i, FlowForward(i, e)).fc, said)
<1> DEFINE d == FlowReverse(i, FlowForward(i, e))
           ends == {Relationships[i].from, Relationships[i].to}
<1>1. ChangesOnly(ends, e, d)
  BY FlowIsOne
<1>2. ends \subseteq JoinColumns
  BY DEF JoinColumns
<1> HIDE DEF d, ends
<1>3. Keeps(d.fc, said)
  BY <1>1, <1>2 DEF Keeps, ChangesOnly
<1> QED
  BY <1>3 DEF d

\* A read gives rows that pass the filters of its context.
LEMMA ReadIsVisible ==
    ASSUME PrintsInFull, NEW c, CacheOK(c), NEW t \in Tables, NEW fc \in Contexts,
           NEW r \in FilteredFrame(t, fc, c)
    PROVE  Visible(t, r, fc)
<1>1. CASE Overridden(t, fc)
  BY <1>1 DEF FilteredFrame
<1>2. CASE ~Overridden(t, fc)
  <2>1. FilteredFrame(t, fc, c) = Filtered(t, fc)
    BY <1>2, HitIsFresh DEF FilteredFrame
  <2> QED
    BY <2>1 DEF Filtered
<1> QED
  BY <1>1, <1>2

\* A row the context shows also passes the filters that were asked for.
LEMMA KeptIsVisible ==
    ASSUME NEW t \in Tables, NEW r, NEW fc, NEW asked, Visible(t, r, fc), Keeps(fc, asked.filters)
    PROVE  Visible(t, r, asked)
<1> SUFFICES ASSUME NEW k \in ColumnsOf[t] PROVE MaskHolds(asked.filters[k], r[k])
  BY DEF Visible
<1>1. k \in Keys
  BY ColumnsAreKeys
<1>2. CASE k \in JoinColumns
  BY <1>1, <1>2 DEF Keeps, MaskHolds
<1>3. CASE k \notin JoinColumns
  BY <1>1, <1>3 DEF Keeps, Visible
<1> QED
  BY <1>2, <1>3

\* Every call, and the context that is expanded, keeps what was asked for on
\* every column that is not joined.
SaidInv ==
    /\ \A i \in DOMAIN stack : Keeps(stack[i].fc, stack[i].said)
    /\ job # NoJob => Keeps(job.fc, Top.said)
    /\ FiltersHold

\* The invariant behind FiltersHold holds at the start,
LEMMA SaidInit == EvalInit => SaidInv
BY DEF EvalInit, SaidInv, FiltersHold, Root, Keeps, NewContext

\* As for ShownInv: a step that replaces the innermost call, one that starts an
\* expansion.
LEMMA SaidTop ==
    ASSUME EvalInv, SaidInv, NEW f \in Calls, SetTop(f), Len(stack) > 1 \/ f.phase = "body",
           Keeps(f.fc, f.said), job' = NoJob, result' = NoResult
    PROVE  SaidInv'
<1>1. /\ stack' \in Seq(Calls) /\ Len(stack') = Len(stack) /\ Top' = f
      /\ \A i \in 1..(Len(stack) - 1) : stack'[i] = stack[i]
  BY SetTopIsOne
<1>2. Len(stack) \in Nat /\ Len(stack) >= 1 /\ stack \in Seq(Calls)
  BY TopIsOne DEF EvalInv
<1>3. ASSUME NEW i \in DOMAIN stack' PROVE Keeps(stack'[i].fc, stack'[i].said)
  <2>1. CASE i = Len(stack)
    BY <1>1, <2>1 DEF Top
  <2>2. CASE i # Len(stack)
    <3>1. i \in 1..(Len(stack) - 1) /\ i \in DOMAIN stack
      BY <1>1, <1>2, <2>2
    <3> QED
      BY <1>1, <3>1 DEF SaidInv
  <2> QED
    BY <2>1, <2>2
<1>4. FiltersHold'
  BY DEF FiltersHold
<1> QED
  BY <1>3, <1>4 DEF SaidInv

\* starting an expansion keeps it,
LEMMA SaidExpanding ==
    ASSUME EvalInv, SaidInv, NEW then, Expanding(Top.fc, then),
           stack' = stack, result' = NoResult
    PROVE  SaidInv'
<1>1. Top \in Calls /\ Top.fc \in Contexts /\ Keeps(Top.fc, Top.said)
  <2>1. Top \in Calls /\ Len(stack) \in DOMAIN stack
    BY TopIsOne DEF EvalInv
  <2> QED
    BY <2>1 DEF SaidInv, Top, Calls
<1>2. Keeps(job'.fc, Top.said)
  <2>1. Keeps(StripDerived(Top.fc), Top.said)
    BY <1>1, StripKeeps
  <2> QED
    BY <2>1 DEF Expanding
<1>3. FiltersHold'
  BY DEF FiltersHold
<1> QED
  BY <1>2, <1>3 DEF SaidInv, Top

\* and so does every step, if series are printed in full and no argument
\* filters a join column.
LEMMA SaidNext ==
    ASSUME PrintsInFull, NoJoinFilters, EvalInv, EvalInv', SaidInv, [EvalNext]_vars
    PROVE  SaidInv'
<1>0. /\ Len(stack) \in Nat /\ Len(stack) >= 1 /\ Len(stack) \in DOMAIN stack
      /\ Top \in Calls /\ Top.fc \in Contexts /\ Keeps(Top.fc, Top.said)
      /\ Asked(Top) \in Contexts /\ Asked(Top).filters = Top.said
      /\ Top.phase # "body" => Len(stack) > 1 /\ Caller \in Calls
      /\ stack \in Seq(Calls)
  <2>1. /\ Len(stack) \in Nat /\ Len(stack) >= 1 /\ Top \in Calls /\ stack \in Seq(Calls)
        /\ Top.phase # "body" => Len(stack) > 1 /\ Caller \in Calls
    BY TopIsOne DEF EvalInv
  <2>2. Len(stack) \in DOMAIN stack
    BY <2>1
  <2>3. Asked(Top) \in Contexts /\ Asked(Top).filters = Top.said
    BY <2>1, AskedIsOne DEF Asked, Calls, Contexts
  <2> QED
    BY <2>1, <2>2, <2>3 DEF SaidInv, Top, Calls
<1>1. CASE Calculate
  <2> DEFINE f == [Top EXCEPT !.phase = "modifiers", !.replaced = {}, !.shown = {}]
  <2>1. stack' = Append(stack, f) /\ f.fc = Top.fc /\ f.said = Top.said /\ f \in Calls
    BY <1>0, <1>1 DEF Calculate, Calls
  <2> HIDE DEF f
  <2>2. /\ DOMAIN stack' = DOMAIN stack \cup {Len(stack) + 1}
        /\ \A i \in DOMAIN stack : stack'[i] = stack[i]
        /\ stack'[Len(stack) + 1] = f
    BY <1>0, <2>1
  <2>3. job' = NoJob /\ result' = NoResult
    BY <1>1 DEF Calculate, Idle
  <2>4. \A i \in DOMAIN stack' : Keeps(stack'[i].fc, stack'[i].said)
    BY <1>0, <2>1, <2>2 DEF SaidInv
  <2> QED
    BY <2>3, <2>4 DEF SaidInv, FiltersHold
<1>2. ASSUME NEW m \in Modifiers, Modify(m) PROVE SaidInv'
  <2> DEFINE fc == Changed(m, Caller.fc, Top.fc)
             said == Changed(m, Asked(Caller), Asked(Top)).filters
  <2>1. /\ m.kind \in ContextKinds /\ Len(stack) > 1 /\ Caller \in Calls
        /\ job' = NoJob /\ result' = NoResult
    BY <1>2, ModifyStep
  <2>2. PICK f \in Calls : SetTop(f) /\ f.fc = fc /\ f.said = said
    BY <1>2, ModifyStep
  <2>3. /\ Caller.fc \in Contexts /\ Asked(Caller) \in Contexts
        /\ Asked(Caller).filters = Caller.said
    BY <2>1, AskedIsOne DEF Asked, Calls, Contexts
  <2>4. Keeps(Caller.fc, Caller.said)
    <3>1. Len(stack) - 1 \in DOMAIN stack
      BY <1>0, <2>1
    <3> QED
      BY <3>1 DEF SaidInv, Caller
  <2>5. Keeps(fc, said)
    BY <1>0, <2>1, <2>3, <2>4, ChangedKeeps
  <2> HIDE DEF fc, said
  <2> QED
    BY <2>1, <2>2, <2>5, SaidTop
<1>3. CASE TakeTable \/ \E m \in Modifiers : ModifyTable(m)
  <2>0. PICK m \in Modifiers, g \in Frames :
            \E c :
              /\ m.kind \in TableKinds /\ g.cols \subseteq ColumnsOf[TableOf[m.of.key]]
              /\ CacheOK(c) /\ Installed(m, g, c) /\ job' = NoJob /\ result' = NoResult
    BY <1>3, TableStep
  <2>1. PICK c :
            /\ m.kind \in TableKinds /\ g.cols \subseteq ColumnsOf[TableOf[m.of.key]]
            /\ CacheOK(c) /\ Installed(m, g, c) /\ job' = NoJob /\ result' = NoResult
    BY <2>0
  <2> DEFINE f == Installing(m, g, c)
  <2>2. SetTop(f) /\ f \in Calls /\ f.phase = Top.phase
    BY <2>1, InstalledIsOne
  <2>3. f.fc = Tabled(m, g, Top.fc, c) /\ f.said = Top.said
    BY <1>0 DEF Installing, Calls
  <2>4. Keeps(Tabled(m, g, Top.fc, c), Top.said)
    BY <1>0, TabledKeeps
  <2> HIDE DEF f
  <2> QED
    BY <1>0, <2>1, <2>2, <2>3, <2>4, SaidTop
<1>4. ASSUME NEW m \in Modifiers, EvaluateTable(m) PROVE SaidInv'
  BY <1>4, SaidExpanding DEF EvaluateTable, Argument, Idle
<1>5. ASSUME NEW p \in Predicates, Filter(p) PROVE SaidInv'
  <2> DEFINE fc == Replace(p.key, p.pred, Top.replaced, Top.fc)
             said == Replace(p.key, p.pred, Top.replaced, Asked(Top)).filters
  <2>1. PICK f \in Calls : SetTop(f) /\ f.fc = fc /\ f.said = said
    BY <1>5, FilterStep
  <2>2. Keeps(fc, said)
    BY <1>0, ReplaceKeeps
  <2>3. job' = NoJob /\ result' = NoResult /\ Len(stack) > 1
    BY <1>5, FilterStep
  <2> HIDE DEF fc, said
  <2> QED
    BY <2>1, <2>2, <2>3, SaidTop
<1>6. CASE Enter
  BY <1>6, SaidExpanding DEF Enter, Idle
<1>7. ASSUME NEW t \in Tables, NEW kind \in {"column", "table"}, Read(t, kind)
      PROVE  SaidInv'
  BY <1>7, SaidExpanding DEF Read, Idle
<1>8. CASE ExpandVia
  <2> DEFINE e == [fc |-> job.fc, cache |-> cache, changed |-> job.changed]
             d == FlowReverse(job.rel, FlowForward(job.rel, e))
  <2>1. IsJob(job) /\ job.rel \in Rel /\ result = NoResult /\ job # NoJob
    BY <1>8 DEF ExpandVia, EvalInv
  <2>2. IsExpansion(e)
    BY <2>1 DEF IsExpansion, IsJob, EvalInv
  <2>3. Keeps(d.fc, Top.said)
    <3>1. Keeps(e.fc, Top.said)
      BY <2>1 DEF SaidInv
    <3> QED
      BY <2>1, <2>2, <3>1, FlowKeeps
  <2>4. job' = [job EXCEPT !.fc = d.fc, !.rel = @ + 1, !.changed = d.changed]
        /\ stack' = stack /\ result' = result
    BY <1>8 DEF ExpandVia
  <2> HIDE DEF d
  <2>5. job'.fc = d.fc
    BY <2>1, <2>4 DEF IsJob
  <2> QED
    BY <2>1, <2>3, <2>4, <2>5 DEF SaidInv, FiltersHold, Top
<1>9. CASE Again
  <2>1. IsJob(job) /\ result = NoResult /\ job # NoJob
    BY <1>9 DEF Again, EvalInv
  <2>2. job'.fc = job.fc /\ stack' = stack /\ result' = result
    BY <1>9, <2>1 DEF Again, IsJob
  <2> QED
    BY <2>1, <2>2 DEF SaidInv, FiltersHold, Top
<1>10. CASE EnterBody
  <2> DEFINE f == [Top EXCEPT !.fc = job.fc, !.phase = "body"]
  <2>1. job # NoJob /\ job.fc \in Contexts /\ result = NoResult
    BY <1>10 DEF EnterBody, Expanded, EvalInv, IsJob
  <2>2. /\ f \in Calls /\ f.phase = "body" /\ SetTop(f)
        /\ f.fc = job.fc /\ f.said = Top.said
    BY <1>0, <1>10, <2>1 DEF EnterBody, Calls
  <2>3. Keeps(job.fc, Top.said)
    BY <2>1 DEF SaidInv
  <2> HIDE DEF f
  <2>4. job' = NoJob /\ result' = NoResult
    BY <1>10, <2>1 DEF EnterBody
  <2> QED
    BY <2>2, <2>3, <2>4, SaidTop
<1>11. CASE TakeRows
  <2> DEFINE t == job.then.table
             rows == FilteredFrame(t, job.fc, cache)
  <2>1. t \in Tables /\ job.fc \in Contexts /\ job # NoJob
    BY <1>11, ReadStep
  <2>2. /\ result' = [table |-> t, kind |-> job.then.kind,
                      rows |-> IF job.then.kind = "table" THEN WithoutBlank(t, rows) ELSE rows]
        /\ job' = NoJob /\ stack' = stack
    BY <1>11 DEF TakeRows
  <2>3. ASSUME NEW r \in rows PROVE Visible(t, r, Asked(Top))
    <3>1. Visible(t, r, job.fc)
      BY <2>1, ReadIsVisible DEF EvalInv
    <3>2. Keeps(job.fc, Asked(Top).filters)
      BY <1>0, <2>1 DEF SaidInv
    <3> QED
      BY <2>1, <3>1, <3>2, KeptIsVisible
  <2> HIDE DEF t, rows
  <2>4. WithoutBlank(t, rows) \subseteq rows
    BY DEF WithoutBlank
  <2>5. result'.table = t /\ result'.rows \subseteq rows
    BY <2>2, <2>4
  <2>6. FiltersHold'
    BY <2>2, <2>3, <2>5 DEF FiltersHold, Top
  <2> QED
    BY <2>2, <2>6 DEF SaidInv
<1>12. CASE Return
  <2>1. /\ stack' = SubSeq(stack, 1, Len(stack) - 1) /\ Len(stack) > 1
        /\ job' = NoJob /\ result' = NoResult
    BY <1>12 DEF Return
  <2>2. /\ DOMAIN stack' \subseteq DOMAIN stack
        /\ \A i \in DOMAIN stack' : stack'[i] = stack[i]
    BY <1>0, <2>1
  <2> QED
    BY <2>1, <2>2 DEF SaidInv, FiltersHold
<1>13. CASE UNCHANGED vars
  BY <1>13 DEF vars, SaidInv, FiltersHold, Top
<1> QED
  BY <1>1, <1>2, <1>3, <1>4, <1>5, <1>6, <1>7, <1>8, <1>9, <1>10, <1>11, <1>12, <1>13
     DEF EvalNext, Expand

\* If no argument filters a join column, a body sees only rows that pass every
\* filter that was asked for and is still in force.
THEOREM FiltersHoldAlways ==
    PrintsInFull /\ NoJoinFilters => (EvalSpec => []FiltersHold)
<1> SUFFICES ASSUME PrintsInFull, NoJoinFilters PROVE EvalSpec => []FiltersHold
  OBVIOUS
<1>1. EvalInv /\ EvalInv' /\ SaidInv /\ [EvalNext]_vars => SaidInv'
  BY SaidNext
<1>2. EvalSpec => []SaidInv
  BY <1>1, EvalInvAlways, SaidInit, PTL DEF EvalSpec
<1>3. SaidInv => FiltersHold
  BY DEF SaidInv
<1> QED
  BY <1>2, <1>3, PTL

------------------------------------------------------------------------------
(* An expansion comes to an end: what a pass may still take away shrinks.   *)

\* A column with an In has a first one.
LEMMA FirstIn ==
    ASSUME NEW preds \in Seq(Predicate), NEW i \in DOMAIN preds, preds[i].op = "In"
    PROVE  InAt(preds) # {}
<1> DEFINE S == {j \in DOMAIN preds : preds[j].op = "In"}
<1>1. S \in SUBSET Nat /\ S # {}
  OBVIOUS
<1>2. PICK n \in S : \A m \in S : n <= m
  <2> HIDE DEF S
  <2> QED
    BY <1>1, LeastNat
<1>3. ASSUME NEW j \in 1..(n - 1) PROVE preds[j].op # "In"
  <2>1. n \in 1..Len(preds) /\ j \in Nat /\ n \in Nat /\ j < n /\ j \in DOMAIN preds
    OBVIOUS
  <2> QED
    BY <1>2, <2>1
<1> QED
  BY <1>2, <1>3 DEF InAt

\* There is at most one first In,
LEMMA OneFirstIn ==
    ASSUME NEW preds \in Seq(Predicate), NEW i \in InAt(preds), NEW j \in InAt(preds)
    PROVE  i = j
<1>1. i \in Nat /\ j \in Nat /\ i >= 1 /\ j >= 1
  BY DEF InAt
<1>2. ~(i < j) /\ ~(j < i)
  BY <1>1 DEF InAt
<1> QED
  BY <1>1, <1>2

\* whose values are what is left of the column.
LEMMA LeftAtFirst ==
    ASSUME NEW preds \in Seq(Predicate), NEW i \in InAt(preds)
    PROVE  LeftIn(preds) = {{v} : v \in preds[i].vals}
<1> DEFINE c == CHOOSE j \in InAt(preds) : TRUE
<1>1. c \in InAt(preds)
  OBVIOUS
<1>2. c = i
  BY <1>1, OneFirstIn
<1> HIDE DEF c
<1>3. LeftIn(preds) = {{v} : v \in preds[c].vals}
  BY DEF LeftIn, c
<1> QED
  BY <1>2, <1>3

\* A column without an In can only lose.
LEMMA FirstInCuts ==
    ASSUME NEW preds \in Seq(Predicate), InAt(preds) = {}, NEW vals \in SUBSET Values
    PROVE  /\ LeftIn(Append(preds, In(vals))) \subseteq LeftIn(preds)
           /\ LeftIn(Append(preds, In(vals))) # LeftIn(preds)
<1> DEFINE new == Append(preds, In(vals))
           n == Len(preds) + 1
<1>1. /\ new \in Seq(Predicate) /\ n \in DOMAIN new /\ new[n] = In(vals)
      /\ \A j \in 1..(n - 1) : j \in DOMAIN preds /\ new[j] = preds[j]
  BY PredicateIn
<1>2. \A j \in 1..(n - 1) : new[j].op # "In"
  BY <1>1, FirstIn
<1> HIDE DEF new, n
<1>3. n \in InAt(new)
  BY <1>1, <1>2 DEF InAt, In
<1>4. LeftIn(new) = {{v} : v \in vals}
  BY <1>1, <1>3, LeftAtFirst DEF In
<1>5. LeftIn(preds) = {{}} \cup {{v} : v \in Values}
  BY DEF LeftIn
<1> QED
  BY <1>4, <1>5 DEF new

\* A first In that is replaced by another stays the first.
LEMMA CutFirstIn ==
    ASSUME NEW preds \in Seq(Predicate), NEW i \in InAt(preds), NEW vals \in SUBSET Values
    PROVE  LeftIn([preds EXCEPT ![i] = In(vals)]) = {{v} : v \in vals}
<1> DEFINE new == [preds EXCEPT ![i] = In(vals)]
<1>1. /\ i \in DOMAIN preds /\ i \in Nat
      /\ \A j \in 1..(i - 1) : preds[j].op # "In"
  BY DEF InAt
<1>2. /\ new \in Seq(Predicate) /\ i \in DOMAIN new /\ new[i] = In(vals)
      /\ \A j \in 1..(i - 1) : j \in DOMAIN preds /\ new[j] = preds[j]
  BY <1>1, PredicateIn
<1> HIDE DEF new
<1>3. i \in InAt(new)
  BY <1>1, <1>2 DEF InAt, In
<1>4. LeftIn(new) = {{v} : v \in new[i].vals}
  BY <1>2, <1>3, LeftAtFirst
<1> QED
  BY <1>2, <1>4 DEF new, In

\* A merge takes away from its column, and says so, or leaves it.
LEMMA MergedCuts ==
    ASSUME NEW fc \in Contexts, NEW k \in Keys, NEW vals \in SUBSET Values
    PROVE  LET m == Merged(fc, k, vals) IN
           /\ LeftIn(m.fc.filters[k]) \subseteq LeftIn(fc.filters[k])
           /\ m.changed = (LeftIn(m.fc.filters[k]) # LeftIn(fc.filters[k]))
<1> DEFINE m == Merged(fc, k, vals)
           preds == fc.filters[k]
<1>1. preds \in Seq(Predicate)
  BY DEF Contexts
<1>2. CASE InAt(preds) = {}
  <2> DEFINE new == Append(preds, In(vals))
  <2>1. LeftIn(new) \subseteq LeftIn(preds) /\ LeftIn(new) # LeftIn(preds)
    <3> HIDE DEF preds
    <3> QED
      BY <1>1, <1>2, FirstInCuts
  <2>2. m.changed = TRUE
    BY <1>2 DEF Merged
  <2>3. m.fc.filters[k] = new
    <3>1. m.fc = [fc EXCEPT !.derived = @ \cup {k}, !.filters[k] = new]
      BY <1>2 DEF Merged
    <3> HIDE DEF new, m
    <3> QED
      BY <3>1 DEF Contexts
  <2> HIDE DEF new, m, preds
  <2> QED
    BY <2>1, <2>2, <2>3 DEF m, preds
<1>3. CASE InAt(preds) # {}
  <2> DEFINE i == CHOOSE j \in InAt(preds) : TRUE
             both == Intersected(preds[i].vals, vals)
             new == [preds EXCEPT ![i] = In(both)]
  <2>1. i \in InAt(preds)
    BY <1>3
  <2>2. m.changed = (both # preds[i].vals)
    BY <1>3 DEF Merged
  <2>3. m.fc.filters[k] = new
    <3>1. m.fc = [fc EXCEPT !.derived = @ \cup {k}, !.filters[k] = new]
      BY <1>3 DEF Merged
    <3> HIDE DEF new, m
    <3> QED
      BY <3>1 DEF Contexts
  <2> HIDE DEF m, i, preds
  <2>4. preds[i] \in Predicate
    BY <1>1, <2>1 DEF InAt
  <2>5. both \in SUBSET Values /\ both \subseteq preds[i].vals
    BY <2>4 DEF Intersected, Predicate
  <2> HIDE DEF both
  <2>6. LeftIn(new) = {{v} : v \in both}
    BY <1>1, <2>1, <2>5, CutFirstIn
  <2>7. LeftIn(preds) = {{v} : v \in preds[i].vals}
    BY <1>1, <2>1, LeftAtFirst
  <2>8. LeftIn(new) \subseteq LeftIn(preds)
    BY <2>5, <2>6, <2>7
  <2>9. (both # preds[i].vals) = (LeftIn(new) # LeftIn(preds))
    <3>1. ASSUME LeftIn(new) = LeftIn(preds), NEW v \in preds[i].vals PROVE v \in both
      <4>1. {v} \in {{w} : w \in both}
        BY <2>6, <2>7, <3>1
      <4> QED
        BY <4>1
    <3>2. LeftIn(new) = LeftIn(preds) => both = preds[i].vals
      BY <2>5, <3>1
    <3>3. both = preds[i].vals => LeftIn(new) = LeftIn(preds)
      BY <2>6, <2>7
    <3> QED
      BY <3>2, <3>3
  <2> HIDE DEF new
  <2> QED
    BY <2>2, <2>3, <2>8, <2>9 DEF m, preds
<1> QED
  BY <1>2, <1>3

\* From context fc to d, in as many merges as it takes: nothing is added to any
\* column, and changed tells whether one of them lost.
Cuts(fc, d, changed) ==
    /\ \A k \in Keys : LeftIn(d.filters[k]) \subseteq LeftIn(fc.filters[k])
    /\ changed = (\E k \in Keys : LeftIn(d.filters[k]) # LeftIn(fc.filters[k]))

\* What two propagations cut one after the other is cut by both.
LEMMA CutsCompose ==
    ASSUME NEW a, NEW b, NEW c, NEW x \in BOOLEAN, NEW y \in BOOLEAN,
           Cuts(a, b, x), Cuts(b, c, y)
    PROVE  Cuts(a, c, x \/ y)
<1> DEFINE A(k) == LeftIn(a.filters[k])
           B(k) == LeftIn(b.filters[k])
           C(k) == LeftIn(c.filters[k])
<1>1. \A k \in Keys : B(k) \subseteq A(k) /\ C(k) \subseteq B(k)
  BY DEF Cuts
<1>2. x <=> \E k \in Keys : B(k) # A(k)
  BY DEF Cuts
<1>3. y <=> \E k \in Keys : C(k) # B(k)
  BY DEF Cuts
<1> HIDE DEF A, B, C
<1>4. \A k \in Keys : C(k) \subseteq A(k)
  BY <1>1
<1>5. (x \/ y) <=> \E k \in Keys : C(k) # A(k)
  <2>1. \A k \in Keys : C(k) = A(k) => B(k) = A(k) /\ C(k) = B(k)
    BY <1>1
  <2>2. \A k \in Keys : B(k) = A(k) /\ C(k) = B(k) => C(k) = A(k)
    OBVIOUS
  <2> QED
    BY <1>2, <1>3, <2>1, <2>2
<1> QED
  BY <1>4, <1>5 DEF Cuts, A, C

\* One direction of a relationship.
LEMMA PropagatedCuts ==
    ASSUME NEW near \in Keys, NEW far \in Keys, NEW wanted \in BOOLEAN,
           NEW e, IsExpansion(e), NEW start, Cuts(start, e.fc, e.changed)
    PROVE  LET d == Propagated(near, far, wanted, e) IN Cuts(start, d.fc, d.changed)
<1> DEFINE vals == JoinValues(near, e.fc, e.cache)
           m == Merged(e.fc, far, vals)
           d == Propagated(near, far, wanted, e)
<1>1. CASE ~wanted
  BY <1>1 DEF Propagated
<1>2. CASE wanted
  <2>1. TableOf[near] \in Tables /\ near \in ColumnsOf[TableOf[near]]
    BY DEF Tables, ColumnsOf
  <2>2. vals \in SUBSET Values
    <3>1. FilteredFrame(TableOf[near], e.fc, e.cache)
             \in SUBSET [ColumnsOf[TableOf[near]] -> Values]
      BY <2>1, FilteredFrameRows DEF IsExpansion
    <3> QED
      BY <2>1, <3>1 DEF JoinValues
  <2>3. d = [fc |-> m.fc, cache |-> Caching(TableOf[near], e.fc, e.cache),
             changed |-> e.changed \/ m.changed]
    BY <1>2 DEF Propagated, Flowed
  <2> HIDE DEF vals, d
  <2>4. e.fc \in Contexts /\ e.changed \in BOOLEAN
    BY DEF IsExpansion
  <2>5. m.changed \in BOOLEAN
    BY <2>2, <2>4, MergedIsOne
  <2>6. \A k \in Keys \ {far} : m.fc.filters[k] = e.fc.filters[k]
    BY <2>4, MergedChanges
  <2>7. /\ LeftIn(m.fc.filters[far]) \subseteq LeftIn(e.fc.filters[far])
        /\ m.changed = (LeftIn(m.fc.filters[far]) # LeftIn(e.fc.filters[far]))
    BY <2>2, <2>4, MergedCuts
  <2> HIDE DEF m
  <2>8. Cuts(e.fc, m.fc, m.changed)
    BY <2>5, <2>6, <2>7 DEF Cuts
  <2>9. Cuts(start, m.fc, e.changed \/ m.changed)
    BY <2>4, <2>5, <2>8, CutsCompose
  <2>10. d.fc = m.fc /\ d.changed = (e.changed \/ m.changed)
    BY <2>3
  <2> QED
    BY <2>9, <2>10 DEF d
<1> QED
  BY <1>1, <1>2

\* Both directions of one relationship.
LEMMA FlowCuts ==
    ASSUME NEW i \in Rel, NEW e, IsExpansion(e), NEW start, Cuts(start, e.fc, e.changed)
    PROVE  LET d == FlowReverse(i, FlowForward(i, e)) IN Cuts(start, d.fc, d.changed)
<1> DEFINE f == FlowForward(i, e)
           d == FlowReverse(i, f)
           from == Relationships[i].from
           to == Relationships[i].to
<1>1. from \in Keys /\ to \in Keys
  BY RelationshipsAreTyped
<1>2. IsExpansion(f) /\ Cuts(start, f.fc, f.changed)
  <2> DEFINE wanted == /\ Followed(i, e.fc)
                       /\ HasFilters(TableOf[to], e.fc) \/ Overridden(TableOf[to], e.fc)
  <2>1. wanted \in BOOLEAN
    OBVIOUS
  <2>2. f = Propagated(to, from, wanted, e)
    BY DEF FlowForward
  <2> HIDE DEF wanted, f
  <2> QED
    BY <1>1, <2>1, <2>2, PropagatedIsOne, PropagatedCuts
<1>3. Cuts(start, d.fc, d.changed)
  <2> DEFINE wanted == BothWays(i, f.fc) /\ HasFilters(TableOf[from], f.fc)
  <2>1. wanted \in BOOLEAN
    BY DEF HasFilters
  <2>2. d = Propagated(from, to, wanted, f)
    BY DEF FlowReverse
  <2> HIDE DEF wanted, d, f
  <2> QED
    BY <1>1, <1>2, <2>1, <2>2, PropagatedCuts
<1> QED
  BY <1>3

\* The relationships that a pass is through with have cut what it says.
ProgressInv ==
    job # NoJob =>
        \E start \in Contexts : job.left = Left(start) /\ Cuts(start, job.fc, job.changed)

\* A pass that begins has cut nothing,
LEMMA NothingCut == ASSUME NEW fc PROVE Cuts(fc, fc, FALSE)
BY DEF Cuts

\* and so has the first pass of an expansion.
LEMMA ExpandingCuts ==
    ASSUME NEW fc \in Contexts, NEW then, Expanding(fc, then)
    PROVE  ProgressInv'
<1> DEFINE start == StripDerived(fc)
<1>1. start \in Contexts
  BY StripDerivedIsOne
<1> HIDE DEF start
<1>2. Cuts(start, start, FALSE)
  BY NothingCut
<1>3. job' = [fc |-> start, rel |-> 1, changed |-> FALSE, then |-> then, left |-> Left(start)]
  BY DEF Expanding, start
<1>4. job'.left = Left(start) /\ job'.fc = start /\ job'.changed = FALSE
  BY <1>3
<1> QED
  BY <1>1, <1>2, <1>4 DEF ProgressInv

\* Every step keeps the account of the pass.
LEMMA ProgressNext == ASSUME EvalInv, ProgressInv, [EvalNext]_vars PROVE ProgressInv'
<1>0. Top.fc \in Contexts
  BY TopIsOne DEF Calls
<1>1. ASSUME UNCHANGED job PROVE ProgressInv'
  BY <1>1 DEF ProgressInv
<1>2. ASSUME job' = NoJob PROVE ProgressInv'
  BY <1>2 DEF ProgressInv
<1>3. CASE ExpandVia
  <2> DEFINE e == [fc |-> job.fc, cache |-> cache, changed |-> job.changed]
             d == FlowReverse(job.rel, FlowForward(job.rel, e))
  <2>1. IsJob(job) /\ job.rel \in Rel /\ job # NoJob
    BY <1>3 DEF ExpandVia, EvalInv
  <2>2. IsExpansion(e)
    BY <2>1 DEF IsExpansion, IsJob, EvalInv
  <2>3. PICK start \in Contexts : job.left = Left(start) /\ Cuts(start, job.fc, job.changed)
    BY <2>1 DEF ProgressInv
  <2>4. e.fc = job.fc /\ e.changed = job.changed
    OBVIOUS
  <2>5. job' = [job EXCEPT !.fc = d.fc, !.rel = @ + 1, !.changed = d.changed]
    BY <1>3 DEF ExpandVia
  <2> HIDE DEF e
  <2>6. Cuts(start, d.fc, d.changed)
    BY <2>1, <2>2, <2>3, <2>4, FlowCuts
  <2> HIDE DEF d
  <2>7. job'.left = job.left /\ job'.fc = d.fc /\ job'.changed = d.changed
    BY <2>1, <2>5 DEF IsJob
  <2> QED
    BY <2>3, <2>6, <2>7 DEF ProgressInv
<1>4. CASE Again
  <2>1. IsJob(job) /\ job.fc \in Contexts
    BY <1>4 DEF Again, EvalInv, IsJob
  <2>2. job'.left = Left(job.fc) /\ job'.fc = job.fc /\ job'.changed = FALSE
    BY <1>4, <2>1 DEF Again, IsJob
  <2> QED
    BY <2>1, <2>2, NothingCut DEF ProgressInv
<1>5. ASSUME NEW m \in Modifiers, EvaluateTable(m) PROVE ProgressInv'
  BY <1>0, <1>5, ExpandingCuts DEF EvaluateTable
<1>6. CASE Enter
  BY <1>0, <1>6, ExpandingCuts DEF Enter
<1>7. ASSUME NEW t \in Tables, NEW kind \in {"column", "table"}, Read(t, kind)
      PROVE  ProgressInv'
  BY <1>0, <1>7, ExpandingCuts DEF Read
<1>8. CASE Calculate
  BY <1>1, <1>8 DEF Calculate
<1>9. ASSUME NEW m \in Modifiers, Modify(m) \/ ModifyTable(m) PROVE ProgressInv'
  BY <1>1, <1>9 DEF Modify, ModifyTable
<1>10. ASSUME NEW p \in Predicates, Filter(p) PROVE ProgressInv'
  BY <1>1, <1>10 DEF Filter
<1>11. CASE EnterBody \/ TakeTable \/ TakeRows
  BY <1>2, <1>11 DEF EnterBody, TakeTable, TakeRows
<1>12. CASE Return
  BY <1>1, <1>12 DEF Return
<1>13. CASE UNCHANGED vars
  BY <1>1, <1>13 DEF vars
<1> QED
  BY <1>3, <1>4, <1>5, <1>6, <1>7, <1>8, <1>9, <1>10, <1>11, <1>12, <1>13
     DEF EvalNext, Expand

\* A pass over the relationships asks for another one just when it took some of
\* the values that are left to intersect away, and it never adds any: with
\* finitely many columns and values, every expansion ends.
THEOREM ExpansionProgressesAlways == EvalSpec => []ExpansionProgresses
<1>1. EvalInit => ProgressInv
  BY DEF EvalInit, ProgressInv
<1>2. EvalInv /\ ProgressInv /\ [EvalNext]_vars => ProgressInv'
  BY ProgressNext
<1>3. ProgressInv => ExpansionProgresses
  <2> SUFFICES ASSUME ProgressInv, job # NoJob
               PROVE  /\ \A k \in Keys : Left(job.fc)[k] \subseteq job.left[k]
                      /\ job.changed = (Left(job.fc) # job.left)
    BY DEF ExpansionProgresses
  <2>1. PICK start \in Contexts : job.left = Left(start) /\ Cuts(start, job.fc, job.changed)
    BY DEF ProgressInv
  <2> DEFINE S(k) == LeftIn(start.filters[k])
             J(k) == LeftIn(job.fc.filters[k])
  <2>2. Left(start) = [k \in Keys |-> S(k)] /\ Left(job.fc) = [k \in Keys |-> J(k)]
    BY DEF Left
  <2>3. /\ \A k \in Keys : J(k) \subseteq S(k)
        /\ job.changed = (\E k \in Keys : J(k) # S(k))
    BY <2>1 DEF Cuts
  <2> HIDE DEF S, J
  <2>4. (Left(job.fc) # Left(start)) = (\E k \in Keys : J(k) # S(k))
    BY <2>2
  <2> QED
    BY <2>1, <2>2, <2>3, <2>4
<1> QED
  BY <1>1, <1>2, <1>3, EvalInvAlways, PTL DEF EvalSpec

------------------------------------------------------------------------------
(* What filters and relationships leave, from scratch: Flow and Reference.  *)

\* One step of the growth of Flow and of the loss of Reference, as functions.
FlowStep(fc) == [S \in SUBSET Tables |-> S \cup FlowsTo(fc, S)]

RestStep(fc) ==
    [rows \in SUBSET Passing(fc) |->
        {q \in rows : Stays(fc, Flow(fc), rows, q[1], q[2])}]

DirectlyFiltered(fc) == {t \in Tables : HasFilters(t, fc)}

FlowIterations(fc) ==
    Iterations(Cardinality(Tables), SUBSET Tables, DirectlyFiltered(fc), FlowStep(fc))

RestIterations(fc) ==
    Iterations(Cardinality(Passing(fc)), SUBSET Passing(fc), Passing(fc), RestStep(fc))

\* Filters flow to tables.
LEMMA FlowsToTables == ASSUME NEW fc, NEW S PROVE FlowsTo(fc, S) \in SUBSET Tables
<1>1. ASSUME NEW i \in Rel
      PROVE  TableOf[Relationships[i].from] \in Tables /\ TableOf[Relationships[i].to] \in Tables
  BY RelationshipsAreTyped DEF Tables
<1> QED
  BY <1>1 DEF FlowsTo

\* Flow is what FlowStep comes to.
LEMMA FlowIsIterated ==
    ASSUME NEW fc, IsFiniteSet(Tables)
    PROVE  FlowIterations(fc) # {}
           /\ \A f \in FlowIterations(fc) : Flow(fc) = f[Cardinality(Tables)]
<1> DEFINE N == Cardinality(Tables)
           base == DirectlyFiltered(fc)
           step == FlowStep(fc)
           Eq(g) == g = [n \in 0..N |->
                           IF n = 0 THEN {t \in Tables : HasFilters(t, fc)}
                           ELSE LET S == g[n - 1] IN S \cup FlowsTo(fc, S)]
           h == CHOOSE g : Eq(g)
<1>1. N \in Nat
  BY FS_CardinalityType
<1>2. step \in [SUBSET Tables -> SUBSET Tables] /\ base \in SUBSET Tables
      /\ \A S \in SUBSET Tables : step[S] = S \cup FlowsTo(fc, S)
  BY FlowsToTables DEF FlowStep, DirectlyFiltered
<1>3. Flow(fc) = h[N]
  BY DEF Flow
<1> HIDE DEF step
<1>4. FlowIterations(fc) # {}
  <2> HIDE DEF N, base
  <2>1. Iterations(N, SUBSET Tables, base, step) # {}
    BY <1>1, <1>2, Iteration
  <2> QED
    BY <2>1 DEF FlowIterations, N, base, step
<1>5. ASSUME NEW f \in FlowIterations(fc) PROVE h[N] = f[N]
  <2>1. f \in Iterations(N, SUBSET Tables, base, step)
    BY DEF FlowIterations, step
  <2>2. /\ f \in [0..N -> SUBSET Tables] /\ f[0] = base
        /\ \A n \in 1..N : f[n] = step[f[n - 1]]
    BY <2>1 DEF Iterations
  <2>3. ASSUME NEW n \in 1..N PROVE f[n] = f[n - 1] \cup FlowsTo(fc, f[n - 1])
    <3>1. n - 1 \in 0..N
      BY <1>1
    <3> QED
      BY <1>2, <2>2, <3>1
  <2>4. Eq(f)
    <3> DEFINE new(n) == IF n = 0 THEN {t \in Tables : HasFilters(t, fc)}
                         ELSE LET S == f[n - 1] IN S \cup FlowsTo(fc, S)
    <3>1. ASSUME NEW n \in 0..N PROVE f[n] = new(n)
      <4>1. CASE n = 0
        BY <2>2, <4>1 DEF DirectlyFiltered
      <4>2. CASE n # 0
        <5>1. n \in 1..N
          BY <1>1, <4>2
        <5> QED
          BY <2>3, <4>2, <5>1
      <4> QED
        BY <4>1, <4>2
    <3> HIDE DEF new
    <3>2. f = [n \in 0..N |-> new(n)]
      BY <2>2, <3>1
    <3> QED
      BY <3>2 DEF new
  <2>5. Eq(h)
    <3> HIDE DEF Eq
    <3> QED
      BY <2>4
  <2> HIDE DEF h
  <2>6. h[0] = base
    BY <1>1, <2>5 DEF DirectlyFiltered
  <2>7. ASSUME NEW n \in 1..N, h[n - 1] \in SUBSET Tables PROVE h[n] = step[h[n - 1]]
    <3>1. n \in 0..N /\ n # 0
      BY <1>1
    <3>2. h[n] = h[n - 1] \cup FlowsTo(fc, h[n - 1])
      BY <2>5, <3>1
    <3> QED
      BY <1>2, <2>7, <3>2
  <2> HIDE DEF Eq, N, base
  <2>8. Obeys(h, N, SUBSET Tables, base, step)
    BY <2>6, <2>7 DEF Obeys
  <2> QED
    BY <1>1, <2>1, <2>8, OneIteration
<1> QED
  BY <1>3, <1>4, <1>5

\* Flow has the tables filtered directly and every table its filters flow to,
LEMMA FlowIsClosed ==
    ASSUME NEW fc, IsFiniteSet(Tables)
    PROVE  /\ Flow(fc) \in SUBSET Tables
           /\ DirectlyFiltered(fc) \subseteq Flow(fc)
           /\ FlowsTo(fc, Flow(fc)) \subseteq Flow(fc)
<1> DEFINE N == Cardinality(Tables)
           base == DirectlyFiltered(fc)
           step == FlowStep(fc)
<1>1. PICK f \in FlowIterations(fc) : Flow(fc) = f[N]
  BY FlowIsIterated
<1>2. f \in Iterations(N, SUBSET Tables, base, step) /\ N \in Nat
  BY FS_CardinalityType DEF FlowIterations
<1>3. step \in [SUBSET Tables -> SUBSET Tables] /\ base \in SUBSET Tables
      /\ \A S \in SUBSET Tables : step[S] = S \cup FlowsTo(fc, S)
  BY FlowsToTables DEF FlowStep, DirectlyFiltered
<1> HIDE DEF base, step
<1>4. Grows(Tables, step)
  BY <1>3 DEF Grows
<1>5. step[f[N]] = f[N]
  <2> HIDE DEF N
  <2>1. N \in Nat /\ Cardinality(Tables) <= N
    BY <1>2 DEF N
  <2> QED
    BY <1>2, <1>4, <2>1, GrowingSettles
<1>6. /\ f \in [0..N -> SUBSET Tables] /\ f[0] = base
      /\ \A n \in 1..N : f[n] = step[f[n - 1]]
  BY <1>2 DEF Iterations
<1>7. base \subseteq f[N]
  <2> DEFINE P == {n \in 0..N : base \subseteq f[n]}
  <2>1. 0 \in P
    BY <1>2, <1>6
  <2>2. ASSUME NEW n \in 0..(N - 1), n \in P PROVE n + 1 \in P
    <3>1. n + 1 \in 1..N /\ (n + 1) - 1 = n /\ n + 1 \in 0..N /\ n \in 0..N
      BY <1>2
    <3>2. f[n + 1] = step[f[n]] /\ f[n] \in SUBSET Tables
      BY <1>6, <3>1
    <3> QED
      BY <1>4, <2>2, <3>1, <3>2 DEF Grows
  <2>3. N \in P
    <3> HIDE DEF P, N
    <3> QED
      BY <1>2, <2>1, <2>2, Induction
  <2> QED
    BY <2>3
<1>8. f[N] \in SUBSET Tables
  BY <1>2, <1>6
<1> QED
  BY <1>1, <1>3, <1>5, <1>7, <1>8 DEF base

\* and no others.
LEMMA FlowIsLeast ==
    ASSUME NEW fc, IsFiniteSet(Tables), NEW S \in SUBSET Tables,
           DirectlyFiltered(fc) \subseteq S, \A T \in SUBSET S : FlowsTo(fc, T) \subseteq S
    PROVE  Flow(fc) \subseteq S
<1> DEFINE N == Cardinality(Tables)
           P == {n \in 0..N : \A f \in FlowIterations(fc) : f[n] \subseteq S}
<1>1. N \in Nat
  BY FS_CardinalityType
<1>2. ASSUME NEW f \in FlowIterations(fc)
      PROVE  /\ f[0] = DirectlyFiltered(fc)
             /\ \A n \in 1..N : f[n] = f[n - 1] \cup FlowsTo(fc, f[n - 1])
  <2>1. /\ f \in [0..N -> SUBSET Tables] /\ f[0] = DirectlyFiltered(fc)
        /\ \A n \in 1..N : f[n] = FlowStep(fc)[f[n - 1]]
    BY DEF FlowIterations, Iterations
  <2>2. ASSUME NEW n \in 1..N PROVE f[n] = f[n - 1] \cup FlowsTo(fc, f[n - 1])
    <3>1. f[n - 1] \in SUBSET Tables
      BY <1>1, <2>1
    <3> QED
      BY <2>1, <3>1 DEF FlowStep
  <2> QED
    BY <2>1, <2>2
<1>3. 0 \in P
  BY <1>1, <1>2
<1>4. ASSUME NEW n \in 0..(N - 1), n \in P PROVE n + 1 \in P
  <2>1. n + 1 \in 1..N /\ (n + 1) - 1 = n /\ n + 1 \in 0..N
    BY <1>1
  <2>2. ASSUME NEW f \in FlowIterations(fc) PROVE f[n + 1] \subseteq S
    <3>1. f[n + 1] = f[n] \cup FlowsTo(fc, f[n]) /\ f[n] \subseteq S
      BY <1>2, <1>4, <2>1
    <3> QED
      BY <3>1
  <2> QED
    BY <2>1, <2>2
<1>5. N \in P
  <2> HIDE DEF P, N
  <2> QED
    BY <1>1, <1>3, <1>4, Induction
<1>6. PICK f \in FlowIterations(fc) : Flow(fc) = f[N]
  BY FlowIsIterated
<1> QED
  BY <1>5, <1>6

\* Reference is what RestStep comes to.
LEMMA ReferenceIsIterated ==
    ASSUME NEW fc, IsFiniteSet(Passing(fc))
    PROVE  RestIterations(fc) # {}
           /\ \A f \in RestIterations(fc) : Reference(fc) = f[Cardinality(Passing(fc))]
<1> DEFINE flow == Flow(fc)
           B == Passing(fc)
           N == Cardinality(B)
           step == RestStep(fc)
           Eq(g) == g = [n \in 0..N |->
                           IF n = 0 THEN B
                           ELSE LET rows == g[n - 1] IN
                                {q \in rows : Stays(fc, flow, rows, q[1], q[2])}]
           h == CHOOSE g : Eq(g)
<1>1. N \in Nat
  BY FS_CardinalityType
<1>2. step \in [SUBSET B -> SUBSET B]
      /\ \A S \in SUBSET B : step[S] = {q \in S : Stays(fc, flow, S, q[1], q[2])}
  BY DEF RestStep
<1>3. Reference(fc) = h[N]
  BY DEF Reference
<1> HIDE DEF step, B, flow
<1>4. RestIterations(fc) # {}
  <2> HIDE DEF N
  <2>1. Iterations(N, SUBSET B, B, step) # {}
    BY <1>1, <1>2, Iteration
  <2> QED
    BY <2>1 DEF RestIterations, N, B, step
<1>5. ASSUME NEW f \in RestIterations(fc) PROVE h[N] = f[N]
  <2>1. f \in Iterations(N, SUBSET B, B, step)
    BY DEF RestIterations, step, B
  <2>2. /\ f \in [0..N -> SUBSET B] /\ f[0] = B
        /\ \A n \in 1..N : f[n] = step[f[n - 1]]
    BY <2>1 DEF Iterations
  <2>3. ASSUME NEW n \in 1..N
        PROVE  f[n] = {q \in f[n - 1] : Stays(fc, flow, f[n - 1], q[1], q[2])}
    <3>1. n - 1 \in 0..N
      BY <1>1
    <3> QED
      BY <1>2, <2>2, <3>1
  <2>4. Eq(f)
    <3> DEFINE new(n) == IF n = 0 THEN B
                         ELSE LET rows == f[n - 1] IN
                              {q \in rows : Stays(fc, flow, rows, q[1], q[2])}
    <3>1. ASSUME NEW n \in 0..N PROVE f[n] = new(n)
      <4>1. CASE n = 0
        BY <2>2, <4>1
      <4>2. CASE n # 0
        <5>1. n \in 1..N
          BY <1>1, <4>2
        <5> QED
          BY <2>3, <4>2, <5>1
      <4> QED
        BY <4>1, <4>2
    <3> HIDE DEF new
    <3>2. f = [n \in 0..N |-> new(n)]
      BY <2>2, <3>1
    <3> QED
      BY <3>2 DEF new
  <2>5. Eq(h)
    <3> HIDE DEF Eq
    <3> QED
      BY <2>4
  <2> HIDE DEF h
  <2>6. h[0] = B
    BY <1>1, <2>5
  <2>7. ASSUME NEW n \in 1..N, h[n - 1] \in SUBSET B PROVE h[n] = step[h[n - 1]]
    <3>1. n \in 0..N /\ n # 0
      BY <1>1
    <3>2. h[n] = {q \in h[n - 1] : Stays(fc, flow, h[n - 1], q[1], q[2])}
      BY <2>5, <3>1
    <3> QED
      BY <1>2, <2>7, <3>2
  <2> HIDE DEF Eq, N
  <2>8. Obeys(h, N, SUBSET B, B, step)
    BY <2>6, <2>7 DEF Obeys
  <2> QED
    BY <1>1, <2>1, <2>8, OneIteration
<1> QED
  BY <1>3, <1>4, <1>5 DEF B

\* Its rows pass the filters and have all their partners among themselves,
LEMMA ReferenceIsClosed ==
    ASSUME NEW fc, IsFiniteSet(Passing(fc))
    PROVE  /\ Reference(fc) \subseteq Passing(fc)
           /\ \A q \in Reference(fc) : Stays(fc, Flow(fc), Reference(fc), q[1], q[2])
<1> DEFINE B == Passing(fc)
           N == Cardinality(B)
           step == RestStep(fc)
<1>1. PICK f \in RestIterations(fc) : Reference(fc) = f[N]
  BY ReferenceIsIterated
<1>2. f \in Iterations(N, SUBSET B, B, step) /\ N \in Nat
  BY FS_CardinalityType DEF RestIterations
<1>3. step \in [SUBSET B -> SUBSET B]
      /\ \A S \in SUBSET B : step[S] = {q \in S : Stays(fc, Flow(fc), S, q[1], q[2])}
  BY DEF RestStep
<1> HIDE DEF step
<1>4. Shrinks(B, step)
  BY <1>3 DEF Shrinks
<1>5. f[N] \in SUBSET B
  BY <1>2 DEF Iterations
<1>6. step[f[N]] = f[N]
  <2>0. IsFiniteSet(B)
    OBVIOUS
  <2> HIDE DEF N, B
  <2>1. N \in Nat /\ Cardinality(B) <= N
    BY <1>2 DEF N
  <2> QED
    BY <1>2, <1>4, <2>0, <2>1, ShrinkingSettles
<1>7. f[N] = {q \in f[N] : Stays(fc, Flow(fc), f[N], q[1], q[2])}
  BY <1>3, <1>5, <1>6
<1> QED
  BY <1>1, <1>5, <1>7

\* A row that has its partners among some rows has them among more.
LEMMA StaysAmongMore ==
    ASSUME NEW fc, NEW flow, NEW V, NEW W, V \subseteq W, NEW t, NEW r, Stays(fc, flow, V, t, r)
    PROVE  Stays(fc, flow, W, t, r)
<1>1. ASSUME NEW key, NEW v, HasPartner(V, key, v) PROVE HasPartner(W, key, v)
  BY <1>1 DEF HasPartner
<1> QED
  BY <1>1 DEF Stays

\* and no larger set of rows does.
LEMMA ReferenceIsGreatest ==
    ASSUME NEW fc, IsFiniteSet(Passing(fc)), NEW V \in SUBSET Passing(fc),
           \A q \in V : Stays(fc, Flow(fc), V, q[1], q[2])
    PROVE  V \subseteq Reference(fc)
<1> DEFINE N == Cardinality(Passing(fc))
           P == {n \in 0..N : \A f \in RestIterations(fc) : V \subseteq f[n]}
<1>1. N \in Nat
  BY FS_CardinalityType
<1>2. ASSUME NEW f \in RestIterations(fc)
      PROVE  /\ f[0] = Passing(fc)
             /\ \A n \in 1..N : f[n] = {q \in f[n - 1] : Stays(fc, Flow(fc), f[n - 1], q[1], q[2])}
  <2>1. /\ f \in [0..N -> SUBSET Passing(fc)] /\ f[0] = Passing(fc)
        /\ \A n \in 1..N : f[n] = RestStep(fc)[f[n - 1]]
    BY DEF RestIterations, Iterations
  <2>2. ASSUME NEW n \in 1..N
        PROVE  f[n] = {q \in f[n - 1] : Stays(fc, Flow(fc), f[n - 1], q[1], q[2])}
    <3>1. f[n - 1] \in SUBSET Passing(fc)
      BY <1>1, <2>1
    <3> QED
      BY <2>1, <3>1 DEF RestStep
  <2> QED
    BY <2>1, <2>2
<1>3. 0 \in P
  BY <1>1, <1>2
<1>4. ASSUME NEW n \in 0..(N - 1), n \in P PROVE n + 1 \in P
  <2>1. n + 1 \in 1..N /\ (n + 1) - 1 = n /\ n + 1 \in 0..N
    BY <1>1
  <2>2. ASSUME NEW f \in RestIterations(fc), NEW q \in V PROVE q \in f[n + 1]
    <3>1. V \subseteq f[n]
      BY <1>4
    <3>2. f[n + 1] = {p \in f[n] : Stays(fc, Flow(fc), f[n], p[1], p[2])}
      BY <1>2, <2>1
    <3>3. Stays(fc, Flow(fc), f[n], q[1], q[2])
      BY <3>1, StaysAmongMore
    <3> QED
      BY <3>1, <3>2, <3>3
  <2> QED
    BY <2>1, <2>2
<1>5. N \in P
  <2> HIDE DEF P, N
  <2> QED
    BY <1>1, <1>3, <1>4, Induction
<1>6. PICK f \in RestIterations(fc) : Reference(fc) = f[N]
  BY ReferenceIsIterated
<1> QED
  BY <1>5, <1>6

------------------------------------------------------------------------------
(* A read, and what a pass over the relationships leaves of it.             *)

\* No column and no value is without end.
Finitely == IsFiniteSet(Keys) /\ IsFiniteSet(Values)

\* The rows of a table under a context, read without the cache.
Fresh(t, fc) ==
    {q \in IF Overridden(t, fc) THEN Widened(t, fc.overrides[t]) ELSE Rows[t] :
        Visible(t, q, fc)}

\* With the cache it is the same, as long as series are printed in full.
LEMMA ReadIsFresh ==
    ASSUME PrintsInFull, NEW c, CacheOK(c), NEW t \in Tables, NEW fc \in Contexts
    PROVE  FilteredFrame(t, fc, c) = Fresh(t, fc)
<1>1. CASE Overridden(t, fc)
  BY <1>1 DEF FilteredFrame, Fresh
<1>2. CASE ~Overridden(t, fc)
  <2>1. FilteredFrame(t, fc, c) = Filtered(t, fc)
    BY <1>2, HitIsFresh DEF FilteredFrame
  <2> QED
    BY <1>2, <2>1 DEF Filtered, Fresh
<1> QED
  BY <1>1, <1>2

\* A read gives rows of the table's columns.
LEMMA FreshRows ==
    ASSUME NEW t \in Tables, NEW fc \in Contexts
    PROVE  Fresh(t, fc) \in SUBSET [ColumnsOf[t] -> Values]
<1>1. CASE Overridden(t, fc)
  BY <1>1, WidenedRows, OverrideFields DEF Fresh
<1>2. CASE ~Overridden(t, fc)
  BY <1>2, RowsAreTyped DEF Fresh
<1> QED
  BY <1>1, <1>2

\* Passing has the rows such reads give.
LEMMA PassingAre ==
    ASSUME NEW fc, NEW q
    PROVE  q \in Passing(fc) <=> \E t \in Tables : \E r \in Fresh(t, fc) : q = <<t, r>>
<1>1. Passing(fc) = UNION {{<<t, r>> : r \in Fresh(t, fc)} : t \in Tables}
  BY DEF Passing, Fresh
<1> QED
  BY <1>1

\* There are finitely many tables,
LEMMA TablesAreFinite == ASSUME Finitely PROVE IsFiniteSet(Tables)
<1> DEFINE g == [k \in Keys |-> TableOf[k]]
<1>1. g \in [Keys -> Tables] /\ \A t \in Tables : \E k \in Keys : g[k] = t
  BY DEF Tables
<1> HIDE DEF g
<1>2. g \in Surjection(Keys, Tables)
  BY <1>1 DEF Surjection
<1> QED
  BY <1>2, FS_Surjection DEF Finitely

\* and finitely many rows.
LEMMA PassingIsFinite ==
    ASSUME Finitely, NEW fc \in Contexts
    PROVE  IsFiniteSet(Passing(fc))
<1> DEFINE graph(t, r) == {<<k, r[k]>> : k \in ColumnsOf[t]}
           g == [q \in Passing(fc) |-> <<q[1], graph(q[1], q[2])>>]
           T == Tables \X SUBSET (Keys \X Values)
<1>1. IsFiniteSet(T)
  <2>1. IsFiniteSet(Keys \X Values)
    BY FS_Product DEF Finitely
  <2>2. IsFiniteSet(SUBSET (Keys \X Values))
    <3> DEFINE P == Keys \X Values
    <3>1. IsFiniteSet(P)
      BY <2>1
    <3> HIDE DEF P
    <3>2. IsFiniteSet(SUBSET P)
      BY <3>1, FS_SUBSET
    <3> QED
      BY <3>2 DEF P
  <2> DEFINE S == SUBSET (Keys \X Values)
  <2>3. IsFiniteSet(S)
    BY <2>2
  <2> HIDE DEF S
  <2>4. IsFiniteSet(Tables \X S)
    BY <2>3, TablesAreFinite, FS_Product
  <2> QED
    BY <2>4 DEF S
<1>2. ASSUME NEW q \in Passing(fc)
      PROVE  /\ q = <<q[1], q[2]>> /\ q[1] \in Tables /\ ColumnsOf[q[1]] \in SUBSET Keys
             /\ q[2] \in [ColumnsOf[q[1]] -> Values]
  <2>1. PICK t \in Tables : \E r \in Fresh(t, fc) : q = <<t, r>>
    BY PassingAre
  <2>2. PICK r \in Fresh(t, fc) : q = <<t, r>>
    BY <2>1
  <2>3. r \in [ColumnsOf[t] -> Values]
    BY FreshRows
  <2> QED
    BY <2>2, <2>3, ColumnsAreKeys
<1>3. ASSUME NEW q \in Passing(fc) PROVE g[q] \in T
  <2>1. graph(q[1], q[2]) \in SUBSET (Keys \X Values)
    BY <1>2
  <2> HIDE DEF graph
  <2> QED
    BY <1>2, <2>1
<1>4. ASSUME NEW q \in Passing(fc), NEW p \in Passing(fc), g[q] = g[p] PROVE q = p
  <2>1. q[1] = p[1] /\ graph(q[1], q[2]) = graph(p[1], p[2])
    <3> HIDE DEF graph
    <3> QED
      BY <1>4
  <2>2. ASSUME NEW k \in ColumnsOf[q[1]] PROVE q[2][k] = p[2][k]
    <3>1. <<k, q[2][k]>> \in graph(p[1], p[2])
      BY <2>1
    <3>2. PICK j \in ColumnsOf[p[1]] : <<k, q[2][k]>> = <<j, p[2][j]>>
      BY <3>1
    <3> QED
      BY <3>2
  <2>3. q[2] = p[2]
    BY <1>2, <2>1, <2>2
  <2> QED
    BY <1>2, <2>1, <2>3
<1> HIDE DEF T
<1>5. g \in [Passing(fc) -> T]
  <2> HIDE DEF graph
  <2> QED
    BY <1>3
<1> HIDE DEF g
<1>6. g \in Injection(Passing(fc), T)
  BY <1>4, <1>5 DEF Injection, IsInjective
<1> QED
  BY <1>1, <1>6, FS_Injection

\* The far column has a filter, and it has no value that no row of the near
\* side has.
Joined(near, far, fc) ==
    \E j \in DOMAIN fc.filters[far] :
        /\ fc.filters[far][j].op = "In"
        /\ fc.filters[far][j].vals \subseteq {r[near] : r \in Fresh(TableOf[near], fc)} \ {Null}

\* Where a filter flows over relationship i, in both directions.
FlowsForward(i, fc) ==
    LET t == TableOf[Relationships[i].to] IN
    Followed(i, fc) /\ (HasFilters(t, fc) \/ Overridden(t, fc))

FlowsBack(i, fc) == BothWays(i, fc) /\ HasFilters(TableOf[Relationships[i].from], fc)

\* Expanding over relationship i would change nothing.
Settled(i, fc) ==
    LET r == Relationships[i] IN
    /\ FlowsForward(i, fc) => Joined(r.to, r.from, fc)
    /\ FlowsBack(i, fc) => Joined(r.from, r.to, fc)

\* Contexts that differ in marks only.
SameFilters(fc, d) ==
    fc.filters = d.filters /\ fc.overrides = d.overrides /\ fc.rels = d.rels

\* The marks decide nothing.
LEMMA SameReads ==
    ASSUME NEW fc, NEW d, SameFilters(fc, d)
    PROVE  /\ \A i \in Rel : /\ FlowsForward(i, fc) = FlowsForward(i, d)
                             /\ FlowsBack(i, fc) = FlowsBack(i, d)
           /\ \A near, far : Joined(near, far, fc) = Joined(near, far, d)
           /\ \A i \in Rel : Settled(i, fc) = Settled(i, d)
<1>1. \A t : Overridden(t, fc) = Overridden(t, d) /\ HasFilters(t, fc) = HasFilters(t, d)
  BY DEF SameFilters, Overridden, HasFilters
<1>2. \A t, r : Visible(t, r, fc) = Visible(t, r, d)
  BY DEF SameFilters, Visible
<1>3. \A t : Fresh(t, fc) = Fresh(t, d)
  BY <1>1, <1>2 DEF Fresh, SameFilters
<1>4. \A i : Followed(i, fc) = Followed(i, d) /\ BothWays(i, fc) = BothWays(i, d)
  BY DEF SameFilters, Followed, BothWays
<1>5. \A near, far : Joined(near, far, fc) = Joined(near, far, d)
  BY <1>3 DEF Joined, SameFilters
<1>6. \A i \in Rel : /\ FlowsForward(i, fc) = FlowsForward(i, d)
                     /\ FlowsBack(i, fc) = FlowsBack(i, d)
  BY <1>1, <1>4 DEF FlowsForward, FlowsBack
<1> QED
  BY <1>5, <1>6 DEF Settled

\* A merge that reports no change leaves the filters, and the column joined.
LEMMA MergedStill ==
    ASSUME NEW fc \in Contexts, NEW k \in Keys, NEW vals \in SUBSET Values,
           ~Merged(fc, k, vals).changed
    PROVE  /\ SameFilters(Merged(fc, k, vals).fc, fc)
           /\ \E j \in DOMAIN fc.filters[k] :
                 fc.filters[k][j].op = "In" /\ fc.filters[k][j].vals \subseteq vals \ {Null}
<1> DEFINE m == Merged(fc, k, vals)
           preds == fc.filters[k]
           i == CHOOSE j \in InAt(preds) : TRUE
           both == Intersected(preds[i].vals, vals)
           new == [preds EXCEPT ![i] = In(both)]
<1>0. preds \in Seq(Predicate)
  BY DEF Contexts
<1>1. InAt(preds) # {}
  BY DEF Merged
<1>2. m.changed = (both # preds[i].vals)
  BY <1>1 DEF Merged
<1>3. m.fc = [fc EXCEPT !.derived = @ \cup {k}, !.filters[k] = new]
  BY <1>1 DEF Merged
<1>4. i \in InAt(preds)
  BY <1>1
<1>5. both = preds[i].vals
  BY <1>2
<1> HIDE DEF i, m, preds
<1>6. i \in DOMAIN preds /\ preds[i].op = "In" /\ preds[i] \in Predicate
  BY <1>0, <1>4 DEF InAt
<1>7. preds[i] = In(preds[i].vals)
  BY <1>6 DEF Predicate, In
<1>8. new = preds
  BY <1>0, <1>5, <1>6, <1>7
<1>9. preds[i].vals \subseteq vals \ {Null}
  BY <1>5 DEF Intersected
<1> HIDE DEF new
<1>10. SameFilters(m.fc, fc)
  BY <1>3, <1>8 DEF SameFilters, Contexts, preds
<1> QED
  BY <1>6, <1>9, <1>10 DEF m, preds

\* So does a propagation,
LEMMA PropagatedStill ==
    ASSUME PrintsInFull, NEW near \in Keys, NEW far \in Keys, NEW wanted \in BOOLEAN,
           NEW e, IsExpansion(e), ~Propagated(near, far, wanted, e).changed
    PROVE  /\ ~e.changed
           /\ SameFilters(Propagated(near, far, wanted, e).fc, e.fc)
           /\ wanted => Joined(near, far, e.fc)
<1> DEFINE vals == JoinValues(near, e.fc, e.cache)
           m == Merged(e.fc, far, vals)
           d == Propagated(near, far, wanted, e)
<1>1. CASE ~wanted
  BY <1>1 DEF Propagated, SameFilters
<1>2. CASE wanted
  <2>1. TableOf[near] \in Tables /\ near \in ColumnsOf[TableOf[near]]
    BY DEF Tables, ColumnsOf
  <2>2. vals = {r[near] : r \in Fresh(TableOf[near], e.fc)}
    BY <2>1, ReadIsFresh DEF JoinValues, IsExpansion
  <2>3. vals \in SUBSET Values
    BY <2>1, <2>2, FreshRows DEF IsExpansion
  <2>4. d = [fc |-> m.fc, cache |-> Caching(TableOf[near], e.fc, e.cache),
             changed |-> e.changed \/ m.changed]
    BY <1>2 DEF Propagated, Flowed
  <2> HIDE DEF vals, d
  <2>5. e.fc \in Contexts /\ m.changed \in BOOLEAN
    BY <2>3, MergedIsOne DEF IsExpansion
  <2>6. ~e.changed /\ ~m.changed /\ d.fc = m.fc
    <3>1. ~d.changed
      BY DEF d
    <3>2. d.changed = (e.changed \/ m.changed) /\ d.fc = m.fc
      <4> HIDE DEF m
      <4> QED
        BY <2>4
    <3> QED
      BY <2>5, <3>1, <3>2 DEF IsExpansion
  <2>7. /\ SameFilters(m.fc, e.fc)
        /\ \E j \in DOMAIN e.fc.filters[far] :
              /\ e.fc.filters[far][j].op = "In"
              /\ e.fc.filters[far][j].vals \subseteq vals \ {Null}
    BY <2>3, <2>5, <2>6, MergedStill
  <2>8. Joined(near, far, e.fc)
    BY <2>2, <2>7 DEF Joined
  <2> QED
    BY <2>6, <2>7, <2>8 DEF d
<1> QED
  BY <1>1, <1>2

\* and the expansion over a relationship.
LEMMA FlowStill ==
    ASSUME PrintsInFull, NEW i \in Rel, NEW e, IsExpansion(e),
           ~FlowReverse(i, FlowForward(i, e)).changed
    PROVE  /\ ~e.changed
           /\ SameFilters(FlowReverse(i, FlowForward(i, e)).fc, e.fc)
           /\ Settled(i, FlowReverse(i, FlowForward(i, e)).fc)
<1> DEFINE f == FlowForward(i, e)
           d == FlowReverse(i, f)
           from == Relationships[i].from
           to == Relationships[i].to
<1>1. from \in Keys /\ to \in Keys
  BY RelationshipsAreTyped
<1>2. FlowsForward(i, e.fc) \in BOOLEAN /\ FlowsBack(i, f.fc) \in BOOLEAN
  BY DEF FlowsForward, FlowsBack, HasFilters
<1>3. f = Propagated(to, from, FlowsForward(i, e.fc), e)
  BY DEF FlowForward, FlowsForward
<1>4. d = Propagated(from, to, FlowsBack(i, f.fc), f)
  BY DEF FlowReverse, FlowsBack
<1> HIDE DEF f, d
<1>5. IsExpansion(f)
  BY <1>1, <1>2, <1>3, PropagatedIsOne
<1>6. /\ ~f.changed /\ SameFilters(d.fc, f.fc)
      /\ FlowsBack(i, f.fc) => Joined(from, to, f.fc)
  <2>1. ~d.changed
    BY DEF d, f
  <2> QED
    BY <1>1, <1>2, <1>4, <1>5, <2>1, PropagatedStill
<1>7. /\ ~e.changed /\ SameFilters(f.fc, e.fc)
      /\ FlowsForward(i, e.fc) => Joined(to, from, e.fc)
  BY <1>1, <1>2, <1>3, <1>6, PropagatedStill
<1>8. SameFilters(d.fc, e.fc)
  BY <1>6, <1>7 DEF SameFilters
<1>9. Settled(i, d.fc)
  BY <1>6, <1>7, <1>8, SameReads DEF Settled
<1> QED
  BY <1>7, <1>8, <1>9 DEF d, f

------------------------------------------------------------------------------
(* Nothing of an earlier expansion stays behind.                            *)

\* No ALLSELECTED brings the filters of a join column back.
NoJoinsSelected ==
    \A m \in Modifiers :
        /\ m.kind = "allSelected" => ColumnsOf[m.table] \cap JoinColumns = {}
        /\ m.kind = "allSelectedColumn" => m.key \notin JoinColumns

\* Every filter of a join column is marked as derived.
Clean(fc) == \A k \in JoinColumns : k \in fc.derived \/ fc.filters[k] = <<>>

\* The marks that removals take away are those of the columns they clear.
LEMMA RemovedMarks ==
    ASSUME NEW fc \in Contexts, NEW t \in Tables, NEW keep, NEW gone
    PROVE  /\ WithoutColumns(gone, fc).derived = fc.derived \ gone
           /\ RemoveTableExcept(t, keep, fc).derived = fc.derived \ (ColumnsOf[t] \ keep)
<1>1. ASSUME NEW g PROVE WithoutColumns(g, fc).derived = fc.derived \ g
  BY DEF WithoutColumns, Contexts
<1>2. RemoveTableExcept(t, keep, fc).derived = fc.derived \ (ColumnsOf[t] \ keep)
  <2> DEFINE base == WithoutColumns(ColumnsOf[t] \ keep, fc)
  <2>1. base \in Contexts /\ base.derived = fc.derived \ (ColumnsOf[t] \ keep)
    BY <1>1, RemovalsAreOnes
  <2>2. RemoveTableExcept(t, keep, fc) = [base EXCEPT !.overrides[t] = NoOverride]
    BY DEF RemoveTableExcept
  <2> HIDE DEF base
  <2>3. [base EXCEPT !.overrides[t] = NoOverride].derived = base.derived
    BY <2>1 DEF Contexts
  <2> QED
    BY <2>1, <2>2, <2>3
<1> QED
  BY <1>1, <1>2

\* A modifier that takes the mark of a join column away clears the column.
LEMMA ChangedMarks ==
    ASSUME NoJoinsSelected, NEW m \in Modifiers, m.kind \in ContextKinds,
           NEW outer \in Contexts, NEW fc \in Contexts, NEW k \in JoinColumns, k \in fc.derived
    PROVE  \/ k \in Changed(m, outer, fc).derived
           \/ ChangedAt(m, k, outer.filters[k], fc.filters[k]) = <<>>
<1>1. CASE m.kind = "all"
  <2> DEFINE base == RemoveTableExcept(m.table, {}, fc)
             cut == {i \in Rel : m.table \in Ends(i)}
  <2>1. m.table \in Tables
    BY <1>1, ModifierFields
  <2>2. base \in Contexts /\ base.derived = fc.derived \ ColumnsOf[m.table]
    <3>1. base.derived = fc.derived \ (ColumnsOf[m.table] \ {})
      BY <2>1, RemovedMarks
    <3>2. base \in Contexts
      BY <2>1, RemovalsAreOnes
    <3> QED
      BY <3>1, <3>2
  <2>3. Changed(m, outer, fc) = Disabling(cut, base)
    BY <1>1 DEF Changed, AllTable, RemoveTable
  <2> HIDE DEF base, cut
  <2>4. Disabling(cut, base).derived = base.derived
    BY <2>1, <2>2, RemovalMarks
  <2> QED
    BY <1>1, <2>2, <2>3, <2>4 DEF ChangedAt
<1>2. CASE m.kind = "allColumn"
  <2> DEFINE base == WithoutColumns({m.key}, fc)
             cut == {i \in Rel : m.key \in {Relationships[i].from, Relationships[i].to}}
  <2>1. TableOf[m.key] \in Tables
    BY <1>2, ModifierFields DEF Tables
  <2>2. base \in Contexts /\ base.derived = fc.derived \ {m.key}
    BY <2>1, RemovalsAreOnes, RemovedMarks
  <2>3. Changed(m, outer, fc) = Disabling(cut, base)
    BY <1>2 DEF Changed, AllColumn
  <2> HIDE DEF base, cut
  <2>4. Disabling(cut, base).derived = base.derived
    BY <2>1, <2>2, RemovalMarks
  <2> QED
    BY <1>2, <2>2, <2>3, <2>4 DEF ChangedAt
<1>3. CASE m.kind = "allExcept"
  <2>1. m.table \in Tables
    BY <1>3, ModifierFields
  <2>2. Changed(m, outer, fc) = RemoveTableExcept(m.table, m.keep, fc)
    BY <1>3 DEF Changed, AllExcept
  <2>3. Changed(m, outer, fc).derived = fc.derived \ (ColumnsOf[m.table] \ m.keep)
    BY <2>1, <2>2, RemovedMarks
  <2> QED
    BY <1>3, <2>3 DEF ChangedAt
<1>4. CASE m.kind = "allSelected"
  <2> DEFINE u == m.table
             base == RemoveTableExcept(u, {}, fc)
             F == [j \in Keys |-> IF j \in ColumnsOf[u] THEN outer.filters[j] ELSE base.filters[j]]
             d == [base EXCEPT !.filters = F, !.overrides[u] = outer.overrides[u]]
  <2>1. u \in Tables
    BY <1>4, ModifierFields
  <2>2. base \in Contexts /\ base.derived = fc.derived \ ColumnsOf[u]
    <3>1. base.derived = fc.derived \ (ColumnsOf[u] \ {})
      BY <2>1, RemovedMarks
    <3>2. base \in Contexts
      BY <2>1, RemovalsAreOnes
    <3> QED
      BY <3>1, <3>2
  <2>3. Changed(m, outer, fc) = d
    BY <1>4 DEF Changed, AllSelectedTable, RemoveTable
  <2> HIDE DEF base, F
  <2>4. d.derived = base.derived
    BY <2>2 DEF Contexts
  <2>5. k \notin ColumnsOf[u]
    BY <1>4 DEF NoJoinsSelected
  <2> QED
    BY <2>2, <2>3, <2>4, <2>5
<1>5. CASE m.kind \in {"allSelectedColumn", "treatAs", "keep", "useRelationship", "crossFilter"}
  <2>1. Changed(m, outer, fc).derived = fc.derived
    BY <1>5 DEF Changed, AllSelectedColumn, TreatAs, Keep, UseRelationship, CrossFilter, Contexts
  <2> QED
    BY <2>1
<1> QED
  BY <1>1, <1>2, <1>3, <1>4, <1>5 DEF ContextKinds

\* So modifiers leave no filter of a join column without its mark,
LEMMA ChangedClean ==
    ASSUME NoJoinFilters, NoJoinsSelected, NEW m \in Modifiers, m.kind \in ContextKinds,
           NEW outer \in Contexts, NEW fc \in Contexts, Clean(fc)
    PROVE  Clean(Changed(m, outer, fc))
<1> DEFINE d == Changed(m, outer, fc)
<1> SUFFICES ASSUME NEW k \in JoinColumns PROVE k \in d.derived \/ d.filters[k] = <<>>
  BY DEF Clean
<1>1. k \in Keys
  BY RelationshipsAreTyped DEF JoinColumns
<1>2. d.filters[k] = ChangedAt(m, k, outer.filters[k], fc.filters[k])
  BY <1>1, ChangedFilters
<1>3. CASE k \in fc.derived
  BY <1>2, <1>3, ChangedMarks
<1>4. CASE k \notin fc.derived
  <2>1. fc.filters[k] = <<>>
    BY <1>4 DEF Clean
  <2>2. m.kind \in {"treatAs", "keep"} => k # m.key
    BY DEF NoJoinFilters
  <2>3. /\ m.kind = "allSelected" => k \notin ColumnsOf[m.table]
        /\ m.kind = "allSelectedColumn" => k # m.key
    BY DEF NoJoinsSelected
  <2>4. ChangedAt(m, k, outer.filters[k], <<>>) = <<>>
    BY <2>2, <2>3 DEF ChangedAt, ContextKinds
  <2> QED
    BY <1>2, <2>1, <2>4
<1> QED
  BY <1>3, <1>4

\* filter arguments and tables do not,
LEMMA ReplaceClean ==
    ASSUME NoJoinFilters, NEW p \in Predicates, NEW done, NEW fc \in Contexts, Clean(fc)
    PROVE  Clean(Replace(p.key, p.pred, done, fc))
<1> DEFINE new == IF p.key \in done THEN Append(fc.filters[p.key], p.pred) ELSE <<p.pred>>
           d == Replace(p.key, p.pred, done, fc)
<1>1. d.filters = [fc.filters EXCEPT ![p.key] = new] /\ d.derived = fc.derived
  BY DEF Replace, Contexts
<1>2. p.key \notin JoinColumns
  BY DEF NoJoinFilters
<1> HIDE DEF d, new
<1>3. JoinColumns \subseteq Keys
  BY RelationshipsAreTyped DEF JoinColumns
<1>4. Clean(d)
  BY <1>1, <1>2, <1>3 DEF Clean, Contexts
<1> QED
  BY <1>4 DEF d

\* the same for tables,
LEMMA TabledClean ==
    ASSUME NEW m, NEW f, NEW c, NEW fc \in Contexts, Clean(fc)
    PROVE  Clean(Tabled(m, f, fc, c))
<1>1. ASSUME NEW u, NEW g PROVE Clean(Override(u, g, fc))
  <2>1. Override(u, g, fc).filters = fc.filters /\ Override(u, g, fc).derived = fc.derived
    BY DEF Override, Contexts
  <2> QED
    BY <2>1 DEF Clean
<1> QED
  BY <1>1 DEF Tabled, KeepFrame

\* and an expansion that starts gets exactly the filters that were asked for.
LEMMA StripIsAsked ==
    ASSUME NEW fc \in Contexts, Clean(fc), NEW said \in [Keys -> Seq(Predicate)],
           Keeps(fc, said)
    PROVE  /\ Clean(StripDerived(fc)) /\ StripDerived(fc).filters = said
           /\ StripDerived(fc).overrides = fc.overrides /\ StripDerived(fc).rels = fc.rels
<1> DEFINE d == StripDerived(fc)
<1>1. /\ d.filters = [k \in Keys |-> IF k \in fc.derived THEN <<>> ELSE fc.filters[k]]
      /\ d.overrides = fc.overrides /\ d.rels = fc.rels
  BY DEF StripDerived, Contexts
<1> HIDE DEF d
<1>2. JoinColumns \subseteq Keys
  BY RelationshipsAreTyped DEF JoinColumns
<1>3. ASSUME NEW k \in Keys PROVE d.filters[k] = said[k]
  BY <1>1, <1>3 DEF Clean, Keeps
<1>4. d.filters = said
  BY <1>1, <1>3
<1>5. Clean(d)
  BY <1>1, <1>2 DEF Clean
<1> QED
  BY <1>1, <1>4, <1>5 DEF d

\* A propagation marks the column it filters,
LEMMA PropagatedClean ==
    ASSUME NEW near \in Keys, NEW far \in Keys, NEW wanted \in BOOLEAN,
           NEW e, IsExpansion(e), Clean(e.fc)
    PROVE  Clean(Propagated(near, far, wanted, e).fc)
<1> DEFINE vals == JoinValues(near, e.fc, e.cache)
           m == Merged(e.fc, far, vals)
<1>1. CASE ~wanted
  BY <1>1 DEF Propagated
<1>2. CASE wanted
  <2>1. Propagated(near, far, wanted, e).fc = m.fc
    BY <1>2 DEF Propagated, Flowed
  <2> HIDE DEF vals
  <2>2. /\ \A j \in Keys \ {far} : m.fc.filters[j] = e.fc.filters[j]
        /\ m.fc.derived = e.fc.derived \cup {far}
    BY MergedChanges DEF IsExpansion
  <2> HIDE DEF m
  <2>3. JoinColumns \subseteq Keys
    BY RelationshipsAreTyped DEF JoinColumns
  <2>4. Clean(m.fc)
    BY <2>2, <2>3 DEF Clean
  <2> QED
    BY <2>1, <2>4
<1> QED
  BY <1>1, <1>2

\* both ways of a relationship.
LEMMA FlowClean ==
    ASSUME NEW i \in Rel, NEW e, IsExpansion(e), Clean(e.fc)
    PROVE  Clean(FlowReverse(i, FlowForward(i, e)).fc)
<1> DEFINE f == FlowForward(i, e)
           from == Relationships[i].from
           to == Relationships[i].to
<1>1. from \in Keys /\ to \in Keys
  BY RelationshipsAreTyped
<1>2. FlowsForward(i, e.fc) \in BOOLEAN /\ FlowsBack(i, f.fc) \in BOOLEAN
  BY DEF FlowsForward, FlowsBack, HasFilters
<1>3. f = Propagated(to, from, FlowsForward(i, e.fc), e)
  BY DEF FlowForward, FlowsForward
<1>4. FlowReverse(i, f) = Propagated(from, to, FlowsBack(i, f.fc), f)
  BY DEF FlowReverse, FlowsBack
<1> HIDE DEF f
<1>5. IsExpansion(f) /\ Clean(f.fc)
  BY <1>1, <1>2, <1>3, PropagatedIsOne, PropagatedClean
<1>6. Clean(FlowReverse(i, f).fc)
  BY <1>1, <1>2, <1>4, <1>5, PropagatedClean
<1> QED
  BY <1>6 DEF f

\* What an expansion may do to a context: only tables that filters flow to are
\* filtered, and no row of the reference is hidden.
Follows(asked, fc) ==
    /\ fc.overrides = asked.overrides /\ fc.rels = asked.rels
    /\ \A t \in Tables : HasFilters(t, fc) => t \in Flow(asked)
    /\ \A q \in Reference(asked) : Visible(q[1], q[2], fc)

\* A read shows the rows of the reference.
LEMMA FollowsShows ==
    ASSUME Finitely, NEW asked \in Contexts, NEW fc, Follows(asked, fc),
           NEW q \in Reference(asked)
    PROVE  q = <<q[1], q[2]>> /\ q[1] \in Tables /\ q[2] \in Fresh(q[1], fc)
<1>1. q \in Passing(asked)
  BY PassingIsFinite, ReferenceIsClosed
<1>2. PICK t \in Tables : \E r \in Fresh(t, asked) : q = <<t, r>>
  BY <1>1, PassingAre
<1>3. PICK r \in Fresh(t, asked) : q = <<t, r>>
  BY <1>2
<1>4. q[1] = t /\ q[2] = r /\ Visible(t, r, fc)
  BY <1>3 DEF Follows
<1>5. Overridden(t, fc) = Overridden(t, asked)
  BY DEF Overridden, Follows
<1>6. r \in Fresh(t, fc)
  BY <1>3, <1>4, <1>5 DEF Fresh, Follows
<1> QED
  BY <1>3, <1>4, <1>6

\* A value among those merged passes as before.
LEMMA MergedMask ==
    ASSUME NEW fc \in Contexts, NEW k \in Keys, NEW vals \in SUBSET Values,
           NEW v \in vals \ {Null}, MaskHolds(fc.filters[k], v)
    PROVE  MaskHolds(Merged(fc, k, vals).fc.filters[k], v)
<1> DEFINE preds == fc.filters[k]
           i == CHOOSE j \in InAt(preds) : TRUE
           cut == In(Intersected(preds[i].vals, vals))
           d == Merged(fc, k, vals).fc
<1>0. preds \in Seq(Predicate)
  BY DEF Contexts
<1>1. CASE InAt(preds) = {}
  <2>1. d = [fc EXCEPT !.derived = @ \cup {k}, !.filters[k] = Append(preds, In(vals))]
    BY <1>1 DEF Merged
  <2> HIDE DEF d
  <2>2. d.filters[k] = Append(preds, In(vals))
    BY <2>1 DEF Contexts
  <2>3. Matches(In(vals), v)
    BY DEF Matches, In, Member
  <2> DEFINE new == Append(preds, In(vals))
  <2>4. ASSUME NEW j \in DOMAIN new PROVE Matches(new[j], v)
    <3>1. CASE j = Len(preds) + 1
      <4>1. new[j] = In(vals)
        BY <1>0, <3>1
      <4> QED
        BY <2>3, <4>1
    <3>2. CASE j # Len(preds) + 1
      <4>1. j \in DOMAIN preds /\ new[j] = preds[j]
        BY <1>0, <3>2
      <4> QED
        BY <4>1 DEF MaskHolds
    <3> QED
      BY <3>1, <3>2
  <2> HIDE DEF new
  <2>5. MaskHolds(new, v)
    BY <2>4 DEF MaskHolds
  <2> QED
    BY <2>2, <2>5 DEF new, d
<1>2. CASE InAt(preds) # {}
  <2>1. d = [fc EXCEPT !.derived = @ \cup {k}, !.filters[k] = [preds EXCEPT ![i] = cut]]
    BY <1>2 DEF Merged
  <2>2. i \in InAt(preds)
    BY <1>2
  <2> HIDE DEF d, i
  <2>3. i \in DOMAIN preds /\ preds[i].op = "In"
    BY <2>2 DEF InAt
  <2>4. Matches(cut, v)
    <3>1. Matches(preds[i], v)
      BY <2>3 DEF MaskHolds
    <3>2. v \in preds[i].vals
      BY <2>3, <3>1 DEF Matches, Member
    <3> QED
      BY <3>2 DEF Matches, In, Member, Intersected
  <2> HIDE DEF cut
  <2>5. d.filters[k] = [preds EXCEPT ![i] = cut]
    <3> DEFINE new == [preds EXCEPT ![i] = cut]
    <3>1. d = [fc EXCEPT !.derived = @ \cup {k}, !.filters[k] = new]
      BY <2>1
    <3> HIDE DEF new
    <3>2. d.filters[k] = new
      BY <3>1 DEF Contexts
    <3> QED
      BY <3>2 DEF new
  <2> DEFINE new == [preds EXCEPT ![i] = cut]
  <2>6. ASSUME NEW j \in DOMAIN new PROVE Matches(new[j], v)
    <3>1. j \in DOMAIN preds /\ new[j] = IF j = i THEN cut ELSE preds[j]
      BY <1>0
    <3> QED
      BY <2>4, <3>1 DEF MaskHolds
  <2> HIDE DEF new
  <2>7. MaskHolds(new, v)
    BY <2>6 DEF MaskHolds
  <2> QED
    BY <2>5, <2>7 DEF new, d
<1> QED
  BY <1>1, <1>2

\* A merge hides no row of the reference whose value is among those merged.
LEMMA MergedFollows ==
    ASSUME Finitely, NEW asked \in Contexts, NEW fc \in Contexts, Follows(asked, fc),
           NEW far \in Keys, TableOf[far] \in Flow(asked), NEW vals \in SUBSET Values,
           \A q \in Reference(asked) : q[1] = TableOf[far] => q[2][far] \in vals \ {Null}
    PROVE  Follows(asked, Merged(fc, far, vals).fc)
<1> DEFINE d == Merged(fc, far, vals).fc
<1>1. /\ \A j \in Keys \ {far} : d.filters[j] = fc.filters[j]
      /\ d.overrides = fc.overrides /\ d.rels = fc.rels
  BY MergedChanges
<1>2. ASSUME NEW v \in vals \ {Null}, MaskHolds(fc.filters[far], v)
      PROVE  MaskHolds(d.filters[far], v)
  BY <1>2, MergedMask
<1> HIDE DEF d
<1>3. ASSUME NEW t \in Tables, HasFilters(t, d) PROVE t \in Flow(asked)
  <2>1. PICK k \in ColumnsOf[t] : d.filters[k] # <<>>
    BY <1>3 DEF HasFilters
  <2>2. k \in Keys /\ TableOf[k] = t
    BY <2>1 DEF ColumnsOf
  <2>3. CASE k = far
    BY <2>2, <2>3
  <2>4. CASE k # far
    <3>1. HasFilters(t, fc)
      BY <1>1, <2>1, <2>2, <2>4 DEF HasFilters
    <3> QED
      BY <3>1 DEF Follows
  <2> QED
    BY <2>3, <2>4
<1>4. ASSUME NEW q \in Reference(asked), NEW k \in ColumnsOf[q[1]]
      PROVE  MaskHolds(d.filters[k], q[2][k])
  <2>1. q[1] \in Tables
    BY FollowsShows
  <2>2. k \in Keys /\ TableOf[k] = q[1]
    BY <2>1 DEF ColumnsOf
  <2>3. MaskHolds(fc.filters[k], q[2][k])
    BY DEF Follows, Visible
  <2>4. CASE k = far
    BY <1>2, <2>2, <2>3, <2>4
  <2>5. CASE k # far
    BY <1>1, <2>2, <2>3, <2>5
  <2> QED
    BY <2>4, <2>5
<1>5. \A q \in Reference(asked) : Visible(q[1], q[2], d)
  BY <1>4 DEF Visible
<1>6. Follows(asked, d)
  BY <1>1, <1>3, <1>5 DEF Follows
<1> QED
  BY <1>6 DEF d

\* Nor does a propagation to a table whose reference rows have partners,
LEMMA PropagatedFollows ==
    ASSUME PrintsInFull, Finitely, NEW near \in Keys, NEW far \in Keys, NEW wanted \in BOOLEAN,
           NEW e, IsExpansion(e), NEW asked \in Contexts, Follows(asked, e.fc),
           wanted => TableOf[far] \in Flow(asked),
           wanted => \A q \in Reference(asked) :
                        q[1] = TableOf[far] => HasPartner(Reference(asked), near, q[2][far])
    PROVE  Follows(asked, Propagated(near, far, wanted, e).fc)
<1> DEFINE vals == JoinValues(near, e.fc, e.cache)
<1>1. CASE ~wanted
  BY <1>1 DEF Propagated
<1>2. CASE wanted
  <2>1. TableOf[near] \in Tables
    BY DEF Tables
  <2>2. vals = {r[near] : r \in Fresh(TableOf[near], e.fc)}
    BY <2>1, ReadIsFresh DEF JoinValues, IsExpansion
  <2>3. vals \in SUBSET Values
    <3>1. near \in ColumnsOf[TableOf[near]]
      BY <2>1 DEF ColumnsOf
    <3> QED
      BY <2>1, <2>2, <3>1, FreshRows DEF IsExpansion
  <2>4. ASSUME NEW q \in Reference(asked), q[1] = TableOf[far]
        PROVE  q[2][far] \in vals \ {Null}
    <3>1. HasPartner(Reference(asked), near, q[2][far])
      BY <1>2, <2>4
    <3>2. PICK p \in Reference(asked) : p[1] = TableOf[near] /\ p[2][near] = q[2][far]
      BY <3>1 DEF HasPartner
    <3>3. p[2] \in Fresh(TableOf[near], e.fc)
      BY <3>2, FollowsShows
    <3> QED
      BY <2>2, <3>1, <3>2, <3>3 DEF HasPartner
  <2>5. Propagated(near, far, wanted, e).fc = Merged(e.fc, far, vals).fc
    BY <1>2 DEF Propagated, Flowed
  <2> HIDE DEF vals
  <2>6. Follows(asked, Merged(e.fc, far, vals).fc)
    BY <1>2, <2>3, <2>4, MergedFollows DEF IsExpansion
  <2> QED
    BY <2>5, <2>6
<1> QED
  BY <1>1, <1>2

\* which are those of the tables that filters flow to.
LEMMA FlowFollows ==
    ASSUME PrintsInFull, Finitely, NEW i \in Rel, NEW e, IsExpansion(e),
           NEW asked \in Contexts, Follows(asked, e.fc)
    PROVE  Follows(asked, FlowReverse(i, FlowForward(i, e)).fc)
<1> DEFINE f == FlowForward(i, e)
           from == Relationships[i].from
           to == Relationships[i].to
<1>1. from \in Keys /\ to \in Keys /\ TableOf[from] \in Tables /\ TableOf[to] \in Tables
  BY RelationshipsAreTyped DEF Tables
<1>2. FlowsForward(i, e.fc) \in BOOLEAN /\ FlowsBack(i, f.fc) \in BOOLEAN
  BY DEF FlowsForward, FlowsBack, HasFilters
<1>3. f = Propagated(to, from, FlowsForward(i, e.fc), e)
  BY DEF FlowForward, FlowsForward
<1>4. FlowReverse(i, f) = Propagated(from, to, FlowsBack(i, f.fc), f)
  BY DEF FlowReverse, FlowsBack
<1> HIDE DEF f
<1>5. /\ FlowsTo(asked, Flow(asked)) \subseteq Flow(asked)
      /\ \A q \in Reference(asked) : Stays(asked, Flow(asked), Reference(asked), q[1], q[2])
  BY TablesAreFinite, FlowIsClosed, PassingIsFinite, ReferenceIsClosed
<1>6. ASSUME NEW fc, Follows(asked, fc), FlowsForward(i, fc)
      PROVE  /\ TableOf[from] \in Flow(asked)
             /\ \A q \in Reference(asked) :
                   q[1] = TableOf[from] => HasPartner(Reference(asked), to, q[2][from])
  <2>1. /\ Followed(i, asked)
        /\ TableOf[to] \in Flow(asked) \/ Overridden(TableOf[to], asked)
    BY <1>1, <1>6 DEF FlowsForward, Follows, Followed, Overridden
  <2>2. TableOf[from] \in FlowsTo(asked, Flow(asked))
    BY <2>1 DEF FlowsTo
  <2> QED
    BY <1>5, <2>1, <2>2 DEF Stays
<1>7. ASSUME NEW fc, Follows(asked, fc), FlowsBack(i, fc)
      PROVE  /\ TableOf[to] \in Flow(asked)
             /\ \A q \in Reference(asked) :
                   q[1] = TableOf[to] => HasPartner(Reference(asked), from, q[2][to])
  <2>1. BothWays(i, asked) /\ TableOf[from] \in Flow(asked)
    BY <1>1, <1>7 DEF FlowsBack, Follows, BothWays
  <2>2. TableOf[to] \in FlowsTo(asked, Flow(asked))
    BY <2>1 DEF FlowsTo
  <2> QED
    BY <1>5, <2>1, <2>2 DEF Stays
<1>8. IsExpansion(f) /\ Follows(asked, f.fc)
  BY <1>1, <1>2, <1>3, <1>6, PropagatedIsOne, PropagatedFollows
<1>9. Follows(asked, FlowReverse(i, f).fc)
  BY <1>1, <1>2, <1>4, <1>7, <1>8, PropagatedFollows
<1> QED
  BY <1>9 DEF f

\* A row that passes a joined column has a partner on the near side.
LEMMA JoinedPartner ==
    ASSUME NEW fc, NEW near \in Keys, NEW far \in Keys, Joined(near, far, fc),
           NEW r, Visible(TableOf[far], r, fc)
    PROVE  HasPartner(Passing(fc), near, r[far])
<1>1. PICK j \in DOMAIN fc.filters[far] :
          /\ fc.filters[far][j].op = "In"
          /\ fc.filters[far][j].vals \subseteq {q[near] : q \in Fresh(TableOf[near], fc)} \ {Null}
  BY DEF Joined
<1>2. far \in ColumnsOf[TableOf[far]] /\ TableOf[near] \in Tables
  BY DEF ColumnsOf, Tables
<1>3. Matches(fc.filters[far][j], r[far])
  BY <1>1, <1>2 DEF Visible, MaskHolds
<1>4. r[far] # Null /\ r[far] \in fc.filters[far][j].vals
  BY <1>1, <1>3 DEF Matches, Member
<1>5. PICK q \in Fresh(TableOf[near], fc) : q[near] = r[far]
  BY <1>1, <1>4
<1>6. <<TableOf[near], q>> \in Passing(fc)
  BY <1>2, PassingAre
<1> DEFINE p == <<TableOf[near], q>>
<1>7. p \in Passing(fc) /\ p[1] = TableOf[near] /\ p[2] = q
  BY <1>6
<1> HIDE DEF p
<1> QED
  BY <1>4, <1>5, <1>7 DEF HasPartner

\* When no relationship would change anything more, a read gives just the rows
\* of the reference.
LEMMA SettledIsReference ==
    ASSUME Finitely, NEW asked \in Contexts, NEW fc \in Contexts, Follows(asked, fc),
           Keeps(fc, asked.filters), \A i \in Rel : Settled(i, fc), NEW t \in Tables
    PROVE  Fresh(t, fc) = {q[2] : q \in {p \in Reference(asked) : p[1] = t}}
<1> DEFINE V == Passing(fc)
           S == {u \in Tables : HasFilters(u, fc)}
<1>1. /\ \A u \in Tables : Overridden(u, fc) = Overridden(u, asked)
      /\ \A i \in Rel : /\ Followed(i, fc) = Followed(i, asked)
                        /\ BothWays(i, fc) = BothWays(i, asked)
  BY DEF Overridden, Followed, BothWays, Follows
<1>2. ASSUME NEW i \in Rel
      PROVE  /\ Relationships[i].from \in Keys /\ Relationships[i].to \in Keys
             /\ TableOf[Relationships[i].from] \in Tables /\ TableOf[Relationships[i].to] \in Tables
  BY RelationshipsAreTyped DEF Tables
<1>3. ASSUME NEW near \in Keys, NEW far \in Keys, Joined(near, far, fc)
      PROVE  TableOf[far] \in S
  <2>1. TableOf[far] \in Tables /\ far \in ColumnsOf[TableOf[far]]
    BY DEF Tables, ColumnsOf
  <2>2. fc.filters[far] # <<>>
    BY <1>3 DEF Joined
  <2> QED
    BY <2>1, <2>2 DEF HasFilters
<1>4. V \subseteq Passing(asked)
  <2> SUFFICES ASSUME NEW q \in V PROVE q \in Passing(asked)
    OBVIOUS
  <2>1. PICK u \in Tables : \E r \in Fresh(u, fc) : q = <<u, r>>
    BY PassingAre
  <2>2. PICK r \in Fresh(u, fc) : q = <<u, r>>
    BY <2>1
  <2>3. Visible(u, r, asked)
    BY KeptIsVisible DEF Fresh
  <2>4. r \in Fresh(u, asked)
    BY <1>1, <2>3 DEF Fresh, Follows
  <2> QED
    BY <2>2, <2>4, PassingAre
<1>5. Flow(asked) \subseteq S
  <2>1. DirectlyFiltered(asked) \subseteq S
    <3> SUFFICES ASSUME NEW u \in Tables, HasFilters(u, asked) PROVE HasFilters(u, fc)
      BY DEF DirectlyFiltered
    <3>1. PICK k \in ColumnsOf[u] : asked.filters[k] # <<>>
      BY DEF HasFilters
    <3>2. k \in Keys
      BY ColumnsAreKeys
    <3> QED
      BY <3>1, <3>2 DEF Keeps, HasFilters
  <2>2. ASSUME NEW T \in SUBSET S PROVE FlowsTo(asked, T) \subseteq S
    <3>1. ASSUME NEW i \in Rel, Followed(i, asked),
                 LET u == TableOf[Relationships[i].to] IN u \in T \/ Overridden(u, asked)
          PROVE  TableOf[Relationships[i].from] \in S
      <4>1. FlowsForward(i, fc)
        BY <1>1, <1>2, <3>1 DEF FlowsForward
      <4> QED
        BY <1>2, <1>3, <4>1 DEF Settled
    <3>2. ASSUME NEW i \in Rel, BothWays(i, asked), TableOf[Relationships[i].from] \in T
          PROVE  TableOf[Relationships[i].to] \in S
      <4>1. FlowsBack(i, fc)
        BY <1>1, <3>2 DEF FlowsBack
      <4> QED
        BY <1>2, <1>3, <4>1 DEF Settled
    <3> HIDE DEF S
    <3> QED
      BY <3>1, <3>2 DEF FlowsTo
  <2>3. S \in SUBSET Tables
    OBVIOUS
  <2> HIDE DEF S
  <2> QED
    BY <2>1, <2>2, <2>3, TablesAreFinite, FlowIsLeast
<1>6. ASSUME NEW q \in V PROVE Stays(asked, Flow(asked), V, q[1], q[2])
  <2>1. Visible(q[1], q[2], fc)
    <3>1. PICK u \in Tables : \E r \in Fresh(u, fc) : q = <<u, r>>
      BY PassingAre
    <3> QED
      BY <3>1 DEF Fresh
  <2>2. ASSUME NEW i \in Rel, Followed(i, asked), TableOf[Relationships[i].from] = q[1],
               \/ TableOf[Relationships[i].to] \in Flow(asked)
               \/ Overridden(TableOf[Relationships[i].to], asked)
        PROVE  HasPartner(V, Relationships[i].to, q[2][Relationships[i].from])
    <3>1. FlowsForward(i, fc)
      BY <1>1, <1>2, <1>5, <2>2 DEF FlowsForward
    <3>2. Joined(Relationships[i].to, Relationships[i].from, fc)
      BY <3>1 DEF Settled
    <3> QED
      BY <1>2, <2>1, <2>2, <3>2, JoinedPartner
  <2>3. ASSUME NEW i \in Rel, BothWays(i, asked), TableOf[Relationships[i].to] = q[1],
               TableOf[Relationships[i].from] \in Flow(asked)
        PROVE  HasPartner(V, Relationships[i].from, q[2][Relationships[i].to])
    <3>1. FlowsBack(i, fc)
      BY <1>1, <1>5, <2>3 DEF FlowsBack
    <3>2. Joined(Relationships[i].from, Relationships[i].to, fc)
      BY <3>1 DEF Settled
    <3> QED
      BY <1>2, <2>1, <2>3, <3>2, JoinedPartner
  <2> HIDE DEF V
  <2> QED
    BY <2>2, <2>3 DEF Stays
<1> HIDE DEF V
<1>7. V \subseteq Reference(asked)
  BY <1>4, <1>6, PassingIsFinite, ReferenceIsGreatest
<1>8. ASSUME NEW r \in Fresh(t, fc) PROVE \E q \in Reference(asked) : q[1] = t /\ q[2] = r
  <2> DEFINE q == <<t, r>>
  <2>1. q \in V
    BY PassingAre DEF V
  <2>2. q[1] = t /\ q[2] = r
    OBVIOUS
  <2> HIDE DEF q
  <2> QED
    BY <1>7, <2>1, <2>2
<1>9. ASSUME NEW q \in Reference(asked), q[1] = t PROVE q[2] \in Fresh(t, fc)
  BY <1>9, FollowsShows
<1> QED
  BY <1>8, <1>9

\* An expansion that starts with the filters that were asked for.
LEMMA StartFollows ==
    ASSUME Finitely, NEW asked \in Contexts, NEW fc, SameFilters(fc, asked)
    PROVE  Follows(asked, fc)
<1>1. ASSUME NEW t \in Tables, HasFilters(t, fc) PROVE t \in Flow(asked)
  <2>1. t \in DirectlyFiltered(asked)
    BY <1>1 DEF DirectlyFiltered, HasFilters, SameFilters
  <2> QED
    BY <2>1, TablesAreFinite, FlowIsClosed
<1>2. ASSUME NEW q \in Reference(asked) PROVE Visible(q[1], q[2], fc)
  <2>1. q \in Passing(asked)
    BY PassingIsFinite, ReferenceIsClosed
  <2>2. PICK u \in Tables : \E r \in Fresh(u, asked) : q = <<u, r>>
    BY <2>1, PassingAre
  <2> QED
    BY <2>2 DEF Fresh, Visible, SameFilters
<1> QED
  BY <1>1, <1>2 DEF Follows, SameFilters

\* No call keeps a filter of a join column but what an expansion derived, which
\* the next expansion drops; the expansion under way follows what was asked for,
\* and is through with the relationships that change nothing.
StaleInv ==
    /\ \A i \in DOMAIN stack : Clean(stack[i].fc)
    /\ job # NoJob =>
         /\ Clean(job.fc) /\ Follows(Asked(Top), job.fc)
         /\ ~job.changed => \A i \in Rel : i < job.rel => Settled(i, job.fc)
    /\ NothingStaleFilters

\* It holds at the start,
LEMMA StaleInit == EvalInit => StaleInv
<1> SUFFICES ASSUME EvalInit PROVE StaleInv
  OBVIOUS
<1>1. Clean(Root.fc)
  <2>1. Root.fc.filters = [k \in Keys |-> <<>>]
    BY DEF Root, NewContext
  <2>2. JoinColumns \subseteq Keys
    BY RelationshipsAreTyped DEF JoinColumns
  <2> QED
    BY <2>1, <2>2 DEF Clean
<1>2. \A i \in DOMAIN stack : Clean(stack[i].fc)
  BY <1>1 DEF EvalInit
<1> QED
  BY <1>2 DEF EvalInit, StaleInv, NothingStaleFilters

\* when the innermost call is replaced,
LEMMA StaleTop ==
    ASSUME EvalInv, StaleInv, NEW f \in Calls, SetTop(f), Len(stack) > 1 \/ f.phase = "body",
           Clean(f.fc), job' = NoJob, result' = NoResult
    PROVE  StaleInv'
<1>1. /\ stack' \in Seq(Calls) /\ Len(stack') = Len(stack) /\ Top' = f
      /\ \A i \in 1..(Len(stack) - 1) : stack'[i] = stack[i]
  BY SetTopIsOne
<1>2. Len(stack) \in Nat /\ Len(stack) >= 1 /\ stack \in Seq(Calls)
  BY TopIsOne DEF EvalInv
<1>3. ASSUME NEW i \in DOMAIN stack' PROVE Clean(stack'[i].fc)
  <2>1. CASE i = Len(stack)
    BY <1>1, <2>1 DEF Top
  <2>2. CASE i # Len(stack)
    <3>1. i \in 1..(Len(stack) - 1) /\ i \in DOMAIN stack
      BY <1>1, <1>2, <2>2
    <3> QED
      BY <1>1, <3>1 DEF StaleInv
  <2> QED
    BY <2>1, <2>2
<1>4. NothingStaleFilters'
  BY DEF NothingStaleFilters
<1> QED
  BY <1>3, <1>4 DEF StaleInv

\* and when an expansion starts.
LEMMA StaleExpanding ==
    ASSUME Finitely, EvalInv, SaidInv, StaleInv, NEW then, Expanding(Top.fc, then),
           stack' = stack, result' = NoResult
    PROVE  StaleInv'
<1> DEFINE d == StripDerived(Top.fc)
<1>1. /\ Top \in Calls /\ Top.fc \in Contexts /\ Asked(Top) \in Contexts
      /\ Top.said \in [Keys -> Seq(Predicate)]
      /\ Keeps(Top.fc, Top.said) /\ Clean(Top.fc)
  <2>1. Top \in Calls /\ Len(stack) \in DOMAIN stack
    BY TopIsOne DEF EvalInv
  <2>2. Keeps(Top.fc, Top.said) /\ Clean(Top.fc)
    BY <2>1 DEF SaidInv, StaleInv, Top
  <2> QED
    BY <2>1, <2>2, AskedIsOne DEF Calls
<1>2. Clean(d) /\ SameFilters(d, Asked(Top))
  <2>1. /\ Asked(Top).filters = Top.said /\ Asked(Top).overrides = Top.fc.overrides
        /\ Asked(Top).rels = Top.fc.rels
    BY <1>1 DEF Asked, Contexts
  <2>2. /\ Clean(d) /\ d.filters = Top.said
        /\ d.overrides = Top.fc.overrides /\ d.rels = Top.fc.rels
    BY <1>1, StripIsAsked
  <2> QED
    BY <2>1, <2>2 DEF SameFilters
<1> HIDE DEF d
<1>3. Follows(Asked(Top), d)
  BY <1>1, <1>2, StartFollows
<1>4. job'.fc = d /\ job'.rel = 1 /\ job'.changed = FALSE
  BY DEF Expanding, d
<1>5. \A i \in Rel : ~(i < 1)
  BY FilterAssumption DEF Rel
<1>6. NothingStaleFilters'
  BY DEF NothingStaleFilters
<1>7. Asked(Top)' = Asked(Top) /\ \A i \in DOMAIN stack' : Clean(stack'[i].fc)
  BY DEF Asked, Top, StaleInv
<1>8. StaleInv'
  BY <1>2, <1>3, <1>4, <1>5, <1>6, <1>7 DEF StaleInv
<1> QED
  BY <1>8

\* A step of the expansion over one relationship keeps what it follows, and
\* what it says is settled.
LEMMA StaleVia ==
    ASSUME PrintsInFull, Finitely, EvalInv, StaleInv, ExpandVia
    PROVE  StaleInv'
<1> DEFINE e == [fc |-> job.fc, cache |-> cache, changed |-> job.changed]
           d == FlowReverse(job.rel, FlowForward(job.rel, e))
           asked == Asked(Top)
<1>1. IsJob(job) /\ job.rel \in Rel /\ result = NoResult /\ job # NoJob
  BY DEF ExpandVia, EvalInv
<1>2. IsExpansion(e)
  BY <1>1 DEF IsExpansion, IsJob, EvalInv
<1>3. asked \in Contexts
  BY TopIsOne, AskedIsOne
<1>4. e.fc = job.fc /\ e.changed = job.changed
  OBVIOUS
<1>5. job' = [job EXCEPT !.fc = d.fc, !.rel = @ + 1, !.changed = d.changed]
      /\ stack' = stack /\ result' = result
  BY DEF ExpandVia
<1> HIDE DEF e, asked
<1>6. Clean(d.fc) /\ Follows(asked, d.fc)
  BY <1>1, <1>2, <1>3, <1>4, FlowClean, FlowFollows DEF StaleInv, asked
<1>7. ASSUME ~d.changed
      PROVE  ~job.changed /\ SameFilters(d.fc, job.fc) /\ Settled(job.rel, d.fc)
  BY <1>1, <1>2, <1>4, <1>7, FlowStill
<1> HIDE DEF d
<1>8. job'.fc = d.fc /\ job'.rel = job.rel + 1 /\ job'.changed = d.changed
  BY <1>1, <1>5 DEF IsJob
<1>9. ASSUME ~job'.changed, NEW i \in Rel, i < job'.rel PROVE Settled(i, job'.fc)
  <2>1. ~d.changed
    BY <1>8, <1>9
  <2>2. CASE i = job.rel
    BY <1>7, <1>8, <2>1, <2>2
  <2>3. CASE i # job.rel
    <3>1. i < job.rel
      BY <1>1, <1>8, <1>9, <2>3, FilterAssumption DEF Rel
    <3>2. Settled(i, job.fc)
      BY <1>1, <1>7, <2>1, <3>1 DEF StaleInv
    <3> QED
      BY <1>7, <1>8, <2>1, <3>2, SameReads
  <2> QED
    BY <2>2, <2>3
<1>10. NothingStaleFilters'
  BY <1>1, <1>5 DEF NothingStaleFilters
<1>11. Asked(Top)' = asked /\ \A i \in DOMAIN stack' : Clean(stack'[i].fc)
  BY <1>5 DEF asked, Asked, Top, StaleInv
<1> QED
  BY <1>6, <1>8, <1>9, <1>10, <1>11 DEF StaleInv

\* The rows that are read when an expansion is done are those of the reference.
LEMMA StaleRows ==
    ASSUME PrintsInFull, Finitely, EvalInv, SaidInv, StaleInv, TakeRows
    PROVE  StaleInv'
<1> DEFINE t == job.then.table
           rows == FilteredFrame(t, job.fc, cache)
           asked == Asked(Top)
           ref == {q[2] : q \in {p \in Reference(asked) : p[1] = t}}
<1>1. t \in Tables /\ job.fc \in Contexts /\ job # NoJob
  BY ReadStep
<1>2. /\ result' = [table |-> t, kind |-> job.then.kind,
                    rows |-> IF job.then.kind = "table" THEN WithoutBlank(t, rows) ELSE rows]
      /\ job' = NoJob /\ stack' = stack
  BY DEF TakeRows
<1>3. job.rel \notin Rel /\ ~job.changed
  BY DEF TakeRows, Expanded
<1>4. \A i \in Rel : i < job.rel
  <2>1. job.rel \in 1..(Len(Relationships) + 1)
    BY <1>1 DEF EvalInv, IsJob
  <2>2. Rel = 1..Len(Relationships) /\ Len(Relationships) \in Nat
    BY FilterAssumption DEF Rel
  <2> QED
    BY <1>3, <2>1, <2>2
<1>5. \A i \in Rel : Settled(i, job.fc)
  BY <1>1, <1>3, <1>4 DEF StaleInv
<1>6. Top \in Calls /\ asked \in Contexts /\ asked.filters = Top.said
  <2>1. Top \in Calls /\ Top.fc \in Contexts
    BY TopIsOne DEF Calls
  <2>2. asked.filters = Top.said
    BY <2>1 DEF Asked, Contexts
  <2> QED
    BY <2>1, <2>2, AskedIsOne
<1>7. Follows(asked, job.fc) /\ Keeps(job.fc, asked.filters)
  BY <1>1, <1>6 DEF StaleInv, SaidInv
<1>8. rows = Fresh(t, job.fc)
  BY <1>1, ReadIsFresh DEF EvalInv
<1>9. Fresh(t, job.fc) = ref
  <2> HIDE DEF asked, t
  <2> QED
    BY <1>1, <1>5, <1>6, <1>7, SettledIsReference
<1>10. NothingStaleFilters'
  <2>1. Asked(Top)' = asked
    BY <1>2 DEF Asked, Top
  <2> HIDE DEF asked, t, rows
  <2>2. /\ result'.table = t /\ result'.kind = job.then.kind
        /\ result'.rows = IF job.then.kind = "table" THEN WithoutBlank(t, rows) ELSE rows
    BY <1>2
  <2>3. rows = {q[2] : q \in {p \in Reference(asked) : p[1] = t}}
    BY <1>8, <1>9
  <2> QED
    BY <2>1, <2>2, <2>3 DEF NothingStaleFilters
<1>11. \A i \in DOMAIN stack' : Clean(stack'[i].fc)
  BY <1>2 DEF StaleInv
<1> QED
  BY <1>2, <1>10, <1>11 DEF StaleInv

\* Every other step leaves the marks and the expansion as they should be.
LEMMA StaleNext ==
    ASSUME PrintsInFull, Finitely, NoJoinFilters, NoJoinsSelected,
           EvalInv, SaidInv, StaleInv, [EvalNext]_vars
    PROVE  StaleInv'
<1>0. /\ Len(stack) \in Nat /\ Len(stack) >= 1 /\ Len(stack) \in DOMAIN stack
      /\ Top \in Calls /\ Top.fc \in Contexts /\ Clean(Top.fc)
      /\ Top.phase # "body" => Len(stack) > 1 /\ Caller \in Calls
      /\ stack \in Seq(Calls)
  <2>1. /\ Len(stack) \in Nat /\ Len(stack) >= 1 /\ Top \in Calls /\ stack \in Seq(Calls)
        /\ Top.phase # "body" => Len(stack) > 1 /\ Caller \in Calls
    BY TopIsOne DEF EvalInv
  <2>2. Len(stack) \in DOMAIN stack
    BY <2>1
  <2> QED
    BY <2>1, <2>2 DEF StaleInv, Top, Calls
<1>1. CASE Calculate
  <2> DEFINE f == [Top EXCEPT !.phase = "modifiers", !.replaced = {}, !.shown = {}]
  <2>1. stack' = Append(stack, f) /\ f.fc = Top.fc
    BY <1>0, <1>1 DEF Calculate, Calls
  <2> HIDE DEF f
  <2>2. /\ DOMAIN stack' = DOMAIN stack \cup {Len(stack) + 1}
        /\ \A i \in DOMAIN stack : stack'[i] = stack[i]
        /\ stack'[Len(stack) + 1] = f
    BY <1>0, <2>1
  <2>3. job' = NoJob /\ result' = NoResult
    BY <1>1 DEF Calculate, Idle
  <2>4. \A i \in DOMAIN stack' : Clean(stack'[i].fc)
    BY <1>0, <2>1, <2>2 DEF StaleInv
  <2> QED
    BY <2>3, <2>4 DEF StaleInv, NothingStaleFilters
<1>2. ASSUME NEW m \in Modifiers, Modify(m) PROVE StaleInv'
  <2> DEFINE fc == Changed(m, Caller.fc, Top.fc)
  <2>1. /\ m.kind \in ContextKinds /\ Len(stack) > 1 /\ Caller \in Calls
        /\ job' = NoJob /\ result' = NoResult
    BY <1>2, ModifyStep
  <2>2. PICK f \in Calls : SetTop(f) /\ f.fc = fc
    BY <1>2, ModifyStep
  <2>3. Caller.fc \in Contexts
    BY <2>1 DEF Calls
  <2>4. Clean(fc)
    BY <1>0, <2>1, <2>3, ChangedClean
  <2> HIDE DEF fc
  <2> QED
    BY <2>1, <2>2, <2>4, StaleTop
<1>3. CASE TakeTable \/ \E m \in Modifiers : ModifyTable(m)
  <2>0. PICK m \in Modifiers, g \in Frames :
            \E c :
              /\ m.kind \in TableKinds /\ g.cols \subseteq ColumnsOf[TableOf[m.of.key]]
              /\ CacheOK(c) /\ Installed(m, g, c) /\ job' = NoJob /\ result' = NoResult
    BY <1>3, TableStep
  <2>1. PICK c :
            /\ m.kind \in TableKinds /\ g.cols \subseteq ColumnsOf[TableOf[m.of.key]]
            /\ CacheOK(c) /\ Installed(m, g, c) /\ job' = NoJob /\ result' = NoResult
    BY <2>0
  <2> DEFINE f == Installing(m, g, c)
  <2>2. SetTop(f) /\ f \in Calls /\ f.phase = Top.phase
    BY <2>1, InstalledIsOne
  <2>3. f.fc = Tabled(m, g, Top.fc, c)
    BY <1>0 DEF Installing, Calls
  <2>4. Clean(Tabled(m, g, Top.fc, c))
    BY <1>0, TabledClean
  <2> HIDE DEF f
  <2> QED
    BY <1>0, <2>1, <2>2, <2>3, <2>4, StaleTop
<1>4. ASSUME NEW m \in Modifiers, EvaluateTable(m) PROVE StaleInv'
  BY <1>4, StaleExpanding DEF EvaluateTable, Argument, Idle
<1>5. ASSUME NEW p \in Predicates, Filter(p) PROVE StaleInv'
  <2> DEFINE fc == Replace(p.key, p.pred, Top.replaced, Top.fc)
  <2>1. PICK f \in Calls : SetTop(f) /\ f.fc = fc
    BY <1>5, FilterStep
  <2>2. Clean(fc)
    BY <1>0, ReplaceClean
  <2>3. job' = NoJob /\ result' = NoResult /\ Len(stack) > 1
    BY <1>5, FilterStep
  <2> HIDE DEF fc
  <2> QED
    BY <2>1, <2>2, <2>3, StaleTop
<1>6. CASE Enter
  BY <1>6, StaleExpanding DEF Enter, Idle
<1>7. ASSUME NEW t \in Tables, NEW kind \in {"column", "table"}, Read(t, kind)
      PROVE  StaleInv'
  BY <1>7, StaleExpanding DEF Read, Idle
<1>8. CASE ExpandVia
  BY <1>8, StaleVia
<1>9. CASE Again
  <2>1. IsJob(job) /\ result = NoResult /\ job # NoJob
    BY <1>9 DEF Again, EvalInv
  <2>2. job'.fc = job.fc /\ job'.rel = 1 /\ stack' = stack /\ result' = result
    BY <1>9, <2>1 DEF Again, IsJob
  <2>3. \A i \in Rel : ~(i < 1)
    BY FilterAssumption DEF Rel
  <2>4. Asked(Top)' = Asked(Top) /\ \A i \in DOMAIN stack' : Clean(stack'[i].fc)
    BY <2>2 DEF Asked, Top, StaleInv
  <2>5. Clean(job'.fc) /\ Follows(Asked(Top), job'.fc)
    BY <2>1, <2>2 DEF StaleInv
  <2>6. NothingStaleFilters'
    BY <2>1, <2>2 DEF NothingStaleFilters
  <2> QED
    BY <2>2, <2>3, <2>4, <2>5, <2>6 DEF StaleInv
<1>10. CASE EnterBody
  <2> DEFINE f == [Top EXCEPT !.fc = job.fc, !.phase = "body"]
  <2>1. job # NoJob /\ job.fc \in Contexts /\ result = NoResult
    BY <1>10 DEF EnterBody, Expanded, EvalInv, IsJob
  <2>2. f \in Calls /\ f.phase = "body" /\ SetTop(f) /\ f.fc = job.fc
    BY <1>0, <1>10, <2>1 DEF EnterBody, Calls
  <2>3. Clean(job.fc)
    BY <2>1 DEF StaleInv
  <2> HIDE DEF f
  <2>4. job' = NoJob /\ result' = NoResult
    BY <1>10, <2>1 DEF EnterBody
  <2> QED
    BY <2>2, <2>3, <2>4, StaleTop
<1>11. CASE TakeRows
  BY <1>11, StaleRows
<1>12. CASE Return
  <2>1. /\ stack' = SubSeq(stack, 1, Len(stack) - 1) /\ Len(stack) > 1
        /\ job' = NoJob /\ result' = NoResult
    BY <1>12 DEF Return
  <2>2. /\ DOMAIN stack' \subseteq DOMAIN stack
        /\ \A i \in DOMAIN stack' : stack'[i] = stack[i]
    BY <1>0, <2>1
  <2> QED
    BY <2>1, <2>2 DEF StaleInv, NothingStaleFilters
<1>13. CASE UNCHANGED vars
  <2>1. stack' = stack /\ job' = job /\ result' = result
    BY <1>13 DEF vars
  <2>2. Asked(Top)' = Asked(Top)
    BY <2>1 DEF Asked, Top
  <2> QED
    BY <2>1, <2>2 DEF StaleInv, NothingStaleFilters
<1> QED
  BY <1>1, <1>2, <1>3, <1>4, <1>5, <1>6, <1>7, <1>8, <1>9, <1>10, <1>11, <1>12, <1>13
     DEF EvalNext, Expand

\* However filters were replaced, removed and propagated on the way, a read
\* gives the rows that the filters and the relationships in force leave of the
\* loaded tables: as long as no argument filters a join column, and no
\* ALLSELECTED brings the filters of one back.
THEOREM NothingStaleFiltersAlways ==
    PrintsInFull /\ Finitely /\ NoJoinFilters /\ NoJoinsSelected =>
        (EvalSpec => []NothingStaleFilters)
<1> SUFFICES ASSUME PrintsInFull, Finitely, NoJoinFilters, NoJoinsSelected
             PROVE  EvalSpec => []NothingStaleFilters
  OBVIOUS
<1>1. EvalInv /\ EvalInv' /\ SaidInv /\ [EvalNext]_vars => SaidInv'
  BY SaidNext
<1>2. EvalInv /\ SaidInv /\ StaleInv /\ [EvalNext]_vars => StaleInv'
  BY StaleNext
<1>3. EvalSpec => []SaidInv
  BY <1>1, EvalInvAlways, SaidInit, PTL DEF EvalSpec
<1>4. EvalSpec => []StaleInv
  BY <1>2, <1>3, EvalInvAlways, StaleInit, PTL DEF EvalSpec
<1>5. StaleInv => NothingStaleFilters
  BY DEF StaleInv
<1> QED
  BY <1>4, <1>5, PTL
==============================================================================
