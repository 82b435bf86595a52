----------------------------- MODULE FilterContext -----------------------------
(***************************************************************************)
(* FilterContext and the reads under it (engine/context.rs), with the      *)
(* CALCULATE modifiers that change one (context_functions/filter.rs and    *)
(* relationship.rs, the apply_ functions of evaluator.rs).                 *)
(*                                                                         *)
(* A column belongs to one table, a row is a function of columns, a data   *)
(* frame a set of rows: a table has a column that tells its rows apart, so *)
(* nothing is lost by the set.  A series of filter values is the set of    *)
(* its values: their order and their repetitions change no row.            *)
(***************************************************************************)
EXTENDS Integers, Sequences, FiniteSets

CONSTANTS
    Keys,           \* the columns of the catalog, as (table, name)
    TableOf,        \* TableOf[k] : the table of a column
    Rows,           \* Rows[t] : the rows of the loaded table t, blank member included
    Relationships,  \* catalog.relationships, in order
    Null,           \* the null value
    NullSlot,       \* what Polars keeps in the slot of a null value
    PrintLimit,     \* the longest series the Debug output shows in full
    Values          \* the values of the columns and of the filters

Tables == {TableOf[k] : k \in Keys}
Rel    == DOMAIN Relationships

ColumnsOf == [t \in Tables |-> {k \in Keys : TableOf[k] = t}]

Ends(i) == {TableOf[Relationships[i].from], TableOf[Relationships[i].to]}

ASSUME FilterAssumption ==
    /\ Null \in Values /\ NullSlot \in Values
    /\ Relationships \in
         Seq([from : Keys, to : Keys, active : BOOLEAN, bidirectional : BOOLEAN])
    /\ \A t \in Tables : Rows[t] \subseteq [ColumnsOf[t] -> Values]

\* FilterPredicate: In and NotIn carry a series, the comparisons one literal.
Predicate == [op : {"In", "NotIn", "Gt", "Lt", "Gte", "Lte"}, vals : SUBSET Values]

In(vals) == [op |-> "In", vals |-> vals]

\* RelationshipOverride; "default" where relationship_overrides has no entry.
RelMode == {"default", "disabled", "uni", "bi"}

\* A frame in table_overrides: its columns and its rows.
IsFrame(f) ==
    f.cols \subseteq Keys /\ f \in [cols : {f.cols}, rows : SUBSET [f.cols -> Values]]

NoOverride == [cols |-> {}, rows |-> {}]

\* FilterContext.  A column without an entry in filters has the empty sequence
\* (no entry is ever an empty vector), a table without an override NoOverride.
\* outer_fc is written and never read, scoped_columns belongs to ISINSCOPE.
\* relationship_overrides is keyed by name: relationships have different names.
IsContext(fc) ==
    /\ fc \in [filters   : [Keys -> Seq(Predicate)],
               direct    : SUBSET Keys,
               derived   : SUBSET Keys,
               overrides : {fc.overrides},
               rels      : [Rel -> RelMode]]
    /\ fc.overrides = [t \in Tables |-> fc.overrides[t]]
    /\ \A t \in Tables : IsFrame(fc.overrides[t])

NewContext ==
    [filters   |-> [k \in Keys |-> <<>>],
     direct    |-> {},
     derived   |-> {},
     overrides |-> [t \in Tables |-> NoOverride],
     rels      |-> [i \in Rel |-> "default"]]

------------------------------------------------------------------------------
(* Masks                                                                   *)

Slot(v) == IF v = Null THEN NullSlot ELSE v

\* scalar_cmp on values as they lie in the array, nulls included.
ScalarCompare(op, v, bound) ==
    \/ op = "Gt"  /\ v > bound
    \/ op = "Gte" /\ v >= bound
    \/ op = "Lt"  /\ v < bound
    \/ op = "Lte" /\ v <= bound

\* membership_mask: a null is a member of a series with a null, and it is
\* never outside one.
Member(v, vals, include) ==
    IF v = Null THEN include /\ Null \in vals ELSE (v \in vals) = include

Matches(p, v) ==
    CASE p.op = "In"    -> Member(v, p.vals, TRUE)
      [] p.op = "NotIn" -> Member(v, p.vals, FALSE)
      [] OTHER          -> \E bound \in p.vals : ScalarCompare(p.op, Slot(v), bound)

\* build_mask: all predicates of the column.
MaskHolds(preds, v) == \A i \in DOMAIN preds : Matches(preds[i], v)

Visible(t, r, fc) ==
    \A k \in ColumnsOf[t] : MaskHolds(fc.filters[k], r[k])
------------------------------------------------------------------------------
(* get_filtered_df and its cache                                           *)

\* Polars prints a long series by its length and its ends.
Shown(vals) ==
    LET numbers == vals \ {Null} IN
    IF Cardinality(vals) <= PrintLimit THEN [length |-> Cardinality(vals), values |-> vals]
    ELSE [length |-> Cardinality(vals),
          values |-> {v \in numbers : \/ \A w \in numbers : v <= w
                                      \/ \A w \in numbers : v >= w}]

Printed(preds) == [i \in DOMAIN preds |-> [op |-> preds[i].op, vals |-> Shown(preds[i].vals)]]

\* Mutant of Fingerprint: the columns are left out, their predicates stay.
FingerprintOfPredicates(t, fc) ==
    <<t, {Printed(fc.filters[k]) : k \in ColumnsOf[t]}>>

\* filter_fingerprint: the table and the printed predicates of its columns.
Fingerprint(t, fc) == <<t, [k \in ColumnsOf[t] |-> Printed(fc.filters[k])]>>

Overridden(t, fc) == fc.overrides[t] # NoOverride

\* widen_table_override: a narrow frame is joined back on its own columns
\* (nulls are equal); a row without a partner keeps nulls in the others.
Widened(t, frame) ==
    IF ColumnsOf[t] \subseteq frame.cols THEN frame.rows
    ELSE UNION {LET partners == {full \in Rows[t] : \A c \in frame.cols : full[c] = r[c]} IN
                IF partners # {} THEN partners
                ELSE {[c \in ColumnsOf[t] |-> IF c \in frame.cols THEN r[c] ELSE Null]} :
                r \in frame.rows}

Filtered(t, fc) == {r \in Rows[t] : Visible(t, r, fc)}

\* get_filtered_df: the override or the table, the table through the cache.
FilteredFrame(t, fc, cache) ==
    CASE Overridden(t, fc) ->
            {r \in Widened(t, fc.overrides[t]) : Visible(t, r, fc)}
      [] ~Overridden(t, fc) /\ Fingerprint(t, fc) \in DOMAIN cache ->
            cache[Fingerprint(t, fc)]
      [] OTHER -> Filtered(t, fc)

\* The cache after that read.
Caching(t, fc, cache) ==
    IF Overridden(t, fc) \/ Fingerprint(t, fc) \in DOMAIN cache THEN cache
    ELSE [f \in DOMAIN cache \cup {Fingerprint(t, fc)} |->
            IF f \in DOMAIN cache THEN cache[f] ELSE Filtered(t, fc)]

\* BoundExprNode::Table drops the blank member of a table on a to side.
WithoutBlank(t, rows) ==
    IF \E i \in Rel : TableOf[Relationships[i].to] = t
    THEN {r \in rows : \E c \in DOMAIN r : r[c] # Null} ELSE rows

------------------------------------------------------------------------------
(* expanded_filter_context, one relationship at a time                     *)

HasFilters(t, fc) == \E k \in ColumnsOf[t] : fc.filters[k] # <<>>

\* Mutant of StripDerived: what an outer expansion derived stays.
KeepDerived(fc) == fc

\* Mutant of StripDerived: tables with a derived column lose all their filters.
StripTables(fc) ==
    [fc EXCEPT !.filters = [k \in Keys |-> IF \E d \in fc.derived : TableOf[d] = TableOf[k]
                                          THEN <<>> ELSE @[k]],
               !.derived = {}]

StripDerived(fc) ==
    [fc EXCEPT !.filters = [k \in Keys |-> IF k \in fc.derived THEN <<>> ELSE @[k]],
               !.derived = {}]

\* The values of a column's In that survive a merge; nulls never do.
Intersected(kept, values) == (kept \cap values) \ {Null}

\* merge_filter: the first In is intersected, a column without one gets a new In.
InAt(preds) == {i \in DOMAIN preds : preds[i].op = "In" /\ \A j \in 1..(i - 1) : preds[j].op # "In"}

\* Mutant of Merged: a merge that intersects nothing away counts as a change.
MergedAlways(fc, key, values) ==
    [fc      |-> [fc EXCEPT !.derived = @ \cup {key},
                            !.filters[key] = IF InAt(@) # {} THEN @ ELSE Append(@, In(values))],
     changed |-> TRUE]

Merged(fc, key, values) ==
    LET preds == fc.filters[key]
        both(i) == Intersected(preds[i].vals, values) IN
    IF InAt(preds) = {}
    THEN [fc      |-> [fc EXCEPT !.derived = @ \cup {key},
                                 !.filters[key] = Append(@, In(values))],
          changed |-> TRUE]
    ELSE LET i == CHOOSE j \in InAt(preds) : TRUE IN
         [fc      |-> [fc EXCEPT !.derived = @ \cup {key},
                                 !.filters[key] = [@ EXCEPT ![i] = In(both(i))]],
          changed |-> both(i) # preds[i].vals]

\* The relationships an expansion follows, and those it follows both ways.
Followed(i, fc) ==
    \/ fc.rels[i] \in {"uni", "bi"}
    \/ fc.rels[i] = "default" /\ Relationships[i].active

BothWays(i, fc) ==
    \/ fc.rels[i] = "bi"
    \/ fc.rels[i] = "default" /\ Relationships[i].active /\ Relationships[i].bidirectional

JoinValues(key, fc, cache) == {r[key] : r \in FilteredFrame(TableOf[key], fc, cache)}

\* After a merge m of what was read of table t.
Flowed(m, t, e) ==
    [fc |-> m.fc, cache |-> Caching(t, e.fc, e.cache), changed |-> e.changed \/ m.changed]

\* One read of the side near and the merge into the side far.
Propagated(near, far, wanted, e) ==
    IF ~wanted THEN e
    ELSE Flowed(Merged(e.fc, far, JoinValues(near, e.fc, e.cache)), TableOf[near], e)

\* FORWARD: to (dim) -> from (fact).
FlowForward(i, e) ==
    LET r == Relationships[i] IN
    Propagated(r.to, r.from,
               Followed(i, e.fc) /\ (HasFilters(TableOf[r.to], e.fc) \/ Overridden(TableOf[r.to], e.fc)), e)

\* REVERSE: from (fact) -> to (dim); an override of the fact does not count.
FlowReverse(i, e) ==
    LET r == Relationships[i] IN
    Propagated(r.from, r.to, BothWays(i, e.fc) /\ HasFilters(TableOf[r.from], e.fc), e)
------------------------------------------------------------------------------
(* CALCULATE modifiers                                                     *)

\* FilterContext::remove_table and remove_table_except: the marks of direct
\* filters stay.
WithoutColumns(gone, fc) ==
    [fc EXCEPT !.filters = [k \in Keys |-> IF k \in gone THEN <<>> ELSE @[k]],
               !.derived = @ \ gone]

RemoveTableExcept(t, keep, fc) ==
    [WithoutColumns(ColumnsOf[t] \ keep, fc) EXCEPT !.overrides[t] = NoOverride]

RemoveTable(t, fc) == RemoveTableExcept(t, {}, fc)

Disabling(cut, fc) ==
    [fc EXCEPT !.rels = [i \in Rel |-> IF i \in cut THEN "disabled" ELSE @[i]]]

\* Mutant of AllTable: the relationships of the table go on filtering it.
AllTableConnected(t, fc) == RemoveTable(t, fc)

\* apply_all_modifier: ALL and REMOVEFILTERS of a table, of a column.
AllTable(t, fc) ==
    Disabling({i \in Rel : t \in Ends(i)},
              RemoveTable(t, fc))

AllColumn(key, fc) ==
    Disabling({i \in Rel : key \in {Relationships[i].from, Relationships[i].to}},
              WithoutColumns({key}, fc))

\* apply_allexcept_modifier.
AllExcept(t, keep, fc) == RemoveTableExcept(t, keep, fc)

\* apply_allselected_modifier: back to what the caller's context has.
AllSelectedTable(t, outer, fc) ==
    [RemoveTable(t, fc) EXCEPT
        !.filters   = [k \in Keys |-> IF k \in ColumnsOf[t] THEN outer.filters[k] ELSE @[k]],
        !.overrides[t] = outer.overrides[t]]

AllSelectedColumn(key, outer, fc) == [fc EXCEPT !.filters[key] = outer.filters[key]]

\* apply_predicate_filter_keep; TREATAS pushes an In and marks nothing.
Keep(key, p, fc) ==
    [fc EXCEPT !.filters[key] = Append(@, p), !.direct = @ \cup {key}]

TreatAs(key, vals, fc) == [fc EXCEPT !.filters[key] = Append(@, In(vals))]

\* apply_predicate_filter: the first predicate on a column clears what the
\* outer context had there, the next ones are added.  A mark that the column
\* was derived stays.
Replace(key, p, replaced, fc) ==
    [fc EXCEPT !.filters[key] = IF key \in replaced THEN Append(@, p) ELSE <<p>>,
               !.direct = @ \cup {key}]

\* A table-returning modifier (FILTER): table_overrides.insert.
Override(t, frame, fc) == [fc EXCEPT !.overrides[t] = frame]

\* apply_keepfilters_table_override: a semi-join, in which nulls never match.
KeepFrame(t, frame, fc, cache) ==
    Override(t, [cols |-> ColumnsOf[t],
                 rows |-> {r \in FilteredFrame(t, fc, cache) :
                             \E kept \in frame.rows :
                                \A c \in frame.cols : r[c] = kept[c] /\ r[c] # Null}], fc)

\* apply_userelationship_modifier: the other active relationships of the two
\* tables are disabled, unless the context already overrides them.
UseRelationship(i, fc) ==
    LET rivals == {j \in Rel \ {i} : /\ Ends(j) \subseteq Ends(i)
                                     /\ Relationships[j].active
                                     /\ fc.rels[j] = "default"} IN
    [fc EXCEPT !.rels = [j \in Rel |->
        CASE j = i         -> IF Relationships[i].bidirectional THEN "bi" ELSE "uni"
          [] j \in rivals  -> "disabled"
          [] OTHER         -> @[j]]]

\* apply_crossfilter_modifier: NONE, ONEWAY, BOTH.
CrossFilter(i, direction, fc) == [fc EXCEPT !.rels[i] = direction]
==============================================================================
