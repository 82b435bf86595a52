-------------------------------- MODULE Summarize --------------------------------
(***************************************************************************)
(* SUMMARIZECOLUMNS with rollups, and ROW (engine/context_functions/       *)
(* summarize.rs, functions/aggregation.rs): groups of the base table joined *)
(* to the other group tables, and per group the extensions under a context *)
(* of its own.                                                             *)
(*                                                                         *)
(* A row of the result has keys (a value for every group column), flags    *)
(* (is the rolled-up column collapsed) and values (of the extensions).     *)
(* Every rolled-up column is an axis of its own, as the translator from    *)
(* MDX writes it.                                                          *)
(***************************************************************************)
EXTENDS Dax

\* The elements of a set in some order, and those of a sequence at some places.
Listing(S)    == FoldSet(LAMBDA x, acc : Append(acc, x), <<>>, S)
At(seq, places) ==
    LET kept == SelectSeq([i \in DOMAIN seq |-> i], LAMBDA i : i \in places) IN
    [i \in DOMAIN kept |-> seq[kept[i]]]

Result(ok, rows) == [ok |-> ok, rows |-> rows]
NoResultRows     == Result(FALSE, {})

\* A FILTER argument: a semi-join, in which nulls never match, of the override
\* or the loaded table.  frame.cols = {} says that a column was missing.
SemiJoined(current, table) ==
    [cols |-> IF table.cols \subseteq current.cols THEN current.cols ELSE {},
     rows |-> {r \in current.rows : \E q \in table.rows :
                  \A c \in table.cols \cap current.cols : r[c] = q[c] /\ r[c] # Null}]

Current(t, fc) ==
    IF Overridden(t, fc) THEN fc.overrides[t] ELSE [cols |-> ColumnsOf[t], rows |-> Rows[t]]

RestrictedBy(acc, table) ==
    LET frame == SemiJoined(Current(table.t, acc.fc), table) IN
    [fc |-> Override(table.t, frame, acc.fc), ok |-> acc.ok /\ frame.cols # {}]

\* The filter arguments, all evaluated under the context of the call.
Restricted(filters, env) ==
    FoldLeft(LAMBDA acc, x : RestrictedBy(acc, Eval(x, env)), [fc |-> env.fc, ok |-> TRUE], filters)

\* The group table most active relationships start at, the first of equals.
BaseTable(refs) ==
    LET weight(t) == Cardinality({i \in Rel : Relationships[i].active
                                              /\ TableOf[Relationships[i].from] = t})
        best == {i \in DOMAIN refs : \A j \in DOMAIN refs :
                    weight(TableOf[refs[j]]) <= weight(TableOf[refs[i]])} IN
    TableOf[refs[Min(best)]]

LeftJoin(rows, step, right) ==
    LET t == TableOf[step.right] IN
    UNION {LET partners == Partners(step.right, r[step.left], right) IN
           {r @@ p : p \in IF partners = {} THEN {[c \in ColumnsOf[t] |-> Null]} ELSE partners} :
           r \in rows}

\* enrich_with_foreign_cols: all paths one hop at a time, a hop two paths share
\* only once.
Joined(rows, paths, fc) ==
    LET depth   == Max({0} \cup {Len(p) : p \in paths})
        hops(d) == {p[d] : p \in {q \in paths : Len(q) >= d}} IN
    FoldLeft(LAMBDA left, d : FoldSet(LAMBDA step, acc : LeftJoin(acc, step, FrameOf(TableOf[step.right], fc)), left, hops(d)),
             rows, [d \in 1..depth |-> d])

Enriched(base, tables, fc) ==
    Joined(FrameOf(base, fc), {JoinPath(base, t).path : t \in tables}, fc)

\* The context of a group: its keys narrow the override of their table, or are
\* pushed beside the filters that are there.
GroupContext(group, fc) ==
    FoldLeft(LAMBDA acc, key :
                LET t     == TableOf[key]
                    frame == acc.overrides[t] IN
                IF ~Overridden(t, acc)
                THEN [acc EXCEPT !.filters[key] = Append(@, In({group[key]}))]
                ELSE LET wide == [cols |-> ColumnsOf[t], rows |-> FrameOf(t, acc)]
                         from == IF key \in frame.cols THEN frame ELSE wide IN
                     Override(t, [from EXCEPT !.rows = {r \in @ : Matches(In({group[key]}), r[key])}], acc),
             fc, Listing(DOMAIN group))

EachValue(exts, env) == [i \in DOMAIN exts |-> Eval(exts[i], env).v]

Extended(group, exts, fc, env) ==
    EachValue(exts, [env EXCEPT !.fc     = ExpandedContext(GroupContext(group, fc)),
                                !.scoped = DOMAIN group])

Groups(rows, active) == IF active = {} THEN {<<>>} ELSE {[k \in active |-> r[k]] : r \in rows}

AllBlank(values) == \A i \in DOMAIN values : values[i] = Null

\* A group over some of the columns as a row: the others are null, and the flag
\* of those that are rolled up is set.
GroupRow(group, refs, rolled, values) ==
    [keys   |-> [k \in ToSet(refs) |-> IF k \in DOMAIN group THEN group[k] ELSE Null],
     flags  |-> [k \in rolled |-> k \notin DOMAIN group],
     values |-> values]

GroupRows(rows, refs, active, rolled, exts, fc, env) ==
    {row \in {GroupRow(g, refs, rolled, Extended(g, exts, fc, env)) : g \in Groups(rows, active)} :
        ~AllBlank(row.values)}

\* rollup_cutoff_combinations: every rolled-up column is there or collapsed.
Cutoffs(refs, rolled) == {ToSet(refs) \ gone : gone \in SUBSET rolled}

\* The groups of every combination, from the joined rows.
GroupsOfAll(rows, refs, rolled, exts, fc, env) ==
    UNION {GroupRows(rows, refs, active, rolled, exts, fc, env) : active \in Cutoffs(refs, rolled)}

Subtotals(refs, rolled, exts, base, tables, under, env) ==
    IF ~under.ok THEN NoResultRows
    ELSE Result(TRUE, GroupsOfAll(Enriched(base, tables, under.fc), refs, rolled, exts, under.fc, env))

\* eval_summarize_columns and generate_rollup_subtotals_sc.
SummarizeColumns(refs, rolled, filters, exts, env) ==
    LET base   == BaseTable(refs)
        tables == {TableOf[refs[i]] : i \in DOMAIN refs} \ {base} IN
    IF \E t \in tables : ~JoinPath(base, t).found THEN NoResultRows
    ELSE Subtotals(refs, rolled, exts, base, tables, Restricted(filters, env), env)

\* row_fn: one row, whatever its values.
RowOf(exts, env) ==
    Result(TRUE, {[keys |-> <<>>, flags |-> <<>>, values |-> EachValue(exts, env)]})
==================================================================================
