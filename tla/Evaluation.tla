------------------------------ MODULE Evaluation ------------------------------
(***************************************************************************)
(* DaxEvaluator::eval (engine/evaluator.rs) as the walk of one query       *)
(* through its nested CALCULATE calls: the arguments change a copy of the  *)
(* caller's filter context, the copy is expanded over the relationships,   *)
(* and the body reads columns and tables under it, each read expanding     *)
(* once more.  One filter cache serves the whole query.                    *)
(*                                                                         *)
(* Which arguments a call has is free; the scalars on the right of a       *)
(* predicate and the condition of a FILTER are their values.               *)
(***************************************************************************)
EXTENDS FilterContext

CONSTANTS
    Modifiers,   \* the modifier arguments a call may have, see ModifierKinds
    Predicates,  \* its predicate arguments: a column and a FilterPredicate
    MaxCalls,    \* bound on the CALCULATE calls of the query
    MaxArgs,     \* bound on the arguments of all calls together
    None         \* no expansion, no rows

\* [ALL or REMOVEFILTERS, ALLSELECTED] of a table or a column, ALLEXCEPT,
\* TREATAS, USERELATIONSHIP, CROSSFILTER, KEEPFILTERS of a predicate or of a
\* table, FILTER.  A table is FILTER(source, column in vals), its source ALL(t),
\* ALL(t[column]) or t itself.
TableExpr == [source : {"all", "column", "table"}, key : Keys, vals : SUBSET Values]

ModifierKinds ==
    [kind : {"all", "allSelected"}, table : Tables]
    \cup [kind : {"allColumn", "allSelectedColumn"}, key : Keys]
    \cup [kind : {"allExcept"}, table : Tables, keep : SUBSET Keys]
    \cup [kind : {"treatAs"}, key : Keys, vals : SUBSET Values]
    \cup [kind : {"useRelationship"}, rel : Rel]
    \cup [kind : {"crossFilter"}, rel : Rel, direction : {"disabled", "uni", "bi"}]
    \cup [kind : {"keep"}, key : Keys, pred : Predicate]
    \cup [kind : {"filter", "keepTable"}, of : TableExpr]

ASSUME EvaluationAssumption ==
    /\ Modifiers \subseteq ModifierKinds
    /\ Predicates \subseteq [key : Keys, pred : Predicate]
    /\ MaxCalls \in Nat /\ MaxArgs \in Nat

VARIABLES
    stack,   \* the calls, innermost last
    job,     \* the expansion under way
    cache,   \* RowContext.filter_cache
    result,  \* what the innermost body read last
    calls,   \* the CALCULATE calls so far
    args     \* their arguments so far

vars == <<stack, job, cache, result, calls, args>>

NoJob    == None
NoResult == None
Top      == stack[Len(stack)]
Caller   == stack[Len(stack) - 1]
Idle     == job = NoJob /\ result = NoResult

\* A frame: the context under construction or, in the body, expanded, and the
\* columns a predicate of the call has already replaced.  Two fields are
\* history: said, the filters that were asked for and are still in force, and
\* shown, the tables for which ALL was the last word of the call.
Root == [fc |-> NewContext, phase |-> "body", replaced |-> {},
         said |-> NewContext.filters, shown |-> {}]

\* The context of a frame had only what was asked for ever been done to it.
Asked(frame) == [frame.fc EXCEPT !.filters = frame.said, !.derived = {}]

SetTop(frame) == stack' = [stack EXCEPT ![Len(stack)] = frame]

\* What is left to intersect away in a column: the values of its first In, or,
\* as long as it has none, every value and the In itself.
LeftIn(preds) ==
    IF InAt(preds) = {} THEN {{}} \cup {{v} : v \in Values}
    ELSE {{v} : v \in preds[CHOOSE i \in InAt(preds) : TRUE].vals}

Left(fc) == [k \in Keys |-> LeftIn(fc.filters[k])]

\* left is history: what was left when the pass over the relationships began.
Expanding(fc, then) ==
    job' = [fc |-> StripDerived(fc), rel |-> 1, changed |-> FALSE, then |-> then,
            left |-> Left(StripDerived(fc))]

EvalInit ==
    /\ stack = <<Root>>
    /\ job = NoJob /\ result = NoResult
    /\ cache = <<>>
    /\ calls = 0 /\ args = 0

------------------------------------------------------------------------------
(* The arguments of CALCULATE                                              *)

\* A call starts from the context of its caller.
Calculate ==
    /\ Idle /\ Top.phase = "body" /\ calls < MaxCalls
    /\ calls' = calls + 1
    /\ stack' = Append(stack, [Top EXCEPT !.phase = "modifiers", !.replaced = {},
                                          !.shown = {}])
    /\ UNCHANGED <<job, cache, result, args>>

Changed(m, caller, fc) ==
    CASE m.kind = "all"               -> AllTable(m.table, fc)
      [] m.kind = "allColumn"         -> AllColumn(m.key, fc)
      [] m.kind = "allExcept"         -> AllExcept(m.table, m.keep, fc)
      [] m.kind = "allSelected"       -> AllSelectedTable(m.table, caller, fc)
      [] m.kind = "allSelectedColumn" -> AllSelectedColumn(m.key, caller, fc)
      [] m.kind = "treatAs"           -> TreatAs(m.key, m.vals, fc)
      [] m.kind = "useRelationship"   -> UseRelationship(m.rel, fc)
      [] m.kind = "crossFilter"       -> CrossFilter(m.rel, m.direction, fc)
      [] m.kind = "keep"              -> Keep(m.key, m.pred, fc)

\* The tables a modifier may restrict after an ALL.
Restricts(m) ==
    CASE m.kind \in {"all", "allColumn", "allExcept"}       -> {}
      [] m.kind = "allSelected"                              -> {m.table}
      [] m.kind \in {"allSelectedColumn", "treatAs", "keep"} -> {TableOf[m.key]}
      [] m.kind \in {"useRelationship", "crossFilter"}       -> Tables
      [] m.kind \in {"filter", "keepTable"}                  -> {TableOf[m.of.key]}

Argument == Idle /\ Top.phase = "modifiers" /\ args < MaxArgs

\* The modifiers that evaluate no table, as they come.
Modify(m) ==
    /\ Argument /\ m.kind \notin {"filter", "keepTable"}
    /\ SetTop([Top EXCEPT
         !.fc    = Changed(m, Caller.fc, @),
         !.said  = Changed(m, Asked(Caller), Asked(Top)).filters,
         !.shown = (@ \ Restricts(m)) \cup (IF m.kind = "all" THEN {m.table} ELSE {})])
    /\ args' = args + 1
    /\ UNCHANGED <<job, cache, result, calls>>

\* Mutant of Frame: the rows of a column source keep their other columns.
FrameUnprojected(e, rows) ==
    [cols |-> IF e.source = "column" THEN {e.key} ELSE ColumnsOf[TableOf[e.key]],
     rows |-> {q \in rows : q[e.key] \in e.vals}]

\* FILTER's condition on the rows of its source, and what becomes of them.
Frame(e, rows) ==
    LET cols == IF e.source = "column" THEN {e.key} ELSE ColumnsOf[TableOf[e.key]] IN
    [cols |-> cols,
     rows |-> {[c \in cols |-> r[c]] : r \in {q \in rows : q[e.key] \in e.vals}}]

Installed(m, frame, read) ==
    LET t == TableOf[m.of.key] IN
    /\ SetTop([Top EXCEPT
         !.fc    = IF m.kind = "filter" THEN Override(t, frame, @)
                   ELSE KeepFrame(t, frame, @, read),
         !.shown = @ \ Restricts(m)])
    /\ cache' = IF m.kind = "filter" THEN read ELSE Caching(t, Top.fc, read)

\* FILTER, or KEEPFILTERS of a table, over ALL(t) or ALL(t[column]): all_fn
\* takes the rows of the loaded table.
ModifyTable(m) ==
    /\ Argument /\ m.kind \in {"filter", "keepTable"} /\ m.of.source # "table"
    /\ Installed(m, Frame(m.of, Rows[TableOf[m.of.key]]), cache)
    /\ args' = args + 1
    /\ UNCHANGED <<job, result, calls>>

\* The same over t itself: its rows are read under the context so far.
EvaluateTable(m) ==
    /\ Argument /\ m.kind \in {"filter", "keepTable"} /\ m.of.source = "table"
    /\ Expanding(Top.fc, [kind |-> "argument", of |-> m])
    /\ args' = args + 1
    /\ UNCHANGED <<stack, cache, result, calls>>

\* Pass 2: the column predicates, after all modifiers.
Filter(p) ==
    /\ Idle /\ Top.phase \in {"modifiers", "predicates"} /\ args < MaxArgs
    /\ SetTop([Top EXCEPT
         !.fc       = Replace(p.key, p.pred, Top.replaced, @),
         !.said     = Replace(p.key, p.pred, Top.replaced, Asked(Top)).filters,
         !.phase    = "predicates",
         !.replaced = @ \cup {p.key},
         !.shown    = @ \ {TableOf[p.key]}])
    /\ args' = args + 1
    /\ UNCHANGED <<job, cache, result, calls>>

\* The last statement of the arm: expand, then evaluate the body.
Enter ==
    /\ Idle /\ Top.phase \in {"modifiers", "predicates"}
    /\ Expanding(Top.fc, [kind |-> "body"])
    /\ UNCHANGED <<stack, cache, result, calls, args>>

------------------------------------------------------------------------------
(* expanded_filter_context                                                 *)

\* The body of the loop for one relationship.
ExpandVia ==
    /\ job # NoJob /\ job.rel \in Rel
    /\ LET e == FlowReverse(job.rel, FlowForward(job.rel, [fc |-> job.fc, cache |-> cache,
                                                    changed |-> job.changed])) IN
       /\ job' = [job EXCEPT !.fc = e.fc, !.rel = @ + 1, !.changed = e.changed]
       /\ cache' = e.cache
    /\ UNCHANGED <<stack, result, calls, args>>

Again ==
    /\ job # NoJob /\ job.rel \notin Rel /\ job.changed
    /\ job' = [job EXCEPT !.rel = 1, !.changed = FALSE, !.left = Left(job.fc)]
    /\ UNCHANGED <<stack, cache, result, calls, args>>

Expanded(kind) == job # NoJob /\ job.rel \notin Rel /\ ~job.changed /\ job.then.kind = kind

EnterBody ==
    /\ Expanded("body")
    /\ SetTop([Top EXCEPT !.fc = job.fc, !.phase = "body"])
    /\ job' = NoJob
    /\ UNCHANGED <<cache, result, calls, args>>

TakeTable ==
    /\ Expanded("argument")
    /\ LET m == job.then.of
           t == TableOf[m.of.key] IN
       Installed(m, Frame(m.of, WithoutBlank(t, FilteredFrame(t, job.fc, cache))),
                 Caching(t, job.fc, cache))
    /\ job' = NoJob
    /\ UNCHANGED <<result, calls, args>>
------------------------------------------------------------------------------
(* The body                                                                *)

\* BoundExprNode::Column (its third case) and BoundExprNode::Table.
Read(t, kind) ==
    /\ Idle /\ Top.phase = "body"
    /\ Expanding(Top.fc, [kind |-> kind, table |-> t])
    /\ UNCHANGED <<stack, cache, result, calls, args>>

TakeRows ==
    /\ \/ Expanded("column")
       \/ Expanded("table")
    /\ LET t    == job.then.table
           rows == FilteredFrame(t, job.fc, cache) IN
       /\ result' = [table |-> t, kind |-> job.then.kind,
                     rows  |-> IF job.then.kind = "table" THEN WithoutBlank(t, rows) ELSE rows]
       /\ cache' = Caching(t, job.fc, cache)
    /\ job' = NoJob
    /\ UNCHANGED <<stack, calls, args>>

\* The value of the call goes to its caller, the context is dropped.
Return ==
    /\ job = NoJob /\ Top.phase = "body" /\ Len(stack) > 1
    /\ stack' = SubSeq(stack, 1, Len(stack) - 1)
    /\ result' = NoResult
    /\ UNCHANGED <<job, cache, calls, args>>

Expand == ExpandVia \/ Again \/ EnterBody \/ TakeTable \/ TakeRows

EvalNext ==
    \/ Calculate
    \/ \E m \in Modifiers : Modify(m) \/ ModifyTable(m) \/ EvaluateTable(m)
    \/ \E p \in Predicates : Filter(p)
    \/ Enter
    \/ Expand
    \/ \E t \in Tables, kind \in {"column", "table"} : Read(t, kind)
    \/ Return

EvalSpec == EvalInit /\ [][EvalNext]_vars

------------------------------------------------------------------------------
(* Properties                                                              *)

\* Every part of the evaluation has its type.
EvalTypeOK ==
    /\ stack # <<>>
    /\ \A i \in DOMAIN stack :
         /\ IsContext(stack[i].fc)
         /\ stack[i].phase \in {"modifiers", "predicates", "body"}
         /\ stack[i].replaced \in SUBSET Keys
         /\ stack[i].said \in [Keys -> Seq(Predicate)]
         /\ stack[i].shown \in SUBSET Tables
    /\ job # NoJob => /\ IsContext(job.fc)
                      /\ job.rel \in 1..(Len(Relationships) + 1)
                      /\ job.changed \in BOOLEAN
    /\ calls \in 0..MaxCalls /\ args \in 0..MaxArgs

\* What the filter cache answers for a context is what a fresh read of the
\* table would give: neither nested calls nor the contexts an expansion goes
\* through leave an entry that another context would wrongly take.
CacheIsSound ==
    \A t \in Tables, fc \in {stack[i].fc : i \in DOMAIN stack} \cup (IF job = NoJob THEN {} ELSE {job.fc}) :
        Fingerprint(t, fc) \in DOMAIN cache => cache[Fingerprint(t, fc)] = Filtered(t, fc)

\* A body sees only rows that pass every filter in force: those its own call
\* and the calls around it asked for and nobody replaced or removed since.
FiltersHold ==
    result # NoResult => \A r \in result.rows : Visible(result.table, r, Asked(Top))

\* Where filters flow to from the tables in S, over one relationship.  An
\* override flows only from the to side.
FlowsTo(fc, S) ==
    {TableOf[Relationships[i].from] : i \in {j \in Rel :
        /\ Followed(j, fc)
        /\ LET t == TableOf[Relationships[j].to] IN t \in S \/ Overridden(t, fc)}}
    \cup {TableOf[Relationships[i].to] : i \in {j \in Rel :
        BothWays(j, fc) /\ TableOf[Relationships[j].from] \in S}}

\* The tables an expansion leaves with a filter: those filtered directly and
\* those filters flow to.
Flow(fc) ==
    LET grown[n \in 0..Cardinality(Tables)] ==
            IF n = 0 THEN {t \in Tables : HasFilters(t, fc)}
            ELSE LET S == grown[n - 1] IN S \cup FlowsTo(fc, S) IN
    grown[Cardinality(Tables)]

\* The rows of every table that pass the filters.
Passing(fc) ==
    UNION {{<<t, r>> : r \in {q \in IF Overridden(t, fc) THEN Widened(t, fc.overrides[t])
                                    ELSE Rows[t] : Visible(t, q, fc)}} : t \in Tables}

HasPartner(rows, key, v) == v # Null /\ \E q \in rows : q[1] = TableOf[key] /\ q[2][key] = v

\* Row r of table t has its partners among rows, in the tables flow filters from.
Stays(fc, flow, rows, t, r) ==
    \A i \in Rel : LET rel == Relationships[i] IN
        /\ (/\ Followed(i, fc) /\ TableOf[rel.from] = t
            /\ TableOf[rel.to] \in flow \/ Overridden(TableOf[rel.to], fc))
             => HasPartner(rows, rel.to, r[rel.from])
        /\ (BothWays(i, fc) /\ TableOf[rel.to] = t /\ TableOf[rel.from] \in flow)
             => HasPartner(rows, rel.from, r[rel.to])

\* The rows of every table that filters and relationships leave, computed from
\* nothing but what was asked for: the rows that pass the filters, less those
\* whose partners are gone, as often as any go.
Reference(fc) ==
    LET flow == Flow(fc)
        base == Passing(fc)
        rest[n \in 0..Cardinality(base)] ==
            IF n = 0 THEN base
            ELSE LET rows == rest[n - 1] IN
                 {q \in rows : Stays(fc, flow, rows, q[1], q[2])} IN
    rest[Cardinality(base)]

\* Nothing else hides a row: however filters were replaced, removed and
\* propagated on the way, a read gives the rows of a computation from scratch.
NothingStaleFilters ==
    result # NoResult =>
        LET rows == {q[2] : q \in {p \in Reference(Asked(Top)) : p[1] = result.table}} IN
        result.rows = IF result.kind = "table" THEN WithoutBlank(result.table, rows) ELSE rows

\* A table whose filters the call removed with ALL, and did not restrict
\* afterwards, shows all its rows in the body: no related table filters it.
AllShowsEverything ==
    (result # NoResult /\ result.table \in Top.shown) =>
        result.rows = IF result.kind = "table" THEN WithoutBlank(result.table, Rows[result.table])
                      ELSE Rows[result.table]

\* No expansion runs for ever: a pass adds nothing to what is left to intersect
\* away in any column, and asks for another one just when it took some away.
ExpansionProgresses ==
    job # NoJob => /\ \A k \in Keys : Left(job.fc)[k] \subseteq job.left[k]
                   /\ job.changed = (Left(job.fc) # job.left)
===============================================================================
