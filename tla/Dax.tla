----------------------------------- MODULE Dax -----------------------------------
(***************************************************************************)
(* Evaluator::eval on a bound expression (engine/evaluator.rs), with the   *)
(* aggregations, the iterators and FILTER (functions/aggregation.rs,       *)
(* context_functions/iterator.rs, filter.rs) and the row context they push *)
(* (engine/row_context.rs).                                                *)
(*                                                                         *)
(* A node has an operator, its arguments and, where it has one, a column,  *)
(* a table or a constant.  A series is a function of the rows it was read  *)
(* from, so that equal values of two rows count twice.  Expressions are    *)
(* well typed: the type errors of the code are left out.                   *)
(***************************************************************************)
EXTENDS JoinPath

Const(v)         == [op |-> "const", args |-> <<>>, v |-> v]
Column(key)      == [op |-> "column", args |-> <<>>, key |-> key]
Among(x, vals)     == [op |-> "in", args |-> <<x>>, vals |-> vals]
TableRef(t)      == [op |-> "table", args |-> <<>>, t |-> t]
Call(f, args)    == [op |-> f, args |-> args]
\* GENERATE and GENERATEALL: t is the table the rows beside are of.
Generate(f, args, t) == [op |-> f, args |-> args, t |-> t]
\* CALCULATE and CALCULATETABLE: FILTERs and predicates, see Calculated.
Calculate(body, filters, preds) ==
    [op |-> "calculate", args |-> <<body>>, filters |-> filters, preds |-> preds]

\* What an expression sees: the filter context, its scoped columns, the rows of
\* the iterations around it, innermost last, and the tables FILTER goes through.
Env(fc, scoped) == [fc |-> fc, scoped |-> scoped, frames |-> <<>>, scope |-> <<>>]

Scalar(v)           == [is |-> "scalar", v |-> v]
Series(f)           == [is |-> "series", f |-> f]
Table(t, cols, rows) == [is |-> "table", t |-> t, cols |-> cols, rows |-> rows]

------------------------------------------------------------------------------
(* Reads                                                                   *)

\* A pass over all relationships, and passes until none changes a filter.
Pass(e) ==
    FoldLeft(LAMBDA acc, i : FlowReverse(i, FlowForward(i, acc)),
             [e EXCEPT !.changed = FALSE], [i \in Rel |-> i])

RECURSIVE Settled(_)
Settled(e) == IF e.changed THEN Settled(Pass(e)) ELSE e

\* Mutant of ExpandedContext: a context is expanded once and for all.
ExpandedOnce(fc) ==
    IF fc.derived # {} THEN fc
    ELSE Settled([fc |-> fc, cache |-> <<>>, changed |-> TRUE]).fc

\* expanded_filter_context as a whole.
ExpandedContext(fc) == Settled([fc |-> StripDerived(fc), cache |-> <<>>, changed |-> TRUE]).fc

FrameOf(t, fc) == FilteredFrame(t, fc, <<>>)

SeriesOf(key, rows) == Series([r \in rows |-> r[key]])

\* BoundExprNode::Column: the innermost row that has it, the table in scope, or
\* the table as filtered.
ColumnValue(key, env) ==
    LET t      == TableOf[key]
        frames == {i \in DOMAIN env.frames : key \in DOMAIN env.frames[i]} IN
    IF frames # {} THEN Scalar(env.frames[Max(frames)][key])
    ELSE SeriesOf(key, IF t \in DOMAIN env.scope THEN env.scope[t]
                       ELSE FrameOf(t, ExpandedContext(env.fc)))

\* BoundExprNode::Table.
TableValue(t, env) ==
    Table(t, ColumnsOf[t], WithoutBlank(t, FrameOf(t, ExpandedContext(env.fc))))

\* all_fn: the rows of the loaded table, or the values of its column.
AllValue(arg) ==
    IF arg.op = "table" THEN Table(arg.t, ColumnsOf[arg.t], Rows[arg.t])
    ELSE Table(TableOf[arg.key], {arg.key}, {[c \in {arg.key} |-> r[c]] : r \in Rows[TableOf[arg.key]]})

\* values_fn: a null is a value like any other.
ValuesValue(key, series) ==
    Table(TableOf[key], {key}, {[c \in {key} |-> series.f[r]] : r \in DOMAIN series.f})

\* distinct_fn: the values of a column that are not null, or the rows of a table
\* that are not all null.
DistinctValue(arg, value) ==
    LET table == IF value.is = "series" THEN ValuesValue(arg.key, value) ELSE value IN
    [table EXCEPT !.rows = {r \in @ : \E c \in table.cols : r[c] # Null}]

------------------------------------------------------------------------------
(* Tables from tables                                                      *)

\* except_fn and intersect_fn, of tables with the same columns: joins in which
\* nulls are equal.
ExceptValue(a, b)    == [a EXCEPT !.rows = @ \ b.rows]
IntersectValue(a, b) == [a EXCEPT !.rows = @ \cap b.rows]

\* crossjoin_fn, of two tables without a column in common.
CrossJoined(a, b) == Table(a.t, a.cols \cup b.cols, {r @@ q : r \in a.rows, q \in b.rows})

\* generate_fn: beside each row the rows of the second table as that row sees it.
Generated(a, cols, beside) ==
    Table(a.t, a.cols \cup cols, UNION {{r @@ q : q \in beside[r]} : r \in a.rows})

\* generateall_fn: a row with none beside it has one of nulls there.
GeneratedAll(a, cols, beside) ==
    Generated(a, cols, [r \in a.rows |-> IF beside[r] = {} THEN {[c \in cols |-> Null]} ELSE beside[r]])

------------------------------------------------------------------------------
(* Operators                                                               *)

Comparisons == {"=", "<>", "<", "<=", ">", ">="}

Compare(f, a, b) ==
    \/ f = "="  /\ a = b
    \/ f = "<>" /\ a # b
    \/ f = "<"  /\ a < b
    \/ f = "<=" /\ a <= b
    \/ f = ">"  /\ a > b
    \/ f = ">=" /\ a >= b

Arithmetic(f, a, b) == CASE f = "+" -> a + b [] f = "-" -> a - b [] f = "*" -> a * b

Flip(f) == CASE f = "<" -> ">" [] f = "<=" -> ">=" [] f = ">" -> "<" [] f = ">=" -> "<=" [] OTHER -> f

\* eval_binary on two scalars: a blank counts as zero, the product with a blank
\* and the sum of two blanks are blank.
ScalarBinary(f, a, b) ==
    CASE f \in Comparisons                       -> Compare(f, Slot(a), Slot(b))
      [] f = "*" /\ Null \in {a, b}              -> Null
      [] f \in {"+", "-"} /\ {a, b} = {Null}     -> Null
      [] OTHER                                   -> Arithmetic(f, Slot(a), Slot(b))

\* series_scalar_cmp and series_string_cmp go over the array with its nulls;
\* against a blank a series is tested for nulls.
SeriesScalar(f, s, v) ==
    CASE v # Null -> Series([r \in DOMAIN s |-> Compare(f, Slot(s[r]), v)])
      [] v = Null /\ f = "="  -> Series([r \in DOMAIN s |-> s[r] = Null])
      [] v = Null /\ f = "<>" -> Series([r \in DOMAIN s |-> s[r] # Null])
      [] OTHER -> Scalar(Null)

\* Two series of one table, row by row; a null on either side gives a null.
SeriesSeries(f, s, u) ==
    Series([r \in DOMAIN s |->
        IF Null \in {s[r], u[r]} THEN Null
        ELSE IF f \in Comparisons THEN Compare(f, s[r], u[r]) ELSE Arithmetic(f, s[r], u[r])])

\* IN with a series on the left.
AmongValue(s, vals) == Series([r \in DOMAIN s |-> s[r] # Null /\ s[r] \in vals])

\* && and ||: a blank scalar is false, a null in a mask decides nothing.
Connected(f, a, b) ==
    LET decisive == f = "||" IN
    IF decisive \in {a, b} THEN decisive ELSE IF Null \in {a, b} THEN Null ELSE ~decisive

Binary(f, l, r) ==
    CASE f \in {"&&", "||"} ->
            (CASE l.is = "series" /\ r.is = "series" ->
                     Series([q \in DOMAIN l.f |-> Connected(f, l.f[q], r.f[q])])
               [] OTHER -> Scalar(Connected(f, l.v = TRUE, r.v = TRUE)))
      [] l.is = "series" /\ r.is = "series" -> SeriesSeries(f, l.f, r.f)
      [] l.is = "series" /\ r.is = "scalar" -> SeriesScalar(f, l.f, r.v)
      [] l.is = "scalar" /\ r.is = "series" -> SeriesScalar(Flip(f), r.f, l.v)
      [] OTHER -> Scalar(ScalarBinary(f, l.v, r.v))

------------------------------------------------------------------------------
(* Aggregations and iterators                                              *)

\* Of a multiset: value[i] for every i in its domain.
Total(value) == MapThenSumSet(LAMBDA i : value[i], DOMAIN value)

BlankIfNone(n) == IF n = 0 THEN Null ELSE n

\* countrows.
CountRows(table) == BlankIfNone(Cardinality(table.rows))

\* distinctcount, hasonevalue: a null is a value like any other.
Different(s)     == {s[r] : r \in DOMAIN s}
DistinctCount(s) == BlankIfNone(Cardinality(Different(s)))
HasOneValue(s)   == Cardinality(Different(s)) = 1

\* sum, count, min, max: nulls are left out.
Aggregate(f, s) ==
    LET some  == {r \in DOMAIN s : s[r] # Null}
        found == {s[r] : r \in some} IN
    CASE f = "sum"           -> IF DOMAIN s = {} THEN Null ELSE Total([r \in some |-> s[r]])
      [] f = "count"         -> BlankIfNone(Cardinality(some))
      [] f = "min"           -> IF found = {} THEN Null ELSE Min(found)
      [] f = "max"           -> IF found = {} THEN Null ELSE Max(found)

\* sumx, minx, maxx, countx over the values of the expression in every row.
Iterated(f, values) ==
    LET some  == {r \in DOMAIN values : values[r] # Null}
        found == {values[r] : r \in some} IN
    CASE some = {}     -> Null
      [] f = "sumx"    -> Total([r \in some |-> values[r]])
      [] f = "minx"    -> Min(found)
      [] f = "maxx"    -> Max(found)
      [] f = "countx"  -> Cardinality(some)

RECURSIVE Mentioned(_), HasRelated(_)
Mentioned(x) ==
    (IF x.op = "column" THEN {x.key} ELSE {}) \cup UNION {Mentioned(x.args[i]) : i \in DOMAIN x.args}
HasRelated(x) ==
    x.op \in {"related", "relatedtable"} \/ \E i \in DOMAIN x.args : HasRelated(x.args[i])

\* RowFrameCursor: only the columns the expression mentions, unless it looks at
\* related rows.  What the filters of a CALCULATE mention does not count.
RowFrame(row, x) ==
    IF HasRelated(x) THEN row ELSE [c \in DOMAIN row \cap Mentioned(x) |-> row[c]]

FrameTables(env) == {TableOf[k] : k \in UNION {DOMAIN env.frames[i] : i \in DOMAIN env.frames}}

\* countax_fn, of numbers: a row counts if it has one.
CountedX(values) == BlankIfNone(Cardinality({r \in DOMAIN values : values[r] # Null}))

\* RowContext::lookup.
Lookup(key, env) ==
    env.frames[Max({i \in DOMAIN env.frames : key \in DOMAIN env.frames[i]})][key]

\* The tables as the context filters them, which related rows are taken from.
Frames(env) == [t \in Tables |-> FrameOf(t, env.fc)]

FromRow(path, key, env) == Scalar(Walked(path, Lookup(path[1].left, env), key, Frames(env)))

\* related_fn: from the row in hand, or over the table in scope.
RelatedValue(key, env) ==
    IF env.frames # <<>>
    THEN FromRow(PathFromFrames(FrameTables(env), TableOf[key]).path, key, env)
    ELSE LET t == CHOOSE s \in DOMAIN env.scope : TRUE IN
         Series(RelatedSeries(JoinPath(t, TableOf[key]).path, env.scope[t], key, Frames(env)))

\* relatedtable_fn.
BelowRow(path, env) == RelatedTable(path, Lookup(path[1].left, env), Frames(env))

RelatedTableValue(t, env) ==
    Table(t, ColumnsOf[t], BelowRow(PathFromFrames(FrameTables(env), t).path, env))

------------------------------------------------------------------------------
RECURSIVE Eval(_, _)

Masked(source, mask) ==
    [source EXCEPT !.rows = {r \in @ : IF mask.is = "scalar" THEN mask.v = TRUE ELSE mask.f[r] = TRUE}]

\* FILTER: the condition over the whole table at once, its nulls drop the row.
FilterValue(source, condition, env) ==
    LET over == [t \in {source.t} \cup DOMAIN env.scope |->
                    IF t = source.t THEN source.rows ELSE env.scope[t]] IN
    Masked(source, Eval(condition, [env EXCEPT !.scope = over]))

OverrideBy(v, fc) == Override(v.t, [cols |-> v.cols, rows |-> v.rows], fc)

Predicated(preds, fc) ==
    FoldLeft(LAMBDA acc, p : [fc       |-> Replace(p.key, In(p.vals), acc.replaced, acc.fc),
                              replaced |-> acc.replaced \cup {p.key}],
             [fc |-> fc, replaced |-> {}], preds).fc

\* BoundExprNode::Calculate up to its body: the FILTERs, each under the context
\* so far, then the predicates [key, vals]; the first on a column replaces.
Calculated(filters, preds, env) ==
    LET overridden(fc, x) == OverrideBy(Eval(x, [env EXCEPT !.fc = fc]), fc) IN
    [env EXCEPT !.fc = ExpandedContext(Predicated(preds, FoldLeft(overridden, env.fc, filters)))]

Eval(x, env) ==
    LET arg(i)    == Eval(x.args[i], env)
        inRow(r)  == Eval(x.args[2], [env EXCEPT !.frames = Append(@, RowFrame(r, x.args[2]))])
        beside    == [r \in arg(1).rows |-> inRow(r).rows] IN
    CASE x.op = "const"     -> Scalar(x.v)
      [] x.op = "column"    -> ColumnValue(x.key, env)
      [] x.op = "table"     -> TableValue(x.t, env)
      [] x.op \in {"&&", "||", "+", "-", "*"} \cup Comparisons -> Binary(x.op, arg(1), arg(2))
      [] x.op = "in"        -> AmongValue(arg(1).f, x.vals)
      [] x.op \in {"sum", "count", "min", "max"} -> Scalar(Aggregate(x.op, arg(1).f))
      [] x.op = "distinctcount" -> Scalar(DistinctCount(arg(1).f))
      [] x.op = "hasonevalue"   -> Scalar(HasOneValue(arg(1).f))
      [] x.op = "countrows" -> Scalar(CountRows(arg(1)))
      [] x.op = "values"    -> ValuesValue(x.args[1].key, arg(1))
      [] x.op = "distinct"  -> DistinctValue(x.args[1], arg(1))
      [] x.op = "all"       -> AllValue(x.args[1])
      [] x.op = "except"    -> ExceptValue(arg(1), arg(2))
      [] x.op = "intersect" -> IntersectValue(arg(1), arg(2))
      [] x.op = "crossjoin" -> CrossJoined(arg(1), arg(2))
      [] x.op = "generate"    -> Generated(arg(1), ColumnsOf[x.t], beside)
      [] x.op = "generateall" -> GeneratedAll(arg(1), ColumnsOf[x.t], beside)
      [] x.op = "filter"    -> FilterValue(arg(1), x.args[2], env)
      [] x.op \in {"sumx", "minx", "maxx", "countx"} ->
            Scalar(Iterated(x.op, [r \in arg(1).rows |-> inRow(r).v]))
      [] x.op = "countax"   -> Scalar(CountedX([r \in arg(1).rows |-> inRow(r).v]))
      [] x.op = "related"      -> RelatedValue(x.args[1].key, env)
      [] x.op = "relatedtable" -> RelatedTableValue(x.args[1].t, env)
      [] x.op = "isinscope"    -> Scalar(x.args[1].key \in env.scoped)
      [] x.op = "isblank"      -> (LET v == arg(1) IN
                                   IF v.is = "series" THEN Series([r \in DOMAIN v.f |-> v.f[r] = Null])
                                   ELSE Scalar(v.v = Null))
      [] x.op = "if"           -> IF arg(1).v THEN arg(2) ELSE arg(3)
      [] x.op = "calculate"    -> Eval(x.args[1], Calculated(x.filters, x.preds, env))
==================================================================================
