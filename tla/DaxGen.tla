---------------------------------- MODULE DaxGen ----------------------------------
(***************************************************************************)
(* The DAX query of a translated statement (mdxtranslator/daxgen.rs and    *)
(* translate_with_axes), and what the engine answers.                      *)
(*                                                                         *)
(* A statement has the sets and the measures WITH names, the axes, the     *)
(* subselects FROM reads (at most one) and WHERE.  The columns M0, M1 ...   *)
(* are in the order of names: the sort only serves to find them again.     *)
(***************************************************************************)
EXTENDS Mdx

Axis(id, nonEmpty, x) == [id |-> id, nonEmpty |-> nonEmpty, x |-> x]

\* classify_groupby_positions.  A position without tuples counts as leaves.
AllOfKind(set, i, kind) == \A j \in DOMAIN set.tuples : Is(set.tuples[j], i, kind)
Dimensions(set) == {i \in DOMAIN set.shape : set.shape[i] # Measures}

\* Mutant of Rolled: a position with nothing but All is rolled up too.
RolledAll(set) == {i \in Dimensions(set) : ~AllOfKind(set, i, "leaf")}

Grouped(set) == {i \in Dimensions(set) : AllOfKind(set, i, "leaf") \/ ~AllOfKind(set, i, "all")}
Rolled(set)  == {i \in Dimensions(set) : ~AllOfKind(set, i, "leaf") /\ ~AllOfKind(set, i, "all")}

\* distinct_measure_names, or the measures of the slicer, or the implicit one.
MeasureNames(set, slicer) ==
    LET at     == Position(Measures, set.shape)
        sliced == SelectSeq(slicer, LAMBDA m : m.kind = "measure")
        names  ==
            IF at = 0 THEN [i \in DOMAIN sliced |-> sliced[i].key] ELSE
                  Listing({set.tuples[i][at].key : i \in DOMAIN set.tuples}) IN
    IF names = <<>> THEN <<Implicit>> ELSE names

\* render_count: the children of the current member, the values of a hierarchy.
CountOf(calc) ==
    IF calc.kind = "children"
    THEN Call("if", <<Call("isinscope", <<Column(calc.hier)>>), Const(0),
                      Call("countrows", <<Call("all", <<Column(calc.hier)>>)>>)>>)
    ELSE Call("countrows", <<Call("values", <<Column(calc.hier)>>)>>)

\* A name is a measure of WITH, of the catalog, a calculated member, or unknown.
Known(name, stmt) ==
    name \in {Implicit} \cup DOMAIN stmt.measures \cup DOMAIN MeasureExpr \cup DOMAIN stmt.calculated

Expression(name, stmt) ==
    CASE name = Implicit                  -> Const(1)
      [] name \in DOMAIN stmt.measures    -> stmt.measures[name]
      [] name \notin DOMAIN stmt.measures /\ name \in DOMAIN MeasureExpr -> MeasureExpr[name]
      [] OTHER                            -> CountOf(stmt.calculated[name])

\* Mutant of RollupRestriction: a rolled-up position is never restricted.
RollupUnrestricted(set, i, ctx) == <<>>

\* rollup_restriction_filter: only if the leaves are not all there are.
RollupRestriction(set, i, ctx) ==
    LET keys == {set.tuples[j][i].key : j \in {k \in DOMAIN set.tuples : Is(set.tuples[k], i, "leaf")}} IN
    IF keys = {} \/ keys = {m.key : m \in ToSet(Leaves(set.shape[i], ctx))} THEN <<>> ELSE <<RestrictionFilter(set.shape[i], keys)>>

\* Mutant of SlicerFilters: the members of WHERE filter nothing.
SlicerFiltersNone(slicer) == <<>>

SlicerFilters(slicer) ==
    LET leaves == SelectSeq(slicer, LAMBDA m : m.kind = "leaf") IN
    [i \in DOMAIN leaves |-> KeyIs(leaves[i].hier, leaves[i].key)]

\* subquery_restriction_filters, in the order the map happens to give.
SubqueryFilters(ctx) ==
    LET hiers == Listing({h \in Keys : ctx.restrictions[h] # {}}) IN
    [i \in DOMAIN hiers |-> RestrictionFilter(hiers[i], ctx.restrictions[hiers[i]])]

\* generate_dax.
Query(set, slicer, ctx, stmt) ==
    LET rolled == At([i \in DOMAIN set.shape |-> i], Rolled(set))
        names  == MeasureNames(set, slicer) IN
    [refs    |-> At(set.shape, Grouped(set)),
     rolled  |-> {set.shape[i] : i \in Rolled(set)},
     filters |-> FlattenSeq([i \in DOMAIN rolled |-> RollupRestriction(set, rolled[i], ctx)]),
     names   |-> names,
     exts    |-> [i \in DOMAIN names |-> Expression(names[i], stmt)],
     outer   |-> SubqueryFilters(ctx),
     preds   |-> SlicerFilters(slicer)]

\* translate_with_axes.  filters and keys of a restriction are kept for those
\* who compare the answer with the statement.
Untranslated == [ok |-> FALSE]

Nothing == Set(<<>>, <<<<>>>>)

\* From the evaluated axes and slicer.
Assembled(stmt, ctx, sets, where) ==
    LET all   == FoldLeft(Combined, Nothing, sets)
        slice == where.tuples[1] IN
    IF \/ ~all.ok \/ ~where.ok
       \/ \E i \in DOMAIN MeasureNames(all, slice) : ~Known(MeasureNames(all, slice)[i], stmt)
    THEN Untranslated
    ELSE [ok     |-> TRUE,
          axes   |-> [i \in DOMAIN stmt.axes |->
                        [id |-> stmt.axes[i].id, nonEmpty |-> stmt.axes[i].nonEmpty,
                         shape |-> sets[i].shape, tuples |-> sets[i].tuples]],
          slicer |-> slice,
          ctx    |-> ctx,
          dax    |-> Query(all, slice, ctx, stmt)]

TranslatedUnder(stmt, under) ==
    IF ~under.ok THEN Untranslated
    ELSE Assembled(stmt, under.ctx, [i \in DOMAIN stmt.axes |-> EvalSet(stmt.axes[i].x, under.ctx)],
                   IF stmt.where = Nowhere THEN Nothing ELSE EvalSlicer(stmt.where, under.ctx))

Translation(stmt) ==
    LET ctx == Context(stmt.named) IN
    TranslatedUnder(stmt, IF stmt.from = <<>> THEN [ok |-> TRUE, ctx |-> ctx]
                          ELSE UnderSubselect(stmt.from[1], ctx))

EvaluatedUnder(q, env) ==
    IF q.refs = <<>> THEN RowOf(q.exts, env)
    ELSE SummarizeColumns(q.refs, q.rolled, q.filters, q.exts, env)

\* evaluate_query of CALCULATETABLE(SUMMARIZECOLUMNS or ROW, filters).
Evaluated(q) ==
    EvaluatedUnder(q, Calculated(q.outer, q.preds, Env(NewContext, {})))
==================================================================================
