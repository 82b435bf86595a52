----------------------------------- MODULE Mdx -----------------------------------
(***************************************************************************)
(* The translation of an MDX statement (mdxtranslator): its axes as sets   *)
(* of tuples of members, the slicer, the restrictions of a subselect, and  *)
(* the DAX query that computes the cells.                                  *)
(*                                                                         *)
(* A hierarchy is a column, or Measures.  A member is a leaf with its key, *)
(* the All member of a hierarchy, or a measure.  The leaf of a null value  *)
(* has the key Null, as the empty text.  A query is a record of what its   *)
(* text says.  The caches of resolved members change nothing: a hierarchy  *)
(* is restricted by its own leaves only, which its resolution has given.   *)
(***************************************************************************)
EXTENDS Summarize

CONSTANTS
    Measures,       \* the hierarchy of the measures
    MeasureOrder,   \* catalog.measure_order
    MeasureExpr     \* MeasureExpr[name] : the expression of a catalog measure

Leaf(h, key)   == [kind |-> "leaf", hier |-> h, key |-> key]
All(h)         == [kind |-> "all", hier |-> h, key |-> Null]
Measure(name)  == [kind |-> "measure", hier |-> Measures, key |-> name]

\* EvaluatedSet, or Failed.
Set(shape, tuples) == [ok |-> TRUE, shape |-> shape, tuples |-> tuples]
Failed             == [ok |-> FALSE, shape |-> <<>>, tuples |-> <<>>]

One(m)       == Set(<<m.hier>>, <<<<m>>>>)
Is(t, i, kind) == t[i].kind = kind

Implicit == "__implicit__"

\* EvalCtx: the sets WITH names, the keys a subselect leaves of a hierarchy (all
\* if there are none) and the members Generate has bound, innermost last.
Context(named) == [named |-> named, restrictions |-> [h \in Keys |-> {}], current |-> <<>>]

------------------------------------------------------------------------------
(* Members                                                                 *)

\* restriction_filter_clause: FILTER(ALL(col), col IN {...} || ISBLANK(col)).
RestrictionFilter(h, keys) ==
    LET some  == Among(Column(h), keys \ {Null})
        blank == Call("isblank", <<Column(h)>>) IN
    Call("filter", <<Call("all", <<Column(h)>>),
                     CASE Null \notin keys -> some
                       [] keys = {Null}    -> blank
                       [] OTHER            -> Call("||", <<some, blank>>)>>)

\* The slicer's and the drilled member's predicate col = "key".
KeyIs(h, key) == [key |-> h, vals |-> {key} \ {Null}]

\* table_value_to_leaves, in the order VALUES happens to give.
LeavesOf(h, table) == Listing({Leaf(h, r[h]) : r \in table.rows})

ValuesUnder(h, filters, preds) ==
    LeavesOf(h, Eval(Calculate(Call("values", <<Column(h)>>), filters, preds), Env(NewContext, {})))

OwnRestriction(h, ctx) ==
    IF ctx.restrictions[h] = {} THEN <<>> ELSE <<RestrictionFilter(h, ctx.restrictions[h])>>

\* resolve_all_members.
Leaves(h, ctx) == ValuesUnder(h, OwnRestriction(h, ctx), <<>>)

\* resolve_all_members_filtered: those that go with one member of a parent.
LeavesBelow(h, parent, key, ctx) ==
    ValuesUnder(h, (IF key = Null THEN <<RestrictionFilter(parent, {Null})>> ELSE <<>>) \o OwnRestriction(h, ctx),
                IF key = Null THEN <<>> ELSE <<KeyIs(parent, key)>>)

LeafSet(h, leaves) == Set(<<h>>, [i \in DOMAIN leaves |-> <<leaves[i]>>])

AllMembersSet(h, ctx) == LeafSet(h, Leaves(h, ctx))

\* current_member_for.
CurrentMember(h, ctx) ==
    LET bound == {i \in DOMAIN ctx.current : ctx.current[i].hier = h} IN
    IF h = Measures \/ bound = {} THEN Failed ELSE One(ctx.current[Max(bound)])

\* eval_member, as a set of one tuple.
EvalMember(x, ctx) ==
    CASE x.op = "member"        -> One(x.m)
      [] x.op = "currentmember" -> CurrentMember(x.hier, ctx)
      [] OTHER                  -> Failed

------------------------------------------------------------------------------
(* Sets                                                                    *)

\* The items of a set, and the iterations of Generate: one after another if
\* they have one shape.
Together(sets) ==
    IF \E i \in DOMAIN sets : ~sets[i].ok \/ sets[i].shape # sets[1].shape THEN Failed
    ELSE IF sets = <<>> THEN Set(<<>>, <<>>)
    ELSE Set(sets[1].shape, FlattenSeq([i \in DOMAIN sets |-> sets[i].tuples]))

\* combine_sets, crossjoin: the left tuple changes slowest.
Combined(l, r) ==
    IF ~(l.ok /\ r.ok) THEN Failed
    ELSE LET n == Len(r.tuples) IN
         Set(l.shape \o r.shape,
             [i \in 1..(Len(l.tuples) * n) |-> l.tuples[((i - 1) \div n) + 1] \o r.tuples[((i - 1) % n) + 1]])

\* eval_drilldown_level.  every(h) are all the members of h.
DrilledLevel(base, all) ==
    IF ~base.ok \/ Len(base.shape) # 1 \/ base.shape[1] = Measures THEN Failed
    ELSE Set(base.shape, base.tuples \o all.tuples)

Position(h, shape) == SelectInSeq(shape, LAMBDA s : s = h)

WithEach(t, to, leaves) == [i \in DOMAIN leaves |-> [t EXCEPT ![to] = leaves[i]]]

\* eval_drilldown_member: below each tuple whose member is drilled, the tuples
\* with the members of the target hierarchy that go with it.
DrilledMember(base, targets, h, ctx) ==
    LET from == Position(targets.shape[1], base.shape)
        to   == Position(h, base.shape)
        keys == {targets.tuples[i][1].key : i \in {j \in DOMAIN targets.tuples : Is(targets.tuples[j], 1, "leaf")}}
        drilled(t) == Is(t, from, "leaf") /\ t[from].key \in keys IN
    IF \/ ~base.ok \/ ~targets.ok \/ Len(targets.shape) # 1
       \/ targets.shape[1] = Measures \/ from = 0 \/ to = 0
       \/ TableOf[h] # TableOf[targets.shape[1]]
    THEN Failed
    ELSE Set(base.shape, FlattenSeq([i \in DOMAIN base.tuples |->
            LET t == base.tuples[i] IN
            <<t>> \o IF drilled(t) THEN WithEach(t, to, LeavesBelow(h, targets.shape[1], t[from].key, ctx))
                     ELSE <<>>]))

\* eval_ascendants, the root first.
Ascendants(member) ==
    IF ~member.ok \/ member.shape = <<Measures>> THEN Failed
    ELSE LET m == member.tuples[1][1] IN
         Set(member.shape, IF m.kind = "leaf" THEN <<<<All(m.hier)>>, <<m>>>> ELSE <<<<m>>>>)

\* The functions after a dot.  m is the member the path before it stands for,
\* all are the members of its hierarchy.
MembersOf(m, all) ==
    CASE m.kind = "all"     -> One(m)
      [] m.kind = "leaf"    -> all
      [] m.kind = "measure" -> Failed

ChildrenOf(m, all) == IF m.kind = "all" THEN all ELSE Failed

DefaultMember(h) ==
    IF h # Measures \/ MeasureOrder = <<>> THEN Failed ELSE One(Measure(MeasureOrder[1]))

\* eval_set.  An expression has an operator and items, a hierarchy or a member.
RECURSIVE EvalSet(_, _)
EvalSet(x, ctx) ==
    LET item(i) == EvalSet(x.items[i], ctx)
        every(h) == EvalSet([op |-> "allmembers", hier |-> h], ctx)
        sets    == [i \in DOMAIN x.items |-> EvalSet(x.items[i], ctx)]
        members == [i \in DOMAIN x.items |-> EvalMember(x.items[i], ctx)]
        tuple   == FoldLeft(Combined, Set(<<>>, <<<<>>>>), members) IN
    CASE x.op = "member"          -> One(x.m)
      [] x.op = "named"           -> EvalSet(ctx.named[x.name], ctx)
      [] x.op = "set"             -> Together(sets)
      [] x.op = "tuple"           -> IF Len(x.items) = 1 /\ item(1).ok THEN item(1) ELSE tuple
      [] x.op = "crossjoin"       -> Combined(item(1), item(2))
      [] x.op \in {"hierarchize", "addcalculatedmembers"} -> item(1)
      [] x.op = "drilldownlevel"  -> DrilledLevel(item(1), every(item(1).shape[1]))
      [] x.op = "drilldownmember" -> DrilledMember(item(1), item(2), x.hier, ctx)
      [] x.op = "generate"        ->
            IF ~item(1).ok THEN Failed
            ELSE Together([i \in DOMAIN item(1).tuples |->
                              EvalSet(x.items[2], [ctx EXCEPT !.current = @ \o item(1).tuples[i]])])
      [] x.op = "ascendants"      -> Ascendants(EvalMember(x.items[1], ctx))
      [] x.op = "allmembers"      -> AllMembersSet(x.hier, ctx)
      [] x.op = "members"         -> MembersOf(x.m, every(x.m.hier))
      [] x.op = "children"        -> ChildrenOf(x.m, every(x.m.hier))
      [] x.op = "defaultmember"   -> DefaultMember(x.hier)
      [] OTHER                    -> Failed

\* eval_slicer: the one tuple of the set, as a set.
OneTuple(set) == IF Len(set.tuples) = 1 THEN set ELSE Failed

EvalSlicer(x, ctx) == OneTuple(EvalSet(x, ctx))

\* merge_member_into_restrictions, for all members of a set.
Narrowed(ctx, set) ==
    [ctx EXCEPT !.restrictions = [h \in Keys |-> @[h] \cup
        {m.key : m \in {k \in UNION {ToSet(set.tuples[i]) : i \in DOMAIN set.tuples} :
                          k.kind = "leaf" /\ k.hier = h}}]]

\* Where a statement has no WHERE.
Nowhere == [op |-> "nowhere"]

\* apply_subquery_restrictions: each axis under the restrictions so far.
Within(acc, set) == [ok |-> acc.ok /\ set.ok, ctx |-> Narrowed(acc.ctx, set)]

UnderAxes(sub, ctx) ==
    FoldLeft(LAMBDA acc, x : Within(acc, EvalSet(x, acc.ctx)), [ok |-> TRUE, ctx |-> ctx], sub.axes)

UnderSlicer(x, acc) == IF x = Nowhere THEN acc ELSE Within(acc, EvalSlicer(x, acc.ctx))

UnderSubselect(sub, ctx) == UnderSlicer(sub.where, UnderAxes(sub, ctx))
==================================================================================
