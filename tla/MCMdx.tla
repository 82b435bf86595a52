------------------------------------ MODULE MCMdx ------------------------------------
(* MdxQuery on a star: facts F with two dimensions D and E, and C beyond D.  *)
(* Two facts have no partner in D, one row of D has no value for Da, and the *)
(* dimensions end with their blank member.                                   *)
EXTENDS MdxQuery, TLC

CONSTANTS Fv, Fk, Fe, Dk, Da, Db, Dn, Dc, Cc, Cx, Ee, Ep, MeasuresHier

MCTableOf ==
    [k \in Keys |-> CASE k \in {Fv, Fk, Fe}         -> "F"
                      [] k \in {Dk, Da, Db, Dn, Dc} -> "D"
                      [] k \in {Cc, Cx}             -> "C"
                      [] k \in {Ee, Ep}             -> "E"]

To(from, to) == [from |-> from, to |-> to, active |-> TRUE, bidirectional |-> FALSE]
MCRelationships == <<To(Fk, Dk), To(Fe, Ee), To(Dc, Cc)>>

F(v, k, e)       == Fv :> v @@ Fk :> k @@ Fe :> e
D(k, a, b, n, c) == Dk :> k @@ Da :> a @@ Db :> b @@ Dn :> n @@ Dc :> c
C(c, x)          == Cc :> c @@ Cx :> x
E(e, p)          == Ee :> e @@ Ep :> p

Blank == D(Null, Null, Null, Null, Null)

MCDatasets ==
    <<[F |-> {F(1, 1, 1), F(2, 2, 1), F(3, 2, 2), F(4, 3, 2), F(5, Null, 1), F(6, 9, 2), F(7, 4, 1)},
       D |-> {D(1, 1, 1, 2, 1), D(2, 1, 2, 3, 1), D(3, 2, 1, 1, 2), D(4, Null, 2, 5, 2), Blank},
       C |-> {C(1, 1), C(2, 2), C(Null, Null)},
       E |-> {E(1, 1), E(2, 2), E(Null, Null)}],
      [F |-> {F(1, 1, 2), F(2, 3, 1), F(4, 5, 1)},
       D |-> {D(1, 1, 1, 2, 2), D(3, 2, 1, 1, 1), D(5, 3, 2, 4, 1), Blank},
       C |-> {C(1, 1), C(2, 1), C(Null, Null)},
       E |-> {E(1, 1), E(2, 2), E(Null, Null)}]>>

MCValues == 0..9 \cup {Null}

Call(op, args) == [op |-> op, args |-> args]
Const(v)       == [op |-> "const", args |-> <<>>, v |-> v]
Col(k)         == [op |-> "column", args |-> <<>>, key |-> k]
Tab(t)         == [op |-> "table", args |-> <<>>, t |-> t]
Rows(x)        == Call("countrows", <<x>>)
Beside(f)      == [op |-> f, args |-> <<Tab("D"), Call("relatedtable", <<Tab("F")>>)>>, t |-> "F"]

\* Facts: their number and sum, those of at least 2, those of D's 1, the sum of
\* what D says of them; D: the number of its facts; pairs of values, those out of
\* sight and those in sight; D beside its facts; and CALCULATE over a filter.
MCMeasureExpr ==
    [Count  |-> Rows(Tab("F")),
     Sum    |-> Call("sum", <<Col(Fv)>>),
     Big    |-> Rows(Call("filter", <<Tab("F"), Call(">=", <<Col(Fv), Const(2)>>)>>)),
     Ones   |-> Rows(Call("filter", <<Tab("F"), Call("=", <<Call("related", <<Col(Da)>>), Const(1)>>)>>)),
     Weight |-> Call("sumx", <<Tab("F"), Call("related", <<Col(Dn)>>)>>),
     Far    |-> Call("sumx", <<Tab("F"), Call("*", <<Col(Fv), Call("related", <<Col(Cx)>>)>>)>>),
     Known  |-> Call("sumx", <<Tab("D"), Rows(Call("relatedtable", <<Tab("F")>>))>>),
     Pairs  |-> Rows(Call("crossjoin", <<Call("values", <<Col(Da)>>), Call("values", <<Col(Ep)>>)>>)),
     Gone   |-> Rows(Call("except", <<Call("all", <<Col(Da)>>), Call("values", <<Col(Da)>>)>>)),
     Kept   |-> Rows(Call("intersect", <<Call("all", <<Col(Da)>>), Call("distinct", <<Col(Da)>>)>>)),
     Joined |-> Rows(Beside("generate")),
     Spread |-> Rows(Beside("generateall")),
     Told   |-> Call("countax", <<Tab("F"), Call("related", <<Col(Da)>>)>>),
     Single |-> Call("if", <<Call("hasonevalue", <<Col(Da)>>), Const(1), Const(0)>>),
     Fixed  |-> [op |-> "calculate", args |-> <<Rows(Tab("F"))>>, filters |-> <<>>,
                 preds |-> <<[key |-> Da, vals |-> {1}]>>]]
MCMeasureOrder == <<"Count", "Sum">>

------------------------------------------------------------------------------
(* What the measures mean: over the facts whose partners have the values     *)
(* allowed.  A fact without a partner is seen where nothing is asked of it.  *)

Asked(t, allowed) == {k \in Keys : MCTableOf[k] = t /\ allowed[k] # Values}
Pass(t, r, allowed) == \A k \in Asked(t, allowed) : r[k] \in allowed[k]

Partner(v, key, rows) == {r \in rows[MCTableOf[key]] : v # Null /\ r[key] = v}

\* The rows of D, and the facts, that are seen.
DSeen(allowed, rows) ==
    {d \in rows["D"] : /\ Pass("D", d, allowed)
                       /\ Asked("C", allowed) # {} =>
                            \E c \in Partner(d[Dc], Cc, rows) : Pass("C", c, allowed)}
FSeen(allowed, rows) ==
    {f \in rows["F"] :
        /\ Pass("F", f, allowed)
        /\ Asked("D", allowed) \cup Asked("C", allowed) # {} =>
             Partner(f[Fk], Dk, rows) \cap DSeen(allowed, rows) # {}
        /\ Asked("E", allowed) # {} => \E e \in Partner(f[Fe], Ee, rows) : Pass("E", e, allowed)}

BlankIf0(n) == IF n = 0 THEN Null ELSE n
SumOf(facts, value(_)) ==
    LET some == {f \in facts : value(f) # Null}
        total[S \in SUBSET some] ==
            IF S = {} THEN 0 ELSE LET f == CHOOSE g \in S : TRUE IN value(f) + total[S \ {f}] IN
    IF some = {} THEN Null ELSE total[some]

MCExpected(m, allowed, rows) ==
    LET facts == FSeen(allowed, rows)
        known == {f \in facts : Partner(f[Fk], Dk, rows) # {}}
        dim(f) == CHOOSE d \in Partner(f[Fk], Dk, rows) : TRUE
        far(f) == (CHOOSE c \in Partner(dim(f)[Dc], Cc, rows) : TRUE)[Cx] IN
    CASE m = "Count"  -> BlankIf0(Cardinality(facts))
      [] m = "Sum"    -> SumOf(facts, LAMBDA f : f[Fv])
      [] m = "Big"    -> BlankIf0(Cardinality({f \in facts : f[Fv] >= 2}))
      [] m = "Ones"   -> BlankIf0(Cardinality({f \in known : dim(f)[Da] = 1}))
      [] m = "Weight" -> SumOf(known, LAMBDA f : dim(f)[Dn])
      [] m = "Far"    -> SumOf(known, LAMBDA f : f[Fv] * far(f))
      [] m = "Known"  -> BlankIf0(Cardinality(known))
      [] m = "Pairs"  -> BlankIf0(Cardinality({d[Da] : d \in DSeen(allowed, rows)}) *
                                  Cardinality({e[Ep] : e \in {f \in rows["E"] : Pass("E", f, allowed)}}))
      [] m = "Gone"   -> BlankIf0(Cardinality({d[Da] : d \in rows["D"]} \ {d[Da] : d \in DSeen(allowed, rows)}))
      [] m = "Kept"   -> BlankIf0(Cardinality({d[Da] : d \in DSeen(allowed, rows)} \ {Null}))
      [] m = "Joined" -> BlankIf0(Cardinality(known))
      [] m = "Spread" -> BlankIf0(Cardinality(known) +
                             Cardinality({d \in DSeen(allowed, rows) \ {Blank} : ~\E f \in known : f[Fk] = d[Dk]}))
      [] m = "Told"   -> BlankIf0(Cardinality({f \in known : dim(f)[Da] # Null}))
      [] m = "Single" -> IF Cardinality({d[Da] : d \in DSeen(allowed, rows)}) = 1 THEN 1 ELSE 0
      [] m = "Fixed"  -> BlankIf0(Cardinality(FSeen([allowed EXCEPT ![Da] = {1}], rows)))
      [] m = "Items"  -> IF Cardinality(allowed[Da]) = 1 THEN 0 ELSE Cardinality({d[Da] : d \in rows["D"]})
      [] m = "Here"   -> BlankIf0(Cardinality({d[Da] : d \in DSeen(allowed, rows)}))
      [] m = "Seven"  -> 7
      [] OTHER        -> 1

------------------------------------------------------------------------------
(* The statements.                                                          *)

Leaf(h, v)  == [op |-> "member", m |-> [kind |-> "leaf", hier |-> h, key |-> v]]
AllOf(h)    == [op |-> "member", m |-> [kind |-> "all", hier |-> h, key |-> Null]]
M(name)     == [op |-> "member", m |-> [kind |-> "measure", hier |-> MeasuresHier, key |-> name]]
Do(f, xs)   == [op |-> f, items |-> xs]
SetOf(xs)   == Do("set", xs)
TupleOf(xs) == Do("tuple", xs)
Cross(a, b) == Do("crossjoin", <<a, b>>)
Every(h)    == [op |-> "allmembers", hier |-> h]
Current(h)  == [op |-> "currentmember", hier |-> h]
Named(name) == [op |-> "named", name |-> name]
Members_(x)  == [op |-> "members", m |-> x.m]
Children(x) == [op |-> "children", m |-> x.m]
Default(h)  == [op |-> "defaultmember", hier |-> h]
Drill(x)    == Do("drilldownlevel", <<SetOf(<<x>>)>>)
DrillMember(x, m, h) == [op |-> "drilldownmember", items |-> <<x, m>>, hier |-> h]

On(id, x)         == [id |-> id, nonEmpty |-> FALSE, x |-> x]
NonEmptyOn(id, x) == [id |-> id, nonEmpty |-> TRUE, x |-> x]
Nowhere           == [op |-> "nowhere"]
Select(axes)      == [named |-> <<>>, measures |-> <<>>, calculated |-> <<>>, axes |-> axes,
                      from |-> <<>>, where |-> Nowhere, tabular |-> FALSE]
Where(s, x)       == [s EXCEPT !.where = x]
Within(s, xs)     == [s EXCEPT !.from = <<[axes |-> xs, where |-> Nowhere]>>]
WithinWhere(s, xs, x) == [s EXCEPT !.from = <<[axes |-> xs, where |-> x]>>]
Tabular(s)        == [s EXCEPT !.tabular = TRUE]
WithSet(s, name, x)   == [s EXCEPT !.named = name :> x]
WithMeasure(s, name, x) == [s EXCEPT !.measures = name :> x]
WithCount(s, name, kind, h) == [s EXCEPT !.calculated = name :> [kind |-> kind, hier |-> h]]

MeasureSet == SetOf(<<M("Sum"), M("Count"), M("Weight"), M("Far")>>)
TableSet   == SetOf(<<M("Pairs"), M("Kept"), M("Joined"), M("Spread"), M("Told")>>)
OtherSet   == SetOf(<<M("Big"), M("Ones"), M("Known")>>)

Each(seq, f(_)) == [i \in DOMAIN seq |-> f(seq[i])]
Pairs(xs, ys)   == [i \in 1..(Len(xs) * Len(ys)) |->
                      <<xs[((i - 1) \div Len(ys)) + 1], ys[((i - 1) % Len(ys)) + 1]>>]

\* One hierarchy: leaves, All, both, and some of each; the blank member.
Single ==
    <<Every(Da), AllOf(Da), Drill(AllOf(Da)), SetOf(<<Leaf(Da, 1)>>), SetOf(<<Leaf(Da, 2), Leaf(Da, Null)>>),
      SetOf(<<AllOf(Da), Leaf(Da, 2)>>), Drill(AllOf(Cx)), Drill(AllOf(Ep)), Every(Db), Every(Fv),
      Do("ascendants", <<Leaf(Db, 1)>>), Members_(AllOf(Ep)), Members_(Leaf(Cx, 1)), Children(AllOf(Db)),
      Do("hierarchize", <<Do("addcalculatedmembers", <<SetOf(<<AllOf(Ep), Leaf(Ep, 2)>>)>>)>>),
      Do("generate", <<SetOf(<<Leaf(Ep, 1)>>), Do("ascendants", <<Current(Ep)>>)>>)>>

Both ==
    <<Cross(Every(Da), Every(Ep)), Cross(Drill(AllOf(Da)), Drill(AllOf(Ep))),
      Cross(SetOf(<<AllOf(Da), Leaf(Da, 1)>>), Every(Db)),
      Cross(Drill(AllOf(Cx)), Every(Da)), Cross(AllOf(Ep), Drill(AllOf(Db))),
      SetOf(<<TupleOf(<<AllOf(Da), AllOf(Ep)>>), TupleOf(<<Leaf(Da, 1), AllOf(Ep)>>),
              TupleOf(<<AllOf(Da), Leaf(Ep, 2)>>)>>),
      DrillMember(Cross(Every(Da), AllOf(Db)), SetOf(<<Leaf(Da, 1)>>), Db),
      Do("generate", <<Every(Da), Cross(TupleOf(<<Current(Da)>>), Drill(AllOf(Ep)))>>)>>

\* A set on the rows, measures on the columns; axes in either order; NON EMPTY.
OnRows ==
    Each(Single \o Both, LAMBDA x : Select(<<On(0, MeasureSet), NonEmptyOn(1, x)>>))
    \o Each(SubSeq(Single, 1, 8) \o SubSeq(Both, 1, 5), LAMBDA x : Select(<<On(1, x), On(0, OtherSet)>>))

Crossed ==
    Each(Pairs(<<Every(Da), Drill(AllOf(Da))>>, <<Every(Ep), Drill(AllOf(Db)), Drill(AllOf(Cx))>>),
         LAMBDA p : Select(<<NonEmptyOn(0, p[1]), NonEmptyOn(1, Cross(p[2], M("Sum")))>>))
    \o <<Where(Select(<<NonEmptyOn(1, Drill(AllOf(Da))), NonEmptyOn(0, Drill(AllOf(Db)))>>), M("Count"))>>

Few ==
    Each(<<Every(Da), Drill(AllOf(Da)), Drill(AllOf(Ep)), Cross(Drill(AllOf(Da)), Every(Ep))>>,
         LAMBDA x : Select(<<On(0, MeasureSet), On(1, x)>>))

Sliced ==
    Each(Pairs(Few, <<Leaf(Db, 1), Leaf(Cx, 1)>>), LAMBDA p : Where(p[1], p[2]))
    \o Each(<<M("Sum"), TupleOf(<<Leaf(Ep, 1), M("Count")>>), Every(Ep), Leaf(Ep, 2)>>,
            LAMBDA x : Where(Select(<<On(0, Drill(AllOf(Da)))>>), x))

Subselected ==
    Each(Pairs(Few, <<SetOf(<<Leaf(Da, 1)>>), SetOf(<<Leaf(Ep, 2)>>)>>), LAMBDA p : Within(p[1], <<p[2]>>))
    \o Each(Few, LAMBDA s : WithinWhere(s, <<SetOf(<<Leaf(Ep, 1), AllOf(Ep)>>)>>, Leaf(Da, 2)))

Rest ==
    <<Select(<<On(0, M("Fixed")), On(1, Every(Da))>>), Select(<<On(0, M("Fixed")), On(1, Drill(AllOf(Ep)))>>),
      Select(<<On(0, M("Fixed")), On(1, Drill(AllOf(Da)))>>), Select(<<On(0, Drill(AllOf(Db)))>>),
      Select(<<>>), Where(Select(<<>>), M("Sum")), Select(<<On(0, M("Sum"))>>),
      Select(<<On(0, Default(MeasuresHier))>>),
      WithSet(Select(<<On(0, Named("Mine")), On(1, M("Sum"))>>), "Mine", Drill(AllOf(Ep))),
      WithMeasure(Select(<<On(0, SetOf(<<M("Seven"), M("Sum")>>)), On(1, Drill(AllOf(Ep)))>>), "Seven", Const(7)),
      Select(<<On(0, TableSet), NonEmptyOn(1, Drill(AllOf(Da)))>>),
      Select(<<On(0, TableSet), On(1, Cross(Every(Db), Drill(AllOf(Da))))>>),
      Where(Select(<<On(0, TableSet), On(1, Drill(AllOf(Db)))>>), Leaf(Cx, 1)),
      Within(Select(<<On(0, TableSet), On(1, Drill(AllOf(Da)))>>), <<SetOf(<<Leaf(Ep, 2)>>)>>),
      Select(<<On(0, SetOf(<<M("Single"), M("Gone")>>)), On(1, Drill(AllOf(Da)))>>),
      WithCount(Select(<<On(0, SetOf(<<M("Items")>>)), On(1, Drill(AllOf(Da)))>>), "Items", "children", Da),
      WithCount(Select(<<On(0, SetOf(<<M("Here")>>)), On(1, Drill(AllOf(Db)))>>), "Here", "values", Da),
      Tabular(Select(<<On(0, MeasureSet), On(1, Every(Da))>>)),
      Tabular(Select(<<On(0, MeasureSet), On(1, Cross(Every(Ep), Every(Da)))>>)),
      Tabular(Within(Select(<<On(0, MeasureSet), On(1, Every(Da))>>), <<SetOf(<<Leaf(Ep, 2)>>)>>)),
      Tabular(Select(<<On(0, M("Sum")), On(1, Drill(AllOf(Da)))>>)),
      Tabular(Select(<<On(0, M("Sum")), On(1, AllOf(Da))>>)),
      Tabular(Select(<<On(0, Cross(M("Sum"), Every(Da)))>>))>>

\* What is refused: sets of several shapes, measures on two axes, three axes, no
\* such measure, functions where they do not apply.
Refused ==
    Each(<<SetOf(<<AllOf(Da), AllOf(Ep)>>), M("Nothing"), Default(Da), Current(Da),
           Do("drilldownlevel", <<M("Sum")>>), Children(Leaf(Da, 1)), Members_(M("Sum")),
           DrillMember(Every(Da), Every(Ep), Db), Do("ascendants", <<M("Sum")>>),
           TupleOf(<<Every(Da), Every(Db)>>), Do("sorted", <<>>)>>,
         LAMBDA x : Select(<<On(0, x)>>))
    \o <<Select(<<On(0, M("Sum")), On(1, M("Count"))>>),
         Select(<<On(0, AllOf(Da)), On(1, AllOf(Ep)), On(2, M("Sum"))>>),
         Where(Select(<<On(0, M("Sum"))>>), SetOf(<<Leaf(Da, 1), Leaf(Da, 2)>>))>>

MCStatements == OnRows \o Crossed \o Sliced \o Subselected \o Rest \o Refused
======================================================================================
