----------------------------- MODULE MCEvaluation -----------------------------
(* Evaluation on a fact F with two relationships to a dimension D, the       *)
(* second inactive, and a table C beyond D, related in both directions.      *)
EXTENDS Evaluation, TLC

CONSTANTS Fv, Fk, Fj, Dk, Da, Dc, Cc, Cx

MCTableOf ==
    [k \in Keys |-> CASE k \in {Fv, Fk, Fj} -> "F"
                      [] k \in {Dk, Da, Dc} -> "D"
                      [] k \in {Cc, Cx}     -> "C"]

MCRelationships ==
    <<[from |-> Fk, to |-> Dk, active |-> TRUE, bidirectional |-> FALSE],
      [from |-> Fj, to |-> Dk, active |-> FALSE, bidirectional |-> FALSE],
      [from |-> Dc, to |-> Cc, active |-> TRUE, bidirectional |-> TRUE]>>

F(v, k, j) == Fv :> v @@ Fk :> k @@ Fj :> j
D(k, a, c) == Dk :> k @@ Da :> a @@ Dc :> c
C(c, x)    == Cc :> c @@ Cx :> x

\* Both dimensions end with their blank member; one fact has no key.
MCRows ==
    "F" :> {F(1, 1, 2), F(2, 2, 1), F(3, 3, 2), F(4, Null, 1)}
    @@ "D" :> {D(1, 1, 1), D(2, 2, 1), D(3, 1, 2), D(Null, Null, Null)}
    @@ "C" :> {C(1, 1), C(2, 2), C(Null, Null)}

MCValues == 0..4 \cup {Null}

Is(k, op, v) == [key |-> k, pred |-> [op |-> op, vals |-> {v}]]
Table(source, k, vals) == [source |-> source, key |-> k, vals |-> vals]

MCPredicates ==
    {Is(Da, "In", 1), Is(Fv, "Gte", 2)}

\* No argument filters a join column directly, and ALLSELECTED restores only a
\* column that no relationship joins.
MCModifiers ==
    {[kind |-> "all", table |-> "D"],
     [kind |-> "allColumn", key |-> Da],
     [kind |-> "allSelectedColumn", key |-> Da],
     [kind |-> "allExcept", table |-> "D", keep |-> {Da}],
     [kind |-> "useRelationship", rel |-> 2],
     [kind |-> "crossFilter", rel |-> 1, direction |-> "bi"],
     [kind |-> "keep", key |-> Da, pred |-> [op |-> "NotIn", vals |-> {2}]],
     [kind |-> "treatAs", key |-> Cx, vals |-> {1, Null}],
     [kind |-> "filter", of |-> Table("column", Da, {2, Null})],
     [kind |-> "keepTable", of |-> Table("table", Fv, {1, 3, 4})]}

\* A filter on a key of the fact beside one on its dimension.
MCJoinPredicates == {Is(Fk, "In", 1), Is(Da, "In", 1)}
===============================================================================
