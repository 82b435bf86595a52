---------------------------------- MODULE MdxQuery ----------------------------------
(***************************************************************************)
(* An MDX request (server/xmla/mod.rs, execute_mdx of dax_provider.rs): it *)
(* is translated under one read lock of the engine, its DAX query is       *)
(* evaluated under another.  A refresh may come between.                   *)
(***************************************************************************)
EXTENDS Integers, Sequences, FiniteSets

CONSTANTS
    Keys, TableOf, Relationships, Null, NullSlot, PrintLimit, Values,
    Measures, MeasureOrder, MeasureExpr,
    Datasets,            \* Datasets[d] : the rows of all tables after a refresh
    Statements,          \* the MDX statements clients send, as a sequence
    MaxRefreshes,        \* bound on the refreshes
    Expected(_, _, _)    \* Expected(m, allowed, rows) : what a measure means, see CellsAreRight

VARIABLES
    data,        \* the dataset in memory
    refreshes,   \* the refreshes so far
    phase,       \* where the request is
    statement,   \* what it asks
    translated,  \* its translation
    result,      \* the rows of the DAX query
    seen,        \* history: the datasets of the translation and of the evaluation
    answer       \* what the client gets

mdxVars == <<data, refreshes, phase, statement, translated, result, seen, answer>>

Engine == INSTANCE Cellset WITH Rows <- Datasets[data]

NotSeen == [translated |-> 0, evaluated |-> 0]

MdxInit ==
    /\ data = 1 /\ refreshes = 0
    /\ phase = "idle"
    /\ statement = <<>> /\ translated = Engine!Untranslated /\ result = Engine!NoResultRows
    /\ seen = NotSeen /\ answer = Engine!NoAnswer

\* execute_mdx, its first half.  What fails is answered by a fault.
Translate(s) ==
    /\ phase = "idle"
    /\ statement' = s
    /\ translated' = Engine!Translation(s)
    /\ phase' = IF translated'.ok THEN "translated" ELSE "failed"
    /\ seen' = [seen EXCEPT !.translated = data]
    /\ UNCHANGED <<data, refreshes, result, answer>>

\* Its second half, execute_dax.
Evaluate ==
    /\ phase = "translated"
    /\ result' = Engine!Evaluated(translated.dax)
    /\ phase' = IF result'.ok THEN "evaluated" ELSE "failed"
    /\ seen' = [seen EXCEPT !.evaluated = data]
    /\ UNCHANGED <<data, refreshes, statement, translated, answer>>

\* The Format property, Multidimensional unless Tabular is asked for.
Respond ==
    /\ phase = "evaluated"
    /\ LET made == IF statement.tabular THEN Engine!TabularResponse(translated, result.rows)
                   ELSE Engine!Response(translated, result.rows) IN
       /\ answer' = made
       /\ phase' = IF made.ok THEN "answered" ELSE "failed"
    /\ UNCHANGED <<data, refreshes, statement, translated, result, seen>>

\* The client has the answer, or the fault.
Done ==
    /\ phase \in {"answered", "failed"}
    /\ phase' = "idle"
    /\ statement' = <<>> /\ translated' = Engine!Untranslated /\ result' = Engine!NoResultRows
    /\ seen' = NotSeen /\ answer' = Engine!NoAnswer
    /\ UNCHANGED <<data, refreshes>>

\* refresh_data: other rows for the same model.
Refresh(d) ==
    /\ refreshes < MaxRefreshes /\ d # data
    /\ data' = d /\ refreshes' = refreshes + 1
    /\ UNCHANGED <<phase, statement, translated, result, seen, answer>>

MdxNext ==
    \/ \E i \in DOMAIN Statements : Translate(Statements[i])
    \/ Evaluate
    \/ Respond
    \/ Done
    \/ \E d \in DOMAIN Datasets : Refresh(d)

MdxSpec == MdxInit /\ [][MdxNext]_mdxVars

------------------------------------------------------------------------------
(* Properties                                                              *)

Answered == phase = "answered" /\ ~statement.tabular

\* The columns of the result are those of the query, and the cells lie in the
\* grid the axes make.
MdxTypeOK ==
    /\ data \in DOMAIN Datasets /\ refreshes \in 0..MaxRefreshes
    /\ phase \in {"idle", "translated", "evaluated", "answered", "failed"}
    /\ translated.ok => translated.dax.rolled \subseteq {translated.dax.refs[i] : i \in DOMAIN translated.dax.refs}
    /\ result.ok => \A row \in result.rows :
         /\ DOMAIN row.keys = {translated.dax.refs[i] : i \in DOMAIN translated.dax.refs}
         /\ DOMAIN row.flags = translated.dax.rolled
         /\ DOMAIN row.values = DOMAIN translated.dax.names
    /\ Answered => \A c \in answer.cells :
         c.ordinal \in 0..(Len(answer.tuples[1]) * Len(answer.tuples[2]) - 1)

\* No two rows of a result are for the same members: a subtotal, the blank
\* member and a member are told apart, so that none takes the place of another.
RowsAreIdentified ==
    phase \in {"evaluated", "answered"} =>
        \A r, q \in result.rows :
            Engine!RowKey(r, translated.dax.rolled) = Engine!RowKey(q, translated.dax.rolled) => r = q

\* The leaves of a hierarchy on the axes, and whether they are all there were.
Listed(h) ==
    {v \in Values : \E a \in DOMAIN translated.axes : \E i \in DOMAIN translated.axes[a].tuples :
                     LET t == translated.axes[a].tuples[i] IN
                     \E k \in DOMAIN t : t[k].kind = "leaf" /\ t[k].hier = h /\ t[k].key = v}
Left(h, v) == translated.ctx.restrictions[h] = {} \/ v \in translated.ctx.restrictions[h]
Complete(h, listed) ==
    listed = {v \in {r[h] : r \in Datasets[seen.translated][TableOf[h]]} : Left(h, v)}

\* The values the subselects leave a column and, for a total, those of the
\* leaves beside it unless they were all there were.
Open ==
    [h \in Keys |-> LET listed == Listed(h) IN
        {v \in Values : Left(h, v) /\ (listed = {} \/ Complete(h, listed) \/ v \in listed)}]

\* Those of them that a cell of some members is about, under the slicer.
Allowed(members, open) ==
    LET all    == members \o translated.slicer
        at(h)  == {i \in DOMAIN all : all[i].kind = "leaf" /\ all[i].hier = h} IN
    [h \in Keys |-> IF at(h) = {} THEN open[h] ELSE {v \in open[h] : \A i \in at(h) : all[i].key = v}]

\* The measure a cell is about.
MeasureOf(members) ==
    LET all == members \o translated.slicer
        at  == {i \in DOMAIN all : all[i].kind = "measure"} IN
    IF at = {} THEN Engine!Implicit ELSE all[CHOOSE i \in at : \A j \in at : i <= j].key

Meant(members, open) == Expected(MeasureOf(members), Allowed(members, open), Datasets[seen.evaluated])

\* A cell has the value its measure means for the members at its place on the
\* axes, computed from the rows of one moment, that of the evaluation; and a
\* cell is left out only where that value is blank.  Translation, joins, groups
\* and subtotals, the context of each group and the search for the row of a
\* cell all have a part in it.
CellsAreRight ==
    Answered =>
        LET open == Open n0 == Len(answer.tuples[1]) n1 == Len(answer.tuples[2]) IN
        \A i \in 0..(n0 - 1), j \in 0..(n1 - 1) :
            LET values == {c.value : c \in {d \in answer.cells : d.ordinal = i + j * n0}}
                meant  == Meant(answer.tuples[1][i + 1] \o answer.tuples[2][j + 1], open) IN
            IF values = {} THEN meant = Null ELSE values = {meant}

\* NON EMPTY leaves a tuple on its axis if and only if it has a cell that is
\* sent, although each axis is compared with the other one as it was before.
NonEmptyIsExact ==
    Answered =>
        LET open == Open IN
        \A n \in DOMAIN translated.axes :
            LET axis == translated.axes[n]
                k    == IF \A i \in DOMAIN translated.axes : axis.id <= translated.axes[i].id THEN 1 ELSE 2
                kept == answer.tuples[k]
                n0   == Len(answer.tuples[1])
                row(i) == {c \in answer.cells :
                             IF k = 1 THEN c.ordinal % n0 = i - 1 ELSE c.ordinal \div n0 = i - 1} IN
            axis.nonEmpty =>
                /\ \A i \in DOMAIN kept : row(i) # {}
                /\ \A i \in DOMAIN axis.tuples :
                     \/ \E j \in DOMAIN kept : kept[j] = axis.tuples[i]
                     \/ \A j \in DOMAIN answer.tuples[3 - k] :
                            Meant(axis.tuples[i] \o answer.tuples[3 - k][j], open) = Null

\* What a client reads off an axis are its tuples, in whichever form it is sent,
\* and no cell has the number of another.
AxesAreReadable ==
    Answered =>
        /\ \A n \in DOMAIN answer.axes :
             LET axis == answer.axes[n]
                 sent == Engine!Sent(answer.tuples[n]) IN
             IF ~axis.norm THEN axis.tuples = sent
             ELSE \A i \in DOMAIN sent : \A k \in DOMAIN sent[i] :
                    LET ref == axis.tuples[i][k] m == axis.lists[k][ref.ordinal + 1] IN
                    /\ ref.ordinal \in 0..(Len(axis.lists[k]) - 1)
                    /\ m.uname = sent[i][k].uname /\ m.lnum = sent[i][k].lnum
                    /\ ref.display = sent[i][k].display
        /\ \A c, d \in answer.cells : c.ordinal = d.ordinal => c = d

\* A row of a tabular answer has the values that its measures mean for its
\* members, if nothing on the axes was rolled up.
TabularRowsAreRight ==
    (phase = "answered" /\ statement.tabular /\ translated.dax.rolled = {}) =>
        LET allowed == Allowed(<<>>, Open) IN
        \A row \in answer.rows : \A name \in DOMAIN row.values :
            \E key \in [DOMAIN row.members -> Values] :
                /\ \A h \in DOMAIN key : row.members[h] = Engine!UniqueName(Engine!Leaf(h, key[h]))
                /\ row.values[name] = Expected(name,
                        [h \in Keys |-> IF h \in DOMAIN key THEN {key[h]} \cap allowed[h]
                                        ELSE allowed[h]], Datasets[seen.evaluated])
======================================================================================
