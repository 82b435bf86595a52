-------------------------------- MODULE JoinPath --------------------------------
(***************************************************************************)
(* The way from one table to another over the relationships, and RELATED   *)
(* and RELATEDTABLE along it (context_functions/relationship.rs).          *)
(*                                                                         *)
(* The cache of paths lives as long as a query, and no relationship        *)
(* changes during one: a lookup gives what the search gives.               *)
(***************************************************************************)
EXTENDS FilterContext, SequencesExt

\* JoinStep: from the column left of one table to the column right of another.
Step(i, t) ==
    LET r == Relationships[i] IN
    IF TableOf[r.from] = t THEN [left |-> r.from, right |-> r.to]
    ELSE [left |-> r.to, right |-> r.from]

NoPath == [found |-> FALSE, path |-> <<>>]

\* The table t at the end of a path is reached.
Reached(s, t, path, target) ==
    IF t \in s.visited THEN s
    ELSE [s EXCEPT !.found   = t = target,
                   !.path    = path,
                   !.visited = @ \cup {t},
                   !.queue   = Append(@, [table |-> t, path |-> path])]

\* The body of the loop for one relationship, at the table taken from the
\* queue.  Inactive relationships are followed like the others.
Scan(s, i, target) ==
    IF s.found \/ s.at.table \notin Ends(i) THEN s
    ELSE LET step == Step(i, s.at.table) IN
         Reached(s, TableOf[step.right], Append(s.at.path, step), target)

RECURSIVE Search(_, _)
Search(s, target) ==
    IF s.found \/ s.queue = <<>> THEN s
    ELSE Search(FoldLeft(LAMBDA acc, i : Scan(acc, i, target),
                         [s EXCEPT !.at = Head(s.queue), !.queue = Tail(@)],
                         [i \in Rel |-> i]), target)

Outcome(s) == IF s.found THEN [found |-> TRUE, path |-> s.path] ELSE NoPath

\* try_find_join_path: breadth first, the relationships in order.
JoinPath(source, target) ==
    LET start == [table |-> source, path |-> <<>>] IN
    IF source = target THEN [found |-> TRUE, path |-> <<>>]
    ELSE Outcome(Search([queue |-> <<start>>, at |-> start, visited |-> {source},
                         found |-> FALSE, path |-> <<>>], target))

\* find_path_from_frames.  The row frames are asked in no particular order; one
\* that holds the target itself gives an empty path.
SomePath(paths) == IF \E p \in paths : p.found THEN CHOOSE p \in paths : p.found ELSE NoPath

PathFromFrames(tables, target) == SomePath({JoinPath(t, target) : t \in tables})

------------------------------------------------------------------------------
\* scalar_eq_mask: a blank key has no partners.
Partners(key, v, rows) == {r \in rows : r[key] = v /\ v # Null}

\* The value at the end of a path, from the key at its start: at each step the
\* first partner, Null where there is none.  rows[t] are the rows of a table.
Walked(path, key, column, rows) ==
    LET seek(v, i) ==
            LET found == Partners(path[i].right, v, rows[TableOf[path[i].right]]) IN
            IF found = {} THEN Null
            ELSE (CHOOSE r \in found : TRUE)[IF i = Len(path) THEN column ELSE path[i + 1].left]
    IN FoldLeft(seek, key, [i \in DOMAIN path |-> i])

\* related_fn over the rows of a table scope: a left join at each step.
RelatedSeries(path, scope, column, rows) ==
    [r \in scope |-> Walked(path, r[path[1].left], column, rows)]

\* relatedtable_fn: the rows of the last table with the key of the row before.
RelatedTable(path, key, rows) ==
    LET last == path[Len(path)]
        at   == IF Len(path) = 1 THEN key ELSE Walked(Front(path), key, last.left, rows) IN
    Partners(last.right, at, rows[TableOf[last.right]])
=================================================================================
