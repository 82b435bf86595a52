---------------------------------- MODULE Cellset ----------------------------------
(***************************************************************************)
(* The answer to an MDX statement: the axes and cells of the               *)
(* multidimensional format (server/xmla/mdx_multidimensional.rs and        *)
(* cellset.rs) and the rows of the tabular one (mdx_tabular.rs,            *)
(* tabular.rs), put together from the translation and the rows of the      *)
(* query it generated.                                                     *)
(***************************************************************************)
EXTENDS DaxGen

NoAnswer == [ok |-> FALSE]

\* The key of a member in one column, and that of a collapsed column, which is
\* no member's (ROLLUP_SENTINEL).
KeyOf(v)  == {v}
Sentinel  == {}

CombinedAxes(axes) ==
    FoldLeft(Combined, Set(<<>>, <<<<>>>>), [i \in DOMAIN axes |-> Set(axes[i].shape, axes[i].tuples)])

HasMeasures(axis) == \E i \in DOMAIN axis.shape : axis.shape[i] = Measures

------------------------------------------------------------------------------
(* Rows found again by the members of the axes                             *)

\* Mutant of RowKey: the flags are not read.
RowKeyByValue(row, rolled) == [h \in DOMAIN row.keys |-> KeyOf(row.keys[h])]

\* A row of the result, and a combination of members, as a key over the
\* hierarchies that have a column in the result; rolled have a flag as well.
RowKey(row, rolled) ==
    [h \in DOMAIN row.keys |-> IF h \in rolled /\ row.flags[h] THEN Sentinel ELSE KeyOf(row.keys[h])]

MemberKey(members, hiers, rolled) ==
    [h \in hiers |->
        LET at == {i \in DOMAIN members : members[i].hier = h} IN
        CASE at = {} -> KeyOf(Null)
          [] at # {} /\ members[Min(at)].kind = "all" /\ h \in rolled -> Sentinel
          [] OTHER -> KeyOf(members[Min(at)].key)]

\* row_by_dim_key: the rows with a key; the last one inserted wins.
RowsAt(key, rows, rolled) == {row \in rows : RowKey(row, rolled) = key}

\* Mutant of NonEmpty: only the first tuple of the other axis counts.
NonEmptyWithFirst(n, held) == {p[n] : p \in {q \in held : q[3 - n] = 1}}

\* filter_non_empty: the places on axis n that have a row with some place on the
\* other; held are the pairs of places that have one.
NonEmpty(n, held) == {p[n] : p \in held}

------------------------------------------------------------------------------
(* The axes as they are sent                                               *)

\* member_unique_name, cellset_member_from: the unique name of a member.
UniqueName(m) ==
    CASE m.kind = "leaf" /\ m.key # Null -> <<m.hier, "&", m.key>>
      [] m.kind = "leaf" /\ m.key = Null -> <<m.hier, "&">>
      [] m.kind = "all"                  -> <<m.hier, "All">>
      [] m.kind = "measure"              -> <<Measures, m.key>>

\* DISPLAY_INFO: drilled-down All members, the last tuple.
DisplayInfo(m, i, tuples) ==
    LET hasAll == \E t \in ToSet(tuples) : \E k \in DOMAIN t : t[k].kind = "all" IN
    CASE m.kind = "all" -> IF hasAll /\ Len(tuples) > 1 THEN 66536 ELSE 1000
      [] m.kind # "all" -> IF i = Len(tuples) THEN 131072 ELSE 0

\* build_axis.
Sent(tuples) ==
    [i \in DOMAIN tuples |-> [k \in DOMAIN tuples[i] |->
        [uname   |-> UniqueName(tuples[i][k]),
         lnum    |-> IF tuples[i][k].kind = "leaf" THEN 1 ELSE 0,
         display |-> DisplayInfo(tuples[i][k], i, tuples)]]]

\* render_axis_normalized: per position the members without their display, in
\* the order they are first seen, and each tuple as places in these lists.
Looked(m) == [uname |-> m.uname, lnum |-> m.lnum]

\* Mutant of FirstSeen: members of one level are taken for one another.
FirstSeenOfLevel(seq) ==
    FoldLeft(LAMBDA acc, m : IF \E k \in ToSet(acc) : k.lnum = m.lnum THEN acc
                             ELSE Append(acc, Looked(m)), <<>>, seq)

FirstSeen(seq) ==
    FoldLeft(LAMBDA acc, m : IF \E k \in ToSet(acc) : k.uname = m.uname THEN acc
                             ELSE Append(acc, Looked(m)), <<>>, seq)

Normalized(sent) ==
    LET positions == DOMAIN sent[1]
        lists     == [k \in positions |-> FirstSeen([i \in DOMAIN sent |-> sent[i][k]])] IN
    [norm   |-> TRUE,
     lists  |-> lists,
     tuples |-> [i \in DOMAIN sent |-> [k \in positions |->
                    [ordinal |-> SelectInSeq(lists[k], LAMBDA m : m.uname = sent[i][k].uname) - 1,
                     display |-> sent[i][k].display]]]]

\* render_axis: the compact form pays if members repeat.
Rendered(sent) ==
    LET width    == IF sent = <<>> THEN 0 ELSE Len(sent[1])
        distinct == [k \in 1..width |-> Cardinality({sent[i][k].uname : i \in DOMAIN sent})] IN
    IF width > 1 /\ FoldFunction(+, 0, distinct) < Len(sent) * width
    THEN Normalized(sent) ELSE [norm |-> FALSE, tuples |-> sent]

------------------------------------------------------------------------------
(* build_response                                                          *)

\* Cells are counted along the first axis.
Ordinal(i0, i1, n0, n1) == i0 + i1 * (IF n0 = 0 THEN 1 ELSE n0)

\* The measure of a combination: its own, or the first there is.
MeasureIndex(members, names) ==
    LET own == {i \in DOMAIN members : members[i].kind = "measure"} IN
    IF own = {} THEN 1 ELSE Position(members[Min(own)].key, names)

Response(translated, rows) ==
    LET axes   == SortSeq(translated.axes, LAMBDA a, b : a.id < b.id)
        set    == CombinedAxes(translated.axes)
        hiers  == {set.shape[i] : i \in Grouped(set)}
        rolled == {set.shape[i] : i \in Rolled(set)}
        names  == MeasureNames(set, translated.slicer)
        at(members)  == RowsAt(MemberKey(members, hiers, rolled), rows, rolled)
        has(members) == at(members) # {}
        full(n) == IF n \in DOMAIN axes THEN axes[n].tuples ELSE <<<<>>>>
        held    == {p \in (DOMAIN full(1)) \X (DOMAIN full(2)) : has(full(1)[p[1]] \o full(2)[p[2]])}
        kept(n) == IF n \in DOMAIN axes /\ axes[n].nonEmpty
                   THEN At(full(n), NonEmpty(n, held))
                   ELSE full(n)
        cell(i0, i1) ==
            LET members == kept(1)[i0] \o kept(2)[i1]
                row     == CHOOSE r \in at(members) : TRUE IN
            [ordinal |-> Ordinal(i0 - 1, i1 - 1, Len(kept(1)), Len(kept(2))),
             value   |-> row.values[MeasureIndex(members, names)]] IN
    IF Len(axes) > 2 \/ Cardinality({i \in DOMAIN axes : HasMeasures(axes[i])}) > 1 THEN NoAnswer
    ELSE [ok     |-> TRUE,
          axes   |-> [n \in DOMAIN axes |-> Rendered(Sent(kept(n)))],
          tuples |-> <<kept(1), kept(2)>>,
          cells  |-> {cell(p[1], p[2]) : p \in {q \in (DOMAIN kept(1)) \X (DOMAIN kept(2)) :
                                                has(kept(1)[q[1]] \o kept(2)[q[2]])}}]

------------------------------------------------------------------------------
(* mdx_tabular::build_response: all rows of the result, a column for every *)
(* hierarchy on the axes and every measure on its own axis.                *)

TabularResponse(translated, rows) ==
    LET axes    == translated.axes
        set     == CombinedAxes(axes)
        dims    == {set.shape[i] : i \in Dimensions(set)}
        names   == MeasureNames(set, translated.slicer)
        onAxis  == {i \in DOMAIN axes : HasMeasures(axes[i])} IN
    IF \/ \E i \in onAxis : Len(axes[i].shape) # 1
       \/ Cardinality(onAxis) > 1
       \/ ~(dims \subseteq ToSet(translated.dax.refs))
    THEN NoAnswer
    ELSE LET shown == IF onAxis = {} THEN {} ELSE ToSet(names) IN
         [ok   |-> TRUE,
          rows |-> {[members |-> [h \in dims |-> UniqueName(Leaf(h, row.keys[h]))],
                     values  |-> [n \in shown |-> row.values[Position(n, names)]]] : row \in rows}]
==================================================================================
