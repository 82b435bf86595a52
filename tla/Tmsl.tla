---------------------------------- MODULE Tmsl ----------------------------------
(***************************************************************************)
(* The model file and the catalog (loaders/tmsl, catalog/mod.rs):          *)
(* Catalog::from_model reads a TMSL model, Catalog::to_tmsl_model writes   *)
(* one.  What TMSL nests, a catalog spreads over maps and order lists:     *)
(*   tableOrder    table_order                                             *)
(*   tables        the keys of table_is_hidden, which has_table looks at   *)
(*   described     the keys of table_description, which stands for the     *)
(*                 other optional properties of a table: its category and  *)
(*                 its data source                                         *)
(*   columnOrder   column_order                                            *)
(*   columns       columns: (table, column) to its type and sort column    *)
(*   measureOrder  measure_order                                           *)
(*   measures      measures: the expressions                               *)
(*   measureTables measure_tables                                          *)
(*   formatted     the keys of measure_format_string, which stands for the *)
(*                 other optional properties of a measure                  *)
(*   relationships relationships                                           *)
(* A type is as good as its round trip: Decimal is Double once it is in a  *)
(* catalog, and the types a file may name but no column can have, such as  *)
(* variant, are not values here.                                           *)
(***************************************************************************)
EXTENDS SequencesExt

CONSTANT NoColumn    \* sort_by_column: None

NamesOf(s) == [i \in DOMAIN s |-> s[i].name]

\* The elements of s that are in S, in their order.
Only(s, S) ==
    LET only[n \in 0..Len(s)] ==
        IF n = 0 THEN <<>>
        ELSE IF s[n] \in S THEN Append(only[n - 1], s[n]) ELSE only[n - 1]
    IN  only[Len(s)]

\* Vec::retain of everything else.
Without(s, gone) == Only(s, ToSet(s) \ gone)

\* The element of s with this name.
Named(s, n) == s[CHOOSE i \in DOMAIN s : s[i].name = n]

------------------------------------------------------------------------------
(* from_model, of a file whose tables have different names, and so have the *)
(* columns and the measures of each table.  A measure may be repeated in    *)
(* another table.                                                           *)

Declared(m) ==
    UNION {{<<t.name, c>> : c \in ToSet(NamesOf(t.columns))} : t \in ToSet(m.tables)}

FileColumn(m, key) == Named(Named(m.tables, key[1]).columns, key[2])

\* What from_model rejects: a sort column its table does not declare, and a
\* relationship between columns nobody declares or of unequal types.
Loads(m) ==
    /\ \A t \in ToSet(m.tables) : \A c \in ToSet(t.columns) :
          c.sortBy \in ToSet(NamesOf(t.columns)) \cup {NoColumn}
    /\ \A r \in ToSet(m.relationships) :
          /\ {r.from, r.to} \subseteq Declared(m)
          /\ FileColumn(m, r.from).type = FileColumn(m, r.to).type

\* The tables of the file, by their place in it, that have measure n.
Occurrences(m, n) == {i \in DOMAIN m.tables : n \in ToSet(NamesOf(m.tables[i].measures))}

\* A repeated measure keeps the place of its first occurrence, takes the
\* expression and the table of its last, and has a format if any of them has.
FromModel(m) ==
    LET T       == ToSet(NamesOf(m.tables))
        M       == UNION {ToSet(NamesOf(t.measures)) : t \in ToSet(m.tables)}
        last(n) == m.tables[Max(Occurrences(m, n))]
        first(i) == Only(NamesOf(m.tables[i].measures), {n \in M : Min(Occurrences(m, n)) = i})
    IN
    [tableOrder    |-> NamesOf(m.tables),
     tables        |-> T,
     described     |-> {t \in T : Named(m.tables, t).described},
     columnOrder   |-> [t \in T |-> NamesOf(Named(m.tables, t).columns)],
     columns       |-> [k \in Declared(m) |->
                          [type   |-> FileColumn(m, k).type,
                           sortBy |-> FileColumn(m, k).sortBy]],
     measureOrder  |-> FlattenSeq([i \in DOMAIN m.tables |-> first(i)]),
     measures      |-> [n \in M |-> Named(last(n).measures, n).expr],
     measureTables |-> [n \in M |-> last(n).name],
     formatted     |-> {n \in M : \E i \in Occurrences(m, n) :
                                     Named(m.tables[i].measures, n).formatted},
     relationships |-> m.relationships]

------------------------------------------------------------------------------
(* to_tmsl_model.  A name in an order list that its map has not got is      *)
(* left out, and so is an entry of a map that no order list names.          *)

SavedColumns(c, t) ==
    LET known == Only(IF t \in DOMAIN c.columnOrder THEN c.columnOrder[t] ELSE <<>>,
                      {k[2] : k \in {j \in DOMAIN c.columns : j[1] = t}})
    IN  [i \in DOMAIN known |->
           [name   |-> known[i],
            type   |-> c.columns[<<t, known[i]>>].type,
            sortBy |-> c.columns[<<t, known[i]>>].sortBy]]

\* Mutant of SavedMeasures: each save turns the measures of a table round.
SavedMeasuresReversed(c, t) ==
    LET own == Reverse(Only(c.measureOrder,
                            {n \in DOMAIN c.measureTables : c.measureTables[n] = t}))
    IN  [i \in DOMAIN own |->
           [name      |-> own[i],
            expr      |-> c.measures[own[i]],
            formatted |-> own[i] \in c.formatted]]

SavedMeasures(c, t) ==
    LET own == Only(c.measureOrder,
                    {n \in DOMAIN c.measures \cap DOMAIN c.measureTables : c.measureTables[n] = t})
    IN  [i \in DOMAIN own |->
           [name      |-> own[i],
            expr      |-> c.measures[own[i]],
            formatted |-> own[i] \in c.formatted]]

ToModel(c) ==
    [tables |-> [i \in DOMAIN c.tableOrder |->
                   LET t == c.tableOrder[i] IN
                   [name      |-> t,
                    described |-> t \in c.described,
                    columns   |-> SavedColumns(c, t),
                    measures  |-> SavedMeasures(c, t)]],
     relationships |-> c.relationships]
==============================================================================
