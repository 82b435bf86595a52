------------------------------ MODULE MCCatalog ------------------------------
(* Catalog on a few names.                                                  *)
EXTENDS Discover

Column(n, type) == [name |-> n, type |-> type, sortBy |-> NoColumn]
Measure(n, expr) == [name |-> n, expr |-> expr, formatted |-> TRUE]
Table(t, cols, ms) ==
    [name |-> t, described |-> TRUE, columns |-> cols, measures |-> ms]

\* One table with one column; and two tables that declare the same measure.
MCInitialModels ==
    {[tables |-> <<Table(t, <<Column(c, type)>>, <<>>)>>, relationships |-> <<>>] :
        t \in Tables, c \in Columns, type \in Types}
    \cup
    {[tables |-> <<Table(t, <<>>, <<Measure(n, e)>>), Table(u, <<>>, <<Measure(n, f)>>)>>,
      relationships |-> <<>>] :
        t \in Tables, u \in Tables, n \in Measures, e \in Exprs, f \in Exprs}

MCDistinctModels == {m \in MCInitialModels : IsInjective(NamesOf(m.tables))}

\* No definition tells names of a kind apart.
Interchangeable ==
    Permutations(Tables) \cup Permutations(Columns) \cup Permutations(Measures)
    \cup Permutations(Types) \cup Permutations(Exprs) \cup Permutations(Relationships)
==============================================================================
