\* Two names of each kind, and at most five objects: two tables with a
\* related column each, or two tables, a column and two measures.
SPECIFICATION Spec
CONSTANTS
    NoColumn = NoColumn
    Tables = {t1, t2}
    Columns = {c1, c2}
    Measures = {n1, n2}
    Relationships = {r1, r2}
    Types = {int, str}
    Exprs = {e1, e2}
    InitialModels <- MCDistinctModels
    MaxObjects = 5
SYMMETRY Interchangeable
INVARIANTS CatalogTypeOK OrdersAgree NoOrphans RoundTrip RowsetsAgree 
  
