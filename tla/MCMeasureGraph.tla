----------------------------- MODULE MCMeasureGraph -----------------------------
(* MeasureGraph on three measures and a column.                              *)
EXTENDS MeasureGraph, FiniteSets, TLC

B(plain, cells, summarized, columns) ==
    [plain |-> plain, cells |-> cells, summarized |-> summarized, columns |-> columns, binds |-> TRUE]

\* Expressions that mention at most two measures, one in a table constructor or in
\* SUMMARIZE, a column, and one that does not bind.
MCBodies ==
    {B(some, {}, {}, {}) : some \in {s \in SUBSET Names : Cardinality(s) <= 2}}
    \cup {B({}, {n}, {}, {}) : n \in Names} \cup {B({}, {}, {n}, {}) : n \in Names}
    \cup {B({}, {}, {}, Columns), [B({}, {}, {}, {}) EXCEPT !.binds = FALSE]}

\* All catalogs of such expressions, at most one of them with two measures, one in
\* such a place, or that does not bind.
Odd(b) == Cardinality(b.plain) = 2 \/ b.cells \cup b.summarized # {} \/ ~b.binds
MCInitialMeasures ==
    {c \in UNION {[some -> MCBodies] : some \in SUBSET Names} :
        Cardinality({n \in DOMAIN c : Odd(c[n])}) <= 1}

\* A bound on interleavings: requests between loads, with which they share no
\* step but Serve, which waits for them.
RequestsBetweenLoads == asked = Nothing \/ phase \in {"served", "refused"}

Interchangeable == Permutations(Names)
=================================================================================
