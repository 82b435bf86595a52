------------------------------ MODULE MeasureGraph ------------------------------
(***************************************************************************)
(* Measures that refer to measures.  measure_resolver.rs sorts them when a *)
(* model is loaded, a depth-first search over HashMaps, and puts the       *)
(* expressions of measures into those that mention them; lineage.rs tells  *)
(* a client, by a breadth-first search in the other direction, what a      *)
(* change of a measure or a column will have an effect on.  Commands edit  *)
(* the measures in between.                                                *)
(*                                                                         *)
(* An expression is what it mentions, by the place: most nodes; the cells  *)
(* of a table constructor, which the search for dependencies does not look *)
(* into; SUMMARIZE and SUMMARIZECOLUMNS, which inlining leaves alone too.  *)
(* The order of mentions is any order, as that of the maps is.             *)
(***************************************************************************)
EXTENDS Naturals, Sequences

CONSTANTS
    Names,             \* names of measures
    Columns,           \* columns of the model
    Bodies,            \* the expressions there are
    InitialMeasures,   \* the measures a model file may have at first
    MaxEdits,          \* bound on the commands
    Nothing            \* no object

VARIABLES
    file,       \* the measures of the model file
    measures,   \* catalog.measures
    edits,      \* the commands so far
    loaded,     \* history: the measures of the model file that was loaded last
    resolved,   \* ctx.resolved_measures
    phase,      \* of the load: "sorting", "inlining", "served" or "refused"
    source,     \* the measures it reads
    state,      \* the state of each in the search: VisitState
    path,       \* the measures in progress, outermost first
    order,      \* the sorted measures
    cycle,      \* the cycle that was reported
    inlined,    \* resolved, as far as it is
    asked,      \* what a client asks the impact of
    visited,    \* what has been found
    queue       \* that of it whose dependents are not yet looked up

engineVars  == <<file, measures, edits, loaded, resolved>>
loadVars    == <<phase, source, state, path, order, cycle, inlined>>
requestVars == <<asked, visited, queue>>
graphVars   == <<file, measures, edits, loaded, resolved, phase, source, state, path, order, cycle, inlined,
                 asked, visited, queue>>

Body == [plain : SUBSET Names, cells : SUBSET Names, summarized : SUBSET Names,
         columns : SUBSET Columns, binds : BOOLEAN]

\* Catalogs of measures: functions from some of the names.
Catalogs == UNION {[some -> Bodies] : some \in SUBSET Names}

ASSUME MeasureGraphAssumption ==
    /\ Bodies \subseteq Body
    /\ InitialMeasures \subseteq Catalogs
    /\ Nothing \notin Names \cup Columns
    /\ Names \cap Columns = {}
    /\ MaxEdits \in Nat

------------------------------------------------------------------------------
(* resolve: dependencies, search, inlining                                  *)

\* collect_deps.  A bare name that is no measure is a column of some row.
Deps(n) == source[n].plain \cap DOMAIN source

\* The expressions parse and their columns exist; a reference T[measure] is one
\* to a column here, as no measure is resolved yet.
AllBind(c) == \A n \in DOMAIN c : c[n].binds

NoneOf == [n \in {} |-> Nothing]

\* reload_model reads the file; the engine goes on with the measures it has.
Load ==
    /\ phase \in {"served", "refused"}
    /\ phase' = IF AllBind(file) THEN "sorting" ELSE "refused"
    /\ source' = file
    /\ state' = [n \in DOMAIN file |-> "unvisited"]
    /\ path' = <<>> /\ order' = <<>> /\ cycle' = <<>> /\ inlined' = NoneOf
    /\ UNCHANGED <<engineVars, requestVars>>

Enter(n) ==
    /\ state' = [state EXCEPT ![n] = "inprogress"]
    /\ path' = Append(path, n)
    /\ UNCHANGED <<phase, source, order, cycle, inlined, engineVars, requestVars>>

\* topo_sort takes the names in the order of a HashMap.
Root(n) ==
    /\ phase = "sorting" /\ path = <<>>
    /\ n \in DOMAIN source /\ state[n] = "unvisited"
    /\ Enter(n)

Top == path[Len(path)]

Descend(n) ==
    /\ phase = "sorting" /\ path # <<>>
    /\ n \in Deps(Top) /\ state[n] = "unvisited"
    /\ Enter(n)

\* A dependency in progress: path[cycle_start..] is reported and the load fails.
FindCycle(i) ==
    /\ phase = "sorting" /\ path # <<>>
    /\ i \in DOMAIN path /\ path[i] \in Deps(Top)
    /\ cycle' = SubSeq(path, i, Len(path))
    /\ phase' = "refused"
    /\ UNCHANGED <<source, state, path, order, inlined, engineVars, requestVars>>

\* Mutant of Leave: a measure comes before what it is built from.
LeaveFirst ==
    /\ phase = "sorting" /\ path # <<>>
    /\ \A d \in Deps(Top) : state[d] = "done"
    /\ state' = [state EXCEPT ![Top] = "done"]
    /\ order' = <<Top>> \o order
    /\ path' = SubSeq(path, 1, Len(path) - 1)
    /\ UNCHANGED <<phase, source, cycle, inlined, engineVars, requestVars>>

Leave ==
    /\ phase = "sorting" /\ path # <<>>
    /\ \A d \in Deps(Top) : state[d] = "done"
    /\ state' = [state EXCEPT ![Top] = "done"]
    /\ order' = Append(order, Top)
    /\ path' = SubSeq(path, 1, Len(path) - 1)
    /\ UNCHANGED <<phase, source, cycle, inlined, engineVars, requestVars>>

Sorted ==
    /\ phase = "sorting" /\ path = <<>>
    /\ \A n \in DOMAIN source : state[n] = "done"
    /\ phase' = "inlining"
    /\ UNCHANGED <<source, state, path, order, cycle, inlined, engineVars, requestVars>>

\* inline_measures: whose expressions a tree then contains, and the names in it
\* that are left to be looked up when it is evaluated.
Inlinable(b) == b.plain \cup b.cells
Inlined(b, known) ==
    LET found == Inlinable(b) \cap DOMAIN known IN
    [built |-> found \cup UNION {known[d].built : d \in found},
     stubs |-> (Inlinable(b) \ found) \cup b.summarized \cup UNION {known[d].stubs : d \in found}]

Inline(n) ==
    /\ phase = "inlining" /\ n \notin DOMAIN inlined
    /\ \E i \in DOMAIN order : /\ order[i] = n
                             /\ \A j \in 1..(i - 1) : order[j] \in DOMAIN inlined
    /\ inlined' = [m \in DOMAIN inlined \cup {n} |->
                      IF m = n THEN Inlined(source[n], inlined) ELSE inlined[m]]
    /\ UNCHANGED <<phase, source, state, path, order, cycle, engineVars, requestVars>>

\* The new engine takes the place of the old one, under the write lock, and the
\* edits made during the load are gone.
Serve ==
    /\ asked = Nothing
    /\ phase = "inlining" /\ \A i \in DOMAIN order : order[i] \in DOMAIN inlined
    /\ phase' = "served"
    /\ resolved' = inlined /\ loaded' = source /\ measures' = source
    /\ UNCHANGED <<file, edits, source, state, path, order, cycle, inlined, requestVars>>

------------------------------------------------------------------------------
(* The commands on measures.  None looks at what an expression mentions, or *)
(* at the expressions that mention a name.                                  *)

Edit(c) ==
    /\ asked = Nothing
    /\ edits < MaxEdits /\ edits' = edits + 1
    /\ measures' = c /\ file' = c
    /\ UNCHANGED <<loaded, resolved, loadVars, requestVars>>

\* create_measure, update_measure_expression.
SetMeasure(n, b) ==
    Edit([m \in DOMAIN measures \cup {n} |-> IF m = n THEN b ELSE measures[m]])

DeleteMeasure(n) ==
    /\ n \in DOMAIN measures
    /\ Edit([m \in DOMAIN measures \ {n} |-> measures[m]])

RenameMeasure(old, new) ==
    /\ old \in DOMAIN measures /\ new \in Names \ DOMAIN measures
    /\ Edit([m \in (DOMAIN measures \ {old}) \cup {new} |-> measures[IF m = new THEN old ELSE m]])

------------------------------------------------------------------------------
(* dependencies_of: under one read lock, on the catalog of the moment       *)

\* Mutant of Mentioned: lineage looks where the resolver looks.
MentionedPlainly(b) == b.plain

\* collect_refs: every place; nothing in an expression that does not parse.
Mentioned(b) == b.plain \cup b.cells \cup b.summarized

\* reverse and col_to_measures: the measures that mention an object.
Dependents(c, x) == {n \in DOMAIN c : x \in Mentioned(c[n]) \cup c[n].columns}

\* A measure of the catalog or a column; anything else has no answer.
Ask(x) ==
    /\ asked = Nothing
    /\ x \in DOMAIN measures \cup Columns
    /\ asked' = x
    /\ visited' = Dependents(measures, x) /\ queue' = visited'
    /\ UNCHANGED <<engineVars, loadVars>>

\* The order of the queue decides nothing: it is a set here.
LookUp(n) ==
    /\ n \in queue
    /\ visited' = visited \cup Dependents(measures, n)
    /\ queue' = (queue \ {n}) \cup (Dependents(measures, n) \ visited)
    /\ UNCHANGED <<asked, engineVars, loadVars>>

Answer ==
    /\ asked # Nothing /\ queue = {}
    /\ asked' = Nothing /\ visited' = {}
    /\ UNCHANGED <<queue, engineVars, loadVars>>

------------------------------------------------------------------------------
(* A model without measures is served while a file with some is loaded.     *)
GraphInit ==
    /\ measures = NoneOf /\ edits = 0 /\ loaded = NoneOf /\ resolved = NoneOf
    /\ file \in InitialMeasures /\ source = file
    /\ phase = IF AllBind(source) THEN "sorting" ELSE "refused"
    /\ state = [n \in DOMAIN source |-> "unvisited"]
    /\ path = <<>> /\ order = <<>> /\ cycle = <<>> /\ inlined = NoneOf
    /\ asked = Nothing /\ visited = {} /\ queue = {}

GraphNext ==
    \/ Load
    \/ \E n \in Names : Root(n) \/ Descend(n) \/ Inline(n) \/ LookUp(n) \/ DeleteMeasure(n)
    \/ \E i \in DOMAIN path : FindCycle(i)
    \/ Leave \/ Sorted \/ Serve
    \/ \E n \in Names, b \in Bodies : SetMeasure(n, b)
    \/ \E n, m \in Names : RenameMeasure(n, m)
    \/ \E x \in Names \cup Columns : Ask(x)
    \/ Answer

GraphSpec == GraphInit /\ [][GraphNext]_graphVars

------------------------------------------------------------------------------
(* Properties                                                               *)

GraphTypeOK ==
    /\ file \in Catalogs /\ measures \in Catalogs /\ loaded \in Catalogs /\ source \in Catalogs
    /\ edits \in 0..MaxEdits
    /\ phase \in {"sorting", "inlining", "served", "refused"}
    /\ state \in [DOMAIN source -> {"unvisited", "inprogress", "done"}]
    /\ path \in Seq(DOMAIN source)
    /\ order \in Seq(DOMAIN source) /\ cycle \in Seq(DOMAIN source)
    /\ DOMAIN inlined \subseteq DOMAIN source /\ DOMAIN resolved = DOMAIN loaded
    /\ asked \in Names \cup Columns \cup {Nothing}
    /\ queue \subseteq visited /\ visited \subseteq DOMAIN measures

\* A measure comes after all it is built from, and once.
DependenciesComeFirst ==
    /\ \A i \in DOMAIN order : \A d \in Deps(order[i]) : \E j \in 1..(i - 1) : order[j] = d
    /\ \A i, j \in DOMAIN order : order[i] = order[j] => i = j

\* What is reported as a cycle is one.
CycleIsReal ==
    cycle # <<>> =>
        /\ \A i \in 1..(Len(cycle) - 1) : cycle[i + 1] \in Deps(cycle[i])
        /\ cycle[1] \in Deps(cycle[Len(cycle)])

\* Every name of a measure has its place taken by its expression, except in
\* places that the search or inlining does not look into.
MeasuresAreInlined ==
    \A n \in DOMAIN inlined :
        /\ Deps(n) \subseteq inlined[n].built
        /\ \A m \in inlined[n].stubs \cap DOMAIN source :
              \E k \in {n} \cup inlined[n].built : m \in source[k].cells \cup source[k].summarized

ResolutionIsSound == DependenciesComeFirst /\ CycleIsReal /\ MeasuresAreInlined

\* The sets that have all dependents of an object and of their own members.
ClosedOver(c, x) ==
    {S \in SUBSET DOMAIN c : Dependents(c, x) \subseteq S /\ \A n \in S : Dependents(c, n) \subseteq S}

\* What is reported as the impact of a change is the least such set; and if the
\* model was not edited since it was loaded, whoever contains the expression of
\* a measure in memory, or looks it up, is among those it has an impact on.
ImpactIsExact ==
    (asked # Nothing /\ queue = {}) =>
        /\ visited \in ClosedOver(measures, asked)
        /\ \A S \in ClosedOver(measures, asked) : visited \subseteq S
        /\ measures = loaded =>
              \A n \in DOMAIN resolved :
                  asked \in resolved[n].built \cup resolved[n].stubs => n \in visited
================================================================================
