# A verification project for dax-rs

dax-rs loads a semantic model (tables, columns, measures, relationships) from a
TMSL file, keeps its tables in memory, and answers DAX and MDX queries and
model-editing commands over HTTP and XMLA. This directory holds TLA+ modules
translated from its source, TLC configurations that check them on small
instances, and proofs checked by TLAPS for every instance. Paths below are
relative to `src/` of the repository.

Contents: [inventory](#inventory), [plan](#plan), [modules](#modules),
[runs](#runs), [theorems](#theorems), [what the runs found](#what-the-runs-found),
[what is not modelled](#what-is-not-modelled).

## Inventory

| component | state it keeps | operations | modelled in |
|---|---|---|---|
| model provider (`server/dax_provider.rs`, `engine/mod.rs`) | the engine behind an `RwLock`; the path of the model file | `apply_commands`, `reload_model`, `refresh_data`, `execute_dax`, `execute_mdx`, metadata requests | ModelStore, AtomicModel; MdxQuery for `execute_mdx` |
| concurrency limiter (`server/concurrency_limit.rs`) | a tokio semaphore | `call`: try, queue for at most `max_wait`, run, give back | ConcurrencyLimit |
| HTTP server and runtime (`server/mod.rs`, `server/models/mod.rs`) | worker threads, blocking pool | handlers of the model routes | ServerRuntime |
| catalog and commands (`catalog/mod.rs`, `server/models/commands.rs`) | 3 order lists, 11 maps, a list of relationships | 20 commands, `from_model`, `to_tmsl_model` | Catalog, Tmsl |
| TMSL loader (`loaders/tmsl`) | the model file | load, save in place | Tmsl, ModelStore |
| table store (`engine/context.rs`, first half) | one data frame per table, the blank member row | `try_new`, `reload_tables`, `sync_tables_without_data` | TableStore |
| filter context (`engine/context.rs`, second half, `context_functions/filter.rs`) | filters per column, which of them are derived, overridden tables, a cache of filtered tables | merge, expand along relationships, `ALL*`, `KEEPFILTERS` | FilterContext, Evaluation |
| measure resolver (`engine/measure_resolver.rs`) | resolved expressions | collect dependencies, sort, inline | MeasureGraph |
| lineage (`server/models/lineage.rs`) | none | graph of dependencies, closures | MeasureGraph |
| join paths (`context_functions/relationship.rs`) | a cache of paths | breadth-first search, `RELATED`, `RELATEDTABLE` | JoinPath |
| expression evaluator (`engine/evaluator.rs`, `row_context.rs`) | a filter context, a stack of row frames, the tables in scope | one case per kind of node | Evaluation (CALCULATE), Dax (values) |
| table and iterator functions (`context_functions/summarize.rs`, `iterator.rs`) and aggregations (`functions/aggregation.rs`) | none | `SUMMARIZECOLUMNS`, `SUMX` and its like, `GENERATE`, set functions | Summarize, Dax |
| MDX translator (`mdxtranslator/`) | restrictions, current members, a slicer | evaluate sets, generate DAX | Mdx, DaxGen |
| XMLA endpoint (`server/xmla/`) | none | metadata rowsets; cell sets and rows from a result | Discover; Cellset, MdxQuery |
| startup (`main.rs`) | the list of models | load or panic; rename equal names | load and panic in ModelStore and MeasureGraph |
| DAX parser, IR builder, configuration, demo data | none that outlives a request | | not modelled, see the end |

How they interact. A request passes the limiter, if there is one, and runs in a
handler on a worker thread of the tokio runtime. Queries and metadata requests
take the engine's read lock in that thread and keep both to the end; an MDX query
takes it twice, to translate and to evaluate.
`apply_commands`, `reload_model` and `refresh_data` are moved to the blocking
pool, so that they outlive the request when its client goes away. All three
replace parts of the engine under the write lock, and the first two also use the
model file, which no lock protects. `main` reads that file at startup and panics
when it does not load. A load runs `from_model`, loads the tables and resolves the
measures; a query walks the bound expressions with a filter context, whose reads
go to the frames of the table store over the relationships of the catalog.

What is hard, and which properties answer it (PROJECT.json lists each hazard at
its line):

* `apply_commands` reads under one lock and writes under another: *NoLostUpdate*,
  *StampNeverAhead*, *ImplementsAtomicModel*.
* Memory and file must not diverge through failed saves, reloads and crashes:
  *ServedWasSaved*, *SettledFileIsServed*.
* A query must see one engine: *QueriesReadOneEngine*, *RefreshExcludesReads*; an
  MDX query sees two, and a metadata client as many as it sends requests:
  *CellsAreRight*, *AxesAreReadable*, *SplitReadsMeanTheSame*, *IdsResolve*.
* Threads, locks and permits must not wait for each other in a circle:
  *SomeWorkerIsFree*, *RefreshCanGoOn*, *EveryRequestIsAnswered*, *EveryCallReturns*.
* Timeouts and disconnects race with permits that come back:
  *PermitsAreConserved*, *NobodyWaitsForAFreePermit*, *NoOvertaking*.
* Long sequences of accepted commands must keep fourteen containers consistent
  and the model loadable: *OrdersAgree*, *NoOrphans*, *RoundTrip*,
  *TableCommandsKeepItLoadable*, *RowsetsAgree*.
* The frames in memory must follow the catalog through commands, refreshes and
  reloads, which use three different rules: *DatalessTablesFollowTheCatalog*,
  *LoadsServeTheModel*, *OnlyRenamesMixTablesUp*, *LoadsGiveBlankMembers*.
* The resolved measures, the catalog and the file are about different moments, and
  three walks over an expression look into different places: *MeasuresAreServed*,
  *ResolutionIsSound*, *ImpactIsExact*.
* Filters are replaced, removed, derived, stripped and cached in an order that
  depends on how calls are nested: *CacheIsSound*, *FiltersHold*,
  *NothingStaleFilters*, *AllShowsEverything*, *ExpansionProgresses*.
* A cell comes out of six translations one after another, with members, blanks and
  subtotals told apart by position and by flag: *RowsAreIdentified*, *CellsAreRight*,
  *NonEmptyIsExact*, *TabularRowsAreRight*.

## Plan

Written, in the order of importance: AtomicModel, ModelStore and its proofs, for
any number of editors and for one at a time; ConcurrencyLimit;
ServerRuntime, which extends it, and the proofs about both; Tmsl, Catalog and their
proofs; TableStore and its proofs; FilterContext, Evaluation and their proofs;
Discover on top of Catalog, and its proofs; JoinPath, Dax and Summarize on top of
FilterContext; Mdx, DaxGen, Cellset and MdxQuery on top of those; MeasureGraph and
its proofs.

What is left, in the order in which it would add most:

1. JoinPath, Dax, Mdx and Cellset with recursive functions in the place of RECURSIVE operators: the properties of
   MdxQuery are the only safety properties without a theorem, and a proof cannot start before that.
2. Composition: Catalog in the place of ModelStore's constants `RunCommands` and
   `Loads`, so that a reload meets exactly the files that commands leave.
3. `TOPN`, `ADDCOLUMNS`, `SUMMARIZE` and the rest of the context functions in Dax, each with a
   measure in the MDX run.

## Modules

Every MC module only gives constants their values for TLC. An operator whose comment
begins with "Mutant of" is not part of the model: it is a slip somebody could
make in the definition that follows it, and shows that a property notices it.

### AtomicModel and ModelStore

AtomicModel is the promise to whoever edits a model: a batch of commands takes
effect at one instant, on the model of that instant, or not at all, and the
answer says which. It leaves open only batches whose sender was told of an error
or nothing: their result stays in `limbo` and a later reload may adopt it.

ModelStore is the code. Its variables: `mem` is the engine (`cat` its catalog,
`resolved` the catalog its measures were resolved from, `data` the version of the
loaded tables, `stamp` `last_refreshed`), `file` the TMSL file, `pc` where each
task is, `job` what `apply_commands` holds in local variables, `built` the engine
`reload_model` has made. `snap`, `written`, `ledger` and `doubtful` are history.
The actions are the steps between the points where the code acquires or releases
the lock or does I/O:

| code | actions |
|---|---|
| `apply_commands` | `CallApply`, `Clone` (read lock, `run_commands` on the clone, early return), `BeginSave`, `EndSave` or `FailSave`, `Publish` (write lock) |
| `reload_model` | `CallReload`, `OpenReload` (read lock), `BuildReload` (no lock), `SwapReload` (write lock) |
| `refresh_data` | `BeginRefresh` takes the write lock, `EndRefresh` gives it back |
| queries, metadata | `BeginRead`, `EndRead` |
| the world | `Tick` (time, and newer data files), `Crash`, `Restart` |

A catalog is an opaque value; `RunCommands` and `Loads` are constants here, and
what the commands really do is Catalog's subject. A save overwrites the file in
place (`op.write`); with `TornWrites` the file is unreadable from `BeginSave` on.
A failed save may have left the old text, a torn one or the whole new one. The
lock is modelled by who holds it; whether it prefers writers is left open, which
only adds behaviours to the safety properties.

### ConcurrencyLimit

`call`, await by await. Between a failed `try_acquire_owned` and the first poll of
`acquire_owned` there is a step (`missed`) in which a permit can come back. A
permit is assigned to the first waiter (`granted`) before the waiter runs again;
in that state its timer may fire or its client may go. `Elapse` and `Disconnect`
are the same transition, because both drop the `acquire_owned` future;
`Finish` and `Abort` likewise both drop the permit. The queue is
`ahead`, the set of waiters in front of each one: sets make the order easier to prove
about than a sequence. The semaphore itself is external and modelled by its
documented behaviour.

### ServerRuntime

It extends ConcurrencyLimit with the handlers: `step` is what a handler does,
`task` what its task on the blocking pool does. A query handler has no await, so
it occupies a worker thread from `lockWait` to its end. A refresh handler only awaits.
Its task takes the write lock and then loads files; if they are in an object store
(`RemoteIO`) it needs a free worker, because opendal's blocking operator drives its
sockets on the runtime. Everything a worker thread must poll has the guard
`FreeWorker`.

### Tmsl and Catalog

Tmsl has the two translations as operators: `Loads` and `FromModel` for
`Catalog::from_model`, `ToModel` for `to_tmsl_model`. Catalog has the commands as
actions, guarded by what each method checks. A failed command changes nothing, so
failures are not actions. `described` and `formatted`
stand for all optional properties kept in maps of their own (description, category and
data source of a table; format string, folder and description of a measure); `active`
stands for both flags of a relationship. In `from_model`, a measure declared by two
tables keeps its first place and takes its last expression and table, although the
comment at `catalog/mod.rs:132` says that the first occurrence wins; FromModel follows the
code. Files that declare a table twice, or a column or measure twice within a table,
are left out: `InitialModelsLoad` assumes that the first file has none, and
*OrdersAgree* shows that the commands never make one.

Commands on columns and new relationships may leave a model the loader refuses: a
column that a relationship or a sort column names is renamed, deleted or retyped, the
file is saved, and the next load fails, which at startup is a panic.
*TableCommandsKeepItLoadable* says that no other command can do that.

### Discover

The rowsets of `MDSCHEMA_*`, `TMSCHEMA_*` and `DBSCHEMA_*` and the two metadata documents
(`server/xmla/handlers.rs`) as functions of the lists of tables, measures and relationships
they are made of. The lists are parameters, because the endpoint reads them under separate
locks and a client combines several responses: *RowsetsAgree* takes lists of one
catalog, *SplitReadsMeanTheSame* lists of two successive ones. Hidden objects and
key columns are sets the properties quantify over.

### TableStore

The map from table names to data frames that queries look into, beside the part of
the catalog that decides what belongs there (`cat`) and the columns of the parquet
files (`files`). A frame is the file it was loaded from, its columns and whether it
ends with a blank member row. `Reload` is `from_model` and `try_new`, `Refresh` is
`reload_tables`, and every command ends in `Install`, which is the end of
`apply_commands` with `sync_tables_without_data`. These hold the write lock, or work on an engine
nobody sees yet, so each is one step; a failed load changes
nothing and is no step. The commands are those of Catalog again, as far as
tables depend on them. `Rewrite` is whoever writes the files. A request with several
commands synchronises only once, at its end; it is modelled as one command per request,
which passes through every catalog the batch passes through and may keep
more empty frames of names that are gone.
The types of columns are not here, so neither is the failure of a cast.

### FilterContext and Evaluation

FilterContext has the context as a record (`filters` per column, `derived`, the
`overrides` of tables, relationship modifiers) and the functions on it as
operators: the CALCULATE modifiers, the masks, `get_filtered_df` with its cache
key, and one relationship of the expansion in each direction. The key of the cache is the
`Debug` text of the predicates; what decides is which predicates print alike, so `Fingerprint` gives
equal keys to those and long series are cut at `PrintLimit`.

Evaluation walks one query through nested CALCULATE calls. `stack` has the calls,
each with its context, `job` the expansion under way (one relationship per step), `cache` the
filter cache of the query. Which modifiers, predicates and reads come is free. Every read and every
body expands again, as the code does; `said` and `shown` are history: what was asked for and is still
in force. The properties compare what a body reads with a computation from scratch (`Reference`),
which uses the definition of relationships and nothing of the expansion.

### JoinPath, Dax and Summarize

JoinPath is the breadth-first search as a recursive operator over a record (queue, visited, found),
`RELATED` and `RELATEDTABLE` along its path. Dax is `Evaluator::eval` as an operator on a bound
expression and what it sees (`Env`: filter context, scoped columns, row frames, tables in scope).
A series is a function of the rows it comes from. It has columns, tables, operators
with their rules for blanks, `IN`, `IF`, CALCULATE with FILTER arguments and predicates, the aggregations, the X
iterators, `FILTER`, `ALL`, `VALUES`, `DISTINCT`, `EXCEPT`, `INTERSECT`, `CROSSJOIN`, `GENERATE`, `GENERATEALL`. Row frames keep only the columns an
expression mentions, unless it looks at related rows (`RowFrame`). Summarize is `SUMMARIZECOLUMNS`: the base table,
enrichment with the columns of other tables along join paths, groups, a context per group, subtotals per cutoff.

### Mdx, DaxGen, Cellset and MdxQuery

Mdx evaluates sets and members (`mdxtranslator/eval.rs`) to tuples of leaves, All members and measures, with the
restrictions a subselect leaves and the members `Generate` binds. DaxGen makes the DAX query: columns that are grouped,
columns rolled up, restriction and slicer filters, measures. Cellset makes the answer: axes with their
hierarchies or with normalised tuples, cells with ordinals, NON EMPTY, or tabular rows. MdxQuery is the request as
a state machine: `Translate` and `Evaluate` under separate read locks, `Respond`, and
`Refresh` anywhere between. Text is left out: a unique name is a sequence, a
measure a tree.

### MeasureGraph

The load of the measures and what commands and clients do meanwhile. `Load`, `Root`, `Descend`,
`FindCycle`, `Leave`, `Sorted` and `Inline` are `resolve` of `measure_resolver.rs`, one visit of the depth-first search
a step, in any order, because the code iterates over HashMaps. `Serve` installs the engine. The commands edit `measures`
and the file. `Ask`, `LookUp` and `Answer` are the downstream search of `lineage.rs`, under one
read lock, so `Serve` and the commands wait for it. An expression is the set of names it mentions, by the
place where: `collect_deps` looks into `plain`, inlining into `plain` and `cells` (table constructors), lineage
into all. A cycle through a table constructor or SUMMARIZE is accepted therefore, and its names are looked up
again when they are evaluated; *MeasuresAreInlined* allows exactly those.

## Runs

"States" are distinct states. Every property of a passing run is also checked
against a mutant of the code, a plausible slip, that breaks it.

| run | question | bounds | states |
|---|---|---|---|
| `model_store` | Do edits, reloads, refreshes, queries, failed saves and a crash keep memory and file together, is every edit atomic, does every call return? | 1 editor, 1 refresher, 1 reader, 2 objects of which one does not load, 1 tick, 1 crash | 46 992 |
| `lost_update` | Is an edit answered as applied in the model? | 2 editors | violated |
| `stale_measures` | Do queries compute the expressions of the served catalog? | 1 editor | violated |
| `runtime` | Behind a limit below the number of workers, is every request answered, are permits conserved, is the queue fair? | 3 queries, 2 refreshes, 2 permits, 3 workers, remote files | 6 858 |
| `runtime_unlimited` | And in the default configuration? | 2 queries, 1 refresh, no limit, 2 workers | violated |
| `catalog` | Do commands keep order lists and maps in agreement, does a save lose anything, do the metadata rowsets refer to each other correctly? | 2 names of each kind, at most 5 objects | 35 545 |
| `tables` | Do the frames in memory follow the catalog? | 2 tables with a file each, 2 columns, 1 relationship | 134 672 |
| `blank_members` | Does every load give the dimensions their blank member row? | the same | violated |
| `query` | Does a read see exactly the rows the filters in force leave? | 4 + 4 + 3 rows in 3 tables, 3 relationships (one inactive, one bidirectional), 10 modifiers, 2 predicates, 2 calls, 3 arguments | 383 322 |
| `query_join` | Also with a filter on a foreign key? | 1 call, 2 arguments | violated |
| `mdx` | Is every cell the measure of the facts the statement names? | 105 statements, 2 datasets, 1 refresh, 15 measures | 1 053 |
| `measures` | Is the order topological, a reported cycle a cycle, the inlining complete, the impact exact? | 3 measures, a column, 1 command | 997 694 |

Why these bounds are enough. Every conflict in ModelStore is between two tasks,
and one editor with one refresher, one reader and one crash contains all pairs but
editor against editor, which has its own run; the proofs lift the main invariants to any
number. In `runtime`, two permits and three workers is the tightest configuration that
satisfies the hypothesis of the theorem, and five request slots hold two waiters behind
two holders, so that a waiter in the middle of the order leaves.
In `catalog`, renames and deletions need two names of a kind,
a relationship needs two columns, and five objects hold two tables with a
column each and a relationship between them. In `tables`, mixing up frames takes two
names, a file without a declared column takes two columns, and files of either
content are rewritten at any time; nothing is bounded there but the sets of names.
In `query`, two calls are nested or in sequence, and three arguments put two in one call or one in a call around
another; the rows have a fact without a key, a dimension with two keys of one value, and blank
members. In `mdx`, the statements cover every set function beside every kind of hierarchy position (leaves, All, both,
some of each), slicers, subselects, both axis orders, both formats and what is refused; the data has
facts without a partner and a dimension row without a value. In `measures`, three measures make cycles
of every length up to three with and without a tail; at most one of them at first has an odd expression (two measures, one in
a table constructor or in SUMMARIZE, or none because it does not bind), a second through the command, and one command comes at any moment.
`MaxObjects`, `MaxNow`, `MaxCrashes`, `MaxCalls`, `MaxArgs`, `MaxRefreshes` and `MaxEdits`
are the only bounds in guards. One constraint, `RequestsBetweenLoads` in `measures`, keeps requests for the impact from overlapping a load: they share no
variable but through `Serve`, which waits for the request, and the theorems do without the constraint.

Symmetry: `catalog` permutes names no definition tells apart; `measures` permutes the measures.
The properties of both are invariants and action properties, so symmetry is sound;
the runs with liveness properties use none.

Fairness. In ModelStore a started call is driven by its own thread: weak fairness
for its steps, strong fairness for those that wait for the lock, since
others take it and give it back meanwhile and std's `RwLock` wakes its waiters. Nothing obliges
anybody to call, to tick, to crash or to restart. In ConcurrencyLimit woken futures are
polled and the inner service returns; nobody has to time out or disconnect, so
*EveryRequestIsAnswered* rests on the queue alone. In ServerRuntime fairness is on actions that
include the guard `FreeWorker`: a future that no thread can poll is owed nothing.
*EveryCallReturns* includes calls that end with an error, but not those of a
process that has died: a crash ends them all. That an expansion ends is stated without fairness: *ExpansionProgresses*
is the measure that decreases.

`model_store` has deadlock checking off, because a server whose file does not
load stays down, and so have `lost_update` and `stale_measures`, which share its module; `query` and
`query_join`, because a query ends. The other runs check it.

## Theorems

All proofs are checked by TLAPS with no unproved leaf. The assumptions are
those named in the modules: the kinds of tasks are disjoint, `RunCommands` stays within
`Catalogs`, the bounds are numbers, the set of request slots is finite, the first models are
catalogs or files the loader takes and in which no table, column or measure stands twice, no file has an empty list of columns, measures and columns have
different names, the rows of a table have a value for each of its columns, modifiers and predicates are of the kinds
the code knows. TLC evaluates each of them in the runs above. What a theorem needs beyond them stands in front
of it as a hypothesis and is named below.

* **ModelStoreProofs.** `TypeCorrect` first, and on top of it two invariants. *ServedWasSaved* is
  not inductive: a clone about to be published, an engine about to be swapped in and the file itself
  must already be in `written`. `SavedInv` says that, and `ServedWasSavedAlways` follows for
  any number of concurrent editors: edits may be lost, but what is served was on disk.
  *QueriesReadOneEngine* needs the lock's exclusion; `LockInv` states
  that a reading task and a loading one never coexist and that `snap` is current.
  What fails when two editors overlap (`lost_update`) holds while none do:
  the theorems are of the form `Spec /\ []OneAtATime => ...`, where `OneAtATime` says that at most one
  task is inside `apply_commands` or `reload_model`; any number of editors take turns, and queries, refreshes,
  failed saves and crashes come at any moment. *SettledFileIsServed* is not inductive: the file changes before
  memory does. `EditorInv` says what a clone on its way into memory is (the batch applied to the catalog that
  is served: nothing can have changed it since the read lock was given up), what the file holds at each
  step of a save and a reload, and that no stamp in a clone or in a built engine is ahead of its data. From it
  follow `SettledFileIsServedAlways` and `StampNeverAheadAlways`, and `StoreIsAtomic`:
  the initial states map to initial states of AtomicModel, and every step, one case per action, to the step
  of a batch or to a stutter. `Publish` is where a batch takes effect; `FailSave` may put its
  result in limbo, `SwapReload` adopts it, and `Crash` decides a batch whose save was under way by what the file holds.
* **ServerRuntimeProofs.** Of the limiter alone first: `LimiterInv`, the conjunction of the type
  invariant, conservation, "nobody waits for a free permit" and the order of the
  queue (*QueueIsAnOrder*, which no run needs to check), is inductive as it stands (`LimiterInitInv`, `LimiterNextInv`): conservation
  alone is not, because a release that finds a queue without a first
  element would lose the permit, and only the order guarantees the first element. Four lemmas say what one
  holder more, one less, a permit handed on and a shorter queue do. `NobodyOvertakes` is the action
  property.
  Of the runtime: `RefreshExcludesReadsAlways` holds with and without a
  limiter. With one, every runtime step is a limiter step
  or leaves it alone (`RuntimeStepsAreLimiterSteps`), so `LimiterInv` carries
  over; together with `HandlersHold` (who has a handler has a permit) it gives
  `SomeWorkerIsFreeAlways` if `0 < max_concurrency < Workers`, and
  `RefreshCanGoOnAlways` under the same condition: precisely what `runtime_unlimited`
  shows to be missing by default.
* **TableStoreProofs.** `TableTypesAlways` first: each command makes a catalog out of a
  catalog, and `Install` and the loads make frames of the right shape out of it.
  `DatalessTablesAlways` and `LoadsAlwaysServeTheModel` hold for any tables, columns and files.
  `OnlyRenamesMixTablesUpAlways` bounds how tables can be mixed up: its key lemma, `SameSources`, says that a command
  which leaves the sources of tables with data alone keeps the frames right, and all commands but the
  renaming of a table are of that kind.
* **MeasureGraphProofs.** `ResolutionIsAlwaysSound` for any number of measures, any expressions and any
  order of the maps. The property is not inductive: that a reported cycle is one needs the path of the search to be a
  chain of dependencies, and that a measure comes after all it needs requires every measure marked done to be
  in the order. `SearchInv` says both, and that a measure on the path is in progress, once. For the impact,
  `ReachedIn` says of the trees made so far that whatever a tree contains has its measure in every set closed
  over the dependents of what it contains; `Inlined` keeps that, and `Serve` hands it on to the engine
  (`EngineInv`). `RequestInv` is the invariant of the breadth-first search: what was looked up has its dependents among
  what was visited, and nothing visited could be missing from a closed set. At an empty queue the two give `ImpactIsAlwaysExact`: the impact
  lineage reports contains every measure that contains or looks up the object. `GraphTypesAlways` gives the types.

* **EvaluationProofs.** `EvalInv` has the types of stack, job and cache, and what an entry of the
  cache is: the rows some context with that fingerprint leaves (`CacheOK`). The lemmas say of each modifier,
  of a filter argument, of one relationship of the expansion and of a read that they make contexts out of contexts.
  On top of it:
  `CacheIsSoundAlways`, if `PrintsInFull` (no set of values is longer than what Polars prints of a series; else
  two predicates may print alike, and the key cannot tell them apart);
  `AllShowsEverythingAlways`, without any condition: `ShownInv` says that the tables ALL was said of have no filter and
  no override, and that their relationships are disabled (`Clear`), in the calls and in the job; each later step spares them (`Spares`)
  or takes them off the list, and an expansion changes only the columns a relationship that is not disabled joins;
  `FiltersHoldAlways`, if `PrintsInFull` and no argument filters a column of a relationship (`NoJoinFilters`). `SaidInv` says
  that off the join columns the context has exactly what was asked for, and that only join columns are
  ever marked as derived, so stripping takes nothing that was said. The second condition cannot be
  dropped: `query_join` is what happens without it. The run `query` satisfies both.
  `ExpansionProgressesAlways`, without any condition: `Cuts` composes over the two directions of a relationship and over
  the relationships of a pass, and a merge that cuts nothing is one that reports no change (`MergedCuts`).
  `NothingStaleFiltersAlways`, if moreover columns and values are finitely many (`Finitely`) and no ALLSELECTED restores a
  join column (`NoJoinsSelected`; what happens without it is told below). It compares an expansion that starts
  from what an earlier one left, merges column by column and caches its reads with `Reference`, a greatest
  fixpoint computed from scratch. `Reference` is a recursive function: as a fixpoint it has its partners
  among itself (`ReferenceIsClosed`) and contains every set of rows that has (`ReferenceIsGreatest`), and `Flow` is
  the least set of tables closed under the flow of filters. `StaleInv` says that a join column has no filter but
  a marked one (`Clean`), so that stripping gives back exactly what was asked for (`StripIsAsked`);
  that an expansion never hides a row of the reference and filters only tables in `Flow` (`Follows`, kept by `MergedFollows`:
  the partner of a reference row is itself visible, so its value is among those merged); and that a relationship a pass
  is through with would change nothing again (`Settled`, from `FlowStill`) unless the pass asks for another. When a pass has changed
  nothing, the visible rows have their partners among themselves, so they are in the reference
  (`SettledIsReference`), and the two are the same.
* **CatalogProofs.** `CatalogInv` has four parts, for tables, columns, measures and relationships: each
  order list has the keys of its map, once each, and whatever refers to a table refers to one that is there. It is inductive
  (`CatalogInvAlways`) with one lemma per command; *CatalogTypeOK*, *OrdersAgree* and *NoOrphans* follow from it, for any names
  and any number of objects. The hard step is `SaveAndLoad`: `from_model` must make a catalog out of any file whose
  names are different (`IsFile`), and `to_tmsl_model` such a file out of any catalog
  (`IsSaved`). `RoundTripAlways` then compares the two: tables and columns come back in their order (`TablesComeBack`);
  measures are concatenated table by table, so their order changes, but filtering the new order by a table gives what
  filtering the old one gives (`MeasuresComeBack`), so the next save writes the same file (`SavedTheSame`).
  `StaysLoadableAlways` is the action property *TableCommandsKeepItLoadable*: what the loader rejects of a saved file is said of the
  catalog itself (`Loadable`, `LoadsMeans`), and commands on tables keep that because sort columns and
  relationships are deleted and renamed with their table. What `Vec::retain` and
  an iterator's filter do to a list is `Only` in Tmsl, a recursive function: the lemmas on it
  (it keeps order, distributes over concatenation, keeps what is all in, forgets what is not) are proved by
  induction over its steps.
* **DiscoverProofs.** `RowsetsAgreeAlways` follows from `CatalogInv` alone, for any names hidden. `IdsResolveAlways` has two
  hypotheses that the code does not see to: no file has two relationships of one name (`DistinctRelationships`;
  `create_relationship` refuses that, `from_model` does not, and commands keep it: `NamesDiffer` is inductive beside `CatalogInv`), and no table has
  more columns than the stride of the IDs (`NarrowTables`). `SplitReadsAlways` is the action property about two responses with a
  command between them: which tables and columns keep their place in the lists, one lemma per kind of command.
* **Recursions.** What the two modules above and EvaluationProofs need of recursive functions. Induction over an operator is not to be had
  from the library, so `Induction` is stated for a set of numbers and follows from their
  well-foundedness; `Recursion` and `Iteration` give the function that a recursive definition means, and
  `GrowingSettles` and `ShrinkingSettles` say that an iteration which only adds to a finite set, or only takes from one, has
  reached its fixpoint after as many steps as the set has elements.

Only model-checked, and why:

* the liveness properties: fairness and ENABLED are beyond TLAPS here;
* *SettledFileIsServed*, *StampNeverAhead* and *ImplementsAtomicModel*
  are theorems for one editor at a time only, which is when they hold;
* the six properties of MdxQuery, and with them everything on JoinPath, Dax, Summarize, Mdx, DaxGen and Cellset: these are
  RECURSIVE operators over trees and sequences (the search for a path, the evaluation of an expression and of a set),
  with which the SMT backend does not work, in these modules or in any that extends them.

## What the runs found

* `lost_update`: two concurrent `apply_commands` calls both succeed and one edit
  is gone, in memory and on disk (`dax_provider.rs:209` clones, `:235` installs).
* `stale_measures`: `apply_commands` installs the edited catalog with the resolved measures
  of the old one; queries go on computing the old expressions until a reload.
* `runtime_unlimited`: with `max_concurrency` 0, the default, queries that wait
  for the lock occupy all workers while a refresh holds it and waits for a worker
  to fetch remote files: nothing goes on. A limit
  below the number of workers prevents it (proved).
* `query_join`: a filter on a foreign key beside one on its dimension. `merge_filter` marks
  the key as derived (`context.rs:874`), the next expansion strips it, and rows the first filter excludes are seen.
* `blank_members`: `reload_tables` tests `from_table` where the two other loaders test `to_table`
  (`context.rs:605`), so a refresh takes the blank member row from the dimensions and
  gives one to the fact tables.

Met while modelling, followed by the models, and kept out of the statements of `mdx` and the modifiers of `query`
because the code departs there from what the properties say:

* A CALCULATE inside one that filters a dimension, with `ALLSELECTED` of the fact table and `ALL` of the filtered
  column. `apply_allselected_modifier` copies the filters of the calling context (`filter.rs:236`), those derived
  from the dimension included, after `remove_table` has taken their marks (`context.rs:117`). Nothing strips the copy any more, and the fact
  table stays filtered by a dimension that shows all its rows: the stale entry that the comment at `context.rs:65` says cannot
  linger. With `[kind |-> "allSelected", table |-> "F"]` among the modifiers of `query`, TLC finds *NothingStaleFilters* violated.
* A slicer or a rollup restriction that contains the blank member matches nothing: the
  filters are semi-joins, in which a null equals nothing.
* Two restrictions on columns of one table: the second FILTER argument replaces the override of the first.
* A hierarchy that stands twice in a statement, or whose children are counted under a slicer on it.
* A measure with CALCULATE whose predicate replaces a filter that comes from a subselect on the same column:
  the override stays.
* Combinations of members without joined rows have no group, so a measure that would not be blank there
  has no cell.
* Tabular answers show subtotals as blank members, and fail if every hierarchy stands at All.
* In a snowflake, a join picks the column of an earlier table if it has the same name (`summarize.rs:181`); facts
  without a partner never pass a propagated filter.
* `RELATED` of a column of the table that is iterated has an empty path, whose first step the code
  takes unconditionally (`relationship.rs:312`): a panic in the handler.

## What is not modelled

* **DAX parser and IR builder.** Pure translations of text; expressions enter the models as the trees they make.
* **Expression evaluator.** `VAR`, strings, dates, `EARLIER`, type errors, overflow of integers. A column that is
  not in scope falls back to any table in scope with a column of that name (`evaluator.rs:85`): columns here
  belong to one table.
* **Table and iterator functions, function library.** `TOPN`, `ADDCOLUMNS`, `SELECTCOLUMNS`, `SAMPLE`, `SUMMARIZE` with native aggregations,
  `AVERAGEX` and other division (TLC has no fractions), `UNION` (a bag; rows are sets here), functions of numbers, strings and dates.
* **XMLA wire format, HTTP routing, JSON.** Formatting; each request is one read in ModelStore.
* **MDX.** The grammar, aliases, and the default branch of the set functions beyond those listed in EvalSet.
* **Configuration and storage.** Settings read once, operators built from them.
* **Startup.** The numbering of models of equal names, one pass over the arguments.
* **Demo data generator.** A separate program.
* Within modelled parts: `RenameModel`, `SetModelProperty` and the plain fields of objects,
  which overwrite one value nothing else depends on; the failure of `sync_tables_without_data` inside
  `apply_commands`, which *OrdersAgree* excludes for catalogs that commands can make; the upstream
  search of lineage, the walk of the downstream search along the edges reversed.
