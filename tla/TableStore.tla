------------------------------ MODULE TableStore ------------------------------
(***************************************************************************)
(* The data frames behind a catalog (engine/context.rs).  Three operations *)
(* fill the map from table names to frames: try_new when a model is        *)
(* loaded, reload_tables when its data is refreshed, and                   *)
(* sync_tables_without_data after commands, which looks only at tables     *)
(* that have no data source.  Queries look names up in this map.           *)
(*                                                                         *)
(* Each operation runs under the engine's write lock or before the engine  *)
(* is installed, so it is one step; how these steps interleave is          *)
(* ModelStore's subject.  A load that fails changes nothing and is no      *)
(* step.  A request that holds several commands synchronises once, at its  *)
(* end; here each has one command.                                         *)
(***************************************************************************)
EXTENDS Functions

CONSTANTS
    Tables, Columns, Files, Relationships,   \* names
    Contents,           \* the sets of columns a data file may have
    NoSource,           \* the empty data source of a table made by a command
    InitialCatalogs     \* models the server may start with

VARIABLES
    cat,      \* source: data_sources; columns: the keys of columns; relationships
    tables,   \* ctx.tables: the frames by table name
    files     \* the columns of each parquet file

tableVars == <<cat, tables, files>>

Keys == Tables \X Columns

IsCatalog(c) ==
    /\ DOMAIN c = {"source", "columns", "relationships"}
    /\ DOMAIN c.source \subseteq Tables
    /\ \A t \in DOMAIN c.source : c.source[t] \in Files \cup {NoSource}
    /\ c.columns \subseteq (DOMAIN c.source) \X Columns
    /\ c.relationships \subseteq [name : Relationships, from : Keys, to : Keys]

ASSUME TableStoreAssumption ==
    /\ NoSource \notin Files
    /\ Contents \subseteq (SUBSET Columns) \ {{}}
    /\ \A c \in InitialCatalogs : IsCatalog(c)

Frames == [origin : Files \cup {NoSource}, columns : SUBSET Columns, blank : BOOLEAN]

------------------------------------------------------------------------------
(* Loading one table.                                                       *)

ColumnsOf(c, t) == {n \in Columns : <<t, n>> \in c.columns}

OneSide(c, t) == \E r \in c.relationships : r.to[1] = t
ManySide(c, t) == \E r \in c.relationships : r.from[1] = t

\* Mutant of Dataless: no table is taken for one without a data source.
DatalessNone(c) == {}

Dataless(c) == {t \in DOMAIN c.source : c.source[t] = NoSource}

\* Mutant of Fits: the columns of a file are not compared with the model.
FitsAlways(c, t) == TRUE

\* validate_table_schema: what the model declares is in the file.
Fits(c, t) ==
    c.source[t] # NoSource => ColumnsOf(c, t) \subseteq files[c.source[t]]

\* Mutant of EmptyTable: the frame of an earlier table of that name is kept.
EmptyTableKept(c, t, blank) ==
    IF t \in DOMAIN tables THEN tables[t]
    ELSE [origin |-> NoSource, columns |-> ColumnsOf(c, t), blank |-> FALSE]

\* No rows, and as many columns as the model declares; a blank member row is
\* added to a frame that has columns.
EmptyTable(c, t, blank) ==
    [origin |-> NoSource, columns |-> ColumnsOf(c, t),
     blank |-> blank /\ ColumnsOf(c, t) # {}]

\* A file may have more columns than the model declares; all of them stay.
LoadTable(c, t, blank) ==
    IF c.source[t] = NoSource THEN EmptyTable(c, t, blank)
    ELSE [origin |-> c.source[t], columns |-> files[c.source[t]], blank |-> blank]

------------------------------------------------------------------------------
(* The operations.                                                          *)

LoadedNew(c) == [t \in DOMAIN c.source |-> LoadTable(c, t, OneSide(c, t))]

AllFit(c) == \A t \in DOMAIN c.source : Fits(c, t)

\* from_model: relationships are between declared columns.
Declared(c) == \A r \in c.relationships : {r.from, r.to} \subseteq c.columns

\* reload_model: from_model, then try_new.
Reload ==
    /\ Declared(cat) /\ AllFit(cat)
    /\ tables' = LoadedNew(cat)
    /\ UNCHANGED <<cat, files>>

\* reload_tables.  The blank member goes to the many side.
Refresh ==
    /\ AllFit(cat)
    /\ tables' = [t \in DOMAIN cat.source |-> LoadTable(cat, t, ManySide(cat, t))]
    /\ UNCHANGED <<cat, files>>

\* sync_tables_without_data: frames of other tables stay, of those no longer
\* in the catalog too.
Synced(c) ==
    [t \in DOMAIN tables \cup Dataless(c) |->
        IF t \in Dataless(c) THEN EmptyTable(c, t, OneSide(c, t)) ELSE tables[t]]

\* The end of apply_commands: the edited catalog is c.
Install(c) ==
    /\ cat' = c
    /\ tables' = Synced(c)
    /\ UNCHANGED files

\* Somebody writes a new version of a data file.
Rewrite(f) ==
    \E columns \in Contents :
        /\ files' = [files EXCEPT ![f] = columns]
        /\ UNCHANGED <<cat, tables>>

------------------------------------------------------------------------------
(* The commands (catalog/mod.rs), as far as tables depend on them.          *)

CreateTable(t) ==
    /\ t \notin DOMAIN cat.source
    /\ Install([cat EXCEPT !.source =
                   [u \in DOMAIN @ \cup {t} |-> IF u = t THEN NoSource ELSE @[u]]])

\* Mutant of DeleteTable: the columns are forgotten.
DeleteTableOnly(t) ==
    /\ t \in DOMAIN cat.source
    /\ Install([cat EXCEPT !.source = Restrict(@, DOMAIN @ \ {t}),
                           !.relationships = {r \in @ : r.from[1] # t /\ r.to[1] # t}])

DeleteTable(t) ==
    /\ t \in DOMAIN cat.source
    /\ Install([source        |-> Restrict(cat.source, DOMAIN cat.source \ {t}),
                columns       |-> {k \in cat.columns : k[1] # t},
                relationships |-> {r \in cat.relationships :
                                      r.from[1] # t /\ r.to[1] # t}])

\* The frame stays under the old name.
RenameTable(old, new) ==
    LET name(t) == IF t = old THEN new ELSE t
        key(k)  == <<name(k[1]), k[2]>> IN
    /\ old \in DOMAIN cat.source /\ new \notin DOMAIN cat.source
    /\ Install([source        |-> [t \in (DOMAIN cat.source \ {old}) \cup {new} |->
                                     cat.source[IF t = new THEN old ELSE t]],
                columns       |-> {key(k) : k \in cat.columns},
                relationships |-> {[r EXCEPT !.from = key(@), !.to = key(@)] :
                                      r \in cat.relationships}])

AddColumn(t, n) ==
    /\ t \in DOMAIN cat.source /\ <<t, n>> \notin cat.columns
    /\ Install([cat EXCEPT !.columns = @ \cup {<<t, n>>}])

DeleteColumn(t, n) ==
    /\ <<t, n>> \in cat.columns
    /\ Install([cat EXCEPT !.columns = @ \ {<<t, n>>}])

RenameColumn(t, old, new) ==
    /\ <<t, old>> \in cat.columns /\ <<t, new>> \notin cat.columns
    /\ Install([cat EXCEPT !.columns = (@ \ {<<t, old>>}) \cup {<<t, new>>}])

CreateRelationship(name, from, to) ==
    /\ \A r \in cat.relationships : r.name # name
    /\ {from, to} \subseteq cat.columns
    /\ Install([cat EXCEPT !.relationships =
                   @ \cup {[name |-> name, from |-> from, to |-> to]}])

DeleteRelationship(r) ==
    /\ r \in cat.relationships
    /\ Install([cat EXCEPT !.relationships = @ \ {r}])

------------------------------------------------------------------------------
TableInit ==
    /\ cat \in InitialCatalogs
    /\ files \in [Files -> Contents]
    /\ Declared(cat) /\ AllFit(cat)
    /\ tables = LoadedNew(cat)

RenamesTable == \E t, u \in Tables : RenameTable(t, u)

TableNext ==
    \/ \E t \in Tables : CreateTable(t) \/ DeleteTable(t)
    \/ RenamesTable
    \/ \E t \in Tables, n \in Columns :
          \/ AddColumn(t, n) \/ DeleteColumn(t, n)
          \/ \E m \in Columns : RenameColumn(t, n, m)
    \/ \E name \in Relationships, from, to \in Keys : CreateRelationship(name, from, to)
    \/ \E r \in cat.relationships : DeleteRelationship(r)
    \/ Refresh \/ Reload
    \/ \E f \in Files : Rewrite(f)

TableSpec == TableInit /\ [][TableNext]_tableVars

------------------------------------------------------------------------------
(* Properties.                                                              *)

\* The values the variables take.
TableTypeOK ==
    /\ IsCatalog(cat)
    /\ DOMAIN tables \subseteq Tables
    /\ \A t \in DOMAIN tables : tables[t] \in Frames
    /\ files \in [Files -> Contents]

\* A table without a data source can be queried straight away (context.rs:
\* "so tables and columns added by commands can be queried straight away"):
\* it is in memory with the columns of the catalog and no data, also if its
\* name has belonged to a table with data.
DatalessTablesFollowTheCatalog ==
    \A t \in Dataless(cat) :
        /\ t \in DOMAIN tables
        /\ tables[t].origin = NoSource
        /\ tables[t].columns = ColumnsOf(cat, t)

\* A load that succeeds repairs whatever commands have left in memory: it has
\* the tables of the model and no others, each from its own file and with
\* every column the model declares.
LoadsServeTheModel ==
    [][Refresh \/ Reload =>
          /\ DOMAIN tables' = DOMAIN cat.source
          /\ \A t \in DOMAIN cat.source :
                /\ tables'[t].origin = cat.source[t]
                /\ ColumnsOf(cat, t) \subseteq tables'[t].columns]_tableVars

\* What queries of a table read is the file the model names
\* (docs/TMSL.md: dataSource is the "Path to the backing Parquet file").
BackedByItsSource ==
    \A t \in DOMAIN cat.source \cap DOMAIN tables : tables[t].origin = cat.source[t]

\* Among all operations only the renaming of a table can make a query read
\* the file of another one.
OnlyRenamesMixTablesUp ==
    [][BackedByItsSource /\ ~RenamesTable => BackedByItsSource']_tableVars

\* Every load gives the dimensions, and nobody else, a blank member row
\* (context.rs: "Dimension tables (the "one"/toTable side of a relationship)
\* always carry a blank member row").
LoadsGiveBlankMembers ==
    [][Refresh \/ Reload =>
          \A t \in DOMAIN tables' : tables'[t].columns # {} =>
              (tables'[t].blank <=> OneSide(cat, t))]_tableVars
==============================================================================
