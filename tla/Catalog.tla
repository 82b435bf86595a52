-------------------------------- MODULE Catalog --------------------------------
(***************************************************************************)
(* The commands on a catalog (dax_provider.rs, apply_command, and the      *)
(* methods of Catalog in catalog/mod.rs).  An action is a command that     *)
(* succeeds; its guard is what the method checks before it changes         *)
(* anything, so a command that fails changes nothing.                      *)
(*                                                                         *)
(* Of the properties of objects only the ones kept in maps of their own    *)
(* are here, as the sets of objects that have them.                        *)
(***************************************************************************)
EXTENDS Tmsl

CONSTANTS
    Tables, Columns, Measures, Relationships,   \* names
    Types, Exprs,
    InitialModels,     \* model files the server may start from
    MaxObjects         \* bound on all objects of a catalog together

Relations == [name : Relationships, from : Tables \X Columns,
              to : Tables \X Columns, active : BOOLEAN]

\* TMSL models: what the types in loaders/tmsl/model.rs can hold.
Models ==
    [tables : Seq([name      : Tables,
                   described : BOOLEAN,
                   columns   : Seq([name : Columns, type : Types, sortBy : Columns \cup {NoColumn}]),
                   measures  : Seq([name : Measures, expr : Exprs, formatted : BOOLEAN])]),
     relationships : Seq(Relations)]

ASSUME InitialModelsLoad ==
    \A m \in InitialModels :
        /\ m \in Models
        /\ Loads(m) /\ IsInjective(NamesOf(m.tables))
        /\ \A t \in ToSet(m.tables) :
              IsInjective(NamesOf(t.columns)) /\ IsInjective(NamesOf(t.measures))

VARIABLES tableOrder, tables, described, columnOrder, columns,
          measureOrder, measures, measureTables, formatted, relationships

vars == <<tableOrder, tables, described, columnOrder, columns,
          measureOrder, measures, measureTables, formatted, relationships>>

tableVars    == <<tableOrder, tables, described>>
columnVars   == <<columnOrder, columns>>
measureVars  == <<measureOrder, measures, measureTables, formatted>>

Current ==
    [tableOrder    |-> tableOrder,    tables       |-> tables,
     described     |-> described,     columnOrder  |-> columnOrder,
     columns       |-> columns,
     measureOrder  |-> measureOrder,  measures     |-> measures,
     measureTables |-> measureTables, formatted    |-> formatted,
     relationships |-> relationships]

\* The bound on what commands may create.
RoomForMore ==
    Cardinality(tables) + Cardinality(DOMAIN columns) + Cardinality(DOMAIN measures)
        + Len(relationships) < MaxObjects

\* f without and with a key; f with key old moved to new.
Drop(f, k)      == Restrict(f, DOMAIN f \ {k})
Put(f, k, v)    == [x \in DOMAIN f \cup {k} |-> IF x = k THEN v ELSE f[x]]
MoveKey(f, old, new) ==
    IF old \in DOMAIN f THEN Put(Drop(f, old), new, f[old]) ELSE f
MoveMember(S, old, new) == IF old \in S THEN (S \ {old}) \cup {new} ELSE S

\* S, or S without x, with x in it.
SetMember(S, x, in) == IF in THEN S \cup {x} ELSE S \ {x}

------------------------------------------------------------------------------
(* Tables.                                                                  *)

CreateTable(t) ==
    /\ t \notin tables /\ RoomForMore
    /\ tableOrder' = Append(tableOrder, t)
    /\ columnOrder' = Put(columnOrder, t, <<>>)
    /\ tables' = tables \cup {t}
    /\ UNCHANGED <<described, columns, measureVars, relationships>>

\* Mutant of Touches: only the many side of a relationship counts.
TouchesFrom(r, t) == r.from[1] = t

Touches(r, t) == r.from[1] = t \/ r.to[1] = t

\* Mutant of OrderDropped: the entry in column_order stays.
OrderKept(t) == columnOrder

OrderDropped(t) == Drop(columnOrder, t)

\* The columns go by way of column_order.
DeleteTable(t) ==
    LET own  == {n \in DOMAIN measureTables : measureTables[n] = t}
        cols == IF t \in DOMAIN columnOrder THEN ToSet(columnOrder[t]) ELSE {} IN
    /\ t \in tables
    /\ columnOrder' = OrderDropped(t)
    /\ columns' = Restrict(columns, {k \in DOMAIN columns : k \notin {t} \X cols})
    /\ tableOrder' = Without(tableOrder, {t})
    /\ tables' = tables \ {t}
    /\ described' = described \ {t}
    /\ measures' = Restrict(measures, DOMAIN measures \ own)
    /\ measureTables' = Restrict(measureTables, DOMAIN measureTables \ own)
    /\ formatted' = formatted \ own
    /\ measureOrder' = Without(measureOrder, own)
    /\ relationships' = Without(relationships, {r \in ToSet(relationships) : Touches(r, t)})

\* Mutant of Rehomed: measures keep the name of the table they were made in.
RehomedNot(old, new) == measureTables

\* measure_tables once table old is called new.
Rehomed(old, new) ==
    [n \in DOMAIN measureTables |->
        IF measureTables[n] = old THEN new ELSE measureTables[n]]

RenameTable(old, new) ==
    LET key(k) == IF k[1] = old THEN <<new, k[2]>> ELSE k IN
    /\ old \in tables /\ new \notin tables
    /\ tableOrder' = ReplaceAll(tableOrder, old, new)
    /\ columnOrder' = MoveKey(columnOrder, old, new)
    /\ columns' = [k \in {key(j) : j \in DOMAIN columns} |->
                     columns[CHOOSE j \in DOMAIN columns : key(j) = k]]
    /\ tables' = MoveMember(tables, old, new)
    /\ described' = MoveMember(described, old, new)
    /\ measureTables' = Rehomed(old, new)
    /\ relationships' = [i \in DOMAIN relationships |->
                           [relationships[i] EXCEPT !.from = key(@), !.to = key(@)]]
    /\ UNCHANGED <<measureOrder, measures, formatted>>

\* Set or clear an optional property.
SetTableDescription(t, value) ==
    /\ t \in tables
    /\ described' = SetMember(described, t, value)
    /\ UNCHANGED <<tableOrder, tables, columnVars, measureVars, relationships>>

------------------------------------------------------------------------------
(* Columns.                                                                 *)

AddColumn(t, c, type) ==
    /\ t \in tables /\ <<t, c>> \notin DOMAIN columns
    /\ RoomForMore
    /\ columnOrder' = IF t \in DOMAIN columnOrder
                      THEN [columnOrder EXCEPT ![t] = Append(@, c)]
                      ELSE Put(columnOrder, t, <<c>>)
    /\ columns' = Put(columns, <<t, c>>, [type |-> type, sortBy |-> NoColumn])
    /\ UNCHANGED <<tableVars, measureVars, relationships>>

\* Relationships and sort columns that name the column keep doing so.
DeleteColumn(t, c) ==
    /\ <<t, c>> \in DOMAIN columns
    /\ columns' = Drop(columns, <<t, c>>)
    /\ columnOrder' = [columnOrder EXCEPT ![t] = Without(@, {c})]
    /\ UNCHANGED <<tableVars, measureVars, relationships>>

\* Mutant of OrderRenamed: column_order keeps the old name.
OrderNotRenamed(t, old, new) == columnOrder

OrderRenamed(t, old, new) == [columnOrder EXCEPT ![t] = ReplaceAll(@, old, new)]

RenameColumn(t, old, new) ==
    /\ <<t, old>> \in DOMAIN columns /\ <<t, new>> \notin DOMAIN columns
    /\ columns' = MoveKey(columns, <<t, old>>, <<t, new>>)
    /\ columnOrder' = OrderRenamed(t, old, new)
    /\ UNCHANGED <<tableVars, measureVars, relationships>>

ChangeColumnType(t, c, type) ==
    /\ <<t, c>> \in DOMAIN columns
    /\ columns' = [columns EXCEPT ![<<t, c>>].type = type]
    /\ UNCHANGED <<columnOrder, tableVars, measureVars, relationships>>

SetColumnSortBy(t, c, sortBy) ==
    /\ sortBy = NoColumn \/ <<t, sortBy>> \in DOMAIN columns
    /\ <<t, c>> \in DOMAIN columns
    /\ columns' = [columns EXCEPT ![<<t, c>>].sortBy = sortBy]
    /\ UNCHANGED <<columnOrder, tableVars, measureVars, relationships>>

------------------------------------------------------------------------------
(* Measures.                                                                *)

CreateMeasure(t, n, expr, format) ==
    /\ t \in tables /\ n \notin DOMAIN measures /\ RoomForMore
    /\ measures' = Put(measures, n, expr)
    /\ measureTables' = Put(measureTables, n, t)
    /\ measureOrder' = Append(measureOrder, n)
    /\ formatted' = IF format THEN formatted \cup {n} ELSE formatted
    /\ UNCHANGED <<tableVars, columnVars, relationships>>

DeleteMeasure(n) ==
    /\ n \in DOMAIN measures
    /\ measures' = Drop(measures, n)
    /\ measureTables' = Drop(measureTables, n)
    /\ measureOrder' = Without(measureOrder, {n})
    /\ formatted' = formatted \ {n}
    /\ UNCHANGED <<tableVars, columnVars, relationships>>

RenameMeasure(old, new) ==
    /\ old \in DOMAIN measures /\ new \notin DOMAIN measures
    /\ measures' = MoveKey(measures, old, new)
    /\ measureTables' = MoveKey(measureTables, old, new)
    /\ measureOrder' = ReplaceAll(measureOrder, old, new)
    /\ formatted' = MoveMember(formatted, old, new)
    /\ UNCHANGED <<tableVars, columnVars, relationships>>

UpdateMeasureExpression(n, expr) ==
    /\ n \in DOMAIN measures
    /\ measures' = [measures EXCEPT ![n] = expr]
    /\ UNCHANGED <<measureOrder, measureTables, formatted, tableVars, columnVars,
                   relationships>>

SetMeasureFormatString(n, value) ==
    /\ n \in DOMAIN measures
    /\ formatted' = SetMember(formatted, n, value)
    /\ UNCHANGED <<measureOrder, measures, measureTables, tableVars, columnVars,
                   relationships>>

------------------------------------------------------------------------------
(* Relationships.                                                           *)

\* The types of the two columns are not compared.
CreateRelationship(r) ==
    /\ \A i \in DOMAIN relationships : relationships[i].name # r.name
    /\ r.from \in DOMAIN columns /\ r.to \in DOMAIN columns /\ RoomForMore
    /\ relationships' = Append(relationships, r)
    /\ UNCHANGED <<tableVars, columnVars, measureVars>>

DeleteRelationship(name) ==
    /\ \E i \in DOMAIN relationships : relationships[i].name = name
    /\ relationships' = RemoveFirstMatch(relationships, LAMBDA r : r.name = name)
    /\ UNCHANGED <<tableVars, columnVars, measureVars>>

\* The flags of a relationship, is_active and bidirectional, as one.
UpdateRelationship(name, active) ==
    LET i == SelectInSeq(relationships, LAMBDA r : r.name = name) IN
    /\ i # 0
    /\ relationships' = [relationships EXCEPT ![i].active = active]
    /\ UNCHANGED <<tableVars, columnVars, measureVars>>

------------------------------------------------------------------------------
(* save_tmsl_to_op followed by load_tmsl_from_op.                           *)

Become(c) ==
    /\ tableOrder' = c.tableOrder       /\ tables' = c.tables
    /\ described' = c.described         /\ columnOrder' = c.columnOrder
    /\ columns' = c.columns
    /\ measureOrder' = c.measureOrder   /\ measures' = c.measures
    /\ measureTables' = c.measureTables /\ formatted' = c.formatted
    /\ relationships' = c.relationships

SaveAndLoad == Loads(ToModel(Current)) /\ Become(FromModel(ToModel(Current)))

------------------------------------------------------------------------------
InitFrom(c) ==
    /\ tableOrder = c.tableOrder       /\ tables = c.tables
    /\ described = c.described         /\ columnOrder = c.columnOrder
    /\ columns = c.columns
    /\ measureOrder = c.measureOrder   /\ measures = c.measures
    /\ measureTables = c.measureTables /\ formatted = c.formatted
    /\ relationships = c.relationships

Init == \E m \in InitialModels : InitFrom(FromModel(m))

TableCommand ==
    \E t \in Tables :
        \/ CreateTable(t) \/ DeleteTable(t)
        \/ \E u \in Tables : RenameTable(t, u)
        \/ \E value \in BOOLEAN : SetTableDescription(t, value)

ColumnCommand ==
    \E t \in Tables, c \in Columns :
        \/ \E type \in Types : AddColumn(t, c, type) \/ ChangeColumnType(t, c, type)
        \/ DeleteColumn(t, c)
        \/ \E new \in Columns : RenameColumn(t, c, new)
        \/ \E sortBy \in Columns \cup {NoColumn} : SetColumnSortBy(t, c, sortBy)

MeasureCommand ==
    \E n \in Measures :
        \/ \E t \in Tables, expr \in Exprs, format \in BOOLEAN :
              CreateMeasure(t, n, expr, format)
        \/ DeleteMeasure(n)
        \/ \E new \in Measures : RenameMeasure(n, new)
        \/ \E expr \in Exprs : UpdateMeasureExpression(n, expr)
        \/ \E value \in BOOLEAN : SetMeasureFormatString(n, value)

RelationshipCommand ==
    \/ \E r \in {q \in Relations : {q.from, q.to} \subseteq DOMAIN columns} :
          CreateRelationship(r)
    \/ \E name \in Relationships :
          \/ DeleteRelationship(name)
          \/ \E active \in BOOLEAN : UpdateRelationship(name, active)

Next == \/ TableCommand \/ ColumnCommand \/ MeasureCommand
        \/ RelationshipCommand \/ SaveAndLoad

Spec == Init /\ [][Next]_vars

------------------------------------------------------------------------------
(* Properties.                                                              *)

\* The values the variables take; every table has its list of columns.
CatalogTypeOK ==
    /\ tables \in SUBSET Tables /\ tableOrder \in Seq(Tables)
    /\ DOMAIN columnOrder = tables
    /\ \A t \in tables : columnOrder[t] \in Seq(Columns)
    /\ DOMAIN columns \subseteq Tables \X Columns
    /\ \A k \in DOMAIN columns :
          columns[k] \in [type : Types, sortBy : Columns \cup {NoColumn}]
    /\ measureOrder \in Seq(Measures)
    /\ \A n \in DOMAIN measures : measures[n] \in Exprs
    /\ relationships \in Seq(Relations)

\* The order lists and the maps name the same objects, each once: what is in
\* a map only would be lost by the next save, what is listed twice would come
\* back twice.
OrdersAgree ==
    /\ IsInjective(tableOrder) /\ ToSet(tableOrder) = tables
    /\ \A t \in tables :
          /\ IsInjective(columnOrder[t])
          /\ ToSet(columnOrder[t]) = {c \in Columns : <<t, c>> \in DOMAIN columns}
    /\ \A k \in DOMAIN columns : k[1] \in tables
    /\ IsInjective(measureOrder) /\ ToSet(measureOrder) = DOMAIN measures

\* Nothing outlives the object it belongs to, so a new object of an old name
\* inherits nothing: measures and relationships are of tables that exist, and
\* properties of objects that exist.
NoOrphans ==
    /\ DOMAIN measureTables = DOMAIN measures
    /\ \A n \in DOMAIN measureTables : measureTables[n] \in tables
    /\ described \subseteq tables
    /\ formatted \subseteq DOMAIN measures
    /\ \A i \in DOMAIN relationships :
          {relationships[i].from[1], relationships[i].to[1]} \subseteq tables

\* Whatever commands made it, a catalog that is saved and loaded again is the
\* same but for the order of measures of different tables, and the next save
\* writes the same file (docs/TMSL.md: "round-trips all fields").
RoundTrip ==
    LET m == ToModel(Current)
        c == FromModel(m)
    IN Loads(m) => /\ ToModel(c) = m
                   /\ \A f \in DOMAIN Current \ {"measureOrder"} : c[f] = Current[f]

\* Tables and measures may be created, renamed, changed and deleted in any
\* order without turning a model the loader takes into one it refuses; only
\* commands on columns and new relationships can.
TableCommandsKeepItLoadable ==
    [][TableCommand \/ MeasureCommand =>
          (Loads(ToModel(Current)) => Loads(ToModel(Current))')]_vars
==============================================================================
