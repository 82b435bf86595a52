-------------------------------- MODULE Discover --------------------------------
(***************************************************************************)
(* What the XMLA endpoint says of a catalog (server/xmla/handlers.rs): the *)
(* rowsets of the MDSCHEMA, TMSCHEMA and DBSCHEMA requests and the two     *)
(* metadata documents.  A client puts a picture of the model together from *)
(* several of them, and each is computed from lists that were read under   *)
(* locks of their own (resolve_tables, resolve_measures and                *)
(* resolve_relationships in server/xmla/mod.rs).                           *)
(*                                                                         *)
(* A rowset is the set of its rows; a row has the cells that name or       *)
(* number an object or show it hidden.  A unique name is the sequence of   *)
(* its parts: [t].[c].[All] is <<t, c, "All">>.  The model has one name,   *)
(* and the cells for it are left out.                                      *)
(***************************************************************************)
EXTENDS Catalog

------------------------------------------------------------------------------
(* list_tables, list_measures and list_relationships.  The flags IsHidden   *)
(* and IsKey are not in Catalog: hidden and keys are the sets of what has   *)
(* them, a column as (table, column).                                       *)

ListTables(c, hidden, keys) ==
    LET listed == Only(c.tableOrder, DOMAIN c.columnOrder)
        known(t) == Only(c.columnOrder[t], {k[2] : k \in {j \in DOMAIN c.columns : j[1] = t}})
    IN  [i \in DOMAIN listed |->
           LET t == listed[i]
               names == known(t) IN
           [name |-> t, hidden |-> t \in hidden,
            columns |-> [j \in DOMAIN names |->
                           [name   |-> names[j],
                            sortBy |-> c.columns[<<t, names[j]>>].sortBy,
                            hidden |-> <<t, names[j]>> \in hidden,
                            key    |-> <<t, names[j]>> \in keys]]]]

ListMeasures(c, hidden) ==
    LET listed == Only(c.measureOrder, DOMAIN c.measures)
    IN  [i \in DOMAIN listed |->
           [name |-> listed[i], table |-> c.measureTables[listed[i]],
            hidden |-> listed[i] \in hidden]]

ListRelationships(c) == c.relationships

\* Tables, columns by their places: those listed, those of visible tables,
\* those visible in visible tables.
Places(T)      == UNION {{<<i, j>> : j \in DOMAIN T[i].columns} : i \in DOMAIN T}
OpenPlaces(T)  == {p \in Places(T) : ~T[p[1]].hidden}
ShownPlaces(T) == {p \in OpenPlaces(T) : ~T[p[1]].columns[p[2]].hidden}

KeyAt(T, p) == <<T[p[1]].name, T[p[1]].columns[p[2]].name>>

ShownTables(T)  == {i \in DOMAIN T : ~T[i].hidden}
ShownColumns(T) == {KeyAt(T, p) : p \in ShownPlaces(T)}

------------------------------------------------------------------------------
(* MDSCHEMA                                                                *)

\* Every table is a dimension, hidden or not; its first column, hidden or not,
\* is its default hierarchy.
Dimensions(T) ==
    {[name |-> <<"Measures">>, ordinal |-> 1, default |-> <<"Measures">>, visible |-> TRUE]}
    \cup {[name    |-> <<T[i].name>>,
           ordinal |-> i + 1,
           default |-> IF T[i].columns = <<>> THEN <<>>
                       ELSE <<T[i].name, T[i].columns[1].name>>,
           visible |-> ~T[i].hidden] : i \in DOMAIN T}

\* The numbers 2, 3, ... go to the columns of visible tables in order, the
\* hidden columns take theirs with them.
HierarchyOrdinal(T, p) ==
    1 + Cardinality({q \in OpenPlaces(T) : q[1] < p[1] \/ (q[1] = p[1] /\ q[2] <= p[2])})

Hierarchies(T) ==
    {[dimension |-> <<"Measures">>, name |-> <<"Measures">>, ordinal |-> 1,
      default |-> <<"Measures", "__Default measure">>, all |-> <<>>]}
    \cup {LET key == KeyAt(T, p) IN
          [dimension |-> <<key[1]>>, name |-> key, ordinal |-> HierarchyOrdinal(T, p),
           default |-> key \o <<"All">>, all |-> key \o <<"All">>] : p \in ShownPlaces(T)}

\* Mutant of Levels: only the table has to be visible.
LevelsOfOpenTables(T) ==
    {[hierarchy |-> <<"Measures">>, name |-> <<"Measures", "MeasuresLevel">>, number |-> 0]}
    \cup UNION {{[hierarchy |-> key, name |-> key \o <<"(All)">>, number |-> 0],
                 [hierarchy |-> key, name |-> key \o <<key[2]>>, number |-> 1]} :
                key \in {KeyAt(T, p) : p \in OpenPlaces(T)}}

Levels(T) ==
    {[hierarchy |-> <<"Measures">>, name |-> <<"Measures", "MeasuresLevel">>, number |-> 0]}
    \cup UNION {{[hierarchy |-> key, name |-> key \o <<"(All)">>, number |-> 0],
                 [hierarchy |-> key, name |-> key \o <<key[2]>>, number |-> 1]} :
                key \in ShownColumns(T)}

\* PROPERTY_TYPE 5, the member properties: one for each level.
MemberProperties(T) ==
    {[dimension |-> <<"Measures">>, hierarchy |-> <<"Measures">>,
      level |-> <<"Measures", "MeasuresLevel">>]}
    \cup UNION {{[dimension |-> <<key[1]>>, hierarchy |-> key, level |-> key \o <<"(All)">>],
                 [dimension |-> <<key[1]>>, hierarchy |-> key, level |-> key \o <<key[2]>>]} :
                key \in ShownColumns(T)}

\* measure_rows: all measures, and one that nobody can see and that belongs to
\* no group.
MeasureRows(M) ==
    {[name |-> <<"Measures", "__Default measure">>, groups |-> {}, visible |-> FALSE]}
    \cup {[name |-> <<"Measures", M[i].name>>, groups |-> {M[i].table},
           visible |-> ~M[i].hidden] : i \in DOMAIN M}

\* dmv_measures_rows: the same without that one.
DmvMeasureRows(M) == {r \in MeasureRows(M) : r.groups # {}}

MeasureGroups(T) == {T[i].name : i \in ShownTables(T)}

\* A table as a dimension of itself, known by its key column, else its first
\* column, else its own name.
FactDimension(t) ==
    LET keys == {j \in DOMAIN t.columns : t.columns[j].key} IN
    [group |-> t.name, dimension |-> <<t.name>>, fact |-> TRUE, path |-> <<>>,
     granularity |-> <<t.name, CASE keys # {} -> t.columns[Min(keys)].name
                                 [] keys = {} /\ t.columns # <<>> -> t.columns[1].name
                                 [] OTHER -> t.name>>]

\* Active relationships between visible tables, from the many side.
MeasureGroupDimensions(T, R) ==
    {FactDimension(T[i]) : i \in ShownTables(T)}
    \cup {[group |-> R[i].from[1], dimension |-> <<R[i].to[1]>>, fact |-> FALSE,
           path |-> <<R[i].to[1], R[i].from[1]>>, granularity |-> R[i].to] :
          i \in {j \in DOMAIN R : R[j].active /\ {R[j].from[1], R[j].to[1]} \subseteq MeasureGroups(T)}}

\* MDSCHEMA_MEMBERS of one member (TREE_OP 8): only the All member of a column
\* is ever found, that of a hidden column too.
Members(T, name) ==
    IF Len(name) >= 3 /\ name[3] = "All" /\ \E p \in Places(T) : KeyAt(T, p) = <<name[1], name[2]>>
    THEN {[hierarchy |-> <<name[1], name[2]>>, level |-> <<name[1], name[2], "(All)">>,
           name |-> <<name[1], name[2], "All">>]}
    ELSE {}

------------------------------------------------------------------------------
(* TMSCHEMA: objects are numbered by their places.                         *)

\* 0 if there is none.
TableId(T, t) == SelectInSeq(T, LAMBDA e : e.name = t)

\* The stride of column IDs: table i has the IDs from 1000 i + 1.
Stride == 1000

ColumnIdAt(p) == p[1] * Stride + p[2]

\* Mutant of ColumnId: the table of the column is not looked at.
ColumnIdByName(T, key) ==
    LET at == {p \in Places(T) : KeyAt(T, p)[2] = key[2]} IN
    IF at = {} THEN 0 ELSE ColumnIdAt(CHOOSE p \in at : TRUE)

\* Mutant of ColumnId: the columns are numbered through.
ColumnIdRunning(T, key) ==
    LET at == {p \in Places(T) : KeyAt(T, p) = key} IN
    Cardinality({q \in Places(T) : \E p \in at : q[1] < p[1] \/ (q[1] = p[1] /\ q[2] <= p[2])})

\* 0 if there is none.
ColumnId(T, key) ==
    LET at == {p \in Places(T) : KeyAt(T, p) = key} IN
    IF at = {} THEN 0 ELSE ColumnIdAt(CHOOSE p \in at : TRUE)

SchemaTables(T) == {[id |-> i, name |-> T[i].name, hidden |-> T[i].hidden] : i \in DOMAIN T}

SchemaColumns(T) ==
    {LET c == T[p[1]].columns[p[2]] IN
     [id |-> ColumnIdAt(p), table |-> p[1], name |-> c.name, ordinal |-> p[2] - 1,
      hidden |-> c.hidden, key |-> c.key,
      sortBy |-> ColumnId(T, <<T[p[1]].name, c.sortBy>>)] : p \in Places(T)}

\* A measure of an unknown table is shown in the first one.
SchemaMeasures(M, T) ==
    {[id |-> i, name |-> M[i].name, hidden |-> M[i].hidden,
      table |-> IF TableId(T, M[i].table) = 0 THEN 1 ELSE TableId(T, M[i].table)] : i \in DOMAIN M}

SchemaRelationships(R, T) ==
    {[id |-> i, name |-> R[i].name, active |-> R[i].active,
      fromTable |-> TableId(T, R[i].from[1]), fromColumn |-> ColumnId(T, R[i].from),
      toTable |-> TableId(T, R[i].to[1]), toColumn |-> ColumnId(T, R[i].to)] : i \in DOMAIN R}

SchemaPartitions(T) == {[id |-> i, table |-> i, name |-> T[i].name] : i \in DOMAIN T}

------------------------------------------------------------------------------
(* DBSCHEMA_TABLES: a visible table is a measure group and, with a dollar   *)
(* before its name, a dimension.  Its rows for the system are constant.     *)

DbschemaTables(T) ==
    UNION {{[name |-> <<T[i].name>>, type |-> "MEASURE_GROUP"],
            [name |-> <<"$", T[i].name>>, type |-> "CUBE_DIMENSION"]} : i \in ShownTables(T)}

------------------------------------------------------------------------------
(* DISCOVER_CSDL_METADATA (build_csdl) and DISCOVER_XML_METADATA            *)
(* (build_tom_xml).                                                         *)

\* The kinds of names an entity type declares.
EntityType(t, M, R) ==
    [name       |-> t.name,
     columns    |-> {t.columns[j].name : j \in DOMAIN t.columns},
     measures   |-> {M[i].name : i \in {k \in DOMAIN M : M[k].table = t.name}},
     navigation |-> {[relationship |-> R[i].name, from |-> R[i].from, to |-> R[i].to] :
                     i \in {k \in DOMAIN R : R[k].from[1] = t.name}}]

\* Version 2.5 also states which columns a relationship matches.
Csdl(T, M, R, version) ==
    [entitySets      |-> {[name |-> T[i].name, hidden |-> T[i].hidden] : i \in DOMAIN T},
     entityTypes     |-> {EntityType(T[i], M, R) : i \in DOMAIN T},
     associationSets |-> {[association |-> R[i].name, ends |-> <<R[i].from[1], R[i].to[1]>>,
                           inactive |-> ~R[i].active] : i \in DOMAIN R},
     associations    |-> {[name |-> R[i].name, many |-> R[i].from, one |-> R[i].to,
                           constraint |-> version = "2.5"] : i \in DOMAIN R}]

Tom(T, M, R) ==
    [tables        |-> {[name |-> T[i].name, hidden |-> T[i].hidden,
                         columns |-> {[name |-> T[i].columns[j].name,
                                       hidden |-> T[i].columns[j].hidden] :
                                      j \in DOMAIN T[i].columns}] : i \in DOMAIN T},
     measures      |-> {[name |-> M[i].name, hidden |-> M[i].hidden] : i \in DOMAIN M},
     relationships |-> {[name |-> R[i].name, from |-> R[i].from, to |-> R[i].to,
                         active |-> R[i].active] : i \in DOMAIN R}]

------------------------------------------------------------------------------
(* Properties                                                              *)

\* Nothing hidden, or one object.
AtMostOneHidden ==
    {{}} \cup {{x} : x \in tables \cup DOMAIN columns \cup DOMAIN measures}

AtMostOneKey == {{}} \cup {{k} : k \in DOMAIN columns}

\* The MDSCHEMA rowsets of one catalog fit together, whatever is hidden: what a
\* row of one refers to is a row of the other, and every visible column has its
\* hierarchy, its two levels and its All member.  The exceptions are where the
\* code looks at a column without asking whether it is hidden.
RowsetsAgree ==
    \A hidden \in AtMostOneHidden :
        LET T      == ListTables(Current, hidden, {})
            hiers  == Hierarchies(T)
            named  == {h.name : h \in hiers}
            levels == Levels(T)
            shown(names) == {x \in names : x \in DOMAIN columns \ hidden}
        IN
        /\ \A h \in hiers : \E d \in Dimensions(T) : d.name = h.dimension /\ d.visible
        /\ Cardinality({h.ordinal : h \in hiers}) = Cardinality(hiers)
        /\ Cardinality({d.ordinal : d \in Dimensions(T)}) = Len(T) + 1
        /\ {l.hierarchy : l \in levels} = named
        /\ {p.level : p \in MemberProperties(T)} = {l.name : l \in levels}
        /\ \A h \in hiers : h.all # <<>> =>
              /\ Members(T, h.all) # {}
              /\ \A m \in Members(T, h.all) : \E l \in levels : l.name = m.level /\ l.number = 0
        /\ shown({d.default : d \in {e \in Dimensions(T) : e.visible}}) \subseteq named
        /\ {r.name[1] : r \in {q \in DbschemaTables(T) : q.type = "MEASURE_GROUP"}} = MeasureGroups(T)
        /\ \A r \in DmvMeasureRows(ListMeasures(Current, hidden)) :
              r.groups \subseteq MeasureGroups(T) \cup hidden
        /\ \A keys \in AtMostOneKey :
              LET rows == MeasureGroupDimensions(ListTables(Current, hidden, keys),
                                                 ListRelationships(Current)) IN
              /\ \A r \in rows : /\ r.group \in MeasureGroups(T)
                                 /\ r.dimension[1] \in MeasureGroups(T)
              /\ shown({r.granularity : r \in rows}) \subseteq named

\* The numbers and names by which the TMSCHEMA rowsets and the metadata
\* documents refer to objects are those of the objects meant: every ID is one
\* object's, a measure is never shown in the first table for want of its own,
\* and of a model the loader would take no reference is missing.
IdsResolve ==
    LET T == ListTables(Current, {}, {})
        M == ListMeasures(Current, {})
        R == ListRelationships(Current)
        whole == Loads(ToModel(Current))
        isTable(id, t) == \E r \in SchemaTables(T) : r.id = id /\ r.name = t
        isColumn(id, key) == \E r \in SchemaColumns(T) : r.id = id /\ <<T[r.table].name, r.name>> = key
        csdl == Csdl(T, M, R, "2.5")
    IN
    /\ Cardinality({r.id : r \in SchemaColumns(T)}) = Cardinality(DOMAIN columns)
    /\ \A r \in SchemaColumns(T) :
          LET sortBy == <<T[r.table].name, columns[<<T[r.table].name, r.name>>].sortBy>> IN
          IF sortBy \in DOMAIN columns THEN isColumn(r.sortBy, sortBy) ELSE r.sortBy = 0
    /\ \A r \in SchemaMeasures(M, T) : isTable(r.table, measureTables[r.name])
    /\ \A r \in SchemaRelationships(R, T) :
          /\ isTable(r.fromTable, R[r.id].from[1]) /\ isTable(r.toTable, R[r.id].to[1])
          /\ r.fromColumn = 0 => ~whole
          /\ r.fromColumn # 0 => isColumn(r.fromColumn, R[r.id].from)
          /\ r.toColumn = 0 => ~whole
          /\ r.toColumn # 0 => isColumn(r.toColumn, R[r.id].to)
    /\ \A p \in SchemaPartitions(T) : isTable(p.table, p.name)
    /\ \A a \in csdl.associationSets : ToSet(a.ends) \subseteq {e.name : e \in csdl.entitySets}
    /\ \A a \in csdl.associations :
          /\ Cardinality({e \in csdl.entityTypes : \E n \in e.navigation : n.relationship = a.name}) = 1
          /\ whole => \A end \in {a.many, a.one} :
                \E e \in csdl.entityTypes : e.name = end[1] /\ end[2] \in e.columns
    /\ UNION {e.measures : e \in csdl.entityTypes} = {m.name : m \in Tom(T, M, R).measures}

\* An object keeps its ID as long as no table and no column of its table is
\* deleted.
IdsStay ==
    LET T  == ListTables(Current, {}, {})
        Tn == ListTables(Current', {}, {})
    IN
    Cardinality(tables') >= Cardinality(tables) =>
        \A t \in tables \cap tables' :
            /\ TableId(T, t) = TableId(Tn, t)
            /\ Len(columnOrder'[t]) >= Len(columnOrder[t]) =>
                  \A k \in DOMAIN columns \cap DOMAIN columns' :
                      k[1] = t => ColumnId(T, k) = ColumnId(Tn, k)

\* Measures, relationships from before the command beside tables from after it
\* name no wrong object.
OldMeasuresFit ==
    LET Tn == ListTables(Current', {}, {}) IN
    \A r \in SchemaMeasures(ListMeasures(Current, {}), Tn) :
        measureTables[r.name] \in tables' =>
            r.table \in DOMAIN Tn /\ Tn[r.table].name = measureTables[r.name]

OldRelationshipsFit ==
    LET Tn == ListTables(Current', {}, {})
        R  == ListRelationships(Current)
    IN
    \A r \in SchemaRelationships(R, Tn) :
        (r.fromColumn # 0 /\ R[r.id].from \in DOMAIN columns \cap DOMAIN columns') =>
            LET place == <<r.fromTable, r.fromColumn - r.fromTable * Stride>> IN
            place \in Places(Tn) /\ KeyAt(Tn, place) = R[r.id].from

\* Responses that are put together across a command that changes the order of
\* tables or columns mean the same objects.
SplitReadsMeanTheSame ==
    [][<<tableOrder, columnOrder>>' # <<tableOrder, columnOrder>> =>
          IdsStay /\ OldMeasuresFit /\ OldRelationshipsFit]_vars
==============================================================================
