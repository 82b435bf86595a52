--------------------------- MODULE TableStoreProofs ---------------------------
(***************************************************************************)
(* Theorems about TableStore for any tables, columns, files and models.    *)
(***************************************************************************)
EXTENDS TableStore, TLAPS

\* One frame is type-correct.
LEMMA LoadedFrame ==
    ASSUME TableTypeOK, NEW c, IsCatalog(c), NEW t \in DOMAIN c.source,
           NEW blank \in BOOLEAN
    PROVE  LoadTable(c, t, blank) \in Frames
<1>1. ColumnsOf(c, t) \in SUBSET Columns
  BY DEF ColumnsOf
<1>2. CASE c.source[t] = NoSource
  BY <1>1, <1>2 DEF LoadTable, EmptyTable, Frames
<1>3. CASE c.source[t] \in Files
  <2>1. files[c.source[t]] \in SUBSET Columns
    BY <1>3, TableStoreAssumption DEF TableTypeOK
  <2>2. c.source[t] # NoSource
    BY <1>3, TableStoreAssumption
  <2> QED
    BY <1>3, <2>1, <2>2 DEF LoadTable, Frames
<1> QED
  BY <1>2, <1>3 DEF IsCatalog

\* The rules for the blank member are conditions.
LEMMA BlankRules ==
    ASSUME NEW c, NEW t
    PROVE  OneSide(c, t) \in BOOLEAN /\ ManySide(c, t) \in BOOLEAN
BY DEF OneSide, ManySide

\* Installing a catalog keeps the types.
LEMMA InstallTypes ==
    ASSUME TableTypeOK, NEW c, IsCatalog(c), Install(c)
    PROVE  TableTypeOK'
<1>1. DOMAIN tables' \subseteq Tables
  BY DEF TableTypeOK, Install, Synced, Dataless, IsCatalog
<1>2. ASSUME NEW t \in DOMAIN tables' PROVE tables'[t] \in Frames
  <2>1. CASE t \in Dataless(c)
    <3>1. LoadTable(c, t, OneSide(c, t)) \in Frames
      BY <2>1, LoadedFrame, BlankRules DEF Dataless
    <3> QED
      BY <2>1, <3>1 DEF Install, Synced, Dataless, LoadTable
  <2>2. CASE t \notin Dataless(c)
    BY <1>2, <2>2 DEF Install, Synced, TableTypeOK
  <2> QED
    BY <2>1, <2>2
<1>3. IsCatalog(cat')
  BY DEF Install
<1> QED
  BY <1>1, <1>2, <1>3 DEF TableTypeOK, Install

\* The types hold at the start.
LEMMA InitTableTypes == TableInit => TableTypeOK
<1> SUFFICES ASSUME TableInit PROVE TableTypeOK
  OBVIOUS
<1>1. IsCatalog(cat) /\ files \in [Files -> Contents]
  BY TableStoreAssumption DEF TableInit
<1>2. ASSUME NEW t \in DOMAIN cat.source
      PROVE  LoadTable(cat, t, OneSide(cat, t)) \in Frames
  <2>1. ColumnsOf(cat, t) \in SUBSET Columns
    BY DEF ColumnsOf
  <2>2. cat.source[t] \in Files => files[cat.source[t]] \in SUBSET Columns
    BY <1>1, TableStoreAssumption
  <2>3. cat.source[t] \in Files \cup {NoSource}
    BY <1>1 DEF IsCatalog
  <2> QED
    BY <2>1, <2>2, <2>3, BlankRules, TableStoreAssumption
       DEF LoadTable, EmptyTable, Frames
<1> QED
  BY <1>1, <1>2 DEF TableInit, LoadedNew, TableTypeOK, IsCatalog

\* What a load makes of a catalog is type-correct.
LEMMA LoadTypes ==
    ASSUME TableTypeOK, Refresh \/ Reload
    PROVE  TableTypeOK'
<1>1. IsCatalog(cat) /\ cat' = cat /\ files' = files
  BY DEF TableTypeOK, Refresh, Reload
<1>2. DOMAIN tables' = DOMAIN cat.source
  BY DEF Refresh, Reload, LoadedNew
<1>3. ASSUME NEW t \in DOMAIN cat.source PROVE tables'[t] \in Frames
  <2>1. CASE Refresh
    BY <1>1, <2>1, LoadedFrame, BlankRules DEF Refresh
  <2>2. CASE Reload
    BY <1>1, <2>2, LoadedFrame, BlankRules DEF Reload, LoadedNew
  <2> QED
    BY <2>1, <2>2
<1> QED
  BY <1>1, <1>2, <1>3 DEF TableTypeOK, IsCatalog

\* What a command makes of a catalog is a catalog.
LEMMA CreatedIsCatalog ==
    ASSUME TableTypeOK, NEW t \in Tables, CreateTable(t)
    PROVE  TableTypeOK'
<1> DEFINE c == [cat EXCEPT !.source =
                   [u \in DOMAIN @ \cup {t} |-> IF u = t THEN NoSource ELSE @[u]]]
<1>1. IsCatalog(c)
  BY DEF TableTypeOK, IsCatalog
<1> QED
  BY <1>1, InstallTypes DEF CreateTable

\* Nothing of the deleted table is left in the catalog.
LEMMA DeletedIsCatalog ==
    ASSUME TableTypeOK, NEW t \in Tables, DeleteTable(t)
    PROVE  TableTypeOK'
<1> DEFINE c == [source        |-> Restrict(cat.source, DOMAIN cat.source \ {t}),
                 columns       |-> {k \in cat.columns : k[1] # t},
                 relationships |-> {r \in cat.relationships :
                                       r.from[1] # t /\ r.to[1] # t}]
<1>1. IsCatalog(c)
  BY DEF TableTypeOK, IsCatalog, Restrict
<1> QED
  BY <1>1, InstallTypes DEF DeleteTable

\* Every key of the old table becomes one of the new.
LEMMA RenamedIsCatalog ==
    ASSUME TableTypeOK, NEW old \in Tables, NEW new \in Tables, RenameTable(old, new)
    PROVE  TableTypeOK'
<1> DEFINE name(t) == IF t = old THEN new ELSE t
           key(k)  == <<name(k[1]), k[2]>>
           source  == [t \in (DOMAIN cat.source \ {old}) \cup {new} |->
                         cat.source[IF t = new THEN old ELSE t]]
           c == [source        |-> source,
                 columns       |-> {key(k) : k \in cat.columns},
                 relationships |-> {[r EXCEPT !.from = key(@), !.to = key(@)] :
                                       r \in cat.relationships}]
<1>1. /\ DOMAIN source \subseteq Tables
      /\ \A t \in DOMAIN source : source[t] \in Files \cup {NoSource}
  BY DEF TableTypeOK, IsCatalog, RenameTable
<1>2. {key(k) : k \in cat.columns} \subseteq (DOMAIN source) \X Columns
  <2>1. \A t \in DOMAIN cat.source : name(t) \in DOMAIN source
    OBVIOUS
  <2>2. \A k \in cat.columns : k[1] \in DOMAIN cat.source /\ k[2] \in Columns
    BY DEF TableTypeOK, IsCatalog
  <2> HIDE DEF name, source
  <2> QED
    BY <2>1, <2>2
<1>3. \A k \in Keys : key(k) \in Keys
  BY DEF Keys
<1>4. {[r EXCEPT !.from = key(@), !.to = key(@)] : r \in cat.relationships}
         \subseteq [name : Relationships, from : Keys, to : Keys]
  <2> HIDE DEF key
  <2>1. \A r \in [name : Relationships, from : Keys, to : Keys] :
           [r EXCEPT !.from = key(@), !.to = key(@)]
               \in [name : Relationships, from : Keys, to : Keys]
    BY <1>3
  <2>2. cat.relationships \subseteq [name : Relationships, from : Keys, to : Keys]
    BY DEF TableTypeOK, IsCatalog
  <2> QED
    BY <2>1, <2>2
<1> HIDE DEF name, key, source
<1>5. IsCatalog(c)
  BY <1>1, <1>2, <1>4 DEF IsCatalog
<1>6. Install(c)
  BY DEF RenameTable, name, key, source
<1> QED
  BY <1>5, <1>6, InstallTypes

\* Commands on columns change the set of columns only.
LEMMA ColumnsKeepTypes ==
    ASSUME TableTypeOK, NEW t \in Tables, NEW n \in Columns, NEW m \in Columns,
           AddColumn(t, n) \/ DeleteColumn(t, n) \/ RenameColumn(t, n, m)
    PROVE  TableTypeOK'
<1>1. ASSUME NEW columns \in SUBSET ((DOMAIN cat.source) \X Columns),
             Install([cat EXCEPT !.columns = columns])
      PROVE  TableTypeOK'
  <2>1. IsCatalog([cat EXCEPT !.columns = columns])
    BY DEF TableTypeOK, IsCatalog
  <2> QED
    BY <1>1, <2>1, InstallTypes
<1>2. cat.columns \in SUBSET ((DOMAIN cat.source) \X Columns)
  BY DEF TableTypeOK, IsCatalog
<1>3. CASE AddColumn(t, n)
  <2>1. cat.columns \cup {<<t, n>>} \in SUBSET ((DOMAIN cat.source) \X Columns)
    BY <1>2, <1>3 DEF AddColumn
  <2> QED
    BY <1>1, <1>3, <2>1 DEF AddColumn
<1>4. CASE DeleteColumn(t, n)
  <2>1. cat.columns \ {<<t, n>>} \in SUBSET ((DOMAIN cat.source) \X Columns)
    BY <1>2
  <2> QED
    BY <1>1, <1>4, <2>1 DEF DeleteColumn
<1>5. CASE RenameColumn(t, n, m)
  <2>1. (cat.columns \ {<<t, n>>}) \cup {<<t, m>>}
            \in SUBSET ((DOMAIN cat.source) \X Columns)
    BY <1>2, <1>5 DEF RenameColumn
  <2> QED
    BY <1>1, <1>5, <2>1 DEF RenameColumn
<1> QED
  BY <1>3, <1>4, <1>5

\* Commands on relationships change the set of relationships only.
LEMMA RelationshipsKeepTypes ==
    ASSUME TableTypeOK,
           \/ \E name \in Relationships, from, to \in Keys :
                  CreateRelationship(name, from, to)
           \/ \E r \in cat.relationships : DeleteRelationship(r)
    PROVE  TableTypeOK'
<1>1. ASSUME NEW rs \in SUBSET [name : Relationships, from : Keys, to : Keys],
             Install([cat EXCEPT !.relationships = rs])
      PROVE  TableTypeOK'
  <2>1. IsCatalog([cat EXCEPT !.relationships = rs])
    BY DEF TableTypeOK, IsCatalog
  <2> QED
    BY <1>1, <2>1, InstallTypes
<1>2. cat.relationships \in SUBSET [name : Relationships, from : Keys, to : Keys]
  BY DEF TableTypeOK, IsCatalog
<1>3. ASSUME NEW name \in Relationships, NEW from \in Keys, NEW to \in Keys,
             CreateRelationship(name, from, to)
      PROVE  TableTypeOK'
  <2>1. cat.relationships \cup {[name |-> name, from |-> from, to |-> to]}
            \in SUBSET [name : Relationships, from : Keys, to : Keys]
    BY <1>2
  <2> QED
    BY <1>1, <1>3, <2>1 DEF CreateRelationship
<1>4. ASSUME NEW r \in cat.relationships, DeleteRelationship(r)
      PROVE  TableTypeOK'
  <2>1. cat.relationships \ {r} \in SUBSET [name : Relationships, from : Keys, to : Keys]
    BY <1>2
  <2> QED
    BY <1>1, <1>4, <2>1 DEF DeleteRelationship
<1> QED
  BY <1>3, <1>4

\* Every step keeps the types.
LEMMA NextTableTypes == TableTypeOK /\ [TableNext]_tableVars => TableTypeOK'
<1> SUFFICES ASSUME TableTypeOK, [TableNext]_tableVars PROVE TableTypeOK'
  OBVIOUS
<1>1. CASE \E t \in Tables : CreateTable(t) \/ DeleteTable(t)
  BY <1>1, CreatedIsCatalog, DeletedIsCatalog
<1>2. CASE RenamesTable
  BY <1>2, RenamedIsCatalog DEF RenamesTable
<1>3. CASE \E t \in Tables, n \in Columns :
              \/ AddColumn(t, n) \/ DeleteColumn(t, n)
              \/ \E m \in Columns : RenameColumn(t, n, m)
  BY <1>3, ColumnsKeepTypes
<1>4. CASE \/ \E name \in Relationships, from, to \in Keys :
                  CreateRelationship(name, from, to)
           \/ \E r \in cat.relationships : DeleteRelationship(r)
  BY <1>4, RelationshipsKeepTypes
<1>5. CASE Refresh \/ Reload
  BY <1>5, LoadTypes
<1>6. CASE \E f \in Files : Rewrite(f)
  BY <1>6 DEF Rewrite, TableTypeOK
<1>7. CASE UNCHANGED tableVars
  BY <1>7 DEF tableVars, TableTypeOK
<1> QED
  BY <1>1, <1>2, <1>3, <1>4, <1>5, <1>6, <1>7 DEF TableNext

\* TableStore is type-correct.
THEOREM TableTypesAlways == TableSpec => []TableTypeOK
<1> QED
  BY InitTableTypes, NextTableTypes, PTL DEF TableSpec

------------------------------------------------------------------------------
\* A step is a command, a load, or leaves catalog and frames alone.
LEMMA StepKinds ==
    ASSUME [TableNext]_tableVars
    PROVE  \/ \E c : Install(c)
           \/ Refresh \/ Reload
           \/ UNCHANGED <<cat, tables>>
<1>1. CASE \E t \in Tables : CreateTable(t) \/ DeleteTable(t)
  BY <1>1 DEF CreateTable, DeleteTable
<1>2. CASE RenamesTable
  BY <1>2 DEF RenamesTable, RenameTable
<1>3. CASE \E t \in Tables, n \in Columns :
              \/ AddColumn(t, n) \/ DeleteColumn(t, n)
              \/ \E m \in Columns : RenameColumn(t, n, m)
  BY <1>3 DEF AddColumn, DeleteColumn, RenameColumn
<1>4. CASE \/ \E name \in Relationships, from, to \in Keys :
                  CreateRelationship(name, from, to)
           \/ \E r \in cat.relationships : DeleteRelationship(r)
  BY <1>4 DEF CreateRelationship, DeleteRelationship
<1>5. CASE \E f \in Files : Rewrite(f)
  BY <1>5 DEF Rewrite
<1>6. CASE UNCHANGED tableVars
  BY <1>6 DEF tableVars
<1> QED
  BY <1>1, <1>2, <1>3, <1>4, <1>5, <1>6 DEF TableNext

\* Tables without a data source can be queried straight away
\* (sync_tables_without_data), whatever their names have meant before.
THEOREM DatalessTablesAlways == TableSpec => []DatalessTablesFollowTheCatalog
<1> USE DEF DatalessTablesFollowTheCatalog, Dataless
<1>1. TableInit => DatalessTablesFollowTheCatalog
  BY DEF TableInit, LoadedNew, LoadTable, EmptyTable
<1>2. DatalessTablesFollowTheCatalog /\ [TableNext]_tableVars
         => DatalessTablesFollowTheCatalog'
  <2> SUFFICES ASSUME DatalessTablesFollowTheCatalog, [TableNext]_tableVars
               PROVE  DatalessTablesFollowTheCatalog'
    OBVIOUS
  <2>1. ASSUME NEW c, Install(c) PROVE DatalessTablesFollowTheCatalog'
    BY <2>1 DEF Install, Synced, EmptyTable, ColumnsOf
  <2>2. CASE Refresh \/ Reload
    BY <2>2 DEF Refresh, Reload, LoadedNew, LoadTable, EmptyTable, ColumnsOf
  <2>3. CASE UNCHANGED <<cat, tables>>
    BY <2>3 DEF ColumnsOf
  <2> QED
    BY <2>1, <2>2, <2>3, StepKinds
<1> QED
  BY <1>1, <1>2, PTL DEF TableSpec

\* A load repairs what is in memory (try_new and reload_tables).
THEOREM LoadsAlwaysServeTheModel == TableSpec => LoadsServeTheModel
<1> DEFINE Repairs ==
      Refresh \/ Reload =>
          /\ DOMAIN tables' = DOMAIN cat.source
          /\ \A t \in DOMAIN cat.source :
                /\ tables'[t].origin = cat.source[t]
                /\ ColumnsOf(cat, t) \subseteq tables'[t].columns
<1>1. ASSUME Refresh \/ Reload PROVE Repairs
  <2>1. \A t \in DOMAIN cat.source : Fits(cat, t)
    BY <1>1 DEF Refresh, Reload, AllFit
  <2> QED
    BY <1>1, <2>1 DEF Refresh, Reload, LoadedNew, LoadTable, EmptyTable, Fits
<1>2. [TableNext]_tableVars => [Repairs]_tableVars
  BY <1>1
<1> QED
  BY <1>2, PTL DEF TableSpec, LoadsServeTheModel

------------------------------------------------------------------------------
\* A command that leaves the data source of every table with data as it was
\* keeps the frames right.
LEMMA SameSources ==
    ASSUME BackedByItsSource, NEW c, Install(c),
           \A t \in DOMAIN c.source : c.source[t] # NoSource =>
              t \in DOMAIN cat.source /\ c.source[t] = cat.source[t]
    PROVE  BackedByItsSource'
<1> SUFFICES ASSUME NEW t \in DOMAIN c.source, t \in DOMAIN tables'
             PROVE  tables'[t].origin = c.source[t]
  BY DEF BackedByItsSource, Install
<1>1. CASE c.source[t] = NoSource
  BY <1>1 DEF Install, Synced, Dataless, EmptyTable
<1>2. CASE c.source[t] # NoSource
  <2>1. t \in DOMAIN tables /\ tables'[t] = tables[t]
    BY <1>2 DEF Install, Synced, Dataless
  <2> QED
    BY <1>2, <2>1 DEF BackedByItsSource
<1> QED
  BY <1>1, <1>2

\* All commands but the renaming of a table are such commands, and a load
\* sets every frame right.
THEOREM OnlyRenamesMixTablesUpAlways == TableSpec => OnlyRenamesMixTablesUp
<1> DEFINE Sound == BackedByItsSource /\ ~RenamesTable => BackedByItsSource'
<1>1. ASSUME TableTypeOK, BackedByItsSource, ~RenamesTable, [TableNext]_tableVars
      PROVE  BackedByItsSource'
  <2>1. CASE \E t \in Tables : CreateTable(t) \/ DeleteTable(t)
    <3>1. ASSUME NEW t \in Tables, CreateTable(t) PROVE BackedByItsSource'
      <4> DEFINE source == [u \in (DOMAIN cat.source) \cup {t} |->
                              IF u = t THEN NoSource ELSE cat.source[u]]
      <4>1. [cat EXCEPT !.source = source].source = source
        BY <1>1 DEF TableTypeOK, IsCatalog
      <4>2. Install([cat EXCEPT !.source = source])
        BY <3>1 DEF CreateTable
      <4> QED
        BY <1>1, <4>1, <4>2, SameSources
    <3>2. ASSUME NEW t \in Tables, DeleteTable(t) PROVE BackedByItsSource'
      BY <1>1, <3>2, SameSources DEF DeleteTable, Restrict
    <3> QED
      BY <2>1, <3>1, <3>2
  <2>2. ASSUME NEW columns, Install([cat EXCEPT !.columns = columns])
        PROVE  BackedByItsSource'
    <3>1. [cat EXCEPT !.columns = columns].source = cat.source
      BY <1>1 DEF TableTypeOK, IsCatalog
    <3> QED
      BY <1>1, <2>2, <3>1, SameSources
  <2>3. CASE \E t \in Tables, n \in Columns :
                \/ AddColumn(t, n) \/ DeleteColumn(t, n)
                \/ \E m \in Columns : RenameColumn(t, n, m)
    BY <2>2, <2>3 DEF AddColumn, DeleteColumn, RenameColumn
  <2>4. ASSUME NEW rs, Install([cat EXCEPT !.relationships = rs])
        PROVE  BackedByItsSource'
    <3>1. [cat EXCEPT !.relationships = rs].source = cat.source
      BY <1>1 DEF TableTypeOK, IsCatalog
    <3> QED
      BY <1>1, <2>4, <3>1, SameSources
  <2>5. CASE \/ \E name \in Relationships, from, to \in Keys :
                  CreateRelationship(name, from, to)
             \/ \E r \in cat.relationships : DeleteRelationship(r)
    BY <2>4, <2>5 DEF CreateRelationship, DeleteRelationship
  <2>6. CASE Refresh \/ Reload
    BY <2>6 DEF Refresh, Reload, LoadedNew, LoadTable, EmptyTable, BackedByItsSource
  <2>7. CASE (\E f \in Files : Rewrite(f)) \/ UNCHANGED tableVars
    BY <1>1, <2>7 DEF Rewrite, tableVars, BackedByItsSource
  <2> QED
    BY <1>1, <2>1, <2>3, <2>5, <2>6, <2>7 DEF TableNext
<1>2. TableTypeOK /\ [TableNext]_tableVars => [Sound]_tableVars
  BY <1>1
<1> QED
  BY <1>2, TableTypesAlways, PTL DEF TableSpec, OnlyRenamesMixTablesUp
==============================================================================
