----------------------------- MODULE MCTableStore -----------------------------
(* TableStore on a fact and a dimension with a file each.                   *)
EXTENDS TableStore, TLC

CONSTANTS Fact, Dimension, FactFile, DimensionFile, Key, Other, Link

\* Files with both columns, and files that lack one.
MCContents == {{Key}, {Key, Other}}

\* With and without a relationship between the two.
MCInitialCatalogs ==
    {[source        |-> Fact :> FactFile @@ Dimension :> DimensionFile,
      columns       |-> {Fact, Dimension} \X {Key},
      relationships |-> rs] :
        rs \in {{}, {[name |-> Link,
                       from |-> <<Fact, Key>>, to |-> <<Dimension, Key>>]}}}
==============================================================================
