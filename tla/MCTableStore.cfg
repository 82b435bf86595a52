\* Two table names, two columns, two files, one relationship.
SPECIFICATION TableSpec
CONSTANTS
    NoSource = NoSource
    Fact = Fact
    Dimension = Dimension
    FactFile = FactFile
    DimensionFile = DimensionFile
    Key = Key
    Other = Other
    Tables = {Fact, Dimension}
    Columns = {Key, Other}
    Files = {FactFile, DimensionFile}
    Contents <- MCContents
    InitialCatalogs <- MCInitialCatalogs
    Link = Link
    Relationships = {Link}
INVARIANTS TableTypeOK DatalessTablesFollowTheCatalog
PROPERTIES LoadsServeTheModel OnlyRenamesMixTablesUp
