\* Does every load add the blank member rows to the dimensions?
SPECIFICATION TableSpec
CONSTANTS
    NoSource = NoSource
    Fact = Fact
    Dimension = Dimension
    FactFile = FactFile
    DimensionFile = DimensionFile
    Key = Key
    Other = Other
    Tables = {Fact, Dimension}
    Columns = {Key, Other}
    Files = {FactFile, DimensionFile}
    Contents <- MCContents
    InitialCatalogs <- MCInitialCatalogs
    Link = Link
    Relationships = {Link}
PROPERTIES LoadsGiveBlankMembers
