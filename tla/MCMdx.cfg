SPECIFICATION MdxSpec
CONSTANTS
    Fv = Fv
    Fk = Fk
    Fe = Fe
    Dk = Dk
    Da = Da
    Db = Db
    Dn = Dn
    Dc = Dc
    Cc = Cc
    Cx = Cx
    Ee = Ee
    Ep = Ep
    MeasuresHier = MeasuresHier
    Keys = {Fv, Fk, Fe, Dk, Da, Db, Dn, Dc, Cc, Cx, Ee, Ep}
    TableOf <- MCTableOf
    Relationships <- MCRelationships
    Null = Null
    NullSlot = 0
    PrintLimit = 10
    Values <- MCValues
    Measures = MeasuresHier
    MeasureOrder <- MCMeasureOrder
    MeasureExpr <- MCMeasureExpr
    Datasets <- MCDatasets
    Statements <- MCStatements
    MaxRefreshes = 1
    Expected <- MCExpected
INVARIANTS MdxTypeOK RowsAreIdentified CellsAreRight NonEmptyIsExact AxesAreReadable TabularRowsAreRight
