\* Three measures, a column, one command.
SPECIFICATION GraphSpec
CONSTANTS
    Nothing = Nothing
    Names = {m1, m2, m3}
    Columns = {c1}
    Bodies <- MCBodies
    InitialMeasures <- MCInitialMeasures
    MaxEdits = 1
CONSTRAINT RequestsBetweenLoads
SYMMETRY Interchangeable
INVARIANTS  ImpactIsExact
