\* An edit is applied; the resolved measures stay as they were.
SPECIFICATION Spec
CONSTANTS
    Editors = {e1}
    Refreshers = {}
    Readers = {}
    Names = {n1}
    Unloadable = {}
    Catalogs <- MCCatalogs
    InitialCatalog <- MCInitial
    Batches <- MCCreations
    RunCommands <- MCRunCommands
    Loads <- MCLoads
    TornWrites = TRUE
    MaxNow = 0
    MaxCrashes = 0
INVARIANT MeasuresAreServed
CHECK_DEADLOCK FALSE
