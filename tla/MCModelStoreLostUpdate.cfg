\* Two administrators add different objects at the same time.
SPECIFICATION Spec
CONSTANTS
    Editors = {e1, e2}
    Refreshers = {}
    Readers = {}
    Names = {n1, n2}
    Unloadable = {}
    Catalogs <- MCCatalogs
    InitialCatalog <- MCInitial
    Batches <- MCCreations
    RunCommands <- MCRunCommands
    Loads <- MCLoads
    TornWrites = TRUE
    MaxNow = 0
    MaxCrashes = 0
INVARIANT NoLostUpdate
CHECK_DEADLOCK FALSE
