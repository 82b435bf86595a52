\* One administrator, a refresher, a query; one crash; in-place file writes.
SPECIFICATION FairSpec
CONSTANTS
    Editors = {e1}
    Refreshers = {f1}
    Readers = {r1}
    Names = {n1, bad}
    Unloadable = {bad}
    Catalogs <- MCCatalogs
    InitialCatalog <- MCInitial
    Batches <- MCBatches
    RunCommands <- MCRunCommands
    Loads <- MCLoads
    TornWrites = TRUE
    MaxNow = 1
    MaxCrashes = 1
INVARIANTS TypeOK ServedWasSaved QueriesReadOneEngine SettledFileIsServed 
PROPERTIES ImplementsAtomicModel EveryCallReturns
\* A server whose file does not load stays down.
CHECK_DEADLOCK FALSE
