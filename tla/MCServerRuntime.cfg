\* Three workers behind a limit of two: two permits for three query slots and
\* two refresh slots, so requests queue while a refresh holds the lock.
SPECIFICATION FairRuntimeSpec
CONSTANTS
    Queries = {q1, q2, q3}
    Refreshes = {f1, f2}
    Requests <- MCRequests
    MaxConcurrency = 2
    Workers = 3
    RemoteIO = TRUE
INVARIANTS RuntimeTypeOK SomeWorkerIsFree RefreshExcludesReads
           PermitsAreConserved NobodyWaitsForAFreePermit
PROPERTIES EveryRequestIsAnswered NoOvertaking
