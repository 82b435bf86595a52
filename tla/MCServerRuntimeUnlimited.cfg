\* The default configuration (max_concurrency = 0) on two workers, with the
\* data files in an object store.
SPECIFICATION RuntimeSpec
CONSTANTS
    Queries = {q1, q2}
    Refreshes = {f1}
    Requests <- MCRequests
    MaxConcurrency = 0
    Workers = 2
    RemoteIO = TRUE
INVARIANTS RefreshCanGoOn
