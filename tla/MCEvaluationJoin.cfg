\* One call with a filter on a join column.
SPECIFICATION EvalSpec
CONSTANTS
    Null = Null
    None = None
    NullSlot = 0
    PrintLimit = 10
    Fv = Fv
    Fk = Fk
    Fj = Fj
    Dk = Dk
    Da = Da
    Dc = Dc
    Cc = Cc
    Cx = Cx
    Keys = {Fv, Fk, Fj, Dk, Da, Dc, Cc, Cx}
    TableOf <- MCTableOf
    Rows <- MCRows
    Relationships <- MCRelationships
    Values <- MCValues
    Modifiers = {}
    Predicates <- MCJoinPredicates
    MaxCalls = 1
    MaxArgs = 2
INVARIANTS FiltersHold
CHECK_DEADLOCK FALSE
