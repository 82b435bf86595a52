\* Two CALCULATE calls, nested or one after the other, with three arguments
\* in all.  The query ends when its last call has returned.
SPECIFICATION EvalSpec
CONSTANTS
    Null = Null
    None = None
    NullSlot = 0
    PrintLimit = 10
    Fv = Fv
    Fk = Fk
    Fj = Fj
    Dk = Dk
    Da = Da
    Dc = Dc
    Cc = Cc
    Cx = Cx
    Keys = {Fv, Fk, Fj, Dk, Da, Dc, Cc, Cx}
    TableOf <- MCTableOf
    Rows <- MCRows
    Relationships <- MCRelationships
    Values <- MCValues
    Modifiers <- MCModifiers
    Predicates <- MCPredicates
    MaxCalls = 2
    MaxArgs = 3
INVARIANTS EvalTypeOK  FiltersHold NothingStaleFilters AllShowsEverything ExpansionProgresses
CHECK_DEADLOCK FALSE
