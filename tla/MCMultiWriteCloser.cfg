CONSTANTS
    MaxWriters <- MCMaxWriters
    MaxLen <- MCMaxLen
    MaxCalls <- MCMaxCalls
SPECIFICATION Spec
INVARIANT EarlierWritersAhead
CHECK_DEADLOCK FALSE
PROPERTY SuccessReachesAll
