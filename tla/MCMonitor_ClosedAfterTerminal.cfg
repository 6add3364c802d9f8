CONSTANTS
    BufCap <- MCBufCap
    Timeout <- MCTimeout
    CheckPeriod <- MCCheckPeriod
    Percents <- MCPercents
SPECIFICATION Spec
INVARIANT ClosedAfterTerminal
