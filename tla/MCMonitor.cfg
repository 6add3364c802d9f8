CONSTANTS
    BufCap <- MCBufCap
    Timeout <- MCTimeout
    CheckPeriod <- MCCheckPeriod
    Percents <- MCPercents
SPECIFICATION FairSpec
INVARIANT TypeOK
INVARIANT AtMostOneTerminal
PROPERTY MonitorTerminates
PROPERTY StreamRefined
