CONSTANTS
    BufCap <- MCBufCap
    Timeout <- MCTimeout
    CheckPeriod <- MCCheckPeriod
    Percents <- MCPercents
SPECIFICATION FairSpec
PROPERTY TimeoutCloses
