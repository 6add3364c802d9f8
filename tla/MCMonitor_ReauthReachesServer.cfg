CONSTANTS
    BufCap <- MCBufCap
    Timeout <- MCTimeout
    CheckPeriod <- MCCheckPeriod
    Percents <- MCPercents
SPECIFICATION Spec
PROPERTY ReauthReachesServer
