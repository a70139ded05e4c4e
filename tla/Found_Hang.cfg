\* A question removed by the cleanup service is never settled.
CONSTANTS
    r1 = r1
    r2 = r2
    NoRun = NoRun
    Run <- MCRun
    MaxTurns = 1
    MaxCalls = 1
    MaxAttempts = 1
    MaxCrashes = 0
SPECIFICATION KoryLiveSpec
PROPERTIES NoIndefiniteHang
CHECK_DEADLOCK FALSE
