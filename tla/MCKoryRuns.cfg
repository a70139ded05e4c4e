\* Two overlapping runs of one session, one crash.
CONSTANTS
    r1 = r1
    r2 = r2
    NoRun = NoRun
    Run <- MCRun
    MaxTurns = 1
    MaxCalls = 1
    MaxAttempts = 2
    MaxCrashes = 1
SPECIFICATION KoryLiveSpec
INVARIANTS KoryTypeOK OpenQuestionIsAwaited RegistryIsLive ActiveTaskHasARun QuietIsIdle
PROPERTIES StoppedRunsWindDown RunsEnd TasksSettle
CHECK_DEADLOCK FALSE
