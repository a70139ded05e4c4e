\* One turn while sessions are created, selected and deleted; a crash anywhere;
\* every turn ends under the fairness of the event loop.
CONSTANTS
    s1 = s1
    s2 = s2
    NoFile = NoFile
    NoSession = NoSession
    NoRun = NoRun
    SessionId <- MCTwoSessions
    Text <- MCText
    Imported <- MCImported
    MaxMessages = 2
    MaxFailures = 0
    MaxTorn = 1
    MaxTurns = 1
    MaxRecords = 2
SPECIFICATION LiveSpec
INVARIANTS ActiveIsListed AnswerFollowsPrompt CliTurnsEndWithVerdict
PROPERTIES CliAnswerIsWhole TurnsEnd
