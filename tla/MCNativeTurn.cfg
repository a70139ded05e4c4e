\* Two turns in one session, with a file operation that may fail.
CONSTANTS
    s1 = s1
    s2 = s2
    NoFile = NoFile
    NoSession = NoSession
    NoRun = NoRun
    SessionId <- MCOneSession
    Text <- MCText
    Imported <- MCImported
    MaxMessages = 4
    MaxFailures = 1
    MaxTorn = 0
    MaxTurns = 2
    MaxRecords = 1
SPECIFICATION TurnSpec
INVARIANTS TurnTypeOK OneAttendedChild AnswerFollowsPrompt
