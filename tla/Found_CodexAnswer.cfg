\* What Codex writes between the read and waitpid is lost.
CONSTANTS
    s1 = s1
    s2 = s2
    NoFile = NoFile
    NoSession = NoSession
    NoRun = NoRun
    SessionId <- MCOneSession
    Text <- MCText
    Imported <- MCImported
    MaxMessages = 2
    MaxFailures = 0
    MaxTorn = 0
    MaxTurns = 1
    MaxRecords = 1
SPECIFICATION TurnSpec
PROPERTIES CodexAnswerIsWhole
