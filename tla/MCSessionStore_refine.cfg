\* No write fails; the process may die between any two of them.
CONSTANTS
    s1 = s1
    s2 = s2
    s3 = s3
    hello = hello
    NoFile = NoFile
    SessionId <- MCThreeSessions
    Text <- MCOneText
    Imported <- MCImported
    MaxMessages = 2
    MaxFailures = 0
    MaxTorn = 1
SPECIFICATION StoreSpec
PROPERTIES KeepsConversations
