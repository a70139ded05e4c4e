\* Writes may fail and the process may die between any two of them.
CONSTANTS
    s1 = s1
    s2 = s2
    s3 = s3
    hello = hello
    NoFile = NoFile
    SessionId <- MCTwoSessions
    Text <- MCOneText
    Imported <- MCImported
    MaxMessages = 3
    MaxFailures = 1
    MaxTorn = 2
SPECIFICATION StoreSpec
SYMMETRY Symmetry
INVARIANTS StoreTypeOK UniqueIds CountAccuracy IdleIsDurable
PROPERTIES HistoryOutlivesListing DeletionIsFinal
