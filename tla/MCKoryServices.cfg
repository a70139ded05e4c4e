\* Every service of the TypeScript application, one at a time.
CONSTANTS
    p1 = p1
    p2 = p2
    p3 = p3
    k1 = k1
    k2 = k2
    c1 = c1
    c2 = c2
    chat1 = chat1
    chat2 = chat2
    room1 = room1
    room2 = room2
    l1 = l1
    l2 = l2
    g1 = g1
    h1 = h1
    h2 = h2
    t1 = t1
    t2 = t2
    a1 = a1
    a2 = a2
    NoProc = NoProc
    Plain = Plain
    Direct = Direct
    NoConn = NoConn
    NoChat = NoChat
    NoRoom = NoRoom
    NoLink = NoLink
    NoTask = NoTask
    Proc <- MCProc
    Key <- MCKey
    Conn <- MCConn
    Chat <- MCChat
    Room <- MCRoom
    Load <- MCLoad
    Guest <- MCGuest
    Link <- MCLink
    Task <- MCTask
    Loop <- MCLoop
    MaxServerDeaths = 1
    MaxEvents = 4
    Candidates = 2
    MaxCuts = 2
    MaxViews = 2
    MaxMessages = 1
    MaxMoves = 3
    MaxHistory = 1
    MaxEmits = 2
    MaxBreaks = 1
    MaxConcurrent = 1
    MaxUserSteps = 3
    MaxDeaths = 1
    MaxThreadTurns = 2
    MaxThreadCalls = 2
SPECIFICATION ServicesSpec
INVARIANTS ServicesTypeOK RunningRowsAreSupervised SentOnceInOrder SubscriptionsFollow
    SettledFeedIsOfActive GuestsSeeEachEventOnce OnlyTheEntitledSee
    LimitCountsWhatExists ReconciledWorkSurvives UserChangesSurvive
    QuietThreadIsFree RequestsAreWhole
PROPERTIES KilledIsNotRestarted EndsAreAnnounced StreamIsSent PageReconnects
CHECK_DEADLOCK FALSE
