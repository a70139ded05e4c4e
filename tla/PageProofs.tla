------------------------------ MODULE PageProofs ------------------------------
(***************************************************************************)
(* Theorems about the three modules between the services and what the page *)
(* shows: FeedLoading, for every set of sessions and loads, LiveSocket,    *)
(* for every set of connections and sessions and every number of           *)
(* addresses, and StreamCoalescer, for every set of batching keys; all     *)
(* three for every bound.                                                  *)
(***************************************************************************)
EXTENDS FeedLoading, LiveSocket, StreamCoalescer, SequenceTheorems,
        WellFoundedInduction, TLAPS

(***************************************************************************)
(* FeedLoading                                                             *)
(***************************************************************************)
-----------------------------------------------------------------------------
(* Loads and histories *)

\* A load that is asked for is under way.
LEMMA AskedLoad ==
    ASSUME NEW s \in Room, NEW source \in {"sync", "status"}
    PROVE  /\ Asked(s, source) \in Loading
           /\ Asked(s, source) # Free
           /\ Asked(s, source).room = s
           /\ Asked(s, source).by = source
           /\ Asked(s, source).latest
<1>1. 0 \in 0 .. MaxMessages /\ 0 \in Nat
  BY FeedAssumption
<1>2. Asked(s, source).phase # Free.phase
  BY DEF Asked, Free
<1>3. QED
  BY <1>1, <1>2 DEF Asked, Loading

\* A load that has a phase is one under way.
LEMMA LoadUnderWay ==
    ASSUME FeedTypeOK, NEW l \in Load, load[l].phase \in {"asked", "answered", "awaiting"}
    PROVE  load[l] \in Loading /\ load[l] # Free
<1>1. Free.phase = "free" /\ load[l] \in {Free} \cup Loading
  BY DEF Free, FeedTypeOK
<1>2. QED
  BY <1>1

\* A history is a sequence of messages.
LEMMA HistoryType ==
    ASSUME NEW s \in Room, NEW n \in 0 .. MaxMessages
    PROVE  History(s, n) \in Seq(Message)
<1>1. n \in Nat /\ History(s, n) \in [1 .. n -> Message]
  BY FeedAssumption DEF History, Message
<1>2. QED
  BY <1>1, SeqDef

-----------------------------------------------------------------------------
(* Every step keeps the types *)

\* No move of the user, message or answer leaves the types.
LEMMA FeedTypeStep ==
    ASSUME FeedTypeOK, [FeedNext]_feedVars
    PROVE  FeedTypeOK'
<1> USE FeedAssumption DEF FeedTypeOK
<1>1. ASSUME LeaveAll PROVE FeedTypeOK'
  <2>1. moves' \in 0 .. MaxMoves
    <3>1. moves \in Nat /\ moves < MaxMoves /\ moves' = moves + 1
      BY <1>1 DEF LeaveAll
    <3>2. QED
      BY <3>1
  <2>2. feed' \in Seq(Message)
    BY <1>1, EmptySeq DEF LeaveAll
  <2>3. QED
    BY <1>1, <2>1, <2>2 DEF LeaveAll
<1>2. ASSUME NEW s \in Room, NewMessage(s) PROVE FeedTypeOK'
  <2>1. made[s] + 1 \in 1 .. MaxMessages
    BY <1>2 DEF NewMessage
  <2>2. [room |-> s, no |-> made[s] + 1] \in Message
    BY <2>1 DEF Message
  <2>3. feed' \in Seq(Message)
    BY <1>2, <2>2, AppendProperties DEF NewMessage
  <2>4. made' \in [Room -> 0 .. MaxMessages]
    BY <1>2, <2>1 DEF NewMessage
  <2>5. QED
    BY <1>2, <2>3, <2>4 DEF NewMessage
<1>3. ASSUME NEW s \in Room, Store(s) PROVE FeedTypeOK'
  <2>1. stored[s] + 1 \in 0 .. MaxMessages
    <3>1. /\ stored[s] \in Nat /\ made[s] \in Nat /\ made[s] <= MaxMessages
          /\ stored[s] < made[s]
      BY <1>3 DEF Store
    <3>2. QED
      BY <3>1
  <2>2. stored' \in [Room -> 0 .. MaxMessages]
    BY <1>3, <2>1 DEF Store
  <2>3. QED
    BY <1>3, <2>2 DEF Store
<1>4. ASSUME NEW s \in Room, NEW l \in Load, GoTo(s, l) PROVE FeedTypeOK'
  <2>1. moves' \in 0 .. MaxMoves
    <3>1. moves \in Nat /\ moves < MaxMoves /\ moves' = moves + 1
      BY <1>4 DEF GoTo
    <3>2. QED
      BY <3>1
  <2>2. Asked(s, "sync") \in Loading
    BY AskedLoad
  <2>3. ASSUME NEW k \in Load, load[k] # Free
        PROVE  [load[k] EXCEPT !.latest = FALSE] \in Loading
    <3>1. load[k] \in Loading
      BY <2>3
    <3> HIDE DEF FeedTypeOK
    <3>2. QED
      BY <3>1 DEF Loading
  <2>4. load' \in [Load -> {Free} \cup Loading]
    BY <1>4, <2>2, <2>3, SMTT(30) DEF GoTo
  <2>5. QED
    BY <1>4, <2>1, <2>4 DEF GoTo
<1>5. ASSUME NEW l \in Load, TurnEnds(l) PROVE FeedTypeOK'
  <2>1. here \in Room
    BY <1>5 DEF TurnEnds
  <2>2. Asked(here, "status") \in Loading
    BY <2>1, AskedLoad
  <2>3. QED
    BY <1>5, <2>2 DEF TurnEnds
<1>6. ASSUME NEW l \in Load, Answer(l) PROVE FeedTypeOK'
  <2>1. load[l] \in Loading
    BY <1>6, LoadUnderWay DEF Answer
  <2>2. \A got \in 0 .. MaxMessages :
          [load[l] EXCEPT !.phase = "answered", !.got = got] \in Loading
    BY <2>1 DEF Loading
  <2>3. {stored[load[l].room], 0} \subseteq 0 .. MaxMessages
    BY <2>1 DEF Loading
  <2>4. PICK got \in 0 .. MaxMessages :
          load' = [load EXCEPT ![l] = [load[l] EXCEPT !.phase = "answered", !.got = got]]
    BY <1>6, <2>3 DEF Answer
  <2>5. load' \in [Load -> {Free} \cup Loading]
    BY <2>2, <2>4
  <2>6. QED
    BY <1>6, <2>5 DEF Answer
<1>7. ASSUME NEW l \in Load, BeginLoad(l) PROVE FeedTypeOK'
  <2>1. load[l] \in Loading
    BY <1>7, LoadUnderWay DEF BeginLoad
  <2>2. Len(feed) \in Nat
    BY LenProperties
  <2>3. made[load[l].room] \in 0 .. MaxMessages
    BY <2>1 DEF Loading
  <2>4. [load[l] EXCEPT !.phase = "awaiting", !.start = Len(feed),
                        !.had = made[load[l].room]] \in Loading
    BY <2>1, <2>2, <2>3 DEF Loading
  <2>5. QED
    BY <1>7, <2>4 DEF BeginLoad
<1>8. ASSUME NEW l \in Load, EndLoad(l) PROVE FeedTypeOK'
  <2>1. load[l] \in Loading
    BY <1>8, LoadUnderWay DEF EndLoad
  <2>2. /\ load[l].room \in Room /\ load[l].got \in 0 .. MaxMessages
        /\ load[l].start + 1 \in Int /\ load[l].start + 1 >= 1
    BY <2>1 DEF Loading
  <2>3. Len(feed) \in Int /\ \A i \in load[l].start + 1 .. Len(feed) : feed[i] \in Message
    BY <2>2, LenProperties, ElementOfSeq
  <2>4. SubSeq(feed, load[l].start + 1, Len(feed)) \in Seq(Message)
    BY <2>2, <2>3, SubSeqProperties
  <2>5. History(load[l].room, load[l].got) \o SubSeq(feed, load[l].start + 1, Len(feed))
          \in Seq(Message)
    BY <2>2, <2>4, HistoryType, ConcatProperties
  <2>6. feed' \in Seq(Message) /\ feedOf' \in Room \cup {NoRoom}
    BY <1>8, <2>2, <2>5 DEF EndLoad
  <2>7. load' \in [Load -> {Free} \cup Loading]
    BY <1>8 DEF EndLoad
  <2>8. QED
    BY <1>8, <2>6, <2>7 DEF EndLoad
<1>9. CASE UNCHANGED feedVars
  BY <1>9 DEF feedVars
<1>10. QED
  BY <1>1, <1>2, <1>3, <1>4, <1>5, <1>6, <1>7, <1>8, <1>9 DEF FeedNext

-----------------------------------------------------------------------------
(* The history that is shown *)

\* Load l is the latest one of the active session.
IsLatest(l) == load[l] # Free /\ load[l].room = here /\ load[l].by = "sync" /\ load[l].latest

\* Unless its history is shown, the active session has the latest load.
LatestIsForActive == lastSynced = here /\ (feedOf = here \/ \E l \in Load : IsLatest(l))

\* Each move starts the load that is now the latest, and only its end discards it.
LEMMA LatestStep ==
    ASSUME FeedTypeOK, LatestIsForActive, [FeedNext]_feedVars
    PROVE  LatestIsForActive'
<1> USE FeedAssumption DEF FeedTypeOK, IsLatest, LatestIsForActive
<1>1. ASSUME LeaveAll PROVE LatestIsForActive'
  BY <1>1 DEF LeaveAll
<1>2. ASSUME NEW s \in Room, NewMessage(s) PROVE LatestIsForActive'
  BY <1>2 DEF NewMessage
<1>3. ASSUME NEW s \in Room, Store(s) PROVE LatestIsForActive'
  BY <1>3 DEF Store
<1>4. ASSUME NEW s \in Room, NEW l \in Load, GoTo(s, l) PROVE LatestIsForActive'
  <2>1. load' = [k \in Load |->
                   CASE k = l -> Asked(s, "sync")
                     [] k # l /\ load[k] # Free -> [load[k] EXCEPT !.latest = FALSE]
                     [] OTHER -> Free]
    BY <1>4 DEF GoTo
  <2>2. load'[l] = Asked(s, "sync") /\ here' = s /\ lastSynced' = s
    BY <1>4, <2>1 DEF GoTo
  <2>3. load'[l] # Free /\ load'[l].room = s /\ load'[l].by = "sync" /\ load'[l].latest
    BY <2>2, AskedLoad
  <2>4. QED
    BY <2>2, <2>3
<1>5. ASSUME NEW l \in Load, TurnEnds(l) PROVE LatestIsForActive'
  <2>1. \A k \in Load : IsLatest(k) => load'[k] = load[k]
    BY <1>5 DEF TurnEnds
  <2>2. UNCHANGED <<here, lastSynced, feedOf, Free>>
    BY <1>5 DEF TurnEnds, Free
  <2>3. QED
    BY <2>1, <2>2
<1>6. ASSUME NEW l \in Load, Answer(l) PROVE LatestIsForActive'
  <2>1. load[l] \in Loading /\ load[l] # Free
    BY <1>6, LoadUnderWay DEF Answer
  <2>2. PICK got \in {stored[load[l].room], 0} :
          load' = [load EXCEPT ![l] = [load[l] EXCEPT !.phase = "answered", !.got = got]]
    BY <1>6 DEF Answer
  <2>3. /\ load'[l].phase = "answered" /\ load'[l].room = load[l].room
        /\ load'[l].by = load[l].by /\ load'[l].latest = load[l].latest
    BY <2>1, <2>2, SMTT(30) DEF Loading
  <2>4. load'[l] # Free
    BY <2>3 DEF Free
  <2>5. \A k \in Load : k # l => load'[k] = load[k]
    BY <2>2
  <2>6. UNCHANGED <<here, lastSynced, feedOf>>
    BY <1>6 DEF Answer
  <2>7. QED
    BY <2>3, <2>4, <2>5, <2>6 DEF Free
<1>7. ASSUME NEW l \in Load, BeginLoad(l) PROVE LatestIsForActive'
  <2>1. load[l] \in Loading /\ load[l] # Free
    BY <1>7, LoadUnderWay DEF BeginLoad
  <2>2. UNCHANGED <<here, lastSynced, feedOf>> /\ \A k \in Load : k # l => load'[k] = load[k]
    BY <1>7 DEF BeginLoad
  <2>3. CASE load[l].by = "sync" /\ ~ load[l].latest
    BY <2>2, <2>3 DEF Free
  <2>4. CASE ~ (load[l].by = "sync" /\ ~ load[l].latest)
    <3>1. load'[l] = [load[l] EXCEPT !.phase = "awaiting", !.start = Len(feed),
                                     !.had = made[load[l].room]]
      BY <1>7, <2>4 DEF BeginLoad
    <3>2. /\ load'[l].phase = "awaiting" /\ load'[l].room = load[l].room
          /\ load'[l].by = load[l].by /\ load'[l].latest = load[l].latest
      BY <2>1, <3>1, SMTT(30) DEF Loading
    <3>3. load'[l] # Free
      BY <3>2 DEF Free
    <3>4. QED
      BY <2>2, <3>2, <3>3 DEF Free
  <2>5. QED
    BY <2>3, <2>4
<1>8. ASSUME NEW l \in Load, EndLoad(l) PROVE LatestIsForActive'
  <2>1. UNCHANGED <<here, lastSynced>> /\ \A k \in Load : k # l => load'[k] = load[k]
    BY <1>8 DEF EndLoad
  <2>2. CASE here = load[l].room
    BY <1>8, <2>1, <2>2 DEF EndLoad
  <2>3. CASE here # load[l].room
    BY <1>8, <2>1, <2>3 DEF EndLoad, Free
  <2>4. QED
    BY <2>2, <2>3
<1>9. CASE UNCHANGED feedVars
  BY <1>9 DEF feedVars
<1>10. QED
  BY <1>1, <1>2, <1>3, <1>4, <1>5, <1>6, <1>7, <1>8, <1>9 DEF FeedNext

-----------------------------------------------------------------------------
(* The theorems *)

FeedInv == FeedTypeOK /\ LatestIsForActive

LEMMA FeedInvariant == FeedSpec => []FeedInv
<1>1. FeedInit => FeedInv
  BY FeedAssumption, EmptySeq DEF FeedInit, FeedInv, FeedTypeOK, LatestIsForActive
<1>2. FeedInv /\ [FeedNext]_feedVars => FeedInv'
  BY FeedTypeStep, LatestStep DEF FeedInv
<1>3. QED
  BY <1>1, <1>2, PTL DEF FeedSpec

\* The variables have their types.
THEOREM FeedTypeCorrect == FeedSpec => []FeedTypeOK
BY FeedInvariant, PTL DEF FeedInv

\* When nothing is being loaded, the history shown is that of the active
\* session (loadGeneration, useSessionSync).
THEOREM SettledFeedTheorem == FeedSpec => []SettledFeedIsOfActive
<1>1. FeedInv => SettledFeedIsOfActive
  BY DEF FeedInv, LatestIsForActive, IsLatest, SettledFeedIsOfActive
<1>2. QED
  BY FeedInvariant, <1>1, PTL

(***************************************************************************)
(* LiveSocket                                                              *)
(***************************************************************************)
-----------------------------------------------------------------------------
(* Every step keeps the types *)

\* A subscription can be put on the wire of a connection, and taken from it.
LEMMA WireType ==
    ASSUME SockTypeOK, NEW c \in Conn, NEW ss \in SUBSET Chat
    PROVE  /\ [wire EXCEPT ![c] = Append(@, ss)] \in [Conn -> Seq(SUBSET Chat)]
           /\ [wire EXCEPT ![c] = <<>>] \in [Conn -> Seq(SUBSET Chat)]
           /\ wire[c] # <<>> =>
                /\ Head(wire[c]) \in SUBSET Chat
                /\ [wire EXCEPT ![c] = Tail(@)] \in [Conn -> Seq(SUBSET Chat)]
<1>1. wire[c] \in Seq(SUBSET Chat) /\ wire \in [Conn -> Seq(SUBSET Chat)]
  BY DEF SockTypeOK
<1>2. Append(wire[c], ss) \in Seq(SUBSET Chat)
  BY <1>1, AppendProperties
<1>3. <<>> \in Seq(SUBSET Chat)
  BY EmptySeq
<1>4. wire[c] # <<>> => Head(wire[c]) \in SUBSET Chat /\ Tail(wire[c]) \in Seq(SUBSET Chat)
  BY <1>1, HeadTailProperties
<1>5. QED
  BY <1>1, <1>2, <1>3, <1>4

\* No handler of the page, of the server or of the network leaves the types.
LEMMA SockTypeStep ==
    ASSUME SockTypeOK, [SockNext]_sockVars
    PROVE  SockTypeOK'
<1> USE SocketAssumption DEF SockTypeOK
<1>1. ASSUME NEW s \in Chat \cup {NoChat}, View(s) PROVE SockTypeOK'
  <2>1. views' \in 0 .. MaxViews
    BY <1>1 DEF View
  <2>2. wire' \in [Conn -> Seq(SUBSET Chat)]
    <3>1. CASE page # NoConn /\ link[page] = "open" /\ s # NoChat
      <4>1. page \in Conn /\ {s} \in SUBSET Chat
        BY <3>1
      <4>2. [wire EXCEPT ![page] = Append(wire[page], {s})] \in [Conn -> Seq(SUBSET Chat)]
        BY <4>1, WireType
      <4>3. QED
        BY <1>1, <3>1, <4>2 DEF View, Send
    <3>2. QED
      BY <1>1, <3>1 DEF View
  <2>3. QED
    BY <1>1, <2>1, <2>2 DEF View
<1>2. ASSUME PageStarts PROVE SockTypeOK'
  BY <1>2 DEF PageStarts
<1>3. ASSUME NEW c \in Conn, Connect(c) PROVE SockTypeOK'
  BY <1>3 DEF Connect
<1>4. ASSUME NEW c \in Conn, ServerOpens(c) PROVE SockTypeOK'
  BY <1>4 DEF ServerOpens
<1>5. ASSUME NEW c \in Conn, PageOpens(c) PROVE SockTypeOK'
  <2>1. viewed' \in SUBSET Chat
    BY <1>5 DEF PageOpens
  <2>2. wire' \in [Conn -> Seq(SUBSET Chat)]
    BY <1>5, <2>1, WireType DEF PageOpens, Send
  <2>3. QED
    BY <1>5, <2>1, <2>2 DEF PageOpens
<1>6. ASSUME NEW c \in Conn, ServerSubscribes(c) PROVE SockTypeOK'
  <2>1. wire' \in [Conn -> Seq(SUBSET Chat)] /\ Head(wire[c]) \in SUBSET Chat
    BY <1>6, WireType DEF ServerSubscribes
  <2>2. subscribed' \in [Conn -> SUBSET Chat]
    BY <1>6, <2>1 DEF ServerSubscribes
  <2>3. QED
    BY <1>6, <2>1, <2>2 DEF ServerSubscribes
<1>7. ASSUME NEW c \in Conn, Cut(c) PROVE SockTypeOK'
  <2>1. cuts' \in 0 .. MaxCuts
    BY <1>7 DEF Cut
  <2>2. wire' \in [Conn -> Seq(SUBSET Chat)]
    BY <1>7, WireType DEF Cut
  <2>3. QED
    BY <1>7, <2>1, <2>2 DEF Cut
<1>8. ASSUME NEW c \in Conn, PageCloses(c) PROVE SockTypeOK'
  <2>1. candidate' \in 0 .. Candidates - 1
    BY <1>8 DEF PageCloses
  <2>2. QED
    BY <1>8, <2>1 DEF PageCloses
<1>9. ASSUME NEW c \in Conn, ServerCloses(c) PROVE SockTypeOK'
  BY <1>9 DEF ServerCloses
<1>10. ASSUME Heartbeat PROVE SockTypeOK'
  <2>1. wire' \in [Conn -> Seq(SUBSET Chat)]
    BY <1>10, EmptySeq DEF Heartbeat
  <2>2. QED
    BY <1>10, <2>1 DEF Heartbeat
<1>11. ASSUME ConnectThrows PROVE SockTypeOK'
  BY <1>11 DEF ConnectThrows
<1>12. CASE UNCHANGED sockVars
  BY <1>12 DEF sockVars
<1>13. QED
  BY <1>1, <1>2, <1>3, <1>4, <1>5, <1>6, <1>7, <1>8, <1>9, <1>10, <1>11,
     <1>12 DEF SockNext

-----------------------------------------------------------------------------
(* The sessions that are subscribed to *)

\* The server knows of session s of connection c, or is about to be told.
Follows(c, s) ==
    s \in subscribed[c] \/ \E i \in 1 .. Len(wire[c]) : s \in wire[c][i]

\* The connection the page holds was open once: it is not one that is free or
\* being opened, which may be made anew.
PageIsBeyondOpening ==
    page # NoConn => link[page] \in {"open", "closed"}

ActiveIsViewed == page # NoConn => active \in viewed \cup {NoChat}

ViewedFollow ==
    page # NoConn /\ link[page] = "open" /\ page \in clients =>
        \A s \in viewed : Follows(page, s)

\* Only an address that failed is connected to anew.
LEMMA BeyondOpeningStep ==
    ASSUME SockTypeOK, PageIsBeyondOpening, [SockNext]_sockVars
    PROVE  PageIsBeyondOpening'
<1> USE SocketAssumption DEF SockTypeOK, PageIsBeyondOpening
<1>1. ASSUME NEW s \in Chat \cup {NoChat}, View(s) PROVE PageIsBeyondOpening'
  BY <1>1 DEF View, Send
<1>2. ASSUME PageStarts PROVE PageIsBeyondOpening'
  BY <1>2 DEF PageStarts
<1>3. ASSUME NEW c \in Conn, Connect(c) PROVE PageIsBeyondOpening'
  BY <1>3 DEF Connect
<1>4. ASSUME NEW c \in Conn, ServerOpens(c) PROVE PageIsBeyondOpening'
  BY <1>4 DEF ServerOpens
<1>5. ASSUME NEW c \in Conn, PageOpens(c) PROVE PageIsBeyondOpening'
  BY <1>5 DEF PageOpens, Send
<1>6. ASSUME NEW c \in Conn, ServerSubscribes(c) PROVE PageIsBeyondOpening'
  BY <1>6 DEF ServerSubscribes
<1>7. ASSUME NEW c \in Conn, Cut(c) PROVE PageIsBeyondOpening'
  BY <1>7 DEF Cut
<1>8. ASSUME NEW c \in Conn, PageCloses(c) PROVE PageIsBeyondOpening'
  BY <1>8 DEF PageCloses
<1>9. ASSUME NEW c \in Conn, ServerCloses(c) PROVE PageIsBeyondOpening'
  BY <1>9 DEF ServerCloses
<1>10. ASSUME Heartbeat PROVE PageIsBeyondOpening'
  <2>1. \A c \in Conn : link[c] \in {"open", "closed"} => link'[c] \in {"open", "closed"}
    BY <1>10 DEF Heartbeat
  <2>2. UNCHANGED page
    BY <1>10 DEF Heartbeat
  <2>3. QED
    BY <2>1, <2>2
<1>11. ASSUME ConnectThrows PROVE PageIsBeyondOpening'
  BY <1>11 DEF ConnectThrows
<1>12. CASE UNCHANGED sockVars
  BY <1>12 DEF sockVars
<1>13. QED
  BY <1>1, <1>2, <1>3, <1>4, <1>5, <1>6, <1>7, <1>8, <1>9, <1>10, <1>11,
     <1>12 DEF SockNext

\* The page notes the active session as soon as it has a connection.
LEMMA ActiveStep ==
    ASSUME SockTypeOK, ActiveIsViewed, [SockNext]_sockVars
    PROVE  ActiveIsViewed'
<1> USE SocketAssumption DEF SockTypeOK, ActiveIsViewed
<1>1. ASSUME NEW s \in Chat \cup {NoChat}, View(s) PROVE ActiveIsViewed'
  BY <1>1 DEF View, Send
<1>2. ASSUME PageStarts PROVE ActiveIsViewed'
  BY <1>2 DEF PageStarts
<1>3. ASSUME NEW c \in Conn, Connect(c) PROVE ActiveIsViewed'
  BY <1>3 DEF Connect
<1>4. ASSUME NEW c \in Conn, ServerOpens(c) PROVE ActiveIsViewed'
  BY <1>4 DEF ServerOpens
<1>5. ASSUME NEW c \in Conn, PageOpens(c) PROVE ActiveIsViewed'
  BY <1>5 DEF PageOpens, Send
<1>6. ASSUME NEW c \in Conn, ServerSubscribes(c) PROVE ActiveIsViewed'
  BY <1>6 DEF ServerSubscribes
<1>7. ASSUME NEW c \in Conn, Cut(c) PROVE ActiveIsViewed'
  BY <1>7 DEF Cut
<1>8. ASSUME NEW c \in Conn, PageCloses(c) PROVE ActiveIsViewed'
  BY <1>8 DEF PageCloses
<1>9. ASSUME NEW c \in Conn, ServerCloses(c) PROVE ActiveIsViewed'
  BY <1>9 DEF ServerCloses
<1>10. ASSUME Heartbeat PROVE ActiveIsViewed'
  BY <1>10 DEF Heartbeat
<1>11. ASSUME ConnectThrows PROVE ActiveIsViewed'
  BY <1>11 DEF ConnectThrows
<1>12. CASE UNCHANGED sockVars
  BY <1>12 DEF sockVars
<1>13. QED
  BY <1>1, <1>2, <1>3, <1>4, <1>5, <1>6, <1>7, <1>8, <1>9, <1>10, <1>11,
     <1>12 DEF SockNext

\* What is sent is about to be known, and what was about to be known stays so.
LEMMA SendFollows ==
    ASSUME SockTypeOK, NEW c \in Conn, NEW ss \in SUBSET Chat, Send(c, ss),
           subscribed' = subscribed
    PROVE  /\ \A s \in ss : Follows(c, s)'
           /\ \A s \in Chat : Follows(c, s) => Follows(c, s)'
<1>1. wire[c] \in Seq(SUBSET Chat) /\ wire'[c] = Append(wire[c], ss)
  BY DEF SockTypeOK, Send
<1>2. /\ Len(wire'[c]) = Len(wire[c]) + 1 /\ Len(wire[c]) \in Nat
      /\ wire'[c][Len(wire[c]) + 1] = ss
      /\ \A i \in 1 .. Len(wire[c]) : wire'[c][i] = wire[c][i]
  BY <1>1, AppendProperties, LenProperties
<1>3. Len(wire[c]) + 1 \in 1 .. Len(wire'[c])
  BY <1>2
<1>4. \A i \in 1 .. Len(wire[c]) : i \in 1 .. Len(wire'[c])
  BY <1>2
<1>5. QED
  BY <1>2, <1>3, <1>4 DEF Follows

\* The server takes note of what it reads.
LEMMA ReadFollows ==
    ASSUME SockTypeOK, NEW c \in Conn, c \in clients, ServerSubscribes(c), NEW s \in Chat,
           Follows(c, s)
    PROVE  Follows(c, s)'
<1>1. /\ wire[c] \in Seq(SUBSET Chat) /\ wire[c] # <<>> /\ wire'[c] = Tail(wire[c])
      /\ subscribed'[c] = subscribed[c] \cup Head(wire[c])
  BY DEF SockTypeOK, ServerSubscribes
<1>2. Len(wire[c]) \in Nat /\ Len(wire[c]) # 0 /\ Head(wire[c]) = wire[c][1]
  BY <1>1, EmptySeq, LenProperties
<1>3. /\ Len(Tail(wire[c])) = Len(wire[c]) - 1
      /\ \A i \in 1 .. Len(wire[c]) - 1 : Tail(wire[c])[i] = wire[c][i + 1]
  BY <1>1, HeadTailProperties
<1>4. CASE s \in subscribed[c]
  BY <1>1, <1>4 DEF Follows
<1>5. ASSUME NEW i \in 1 .. Len(wire[c]), s \in wire[c][i] PROVE Follows(c, s)'
  <2>1. CASE i = 1
    BY <1>1, <1>2, <1>5, <2>1 DEF Follows
  <2>2. CASE i # 1
    <3>1. i - 1 \in 1 .. Len(wire[c]) - 1 /\ (i - 1) + 1 = i
      BY <1>2, <2>2
    <3>2. s \in wire'[c][i - 1] /\ i - 1 \in 1 .. Len(wire'[c])
      BY <1>1, <1>3, <1>5, <3>1
    <3>3. QED
      BY <3>2 DEF Follows
  <2>3. QED
    BY <2>1, <2>2
<1>6. QED
  BY <1>4, <1>5 DEF Follows

\* A session stays followed over the connection that the page holds.
LEMMA FollowStep ==
    ASSUME SockTypeOK, PageIsBeyondOpening, ViewedFollow, [SockNext]_sockVars
    PROVE  ViewedFollow'
<1> USE SocketAssumption DEF SockTypeOK, PageIsBeyondOpening, ViewedFollow
<1>1. ASSUME NEW s \in Chat \cup {NoChat}, View(s) PROVE ViewedFollow'
  <2>1. CASE page # NoConn /\ link[page] = "open" /\ s # NoChat
    <3>1. page \in Conn /\ {s} \in SUBSET Chat
      BY <2>1
    <3>2. /\ Send(page, {s}) /\ UNCHANGED <<page, link, clients, subscribed>>
          /\ viewed' = viewed \cup {s}
      BY <1>1, <2>1 DEF View
    <3>3. /\ \A t \in {s} : Follows(page, t)'
          /\ \A t \in Chat : Follows(page, t) => Follows(page, t)'
      BY <3>1, <3>2, SendFollows
    <3>4. page \in clients => \A t \in viewed' : Follows(page, t)'
      BY <2>1, <3>2, <3>3
    <3>5. QED
      BY <3>2, <3>4
  <2>2. CASE page = NoConn \/ link[page] # "open"
    BY <1>1, <2>2 DEF View
  <2>3. CASE page # NoConn /\ link[page] = "open" /\ s = NoChat
    <3>1. viewed' = viewed /\ UNCHANGED <<page, link, clients, subscribed, wire>>
      BY <1>1, <2>3 DEF View
    <3>2. \A t \in Chat : Follows(page, t)' <=> Follows(page, t)
      BY <3>1 DEF Follows
    <3>3. QED
      BY <3>1, <3>2
  <2>4. QED
    BY <2>1, <2>2, <2>3
<1>2. ASSUME PageStarts PROVE ViewedFollow'
  BY <1>2 DEF PageStarts, Follows
<1>3. ASSUME NEW c \in Conn, Connect(c) PROVE ViewedFollow'
  <2>1. UNCHANGED <<page, clients, viewed, subscribed, wire>> /\ c # page
    BY <1>3 DEF Connect
  <2>2. page # NoConn => link'[page] = link[page]
    BY <1>3, <2>1 DEF Connect
  <2>3. QED
    BY <2>1, <2>2 DEF Follows
<1>4. ASSUME NEW c \in Conn, ServerOpens(c) PROVE ViewedFollow'
  <2>1. c # page
    BY <1>4 DEF ServerOpens
  <2>2. \A t \in Chat : page # NoConn => (Follows(page, t)' <=> Follows(page, t))
    BY <1>4, <2>1 DEF ServerOpens, Follows
  <2>3. QED
    BY <1>4, <2>1, <2>2 DEF ServerOpens
<1>5. ASSUME NEW c \in Conn, PageOpens(c) PROVE ViewedFollow'
  <2>1. Send(c, viewed') /\ viewed' \in SUBSET Chat /\ subscribed' = subscribed /\ page' = c
    BY <1>5 DEF PageOpens
  <2>2. \A t \in viewed' : Follows(c, t)'
    BY <2>1, SendFollows
  <2>3. QED
    BY <2>1, <2>2 DEF Follows
<1>6. ASSUME NEW c \in Conn, ServerSubscribes(c) PROVE ViewedFollow'
  <2>1. UNCHANGED <<page, link, clients, viewed>>
    BY <1>6 DEF ServerSubscribes
  <2>2. CASE c = page /\ c \in clients
    <3>1. \A t \in Chat : Follows(c, t) => Follows(c, t)'
      BY <1>6, <2>2, ReadFollows
    <3>2. QED
      BY <2>1, <2>2, <3>1 DEF Follows
  <2>3. CASE c = page /\ c \notin clients
    BY <2>1, <2>3
  <2>4. CASE c # page
    <3>1. page # NoConn => subscribed'[page] = subscribed[page] /\ wire'[page] = wire[page]
      BY <1>6, <2>4 DEF ServerSubscribes
    <3>2. QED
      BY <2>1, <3>1 DEF Follows
  <2>5. QED
    BY <2>2, <2>3, <2>4
<1>7. ASSUME NEW c \in Conn, Cut(c) PROVE ViewedFollow'
  <2>1. UNCHANGED <<page, clients, viewed, subscribed>>
    BY <1>7 DEF Cut
  <2>2. CASE c = page
    BY <1>7, <2>1, <2>2 DEF Cut
  <2>3. CASE c # page
    <3>1. page # NoConn => link'[page] = link[page] /\ wire'[page] = wire[page]
      BY <1>7, <2>3 DEF Cut
    <3>2. QED
      BY <2>1, <3>1 DEF Follows
  <2>4. QED
    BY <2>2, <2>3
<1>8. ASSUME NEW c \in Conn, PageCloses(c) PROVE ViewedFollow'
  BY <1>8 DEF PageCloses
<1>9. ASSUME NEW c \in Conn, ServerCloses(c) PROVE ViewedFollow'
  BY <1>9 DEF ServerCloses, Follows
<1>10. ASSUME Heartbeat PROVE ViewedFollow'
  <2>1. UNCHANGED <<page, viewed, subscribed>>
    BY <1>10 DEF Heartbeat
  <2>2. SUFFICES ASSUME page # NoConn, link'[page] = "open", page \in clients'
                 PROVE  \A t \in viewed : Follows(page, t)'
    BY <2>1
  <2>3. page \in Conn /\ page \in clients /\ link[page] = "open" /\ wire'[page] = wire[page]
    BY <1>10, <2>1, <2>2 DEF Heartbeat
  <2>4. QED
    BY <2>1, <2>2, <2>3 DEF Follows
<1>11. ASSUME ConnectThrows PROVE ViewedFollow'
  BY <1>11 DEF ConnectThrows, Follows
<1>12. CASE UNCHANGED sockVars
  BY <1>12 DEF sockVars, Follows
<1>13. QED
  BY <1>1, <1>2, <1>3, <1>4, <1>5, <1>6, <1>7, <1>8, <1>9, <1>10, <1>11,
     <1>12 DEF SockNext

-----------------------------------------------------------------------------
(* The theorems *)

SockInv == SockTypeOK /\ PageIsBeyondOpening /\ ActiveIsViewed /\ ViewedFollow

LEMMA SockInvariant == SockSpec => []SockInv
<1>1. SockInit => SockInv
  <2> SUFFICES ASSUME SockInit PROVE SockInv
    OBVIOUS
  <2>1. <<>> \in Seq(SUBSET Chat) /\ 0 \in 0 .. Candidates - 1
    BY SocketAssumption, EmptySeq
  <2>2. SockTypeOK
    <3>1. 0 \in 0 .. MaxCuts /\ 0 \in 0 .. MaxViews
      BY SocketAssumption
    <3>2. wire \in [Conn -> Seq(SUBSET Chat)]
      BY <2>1 DEF SockInit
    <3>3. /\ link \in [Conn -> {"free", "opening", "open", "closed"}]
          /\ subscribed \in [Conn -> SUBSET Chat]
          /\ isAlive \in [Conn -> BOOLEAN]
      BY DEF SockInit
    <3>4. QED
      BY <2>1, <3>1, <3>2, <3>3 DEF SockInit, SockTypeOK
  <2>3. QED
    BY <2>2 DEF SockInit, SockInv, PageIsBeyondOpening, ActiveIsViewed, ViewedFollow
<1>2. SockInv /\ [SockNext]_sockVars => SockInv'
  BY SockTypeStep, BeyondOpeningStep, ActiveStep, FollowStep DEF SockInv
<1>3. QED
  BY <1>1, <1>2, PTL DEF SockSpec

\* The variables have their types.
THEOREM SockTypeCorrect == SockSpec => []SockTypeOK
BY SockInvariant, PTL DEF SockInv

\* Over a connection that both ends know, the server sends or is about to send
\* the page every session it has noted, the active one among them (onopen,
\* subscribeToSession, subscribe_session).
THEOREM SubscriptionsTheorem == SockSpec => []SubscriptionsFollow
<1>1. SockInv => SubscriptionsFollow
  BY DEF SockInv, ActiveIsViewed, ViewedFollow, Follows, SubscriptionsFollow
<1>2. QED
  BY SockInvariant, <1>1, PTL

(***************************************************************************)
(* StreamCoalescer                                                         *)
(***************************************************************************)
-----------------------------------------------------------------------------
(* What the loop has read, and what it will read *)

\* Every variable is what its users expect.
ChanSeqs ==
    /\ keyOf \in Seq(Key \cup {Plain, Direct}) /\ Len(keyOf) <= MaxEvents
    /\ stream \in Seq(Nat) /\ sent \in Seq(Nat)
    /\ held \in [Key -> Seq(Nat)]
    /\ heldOrder \in Seq(Key)
    /\ armed \subseteq Key
    /\ brokerOpen \in BOOLEAN /\ looping \in BOOLEAN

EventsOf(q) == {q[i] : i \in 1 .. Len(q)}
Rising(q) == \A i, j \in 1 .. Len(q) : i < j => q[i] < q[j]

\* The events that go through the broker, those held back, and all that the
\* loop has read.
Brokered == {n \in Published : keyOf[n] # Direct}
HeldBack == {n \in Published : \E k \in Key : n \in EventsOf(held[k])}
Taken == HeldBack \cup {n \in EventsOf(sent) : keyOf[n] # Direct}

\* The text held for a key is the key's, in order, and not sent yet.
HeldIsOfKey ==
    /\ \A k \in Key : /\ Rising(held[k])
                      /\ \A n \in EventsOf(held[k]) :
                           n \in Published /\ keyOf[n] = k /\ n \notin EventsOf(sent)
    /\ EventsOf(sent) \subseteq Published

\* The keys that text is held for are listed once, and have their timers.
HeldIsListed ==
    /\ \A i, j \in 1 .. Len(heldOrder) : i # j => heldOrder[i] # heldOrder[j]
    /\ \A k \in Key : k \in EventsOf(heldOrder) <=> held[k] # <<>>
    /\ armed = EventsOf(heldOrder)

\* The stream is in order, and later than all that was read.
StreamIsLater ==
    /\ Rising(stream) /\ EventsOf(stream) \subseteq Brokered
    /\ \A n \in Taken : \A m \in EventsOf(stream) : n < m

\* The stream leaves no event out, until the broker is shut down.
NoGaps ==
    /\ brokerOpen => Brokered \subseteq EventsOf(stream) \cup Taken
    /\ \A n \in EventsOf(stream) \cup Taken :
         \A m \in Brokered : m < n => m \in EventsOf(stream) \cup Taken

\* What SentOnceInOrder says, of any sequence of events.
InOrder(q) ==
    \A j \in 1 .. Len(q) :
        /\ \A i \in 1 .. j - 1 : q[i] # q[j]
        /\ \A m \in Published :
             MustPrecede(m, q[j]) => \E i \in 1 .. j - 1 : q[i] = m

ChanInv ==
    /\ ChanSeqs /\ HeldIsOfKey /\ HeldIsListed /\ StreamIsLater /\ NoGaps /\ InOrder(sent)

-----------------------------------------------------------------------------
(* Sequences of events *)

LEMMA NoEvents ==
    EventsOf(<<>>) = {} /\ Rising(<<>>) /\ Len(<<>>) = 0
BY EmptySeq DEF EventsOf, Rising

\* One sequence after another.
LEMMA Joined ==
    ASSUME NEW M, NEW q \in Seq(M), NEW b \in Seq(M)
    PROVE  /\ q \o b \in Seq(M)
           /\ Len(q) \in Nat /\ Len(b) \in Nat
           /\ \A i \in 1 .. Len(q) : i \in 1 .. Len(q \o b) /\ (q \o b)[i] = q[i]
           /\ \A j \in 1 .. Len(b) : Len(q) + j \in 1 .. Len(q \o b)
                                     /\ (q \o b)[Len(q) + j] = b[j]
           /\ \A i \in 1 .. Len(q \o b) :
                i \in 1 .. Len(q) \/ \E j \in 1 .. Len(b) : i = Len(q) + j
           /\ EventsOf(q \o b) = EventsOf(q) \cup EventsOf(b)
<1>1. PICK r : r = q \o b
  OBVIOUS
<1>2. /\ r \in Seq(M) /\ Len(r) = Len(q) + Len(b) /\ Len(q) \in Nat /\ Len(b) \in Nat
      /\ \A i \in 1 .. Len(q) + Len(b) : r[i] = IF i <= Len(q) THEN q[i] ELSE b[i - Len(q)]
  BY <1>1, ConcatProperties, LenProperties
<1>3. \A i \in 1 .. Len(q) : i \in 1 .. Len(r) /\ r[i] = q[i]
  BY <1>2
<1>4. ASSUME NEW j \in 1 .. Len(b)
      PROVE  Len(q) + j \in 1 .. Len(r) /\ r[Len(q) + j] = b[j]
  <2>1. /\ Len(q) + j \in 1 .. Len(q) + Len(b) /\ ~ (Len(q) + j <= Len(q))
        /\ (Len(q) + j) - Len(q) = j
    BY <1>2
  <2>2. QED
    BY <1>2, <2>1
<1>5. ASSUME NEW i \in 1 .. Len(r), i \notin 1 .. Len(q)
      PROVE  \E j \in 1 .. Len(b) : i = Len(q) + j
  <2>1. i - Len(q) \in 1 .. Len(b) /\ i = Len(q) + (i - Len(q))
    BY <1>2, <1>5
  <2>2. QED
    BY <2>1
<1>6. EventsOf(r) = EventsOf(q) \cup EventsOf(b)
  <2>1. ASSUME NEW x \in EventsOf(r) PROVE x \in EventsOf(q) \cup EventsOf(b)
    <3>1. PICK i \in 1 .. Len(r) : x = r[i]
      BY <2>1 DEF EventsOf
    <3>2. CASE i \in 1 .. Len(q)
      BY <1>3, <3>1, <3>2 DEF EventsOf
    <3>3. CASE i \notin 1 .. Len(q)
      <4>1. PICK j \in 1 .. Len(b) : i = Len(q) + j
        BY <1>5, <3>3
      <4>2. x = b[j]
        BY <1>4, <3>1, <4>1
      <4>3. QED
        BY <4>2 DEF EventsOf
    <3>4. QED
      BY <3>2, <3>3
  <2>2. ASSUME NEW x \in EventsOf(q) PROVE x \in EventsOf(r)
    BY <1>3 DEF EventsOf
  <2>3. ASSUME NEW x \in EventsOf(b) PROVE x \in EventsOf(r)
    BY <1>4 DEF EventsOf
  <2>4. QED
    BY <2>1, <2>2, <2>3
<1>7. QED
  BY <1>1, <1>2, <1>3, <1>4, <1>5, <1>6

LEMMA JoinedThrice ==
    ASSUME NEW q \in Seq(Nat), NEW b \in Seq(Nat), NEW c \in Seq(Nat)
    PROVE  (q \o b) \o c = q \o (b \o c)
BY ConcatAssociative, SMTT(30)

\* One more at the end.
LEMMA Added ==
    ASSUME NEW M, NEW q \in Seq(M), NEW x \in M
    PROVE  /\ Append(q, x) \in Seq(M) /\ Len(Append(q, x)) = Len(q) + 1 /\ Len(q) \in Nat
           /\ Append(q, x) = q \o <<x>> /\ <<x>> \in Seq(M)
           /\ Len(<<x>>) = 1 /\ <<x>>[1] = x /\ EventsOf(<<x>>) = {x}
           /\ EventsOf(Append(q, x)) = EventsOf(q) \cup {x}
           /\ Append(q, x)[Len(q) + 1] = x
           /\ \A i \in 1 .. Len(q) : Append(q, x)[i] = q[i]
<1>1. /\ Append(q, x) \in Seq(M) /\ Len(Append(q, x)) = Len(q) + 1 /\ Len(q) \in Nat
      /\ Append(q, x) = q \o <<x>>
      /\ Append(q, x)[Len(q) + 1] = x
      /\ \A i \in 1 .. Len(q) : Append(q, x)[i] = q[i]
  <2>1. Append(q, x) = q \o <<x>>
    BY AppendIsConcat
  <2>2. Len(q) \in Nat
    BY LenProperties
  <2>3. /\ Append(q, x) \in Seq(M) /\ Len(Append(q, x)) = Len(q) + 1
        /\ Append(q, x)[Len(q) + 1] = x
        /\ \A i \in 1 .. Len(q) : Append(q, x)[i] = q[i]
    BY AppendProperties
  <2>4. QED
    BY <2>1, <2>2, <2>3
<1>2. <<x>> \in Seq(M) /\ Len(<<x>>) = 1 /\ <<x>>[1] = x
  OBVIOUS
<1>3. EventsOf(<<x>>) = {x}
  BY <1>2 DEF EventsOf
<1>4. EventsOf(q \o <<x>>) = EventsOf(q) \cup EventsOf(<<x>>)
  <2>1. PICK o \in Seq(M) : o = <<x>>
    BY <1>2
  <2>2. EventsOf(q \o o) = EventsOf(q) \cup EventsOf(o)
    BY Joined
  <2>3. QED
    BY <2>1, <2>2
<1>5. QED
  BY <1>1, <1>2, <1>3, <1>4

LEMMA EventAdded ==
    ASSUME NEW q \in Seq(Nat), NEW x \in Nat
    PROVE  /\ Append(q, x) \in Seq(Nat) /\ Len(Append(q, x)) = Len(q) + 1 /\ Len(q) \in Nat
           /\ EventsOf(Append(q, x)) = EventsOf(q) \cup {x}
           /\ Append(q, x)[Len(q) + 1] = x
           /\ \A i \in 1 .. Len(q) : Append(q, x)[i] = q[i]
<1>1. PICK r : r = Append(q, x)
  OBVIOUS
<1>2. /\ r \in Seq(Nat) /\ Len(r) = Len(q) + 1 /\ Len(q) \in Nat
      /\ r[Len(q) + 1] = x /\ \A i \in 1 .. Len(q) : r[i] = q[i]
  BY <1>1, AppendProperties, LenProperties
<1>3. \A i \in 1 .. Len(r) : i \in 1 .. Len(q) \/ i = Len(q) + 1
  BY <1>2
<1>4. Len(q) + 1 \in 1 .. Len(r) /\ \A i \in 1 .. Len(q) : i \in 1 .. Len(r)
  BY <1>2
<1>5. \A y : y \in EventsOf(r) <=> y \in EventsOf(q) \cup {x}
  BY <1>2, <1>3, <1>4 DEF EventsOf
<1>6. QED
  BY <1>1, <1>2, <1>5

\* One less at the front.
LEMMA FirstTaken ==
    ASSUME NEW M, NEW q \in Seq(M), q # <<>>
    PROVE  /\ Head(q) \in M /\ Tail(q) \in Seq(M)
           /\ EventsOf(q) = {Head(q)} \cup EventsOf(Tail(q))
           /\ M \subseteq Nat /\ Rising(q) =>
                Rising(Tail(q)) /\ \A m \in EventsOf(Tail(q)) : Head(q) < m
<1>1. PICK r : r = Tail(q)
  OBVIOUS
<1>2. Len(q) \in Nat /\ Len(q) # 0
  BY EmptySeq, LenProperties
<1>3. /\ Head(q) \in M /\ r \in Seq(M) /\ Len(r) = Len(q) - 1 /\ Head(q) = q[1]
      /\ \A i \in 1 .. Len(r) : r[i] = q[i + 1]
  BY <1>1, HeadTailProperties
<1>4. \A i \in 1 .. Len(r) : i + 1 \in 1 .. Len(q) /\ 1 < i + 1 /\ r[i] = q[i + 1]
  BY <1>2, <1>3
<1>5. 1 \in 1 .. Len(q)
  BY <1>2
<1>6. EventsOf(q) = {Head(q)} \cup EventsOf(r)
  <2>1. ASSUME NEW x \in EventsOf(q), x # Head(q) PROVE x \in EventsOf(r)
    <3>1. PICK i \in 1 .. Len(q) : x = q[i]
      BY <2>1 DEF EventsOf
    <3>2. i # 1
      BY <1>3, <2>1, <3>1
    <3>3. i - 1 \in 1 .. Len(r) /\ (i - 1) + 1 = i
      BY <1>2, <1>3, <3>2
    <3>4. x = r[i - 1]
      BY <1>4, <3>1, <3>3
    <3>5. QED
      BY <3>3, <3>4 DEF EventsOf
  <2>2. Head(q) \in EventsOf(q)
    BY <1>3, <1>5 DEF EventsOf
  <2>3. ASSUME NEW x \in EventsOf(r) PROVE x \in EventsOf(q)
    BY <1>4 DEF EventsOf
  <2>4. QED
    BY <2>1, <2>2, <2>3
<1>7. ASSUME Rising(q) PROVE Rising(r) /\ \A m \in EventsOf(r) : Head(q) < m
  <2>1. \A i, j \in 1 .. Len(r) : i < j => i + 1 < j + 1
    OBVIOUS
  <2>2. Rising(r)
    BY <1>4, <1>7, <2>1 DEF Rising
  <2>3. \A i \in 1 .. Len(r) : Head(q) < r[i]
    BY <1>3, <1>4, <1>5, <1>7 DEF Rising
  <2>4. QED
    BY <2>2, <2>3 DEF EventsOf
<1>8. QED
  BY <1>1, <1>3, <1>6, <1>7

\* A later event keeps a sequence rising.
LEMMA AddedRises ==
    ASSUME NEW q \in Seq(Nat), NEW x \in Nat, Rising(q), \A m \in EventsOf(q) : m < x
    PROVE  Rising(Append(q, x))
<1>1. PICK r : r = Append(q, x)
  OBVIOUS
<1>2. /\ Len(q) \in Nat /\ Len(r) = Len(q) + 1 /\ r[Len(q) + 1] = x
      /\ \A i \in 1 .. Len(q) : r[i] = q[i]
  BY <1>1, Added
<1>3. \A i \in 1 .. Len(q) : q[i] < x
  BY DEF EventsOf
<1>4. \A i \in 1 .. Len(r) : i \in 1 .. Len(q) \/ i = Len(q) + 1
  BY <1>2
<1>5. ASSUME NEW i \in 1 .. Len(r), NEW j \in 1 .. Len(r), i < j PROVE r[i] < r[j]
  <2>1. i \in 1 .. Len(q)
    BY <1>2, <1>5
  <2>2. CASE j \in 1 .. Len(q)
    BY <1>2, <1>5, <2>1, <2>2 DEF Rising
  <2>3. CASE j = Len(q) + 1
    BY <1>2, <1>3, <2>1, <2>3
  <2>4. QED
    BY <1>4, <2>2, <2>3
<1>6. QED
  BY <1>1, <1>5 DEF Rising

\* A batch keeps what is sent in order if its events are new, and what must
\* precede them was sent or stands before them.
LEMMA JoinedInOrder ==
    ASSUME NEW q \in Seq(Nat), NEW b \in Seq(Nat), InOrder(q),
           \A j \in 1 .. Len(b) :
               /\ b[j] \notin EventsOf(q)
               /\ \A i \in 1 .. j - 1 : b[i] # b[j]
               /\ \A m \in Published :
                    MustPrecede(m, b[j]) =>
                      m \in EventsOf(q) \/ \E i \in 1 .. j - 1 : b[i] = m
    PROVE  InOrder(q \o b)
<1>1. PICK r : r = q \o b
  OBVIOUS
<1>2. /\ Len(q) \in Nat /\ Len(b) \in Nat
      /\ \A i \in 1 .. Len(q) : i \in 1 .. Len(r) /\ r[i] = q[i]
      /\ \A j \in 1 .. Len(b) : Len(q) + j \in 1 .. Len(r) /\ r[Len(q) + j] = b[j]
      /\ \A i \in 1 .. Len(r) : i \in 1 .. Len(q) \/ \E j \in 1 .. Len(b) : i = Len(q) + j
  BY <1>1, Joined
<1>3. ASSUME NEW j \in 1 .. Len(r)
      PROVE  /\ \A i \in 1 .. j - 1 : r[i] # r[j]
             /\ \A m \in Published : MustPrecede(m, r[j]) => \E i \in 1 .. j - 1 : r[i] = m
  <2>1. CASE j \in 1 .. Len(q)
    <3>1. \A i \in 1 .. j - 1 : i \in 1 .. Len(q)
      BY <1>2, <2>1
    <3>2. r[j] = q[j] /\ \A i \in 1 .. j - 1 : r[i] = q[i]
      BY <1>2, <2>1, <3>1
    <3>3. \A i \in 1 .. j - 1 : q[i] # q[j]
      BY <2>1 DEF InOrder
    <3>4. \A m \in Published : MustPrecede(m, q[j]) => \E i \in 1 .. j - 1 : q[i] = m
      BY <2>1 DEF InOrder
    <3>5. QED
      BY <3>2, <3>3, <3>4
  <2>2. ASSUME NEW k \in 1 .. Len(b), j = Len(q) + k
        PROVE  /\ \A i \in 1 .. j - 1 : r[i] # r[j]
               /\ \A m \in Published :
                    MustPrecede(m, r[j]) => \E i \in 1 .. j - 1 : r[i] = m
    <3>1. r[j] = b[k]
      BY <1>2, <2>2
    <3>2. \A i \in 1 .. Len(q) : i \in 1 .. j - 1
      BY <1>2, <2>2
    <3>3. \A i \in 1 .. k - 1 : i \in 1 .. Len(b) /\ Len(q) + i \in 1 .. j - 1
      BY <1>2, <2>2
    <3>4. ASSUME NEW i \in 1 .. j - 1
          PROVE  i \in 1 .. Len(q) \/ \E l \in 1 .. k - 1 : i = Len(q) + l
      <4>1. i \in 1 .. Len(q) \/ i - Len(q) \in 1 .. k - 1
        BY <1>2, <2>2
      <4>2. i = Len(q) + (i - Len(q))
        BY <1>2, <2>2
      <4>3. QED
        BY <4>1, <4>2
    <3>5. ASSUME NEW i \in 1 .. j - 1 PROVE r[i] # r[j]
      <4>1. CASE i \in 1 .. Len(q)
        <5>1. r[i] \in EventsOf(q)
          BY <1>2, <4>1 DEF EventsOf
        <5>2. QED
          BY <3>1, <5>1
      <4>2. CASE \E l \in 1 .. k - 1 : i = Len(q) + l
        <5>1. PICK l \in 1 .. k - 1 : i = Len(q) + l
          BY <4>2
        <5>2. r[i] = b[l] /\ b[l] # b[k]
          BY <1>2, <3>3, <5>1
        <5>3. QED
          BY <3>1, <5>2
      <4>3. QED
        BY <3>4, <4>1, <4>2
    <3>6. ASSUME NEW m \in Published, MustPrecede(m, r[j])
          PROVE  \E i \in 1 .. j - 1 : r[i] = m
      <4>1. m \in EventsOf(q) \/ \E i \in 1 .. k - 1 : b[i] = m
        BY <3>1, <3>6
      <4>2. CASE m \in EventsOf(q)
        <5>1. PICK i \in 1 .. Len(q) : q[i] = m
          BY <4>2 DEF EventsOf
        <5>2. i \in 1 .. j - 1 /\ r[i] = m
          BY <1>2, <3>2, <5>1
        <5>3. QED
          BY <5>2
      <4>3. CASE \E i \in 1 .. k - 1 : b[i] = m
        <5>1. PICK i \in 1 .. k - 1 : b[i] = m
          BY <4>3
        <5>2. Len(q) + i \in 1 .. j - 1 /\ r[Len(q) + i] = m
          BY <1>2, <3>3, <5>1
        <5>3. QED
          BY <5>2
      <4>4. QED
        BY <4>1, <4>2, <4>3
    <3>7. QED
      BY <3>5, <3>6
  <2>3. QED
    BY <1>2, <2>1, <2>2
<1>4. InOrder(r)
  BY <1>3 DEF InOrder
<1>5. QED
  BY <1>1, <1>4

-----------------------------------------------------------------------------
(* What a flush sends *)

\* A set of numbers that is not empty has a least one.
LEMMA LeastOne ==
    ASSUME NEW S, S \subseteq Nat, S # {}
    PROVE  \E n \in S : \A m \in S : ~ (m < n)
<1>1. PICK R : R = OpToRel(<, Nat)
  OBVIOUS
<1>2. IsWellFoundedOn(R, Nat)
  BY <1>1, NatLessThanWellFounded
<1>3. R = {ss \in Nat \X Nat : ss[1] < ss[2]}
  BY <1>1 DEF OpToRel
<1>4. PICK n \in S : \A m \in S : <<m, n>> \notin R
  BY <1>2, WFMin
<1>5. QED
  BY <1>3, <1>4

\* A set that holds 0, and with each number the next, holds all of them.
LEMMA AllNumbers ==
    ASSUME NEW S, 0 \in S, \A n \in Nat : n \in S => n + 1 \in S
    PROVE  \A n \in Nat : n \in S
<1> SUFFICES ASSUME Nat \ S # {} PROVE FALSE
  OBVIOUS
<1>1. PICK n \in Nat \ S : \A m \in Nat \ S : ~ (m < n)
  BY LeastOne
<1>2. n # 0 /\ n - 1 \in Nat /\ n - 1 < n /\ (n - 1) + 1 = n
  BY <1>1
<1>3. QED
  BY <1>1, <1>2

\* Sequences can be joined one after another.
LEMMA JoinsExist ==
    ASSUME NEW p, NEW N \in Nat
    PROVE  \E g : g = [n \in 0 .. N |-> IF n = 0 THEN <<>> ELSE g[n - 1] \o p[n]]
<1>1. DEFINE P(g, m) == g = [n \in 0 .. m |-> IF n = 0 THEN <<>> ELSE g[n - 1] \o p[n]]
             S == {m \in Nat : \E g : P(g, m)}
<1>2. 0 \in S
  <2>1. P([n \in 0 .. 0 |-> <<>>], 0)
    OBVIOUS
  <2>2. QED
    BY <2>1
<1>3. ASSUME NEW m \in Nat, m \in S PROVE m + 1 \in S
  <2>1. PICK g : P(g, m)
    BY <1>3
  <2>2. DEFINE f == [n \in 0 .. m + 1 |-> IF n = m + 1 THEN g[m] \o p[m + 1] ELSE g[n]]
  <2>3. \A n \in 0 .. m + 1 : n = m + 1 \/ n \in 0 .. m
    OBVIOUS
  <2>4. \A n \in 0 .. m : g[n] = IF n = 0 THEN <<>> ELSE g[n - 1] \o p[n]
    BY <2>1
  <2>5. \A n \in 0 .. m : n # m + 1 /\ n \in 0 .. m + 1
    OBVIOUS
  <2>6. \A n \in 0 .. m : f[n] = g[n]
    BY <2>5
  <2>7. f[m + 1] = g[m] \o p[m + 1] /\ m + 1 # 0 /\ (m + 1) - 1 = m /\ m \in 0 .. m
    OBVIOUS
  <2>8. \A n \in 0 .. m : n # 0 => n - 1 \in 0 .. m
    OBVIOUS
  <2>9. f = [n \in 0 .. m + 1 |-> f[n]]
    OBVIOUS
  <2> HIDE DEF f
  <2>10. \A n \in 0 .. m + 1 : f[n] = IF n = 0 THEN <<>> ELSE f[n - 1] \o p[n]
    BY <2>3, <2>4, <2>6, <2>7, <2>8
  <2>11. P(f, m + 1)
    BY <2>9, <2>10
  <2>12. \E h : P(h, m + 1)
    BY <2>11
  <2>13. QED
    BY <2>12
<1>4. N \in S
  <2> HIDE DEF S
  <2>1. QED
    BY <1>2, <1>3, AllNumbers
<1>5. QED
  BY <1>4

\* What a flush sends is defined.
LEMMA FlushedToDef ==
    ASSUME ChanSeqs
    PROVE  \A n \in 0 .. Len(heldOrder) :
               FlushedTo[n] = IF n = 0 THEN <<>> ELSE FlushedTo[n - 1] \o held[heldOrder[n]]
<1>1. DEFINE p == [n \in 1 .. Len(heldOrder) |-> held[heldOrder[n]]]
             P(g) == g = [n \in 0 .. Len(heldOrder) |->
                            IF n = 0 THEN <<>> ELSE g[n - 1] \o held[heldOrder[n]]]
<1>2. Len(heldOrder) \in Nat
  BY LenProperties DEF ChanSeqs
<1>3. PICK g : g = [n \in 0 .. Len(heldOrder) |-> IF n = 0 THEN <<>> ELSE g[n - 1] \o p[n]]
  <2> HIDE DEF p
  <2>1. QED
    BY <1>2, JoinsExist
<1>4. \A n \in 0 .. Len(heldOrder) : n # 0 => p[n] = held[heldOrder[n]]
  BY <1>2
<1>5. P(g)
  <2> HIDE DEF p
  <2>1. QED
    BY <1>3, <1>4
<1>6. P(CHOOSE f : P(f))
  <2> HIDE DEF P
  <2>1. QED
    BY <1>5, Zenon
<1>7. FlushedTo = CHOOSE f : P(f)
  BY DEF FlushedTo
<1>8. QED
  BY <1>6, <1>7

\* What must precede a chunk that is held back was sent, or is held for the
\* same key before it.
LEMMA HeldPreceded ==
    ASSUME ChanInv, NEW k \in Key, NEW j \in 1 .. Len(held[k]), NEW m \in Published,
           MustPrecede(m, held[k][j])
    PROVE  m \in EventsOf(sent) \/ \E i \in 1 .. j - 1 : held[k][i] = m
<1>1. PICK n : n = held[k][j]
  OBVIOUS
<1>2. n \in EventsOf(held[k]) /\ n \in Published /\ keyOf[n] = k /\ Rising(held[k])
  BY <1>1 DEF EventsOf, ChanInv, HeldIsOfKey
<1>3. n \in Taken
  BY <1>2 DEF Taken, HeldBack
<1>4. k # Plain /\ k # Direct
  BY CoalescerAssumption
<1>5. m < n /\ keyOf[m] \in {k, Plain} /\ m \in Brokered /\ keyOf[m] # Direct
  BY <1>1, <1>2, <1>4, CoalescerAssumption DEF MustPrecede, Brokered
<1>6. m \in EventsOf(stream) \cup Taken
  BY <1>3, <1>5 DEF ChanInv, NoGaps
<1>7. m \notin EventsOf(stream)
  <2>1. m \in EventsOf(stream) => n < m
    BY <1>3 DEF ChanInv, StreamIsLater
  <2>2. m \in Nat /\ n \in Nat
    BY <1>2 DEF Published
  <2>3. QED
    BY <1>5, <2>1, <2>2
<1>8. CASE m \in EventsOf(sent)
  BY <1>8
<1>9. CASE m \in HeldBack
  <2>1. PICK h \in Key : m \in EventsOf(held[h])
    BY <1>9 DEF HeldBack
  <2>2. keyOf[m] = h /\ h # Plain
    BY <2>1, CoalescerAssumption DEF ChanInv, HeldIsOfKey
  <2>3. h = k
    BY <1>5, <2>2
  <2>4. PICK i \in 1 .. Len(held[k]) : held[k][i] = m
    BY <2>1, <2>3 DEF EventsOf
  <2>5. Len(held[k]) \in Nat
    BY LenProperties DEF ChanInv, ChanSeqs
  <2>6. ~ (j < i) /\ i # j
    <3>1. j < i => n < m
      BY <1>1, <1>2, <2>4 DEF Rising
    <3>2. m \in Nat /\ n \in Nat
      BY <1>2 DEF Published
    <3>3. QED
      BY <1>1, <1>5, <2>4, <3>1, <3>2
  <2>7. i \in 1 .. j - 1
    BY <2>5, <2>6
  <2>8. QED
    BY <2>4, <2>7
<1>10. QED
  BY <1>6, <1>7, <1>8, <1>9 DEF Taken

\* The chunks held for a key are sent in order, after what is sent already.
LEMMA KeyInOrder ==
    ASSUME ChanInv, NEW k \in Key, NEW q \in Seq(Nat), InOrder(q),
           EventsOf(sent) \subseteq EventsOf(q),
           EventsOf(q) \cap EventsOf(held[k]) = {}
    PROVE  InOrder(q \o held[k])
<1>1. held[k] \in Seq(Nat) /\ Len(held[k]) \in Nat
  BY LenProperties DEF ChanInv, ChanSeqs
<1>2. ASSUME NEW j \in 1 .. Len(held[k])
      PROVE  /\ held[k][j] \notin EventsOf(q)
             /\ \A i \in 1 .. j - 1 : held[k][i] # held[k][j]
             /\ \A m \in Published :
                  MustPrecede(m, held[k][j]) =>
                    m \in EventsOf(q) \/ \E i \in 1 .. j - 1 : held[k][i] = m
  <2>1. held[k][j] \notin EventsOf(q)
    BY DEF EventsOf
  <2>2. \A i \in 1 .. j - 1 : held[k][i] # held[k][j]
    <3>1. TAKE i \in 1 .. j - 1
    <3>2. i \in 1 .. Len(held[k]) /\ i < j
      BY <1>1
    <3>3. held[k][i] < held[k][j] /\ held[k][i] \in Nat /\ held[k][j] \in Nat
      BY <1>1, <3>2, ElementOfSeq DEF ChanInv, HeldIsOfKey, Rising
    <3>4. QED
      BY <3>3
  <2>3. \A m \in Published :
          MustPrecede(m, held[k][j]) =>
            m \in EventsOf(q) \/ \E i \in 1 .. j - 1 : held[k][i] = m
    BY HeldPreceded
  <2>4. QED
    BY <2>1, <2>2, <2>3
<1>3. QED
  BY <1>1, <1>2, JoinedInOrder

\* A flush sends all that is held back, in order.
LEMMA FlushedInOrder ==
    ASSUME ChanInv
    PROVE  /\ Flushed \in Seq(Nat)
           /\ EventsOf(Flushed) = HeldBack
           /\ InOrder(sent \o Flushed)
<1>1. /\ heldOrder \in Seq(Key) /\ Len(heldOrder) \in Nat /\ held \in [Key -> Seq(Nat)]
      /\ sent \in Seq(Nat)
  BY LenProperties DEF ChanInv, ChanSeqs
<1>2. \A n \in 0 .. Len(heldOrder) :
        FlushedTo[n] = IF n = 0 THEN <<>> ELSE FlushedTo[n - 1] \o held[heldOrder[n]]
  BY FlushedToDef DEF ChanInv
<1>3. DEFINE Upto(n) == {x \in Published : \E i \in 1 .. n : x \in EventsOf(held[heldOrder[i]])}
             P(n) == /\ FlushedTo[n] \in Seq(Nat)
                     /\ EventsOf(FlushedTo[n]) = Upto(n)
                     /\ InOrder(sent \o FlushedTo[n])
             S == {n \in Nat : n <= Len(heldOrder) => P(n)}
<1>4. 0 \in S
  <2>1. FlushedTo[0] = <<>> /\ <<>> \in Seq(Nat)
    BY <1>1, <1>2
  <2>2. EventsOf(FlushedTo[0]) = {}
    BY <2>1, NoEvents
  <2>3. Upto(0) = {}
    OBVIOUS
  <2>4. sent \o FlushedTo[0] = sent
    BY <1>1, <2>1, ConcatEmptySeq
  <2>5. InOrder(sent \o FlushedTo[0])
    BY <2>4 DEF ChanInv
  <2>6. QED
    BY <2>1, <2>2, <2>3, <2>5
<1>5. ASSUME NEW n \in Nat, n \in S PROVE n + 1 \in S
  <2> SUFFICES ASSUME n + 1 <= Len(heldOrder) PROVE P(n + 1)
    OBVIOUS
  <2>1. P(n)
    BY <1>1, <1>5
  <2>2. n + 1 \in 0 .. Len(heldOrder) /\ n + 1 # 0 /\ (n + 1) - 1 = n
        /\ n + 1 \in 1 .. Len(heldOrder) /\ \A i \in 1 .. n : i \in 1 .. Len(heldOrder) /\ i # n + 1
    BY <1>1
  <2>3. PICK k \in Key : k = heldOrder[n + 1]
    BY <1>1, <2>2, ElementOfSeq
  <2>4. PICK f : f = FlushedTo[n]
    OBVIOUS
  <2>5. FlushedTo[n + 1] = f \o held[k]
    BY <1>2, <2>2, <2>3, <2>4
  <2>6. /\ f \in Seq(Nat) /\ held[k] \in Seq(Nat) /\ EventsOf(f) = Upto(n)
        /\ InOrder(sent \o f)
    BY <1>1, <2>1, <2>4
  <2>7. f \o held[k] \in Seq(Nat) /\ EventsOf(f \o held[k]) = EventsOf(f) \cup EventsOf(held[k])
    BY <2>6, Joined
  <2>8. /\ sent \o f \in Seq(Nat)
        /\ EventsOf(sent \o f) = EventsOf(sent) \cup EventsOf(f)
        /\ (sent \o f) \o held[k] = sent \o (f \o held[k])
    <3>1. (sent \o f) \o held[k] = sent \o (f \o held[k])
      BY <1>1, <2>6, JoinedThrice
    <3>2. QED
      BY <1>1, <2>6, <3>1, Joined
  <2>9. EventsOf(held[k]) \subseteq Published
    BY DEF ChanInv, HeldIsOfKey
  <2>10. Upto(n + 1) = Upto(n) \cup EventsOf(held[k])
    <3>1. \A i \in 1 .. n + 1 : i \in 1 .. n \/ i = n + 1
      OBVIOUS
    <3>2. \A i \in 1 .. n : i \in 1 .. n + 1
      OBVIOUS
    <3>3. n + 1 \in 1 .. n + 1
      OBVIOUS
    <3>4. \A x : x \in Upto(n + 1) <=> x \in Upto(n) \cup EventsOf(held[k])
      BY <2>3, <2>9, <3>1, <3>2, <3>3
    <3>5. QED
      BY <3>4
  <2>11. EventsOf(sent \o f) \cap EventsOf(held[k]) = {}
    <3>1. ASSUME NEW x \in EventsOf(held[k]), x \in EventsOf(f) PROVE FALSE
      <4>1. PICK i \in 1 .. n : x \in EventsOf(held[heldOrder[i]])
        BY <2>6, <3>1
      <4>2. heldOrder[i] \in Key
        BY <1>1, <2>2, ElementOfSeq
      <4>3. keyOf[x] = heldOrder[i] /\ keyOf[x] = k
        BY <4>1, <4>2 DEF ChanInv, HeldIsOfKey
      <4>4. heldOrder[i] # heldOrder[n + 1]
        BY <2>2 DEF ChanInv, HeldIsListed
      <4>5. QED
        BY <2>3, <4>3, <4>4
    <3>2. \A x \in EventsOf(held[k]) : x \notin EventsOf(sent)
      BY DEF ChanInv, HeldIsOfKey
    <3>3. QED
      BY <2>8, <3>1, <3>2
  <2>12. InOrder((sent \o f) \o held[k])
    BY <2>6, <2>8, <2>11, KeyInOrder
  <2>13. InOrder(sent \o (f \o held[k]))
    BY <2>8, <2>12
  <2>14. EventsOf(f \o held[k]) = Upto(n + 1)
    BY <2>6, <2>7, <2>10
  <2>15. QED
    <3> HIDE DEF Upto
    <3>1. QED
      BY <2>5, <2>7, <2>13, <2>14
<1>6. \A n \in Nat : n \in S
  <2> HIDE DEF S
  <2>1. QED
    BY <1>4, <1>5, AllNumbers
<1>7. P(Len(heldOrder))
  <2> HIDE DEF P
  <2>1. Len(heldOrder) <= Len(heldOrder)
    BY <1>1
  <2>2. QED
    BY <1>1, <1>6, <2>1
<1>8. Upto(Len(heldOrder)) = HeldBack
  <2>1. ASSUME NEW x \in Upto(Len(heldOrder)) PROVE x \in HeldBack
    <3>1. PICK i \in 1 .. Len(heldOrder) : x \in EventsOf(held[heldOrder[i]])
      OBVIOUS
    <3>2. heldOrder[i] \in Key
      BY <1>1, ElementOfSeq
    <3>3. QED
      BY <3>1, <3>2 DEF HeldBack
  <2>2. ASSUME NEW x \in HeldBack PROVE x \in Upto(Len(heldOrder))
    <3>1. PICK k \in Key : x \in EventsOf(held[k])
      BY DEF HeldBack
    <3>2. held[k] # <<>>
      BY <3>1, NoEvents
    <3>3. PICK i \in 1 .. Len(heldOrder) : heldOrder[i] = k
      BY <3>2 DEF ChanInv, HeldIsListed, EventsOf
    <3>4. QED
      BY <3>1, <3>3 DEF HeldBack
  <2>3. QED
    BY <2>1, <2>2
<1>9. QED
  <2> HIDE DEF Upto
  <2>1. QED
    BY <1>7, <1>8 DEF Flushed

-----------------------------------------------------------------------------
(* Every step of the channel *)

\* A key that leaves the order leaves the others where they were.
LEMMA OrderWithoutKey ==
    ASSUME ChanInv, NEW k \in Key, k \in EventsOf(heldOrder)
    PROVE  /\ OrderWithout(k) \in Seq(Key)
           /\ EventsOf(OrderWithout(k)) = EventsOf(heldOrder) \ {k}
           /\ \A i, j \in 1 .. Len(OrderWithout(k)) :
                i # j => OrderWithout(k)[i] # OrderWithout(k)[j]
<1>1. PICK at : at = CHOOSE i \in 1 .. Len(heldOrder) : heldOrder[i] = k
  OBVIOUS
<1>2. \E i \in 1 .. Len(heldOrder) : heldOrder[i] = k
  BY DEF EventsOf
<1>3. at \in 1 .. Len(heldOrder) /\ heldOrder[at] = k
  BY <1>1, <1>2, Zenon
<1>4. PICK L : L = Len(heldOrder)
  OBVIOUS
<1>5. L \in Nat /\ at \in 1 .. L /\ \A i \in 1 .. L : heldOrder[i] \in Key
  BY <1>3, <1>4, ElementOfSeq, LenProperties DEF ChanInv, ChanSeqs
<1>6. DEFINE from(i) == IF i < at THEN i ELSE i + 1
             r == [i \in 1 .. L - 1 |-> heldOrder[from(i)]]
<1>7. OrderWithout(k) = r
  BY <1>1, <1>4 DEF OrderWithout
<1>8. \A i \in 1 .. L - 1 : from(i) \in 1 .. L /\ from(i) # at
  BY <1>5
<1>9. \A i, j \in 1 .. L - 1 : i # j => from(i) # from(j)
  BY <1>5
<1>10. ASSUME NEW i \in 1 .. L, i # at PROVE \E j \in 1 .. L - 1 : from(j) = i
  <2>1. CASE i < at
    <3>1. i \in 1 .. L - 1 /\ from(i) = i
      BY <1>5, <2>1
    <3>2. QED
      BY <3>1
  <2>2. CASE ~ (i < at)
    <3>1. i - 1 \in 1 .. L - 1 /\ from(i - 1) = i
      BY <1>5, <1>10, <2>2
    <3>2. QED
      BY <3>1
  <2>3. QED
    BY <2>1, <2>2
<1> HIDE DEF from
<1>11. L - 1 \in Nat /\ \A i \in 1 .. L - 1 : r[i] = heldOrder[from(i)] /\ r[i] \in Key
  BY <1>5, <1>8
<1>12. r \in Seq(Key) /\ Len(r) = L - 1
  <2>1. r \in [1 .. L - 1 -> Key]
    BY <1>11
  <2>2. QED
    BY <1>11, <2>1, SeqDef
<1> HIDE DEF r
<1>13. \A i, j \in 1 .. L : i # j => heldOrder[i] # heldOrder[j]
  BY <1>4 DEF ChanInv, HeldIsListed
<1>14. \A i, j \in 1 .. Len(r) : i # j => r[i] # r[j]
  BY <1>8, <1>9, <1>11, <1>12, <1>13
<1>15. \A x : x \in EventsOf(r) <=> x \in EventsOf(heldOrder) \ {k}
  <2>1. ASSUME NEW x \in EventsOf(r) PROVE x \in EventsOf(heldOrder) \ {k}
    <3>1. PICK i \in 1 .. L - 1 : x = heldOrder[from(i)]
      BY <1>11, <1>12 DEF EventsOf
    <3>2. from(i) \in 1 .. L /\ from(i) # at
      BY <1>8
    <3>3. x # k
      BY <1>3, <1>5, <1>13, <3>1, <3>2
    <3>4. QED
      BY <1>4, <3>1, <3>2, <3>3 DEF EventsOf
  <2>2. ASSUME NEW x \in EventsOf(heldOrder) \ {k} PROVE x \in EventsOf(r)
    <3>1. PICK i \in 1 .. L : x = heldOrder[i]
      BY <1>4 DEF EventsOf
    <3>2. PICK j \in 1 .. L - 1 : from(j) = i
      BY <1>3, <1>10, <3>1
    <3>3. QED
      BY <1>11, <1>12, <3>1, <3>2 DEF EventsOf
  <2>3. QED
    BY <2>1, <2>2
<1>16. QED
  BY <1>7, <1>12, <1>14, <1>15

\* An event that is published is later than all before it.
LEMMA KeysGrow ==
    ASSUME ChanInv, NEW k \in Key \cup {Plain, Direct}, NEW n, n = Len(keyOf) + 1,
           Len(keyOf) < MaxEvents, keyOf' = Append(keyOf, k), held' = held
    PROVE  /\ n \in Nat /\ n \notin Published /\ Published' = Published \cup {n}
           /\ \A m \in Published : m < n /\ keyOf'[m] = keyOf[m]
           /\ keyOf'[n] = k
           /\ keyOf' \in Seq(Key \cup {Plain, Direct}) /\ Len(keyOf') <= MaxEvents
           /\ HeldBack' = HeldBack
           /\ Brokered' = Brokered \cup (IF k = Direct THEN {} ELSE {n})
<1>1. /\ keyOf' \in Seq(Key \cup {Plain, Direct}) /\ Len(keyOf') = Len(keyOf) + 1
      /\ Len(keyOf) \in Nat /\ keyOf'[n] = k
      /\ \A m \in 1 .. Len(keyOf) : keyOf'[m] = keyOf[m]
  BY Added DEF ChanInv, ChanSeqs
<1>2. n \in Nat /\ n \notin Published /\ Published' = Published \cup {n}
  BY <1>1 DEF Published
<1>3. \A m \in Published : m \in Nat /\ m < n /\ ~ (n < m) /\ keyOf'[m] = keyOf[m]
  BY <1>1 DEF Published
<1>4. Len(keyOf') <= MaxEvents
  BY <1>1, CoalescerAssumption
<1>5. HeldBack' = HeldBack
  <2>1. \A h \in Key : EventsOf(held[h]) \subseteq Published
    BY DEF ChanInv, HeldIsOfKey
  <2>2. \A x : x \in HeldBack' <=> x \in HeldBack
    BY <1>2, <2>1 DEF HeldBack
  <2>3. QED
    BY <2>2
<1>6. Brokered' = Brokered \cup (IF k = Direct THEN {} ELSE {n})
  <2>1. \A x : x \in Brokered' <=> x \in Brokered \cup (IF k = Direct THEN {} ELSE {n})
    BY <1>1, <1>2, <1>3 DEF Brokered
  <2>2. QED
    BY <2>1
<1>7. QED
  BY <1>1, <1>2, <1>3, <1>4, <1>5, <1>6

\* What is in order stays so when a later event is published.
LEMMA OrderKept ==
    ASSUME ChanInv, NEW k \in Key \cup {Plain, Direct}, NEW n, n = Len(keyOf) + 1,
           Len(keyOf) < MaxEvents, keyOf' = Append(keyOf, k), held' = held,
           NEW q, InOrder(q), EventsOf(q) \subseteq Published
    PROVE  InOrder(q)'
<1>1. /\ n \in Nat /\ n \notin Published /\ Published' = Published \cup {n}
      /\ \A m \in Published : m < n /\ keyOf'[m] = keyOf[m]
  BY KeysGrow
<1>2. \A m \in Published : m \in Nat /\ ~ (n < m)
  BY <1>1 DEF Published
<1>3. ASSUME NEW j \in 1 .. Len(q)
      PROVE  /\ \A i \in 1 .. j - 1 : q[i] # q[j]
             /\ \A m \in Published' :
                  MustPrecede(m, q[j])' => \E i \in 1 .. j - 1 : q[i] = m
  <2>1. q[j] \in Published
    BY DEF EventsOf
  <2>2. \A i \in 1 .. j - 1 : q[i] # q[j]
    BY DEF InOrder
  <2>3. ASSUME NEW m \in Published', MustPrecede(m, q[j])'
        PROVE  \E i \in 1 .. j - 1 : q[i] = m
    <3>1. m \in Published
      BY <1>1, <1>2, <2>1, <2>3 DEF MustPrecede
    <3>2. MustPrecede(m, q[j])
      BY <1>1, <2>1, <2>3, <3>1 DEF MustPrecede
    <3>3. QED
      BY <3>1, <3>2 DEF InOrder
  <2>4. QED
    BY <2>2, <2>3
<1>4. QED
  BY <1>3 DEF InOrder

\* Publication through the broker, and past it.
LEMMA PublishStep ==
    ASSUME ChanInv, NEW k \in Key \cup {Plain}, Publish(k)
    PROVE  ChanInv'
<1>1. PICK n : n = Len(keyOf) + 1
  OBVIOUS
<1>2. /\ Len(keyOf) < MaxEvents /\ keyOf' = Append(keyOf, k)
      /\ stream' = IF brokerOpen THEN Append(stream, n) ELSE stream
      /\ UNCHANGED <<brokerOpen, looping, held, heldOrder, armed, sent>>
      /\ k \in Key \cup {Plain, Direct} /\ k # Direct
  BY <1>1, CoalescerAssumption DEF Publish
<1>3. /\ n \in Nat /\ n \notin Published /\ Published' = Published \cup {n}
      /\ \A m \in Published : m < n /\ keyOf'[m] = keyOf[m]
      /\ keyOf' \in Seq(Key \cup {Plain, Direct}) /\ Len(keyOf') <= MaxEvents
      /\ HeldBack' = HeldBack /\ Brokered' = Brokered \cup {n}
      /\ InOrder(sent) /\ EventsOf(sent) \subseteq Published => InOrder(sent)'
  <2>1. PICK q : q = sent
    OBVIOUS
  <2>2. InOrder(q) /\ EventsOf(q) \subseteq Published => InOrder(q)'
    BY <1>1, <1>2, OrderKept
  <2>3. InOrder(sent)' <=> InOrder(q)'
    BY <1>2, <2>1 DEF InOrder
  <2>4. QED
    BY <1>1, <1>2, <2>1, <2>2, <2>3, KeysGrow
<1>4. /\ ChanSeqs /\ HeldIsOfKey /\ HeldIsListed /\ StreamIsLater /\ NoGaps /\ InOrder(sent)
  BY DEF ChanInv
<1>5. EventsOf(sent)' = EventsOf(sent) /\ \A h \in Key : EventsOf(held[h])' = EventsOf(held[h])
  BY <1>2 DEF EventsOf
<1>6. EventsOf(sent) \subseteq Published /\ EventsOf(stream) \subseteq Published
  BY <1>4 DEF HeldIsOfKey, StreamIsLater, Brokered
<1>7. Taken' = Taken /\ Taken \subseteq Published
  <2>1. \A x : x \in Taken' <=> x \in Taken
    BY <1>3, <1>5, <1>6 DEF Taken
  <2>2. QED
    BY <1>6, <2>1 DEF Taken, HeldBack
<1>8. /\ Append(stream, n) \in Seq(Nat) /\ Rising(Append(stream, n))
      /\ EventsOf(Append(stream, n)) = EventsOf(stream) \cup {n}
  <2>1. stream \in Seq(Nat) /\ Rising(stream) /\ \A m \in EventsOf(stream) : m < n
    BY <1>3, <1>4, <1>6 DEF ChanSeqs, StreamIsLater
  <2>2. Rising(Append(stream, n))
    BY <1>3, <2>1, AddedRises
  <2>3. QED
    BY <1>3, <2>1, <2>2, EventAdded
<1>9. /\ EventsOf(stream') \in {EventsOf(stream), EventsOf(stream) \cup {n}}
      /\ brokerOpen => EventsOf(stream') = EventsOf(stream) \cup {n}
      /\ stream' \in Seq(Nat) /\ Rising(stream')
  BY <1>2, <1>4, <1>8 DEF ChanSeqs, StreamIsLater
<1>10. ChanSeqs'
  BY <1>2, <1>3, <1>4, <1>9 DEF ChanSeqs
<1>11. HeldIsOfKey'
  BY <1>2, <1>3, <1>4, <1>5 DEF HeldIsOfKey
<1>12. HeldIsListed'
  BY <1>2, <1>4 DEF HeldIsListed, EventsOf
<1>13. StreamIsLater'
  <2>1. \A x \in Taken : x < n
    BY <1>3, <1>7
  <2>2. \A x \in Taken : \A m \in EventsOf(stream') : x < m
    BY <1>4, <1>9, <2>1 DEF StreamIsLater
  <2>3. EventsOf(stream') \subseteq Brokered'
    BY <1>3, <1>4, <1>9 DEF StreamIsLater
  <2>4. QED
    BY <1>7, <1>9, <2>2, <2>3 DEF StreamIsLater
<1>14. NoGaps'
  <2>1. brokerOpen => Brokered' \subseteq EventsOf(stream') \cup Taken
    BY <1>3, <1>4, <1>9 DEF NoGaps
  <2>2. ASSUME NEW x \in EventsOf(stream') \cup Taken, NEW m \in Brokered', m < x
        PROVE  m \in EventsOf(stream') \cup Taken
    <3>1. CASE brokerOpen
      BY <2>1, <3>1
    <3>2. CASE ~ brokerOpen
      <4>1. stream' = stream
        BY <1>2, <3>2
      <4>2. x \in Published /\ x < n
        BY <1>3, <1>6, <1>7, <4>1
      <4>3. m # n
        <5>1. x \in Int
          BY <4>2 DEF Published
        <5>2. QED
          BY <1>3, <2>2, <4>2, <5>1
      <4>4. QED
        BY <1>3, <1>4, <2>2, <4>1, <4>3 DEF NoGaps
    <3>3. QED
      BY <3>1, <3>2
  <2>3. QED
    BY <1>2, <1>7, <2>1, <2>2 DEF NoGaps
<1>15. QED
  BY <1>3, <1>4, <1>6, <1>10, <1>11, <1>12, <1>13, <1>14 DEF ChanInv

LEMMA DirectStep ==
    ASSUME ChanInv, SendDirect
    PROVE  ChanInv'
<1>1. PICK n : n = Len(keyOf) + 1
  OBVIOUS
<1>2. /\ Len(keyOf) < MaxEvents /\ keyOf' = Append(keyOf, Direct)
      /\ sent' = Append(sent, n)
      /\ UNCHANGED <<stream, brokerOpen, looping, held, heldOrder, armed>>
      /\ Direct \in Key \cup {Plain, Direct}
  BY <1>1 DEF SendDirect
<1>3. /\ n \in Nat /\ n \notin Published /\ Published' = Published \cup {n}
      /\ \A m \in Published : m < n /\ keyOf'[m] = keyOf[m]
      /\ keyOf'[n] = Direct
      /\ keyOf' \in Seq(Key \cup {Plain, Direct}) /\ Len(keyOf') <= MaxEvents
      /\ HeldBack' = HeldBack /\ Brokered' = Brokered
  <2>1. PICK k \in Key \cup {Plain, Direct} : k = Direct
    OBVIOUS
  <2>2. keyOf' = Append(keyOf, k) /\ held' = held
    BY <1>2, <2>1
  <2>3. /\ n \in Nat /\ n \notin Published /\ Published' = Published \cup {n}
        /\ \A m \in Published : m < n /\ keyOf'[m] = keyOf[m]
        /\ keyOf'[n] = k
        /\ keyOf' \in Seq(Key \cup {Plain, Direct}) /\ Len(keyOf') <= MaxEvents
        /\ HeldBack' = HeldBack
        /\ Brokered' = Brokered \cup (IF k = Direct THEN {} ELSE {n})
    BY <1>1, <1>2, <2>2, KeysGrow
  <2>4. QED
    BY <2>1, <2>3
<1>4. /\ ChanSeqs /\ HeldIsOfKey /\ HeldIsListed /\ StreamIsLater /\ NoGaps /\ InOrder(sent)
  BY DEF ChanInv
<1>5. /\ sent' \in Seq(Nat) /\ Len(sent) \in Nat /\ Len(sent') = Len(sent) + 1
      /\ EventsOf(sent') = EventsOf(sent) \cup {n}
      /\ sent'[Len(sent) + 1] = n /\ \A i \in 1 .. Len(sent) : sent'[i] = sent[i]
  <2>1. sent \in Seq(Nat)
    BY <1>4 DEF ChanSeqs
  <2>2. QED
    BY <1>2, <1>3, <2>1, EventAdded
<1>6. EventsOf(sent) \subseteq Published /\ EventsOf(stream) \subseteq Published
  BY <1>4 DEF HeldIsOfKey, StreamIsLater, Brokered
<1>7. Taken' = Taken
  <2>1. \A x : x \in Taken' <=> x \in Taken
    BY <1>3, <1>5, <1>6 DEF Taken
  <2>2. QED
    BY <2>1
<1>8. EventsOf(stream)' = EventsOf(stream) /\ \A h \in Key : held'[h] = held[h]
  BY <1>2 DEF EventsOf
<1>9. InOrder(sent)'
  <2>1. PICK q : q = sent
    OBVIOUS
  <2>2. PICK r : r = sent'
    OBVIOUS
  <2>3. InOrder(q)'
    <3>1. InOrder(q) /\ EventsOf(q) \subseteq Published
      BY <1>4, <1>6, <2>1
    <3>2. QED
      BY <1>1, <1>2, <3>1, OrderKept
  <2>4. /\ Len(q) \in Nat
        /\ \A i \in 1 .. Len(q) : i \in 1 .. Len(r) /\ r[i] = q[i]
        /\ r[Len(q) + 1] = n
        /\ \A i \in 1 .. Len(r) : i \in 1 .. Len(q) \/ i = Len(q) + 1
    <3>1. Len(q) \in Nat /\ Len(r) = Len(q) + 1
      BY <1>5, <2>1, <2>2
    <3>2. \A i \in 1 .. Len(r) : i \in 1 .. Len(q) \/ i = Len(q) + 1
      BY <3>1
    <3>3. \A i \in 1 .. Len(q) : i \in 1 .. Len(r)
      BY <3>1
    <3>4. QED
      BY <1>5, <2>1, <2>2, <3>1, <3>2, <3>3
  <2>5. ASSUME NEW j \in 1 .. Len(r)
        PROVE  /\ \A i \in 1 .. j - 1 : r[i] # r[j]
               /\ \A m \in Published' :
                    MustPrecede(m, r[j])' => \E i \in 1 .. j - 1 : r[i] = m
    <3>1. \A i \in 1 .. j - 1 : i \in 1 .. Len(q)
      BY <2>4
    <3>2. \A i \in 1 .. j - 1 : r[i] = q[i]
      BY <2>4, <3>1
    <3>3. CASE j \in 1 .. Len(q)
      <4>1. r[j] = q[j]
        BY <2>4, <3>3
      <4>2. QED
        BY <2>3, <3>2, <3>3, <4>1 DEF InOrder
    <3>4. CASE j = Len(q) + 1
      <4>1. r[j] = n
        BY <2>4, <3>4
      <4>2. \A m : ~ MustPrecede(m, r[j])'
        BY <1>3, <4>1 DEF MustPrecede
      <4>3. \A i \in 1 .. j - 1 : q[i] \in EventsOf(q)
        BY <3>1 DEF EventsOf
      <4>4. \A i \in 1 .. j - 1 : r[i] # r[j]
        BY <1>3, <1>6, <2>1, <3>2, <4>1, <4>3
      <4>5. QED
        BY <4>2, <4>4
    <3>5. QED
      BY <2>4, <3>3, <3>4
  <2>6. InOrder(r)'
    BY <2>5 DEF InOrder
  <2>7. QED
    BY <2>2, <2>6 DEF InOrder
<1>10. ChanSeqs'
  BY <1>2, <1>3, <1>4, <1>5 DEF ChanSeqs
<1>11. HeldIsOfKey'
  BY <1>3, <1>4, <1>5, <1>8 DEF HeldIsOfKey
<1>12. HeldIsListed'
  BY <1>2, <1>4 DEF HeldIsListed, EventsOf
<1>13. StreamIsLater'
  BY <1>2, <1>3, <1>4, <1>7, <1>8 DEF StreamIsLater
<1>14. NoGaps'
  BY <1>2, <1>3, <1>4, <1>7, <1>8 DEF NoGaps
<1>15. QED
  BY <1>9, <1>10, <1>11, <1>12, <1>13, <1>14 DEF ChanInv

\* The loop holds a chunk back for its key.
LEMMA ChunkStep ==
    ASSUME ChanInv, stream # <<>>, NEW n, n = Head(stream), NEW k \in Key, keyOf[n] = k,
           EnqueueChunk(n, k), stream' = Tail(stream), UNCHANGED <<keyOf, brokerOpen, looping>>
    PROVE  ChanInv'
<1>1. /\ ChanSeqs /\ HeldIsOfKey /\ HeldIsListed /\ StreamIsLater /\ NoGaps /\ InOrder(sent)
  BY DEF ChanInv
<1>2. /\ n \in Nat /\ stream' \in Seq(Nat) /\ EventsOf(stream) = {n} \cup EventsOf(stream')
      /\ Rising(stream') /\ \A m \in EventsOf(stream') : n < m
  BY <1>1, FirstTaken DEF ChanSeqs, StreamIsLater
<1>3. n \in Brokered /\ n \in Published /\ \A x \in Taken : x < n
  BY <1>1, <1>2 DEF StreamIsLater, Brokered
<1>4. n \notin Taken
  BY <1>2, <1>3
<1>5. n \notin EventsOf(sent)
  BY <1>3, <1>4 DEF Taken, Brokered
<1>6. /\ held' = [held EXCEPT ![k] = Append(@, n)] /\ sent' = sent
      /\ armed' = armed \cup {k}
      /\ held[k] = <<>> => heldOrder' = Append(heldOrder, k)
      /\ held[k] # <<>> => heldOrder' = heldOrder
  BY DEF EnqueueChunk
<1>7. PICK b : b = held[k]
  OBVIOUS
<1>8. b \in Seq(Nat) /\ Rising(b) /\ EventsOf(b) \subseteq Published
  BY <1>1, <1>7 DEF ChanSeqs, HeldIsOfKey
<1>9. \A x \in EventsOf(b) : x < n
  <2>1. \A x \in EventsOf(b) : x \in Taken
    BY <1>7, <1>8 DEF Taken, HeldBack
  <2>2. QED
    BY <1>3, <2>1
<1>10. /\ Append(b, n) \in Seq(Nat) /\ Rising(Append(b, n)) /\ Append(b, n) # <<>>
       /\ EventsOf(Append(b, n)) = EventsOf(b) \cup {n}
  <2>1. /\ Append(b, n) \in Seq(Nat) /\ EventsOf(Append(b, n)) = EventsOf(b) \cup {n}
    BY <1>2, <1>8, EventAdded
  <2>2. Rising(Append(b, n))
    BY <1>2, <1>8, <1>9, AddedRises
  <2>3. Append(b, n) # <<>>
    BY <2>1, NoEvents
  <2>4. QED
    BY <2>1, <2>2, <2>3
<1>11. /\ held' \in [Key -> Seq(Nat)] /\ held'[k] = Append(b, n)
       /\ \A h \in Key \ {k} : held'[h] = held[h]
  BY <1>1, <1>6, <1>7, <1>10 DEF ChanSeqs
<1>12. \A h \in Key : h # k => EventsOf(held'[h]) = EventsOf(held[h])
  BY <1>11
<1>13. EventsOf(held'[k]) = EventsOf(held[k]) \cup {n}
  BY <1>7, <1>10, <1>11
<1>14. HeldBack' = HeldBack \cup {n}
  <2>1. \A x : x \in HeldBack' <=> x \in HeldBack \cup {n}
    BY <1>3, <1>12, <1>13 DEF HeldBack, Published
  <2>2. QED
    BY <2>1
<1>15. Taken' = Taken \cup {n}
  <2>1. \A x : x \in Taken' <=> x \in Taken \cup {n}
    BY <1>6, <1>14 DEF Taken, EventsOf
  <2>2. QED
    BY <2>1
<1>16. PICK o : o = heldOrder
  OBVIOUS
<1>17. ASSUME HeldIsListed', ChanSeqs' PROVE ChanInv'
  <2>1. HeldIsOfKey'
    <3>1. ASSUME NEW h \in Key
          PROVE  /\ Rising(held'[h])
                 /\ \A x \in EventsOf(held'[h]) :
                      x \in Published /\ keyOf[x] = h /\ x \notin EventsOf(sent)
      <4>1. CASE h = k
        <5>1. Rising(held'[h])
          BY <1>10, <1>11, <4>1
        <5>2. ASSUME NEW x \in EventsOf(held'[h])
              PROVE  x \in Published /\ keyOf[x] = h /\ x \notin EventsOf(sent)
          <6>1. x = n \/ x \in EventsOf(held[k])
            BY <1>13, <4>1, <5>2
          <6>2. keyOf[n] = k
            OBVIOUS
          <6>3. QED
            BY <1>1, <1>3, <1>5, <4>1, <6>1, <6>2 DEF HeldIsOfKey
        <5>3. QED
          BY <5>1, <5>2
      <4>2. CASE h # k
        BY <1>1, <1>11, <4>2 DEF HeldIsOfKey
      <4>3. QED
        BY <4>1, <4>2
    <3>2. Published' = Published /\ EventsOf(sent)' = EventsOf(sent)
      BY <1>6 DEF Published, EventsOf
    <3>3. QED
      BY <1>1, <3>1, <3>2 DEF HeldIsOfKey
  <2>2. Brokered' = Brokered
    BY DEF Brokered, Published
  <2>3. StreamIsLater'
    BY <1>1, <1>2, <1>15, <2>2 DEF StreamIsLater
  <2>4. NoGaps'
    <3>1. EventsOf(stream') \cup Taken' = EventsOf(stream) \cup Taken
      BY <1>2, <1>15
    <3>2. QED
      BY <1>1, <2>2, <3>1 DEF NoGaps
  <2>5. InOrder(sent)'
    BY <1>1, <1>6 DEF InOrder, MustPrecede, Published
  <2>6. QED
    BY <1>17, <2>1, <2>3, <2>4, <2>5 DEF ChanInv
<1>18. CASE held[k] = <<>>
  <2>1. o \in Seq(Key) /\ \A i, j \in 1 .. Len(o) : i # j => o[i] # o[j]
    BY <1>1, <1>16 DEF ChanSeqs, HeldIsListed
  <2>2. k \notin EventsOf(o) /\ heldOrder' = Append(o, k)
    BY <1>1, <1>6, <1>16, <1>18 DEF HeldIsListed
  <2>3. PICK r : r = Append(o, k)
    OBVIOUS
  <2>4. /\ r \in Seq(Key) /\ Len(r) = Len(o) + 1 /\ Len(o) \in Nat
        /\ EventsOf(r) = EventsOf(o) \cup {k} /\ r[Len(o) + 1] = k
        /\ \A i \in 1 .. Len(o) : r[i] = o[i]
    <3>1. /\ r \in Seq(Key) /\ Len(r) = Len(o) + 1 /\ Len(o) \in Nat
          /\ r[Len(o) + 1] = k /\ \A i \in 1 .. Len(o) : r[i] = o[i]
      BY <2>1, <2>3, AppendProperties, LenProperties
    <3>2. \A i \in 1 .. Len(r) : i \in 1 .. Len(o) \/ i = Len(o) + 1
      BY <3>1
    <3>3. Len(o) + 1 \in 1 .. Len(r) /\ \A i \in 1 .. Len(o) : i \in 1 .. Len(r)
      BY <3>1
    <3>4. \A y : y \in EventsOf(r) <=> y \in EventsOf(o) \cup {k}
      BY <3>1, <3>2, <3>3 DEF EventsOf
    <3>5. QED
      BY <3>1, <3>4
  <2>5. \A i \in 1 .. Len(r) : i \in 1 .. Len(o) \/ i = Len(o) + 1
    BY <2>4
  <2>6. \A i \in 1 .. Len(o) : o[i] # k
    BY <2>2 DEF EventsOf
  <2>7. \A i, j \in 1 .. Len(r) : i # j => r[i] # r[j]
    BY <2>1, <2>4, <2>5, <2>6
  <2>8. heldOrder' = r
    BY <2>2, <2>3
  <2>9. \A h \in Key : h \in EventsOf(r) <=> held'[h] # <<>>
    BY <1>1, <1>10, <1>11, <1>16, <2>4 DEF HeldIsListed
  <2>10. armed' = EventsOf(r)
    BY <1>1, <1>6, <1>16, <2>4 DEF HeldIsListed
  <2>11. HeldIsListed' /\ heldOrder' \in Seq(Key)
    BY <2>4, <2>7, <2>8, <2>9, <2>10 DEF HeldIsListed
  <2>12. ChanSeqs'
    BY <1>1, <1>2, <1>6, <1>11, <2>11 DEF ChanSeqs
  <2>13. QED
    BY <1>17, <2>11, <2>12
<1>19. CASE held[k] # <<>>
  <2>1. heldOrder' = heldOrder /\ k \in EventsOf(heldOrder) /\ armed' = armed
    BY <1>1, <1>6, <1>19 DEF HeldIsListed
  <2>2. EventsOf(heldOrder)' = EventsOf(heldOrder)
    BY <2>1 DEF EventsOf
  <2>3. \A h \in Key : h \in EventsOf(heldOrder) <=> held'[h] # <<>>
    BY <1>1, <1>10, <1>11, <2>1 DEF HeldIsListed
  <2>4. HeldIsListed'
    BY <1>1, <2>1, <2>2, <2>3 DEF HeldIsListed
  <2>5. ChanSeqs'
    BY <1>1, <1>2, <1>6, <1>11, <2>1 DEF ChanSeqs
  <2>6. QED
    BY <1>17, <2>4, <2>5
<1>20. QED
  BY <1>18, <1>19

\* A flush of all keys, and what is sent with it.
LEMMA AllFlushed ==
    ASSUME ChanInv, FlushAll, NEW q \in Seq(Nat), sent' = q, InOrder(q), NEW X,
           EventsOf(q) = EventsOf(sent) \cup HeldBack \cup X,
           EventsOf(stream) = X \cup EventsOf(stream'),
           stream' \in Seq(Nat), Rising(stream'),
           \A x \in X : \A m \in EventsOf(stream') : x < m,
           UNCHANGED <<keyOf, brokerOpen>>, looping' \in BOOLEAN
    PROVE  ChanInv'
<1>1. /\ ChanSeqs /\ HeldIsOfKey /\ HeldIsListed /\ StreamIsLater /\ NoGaps
  BY DEF ChanInv
<1>2. /\ \A h \in Key : held'[h] = <<>>
      /\ heldOrder' = <<>> /\ armed' = {}
      /\ <<>> \in Seq(Nat) /\ <<>> \in Seq(Key) /\ held' = [h \in Key |-> <<>>]
  BY EmptySeq DEF FlushAll
<1>3. /\ \A h \in Key : EventsOf(held'[h]) = {} /\ Rising(held'[h])
      /\ EventsOf(heldOrder') = {} /\ Len(heldOrder') = 0
  BY <1>2, NoEvents
<1>4. HeldBack' = {}
  BY <1>3 DEF HeldBack
<1>5. Published' = Published /\ Brokered' = Brokered
  BY DEF Published, Brokered
<1>6. X \subseteq Brokered
  BY <1>1 DEF StreamIsLater
<1>7. Taken' = Taken \cup X
  <2>1. \A x \in HeldBack : keyOf[x] # Direct
    BY <1>1, CoalescerAssumption DEF HeldBack, HeldIsOfKey
  <2>2. Taken' = {n \in EventsOf(q) : keyOf[n] # Direct}
    BY <1>4 DEF Taken
  <2>3. \A x : x \in Taken' <=> x \in Taken \cup X
    BY <1>6, <2>1, <2>2 DEF Taken, Brokered
  <2>4. QED
    BY <2>3
<1>8. ChanSeqs'
  BY <1>1, <1>2 DEF ChanSeqs
<1>9. HeldIsOfKey'
  <2>1. EventsOf(q) \subseteq Published
    BY <1>1, <1>6 DEF HeldIsOfKey, HeldBack, Brokered
  <2>2. QED
    BY <1>3, <1>5, <2>1 DEF HeldIsOfKey
<1>10. HeldIsListed'
  BY <1>2, <1>3 DEF HeldIsListed
<1>11. StreamIsLater'
  BY <1>1, <1>5, <1>7 DEF StreamIsLater
<1>12. NoGaps'
  <2>1. EventsOf(stream') \cup Taken' = EventsOf(stream) \cup Taken
    BY <1>7
  <2>2. QED
    BY <1>1, <1>5, <2>1 DEF NoGaps
<1>13. InOrder(sent)'
  BY DEF InOrder, MustPrecede, Published
<1>14. QED
  BY <1>8, <1>9, <1>10, <1>11, <1>12, <1>13 DEF ChanInv

\* The loop sends what is held, and then an event that is not held back.
LEMMA PlainStep ==
    ASSUME ChanInv, stream # <<>>, NEW n, n = Head(stream), keyOf[n] \notin Key,
           EnqueuePlain(n), stream' = Tail(stream), UNCHANGED <<keyOf, brokerOpen, looping>>
    PROVE  ChanInv'
<1>1. /\ ChanSeqs /\ HeldIsOfKey /\ HeldIsListed /\ StreamIsLater /\ NoGaps
  BY DEF ChanInv
<1>2. /\ n \in Nat /\ stream' \in Seq(Nat) /\ EventsOf(stream) = {n} \cup EventsOf(stream')
      /\ Rising(stream') /\ \A m \in EventsOf(stream') : n < m
  BY <1>1, FirstTaken DEF ChanSeqs, StreamIsLater
<1>3. n \in Brokered /\ n \in Published /\ \A x \in Taken : x < n
  BY <1>1, <1>2 DEF StreamIsLater, Brokered
<1>4. n \notin Taken
  BY <1>2, <1>3
<1>5. n \notin EventsOf(sent) /\ n \notin HeldBack
  BY <1>3, <1>4 DEF Taken, Brokered
<1>6. PICK q : q = sent \o Flushed
  OBVIOUS
<1>7. /\ q \in Seq(Nat) /\ EventsOf(q) = EventsOf(sent) \cup HeldBack /\ InOrder(q)
  BY <1>1, <1>6, FlushedInOrder, Joined DEF ChanSeqs
<1>8. PICK b : b = <<n>>
  OBVIOUS
<1>9. b \in Seq(Nat) /\ Len(b) = 1 /\ b[1] = n /\ EventsOf(b) = {n}
  <2>1. b \in Seq(Nat) /\ Len(b) = 1 /\ b[1] = n
    BY <1>2, <1>8
  <2>2. QED
    BY <2>1 DEF EventsOf
<1>10. q \o b \in Seq(Nat) /\ EventsOf(q \o b) = EventsOf(sent) \cup HeldBack \cup {n}
  BY <1>7, <1>9, Joined
<1>11. InOrder(q \o b)
  <2>1. ASSUME NEW m \in Published, MustPrecede(m, n) PROVE m \in EventsOf(q)
    <3>1. m < n /\ m \in Brokered
      BY <2>1 DEF MustPrecede, Brokered
    <3>2. m \in EventsOf(stream) \cup Taken
      BY <1>1, <1>2, <3>1 DEF NoGaps
    <3>3. m \in Int
      BY DEF Published
    <3>4. m \notin EventsOf(stream)
      BY <1>2, <3>1, <3>3
    <3>5. QED
      BY <1>7, <3>2, <3>4 DEF Taken
  <2>2. ASSUME NEW j \in 1 .. Len(b)
        PROVE  /\ b[j] \notin EventsOf(q)
               /\ \A i \in 1 .. j - 1 : b[i] # b[j]
               /\ \A m \in Published :
                    MustPrecede(m, b[j]) =>
                      m \in EventsOf(q) \/ \E i \in 1 .. j - 1 : b[i] = m
    <3>1. j = 1 /\ 1 .. j - 1 = {}
      BY <1>9
    <3>2. QED
      BY <1>5, <1>7, <1>9, <2>1, <3>1
  <2>3. QED
    BY <1>7, <1>9, <2>2, JoinedInOrder
<1>12. FlushAll /\ sent' = q \o b /\ looping' \in BOOLEAN
  BY <1>1, <1>6, <1>8 DEF EnqueuePlain, ChanSeqs
<1>13. PICK r : r = q \o b
  OBVIOUS
<1>14. PICK X : X = {n}
  OBVIOUS
<1>15. /\ r \in Seq(Nat) /\ sent' = r /\ InOrder(r)
       /\ EventsOf(r) = EventsOf(sent) \cup HeldBack \cup X
       /\ EventsOf(stream) = X \cup EventsOf(stream')
       /\ \A x \in X : \A m \in EventsOf(stream') : x < m
  BY <1>2, <1>10, <1>11, <1>12, <1>13, <1>14
<1>16. QED
  BY <1>2, <1>12, <1>15, AllFlushed

\* The loop has read all, and sends what is held.
LEMMA EndStep ==
    ASSUME ChanInv, LoopEnds
    PROVE  ChanInv'
<1>1. /\ FlushAll /\ sent' = sent \o Flushed /\ looping' \in BOOLEAN
      /\ UNCHANGED <<keyOf, brokerOpen>> /\ stream' = stream
  BY DEF LoopEnds
<1>2. PICK q : q = sent \o Flushed
  OBVIOUS
<1>3. /\ q \in Seq(Nat) /\ EventsOf(q) = EventsOf(sent) \cup HeldBack /\ InOrder(q)
  BY <1>2, FlushedInOrder, Joined DEF ChanInv, ChanSeqs
<1>4. stream' \in Seq(Nat) /\ Rising(stream')
  BY <1>1 DEF ChanInv, ChanSeqs, StreamIsLater
<1>5. PICK X : X = {}
  OBVIOUS
<1>6. /\ EventsOf(q) = EventsOf(sent) \cup HeldBack \cup X
      /\ EventsOf(stream) = X \cup EventsOf(stream')
      /\ \A x \in X : \A m \in EventsOf(stream') : x < m
  BY <1>1, <1>3, <1>5
<1>7. sent' = q
  BY <1>1, <1>2
<1>8. QED
  BY <1>1, <1>3, <1>4, <1>6, <1>7, AllFlushed

\* The timer of a key sends what is held for it.
LEMMA TimerStep ==
    ASSUME ChanInv, NEW k \in Key, FlushTimer(k)
    PROVE  ChanInv'
<1>1. /\ ChanSeqs /\ HeldIsOfKey /\ HeldIsListed /\ StreamIsLater /\ NoGaps /\ InOrder(sent)
  BY DEF ChanInv
<1>2. /\ k \in armed /\ armed' = armed \ {k}
      /\ sent' = sent \o held[k]
      /\ held' = [held EXCEPT ![k] = <<>>]
      /\ heldOrder' = OrderWithout(k)
      /\ UNCHANGED <<keyOf, stream, brokerOpen, looping>>
  BY DEF FlushTimer
<1>3. k \in EventsOf(heldOrder)
  BY <1>1, <1>2 DEF HeldIsListed
<1>4. PICK o : o = OrderWithout(k)
  OBVIOUS
<1>5. /\ o \in Seq(Key) /\ EventsOf(o) = EventsOf(heldOrder) \ {k} /\ heldOrder' = o
      /\ \A i, j \in 1 .. Len(o) : i # j => o[i] # o[j]
  BY <1>2, <1>3, <1>4, OrderWithoutKey
<1>6. PICK b : b = held[k]
  OBVIOUS
<1>7. sent \in Seq(Nat) /\ b \in Seq(Nat)
  BY <1>1, <1>6 DEF ChanSeqs
<1>8. PICK q : q = sent \o b
  OBVIOUS
<1>9. q \in Seq(Nat) /\ EventsOf(q) = EventsOf(sent) \cup EventsOf(b) /\ sent' = q
  BY <1>2, <1>6, <1>7, <1>8, Joined
<1>10. InOrder(q)
  <2>1. EventsOf(sent) \cap EventsOf(held[k]) = {}
    BY <1>1 DEF HeldIsOfKey
  <2>2. InOrder(sent \o held[k])
    BY <1>1, <1>7, <2>1, KeyInOrder
  <2>3. QED
    BY <1>6, <1>8, <2>2
<1>11. /\ held' \in [Key -> Seq(Nat)] /\ held'[k] = <<>>
       /\ \A h \in Key \ {k} : held'[h] = held[h]
  BY <1>1, <1>2, EmptySeq DEF ChanSeqs
<1>12. EventsOf(held'[k]) = {} /\ Rising(held'[k])
  BY <1>11, NoEvents
<1>13. Published' = Published /\ Brokered' = Brokered
  BY <1>2 DEF Published, Brokered
<1>14. \A x \in EventsOf(b) : x \in Published /\ keyOf[x] = k /\ k # Direct
  BY <1>1, <1>6, CoalescerAssumption DEF HeldIsOfKey
<1>15. Taken' = Taken
  <2>1. \A x : x \in HeldBack <=> x \in HeldBack' \/ x \in EventsOf(b)
    <3>1. \A h \in Key : h # k => EventsOf(held'[h]) = EventsOf(held[h])
      BY <1>11
    <3>2. ASSUME NEW x \in HeldBack PROVE x \in HeldBack' \/ x \in EventsOf(b)
      <4>1. PICK h \in Key : x \in EventsOf(held[h])
        BY DEF HeldBack
      <4>2. CASE h = k
        BY <1>6, <4>1, <4>2
      <4>3. CASE h # k
        <5>1. x \in EventsOf(held'[h]) /\ x \in Published'
          BY <1>13, <3>1, <4>1, <4>3 DEF HeldBack
        <5>2. QED
          BY <5>1 DEF HeldBack
      <4>4. QED
        BY <4>2, <4>3
    <3>3. ASSUME NEW x \in HeldBack' PROVE x \in HeldBack
      <4>1. PICK h \in Key : x \in EventsOf(held'[h])
        BY DEF HeldBack
      <4>2. h # k /\ x \in EventsOf(held[h]) /\ x \in Published
        BY <1>12, <1>13, <3>1, <4>1 DEF HeldBack
      <4>3. QED
        BY <4>2 DEF HeldBack
    <3>4. ASSUME NEW x \in EventsOf(b) PROVE x \in HeldBack
      BY <1>6, <1>14 DEF HeldBack
    <3>5. QED
      BY <3>2, <3>3, <3>4
  <2>2. \A x : x \in Taken' <=> x \in Taken
    BY <1>2, <1>9, <1>14, <2>1 DEF Taken
  <2>3. QED
    BY <2>2
<1>16. ChanSeqs'
  BY <1>1, <1>2, <1>5, <1>9, <1>11 DEF ChanSeqs
<1>17. HeldIsOfKey'
  <2>1. ASSUME NEW h \in Key
        PROVE  /\ Rising(held'[h])
               /\ \A x \in EventsOf(held'[h]) :
                    x \in Published /\ keyOf[x] = h /\ x \notin EventsOf(q)
    <3>1. CASE h = k
      BY <1>12, <3>1
    <3>2. CASE h # k
      BY <1>1, <1>9, <1>11, <1>14, <3>2 DEF HeldIsOfKey
    <3>3. QED
      BY <3>1, <3>2
  <2>2. EventsOf(q) \subseteq Published
    BY <1>1, <1>9, <1>14 DEF HeldIsOfKey
  <2>3. QED
    BY <1>2, <1>9, <1>13, <2>1, <2>2 DEF HeldIsOfKey
<1>18. HeldIsListed'
  <2>1. \A h \in Key : h \in EventsOf(o) <=> held'[h] # <<>>
    BY <1>1, <1>5, <1>11 DEF HeldIsListed
  <2>2. armed' = EventsOf(o)
    BY <1>1, <1>2, <1>5 DEF HeldIsListed
  <2>3. QED
    BY <1>5, <2>1, <2>2 DEF HeldIsListed
<1>19. StreamIsLater' /\ NoGaps'
  <2>1. EventsOf(stream)' = EventsOf(stream) /\ stream' = stream /\ brokerOpen' = brokerOpen
    BY <1>2 DEF EventsOf
  <2>2. QED
    BY <1>1, <1>13, <1>15, <2>1 DEF StreamIsLater, NoGaps
<1>20. InOrder(sent)'
  BY <1>2, <1>9, <1>10 DEF InOrder, MustPrecede, Published
<1>21. QED
  BY <1>16, <1>17, <1>18, <1>19, <1>20 DEF ChanInv

\* No step of the broker, the loop or a timer disturbs the order.
LEMMA ChanStep ==
    ASSUME ChanInv, [ChanNext]_chanVars
    PROVE  ChanInv'
<1>1. ASSUME ReadEvent PROVE ChanInv'
  <2>1. PICK n : n = Head(stream)
    OBVIOUS
  <2>2. stream # <<>> /\ stream' = Tail(stream) /\ UNCHANGED <<keyOf, brokerOpen, looping>>
    BY <1>1 DEF ReadEvent
  <2>3. CASE keyOf[n] \in Key
    <3>1. PICK k \in Key : keyOf[n] = k
      BY <2>3
    <3>2. EnqueueChunk(n, k)
      BY <1>1, <2>1, <3>1 DEF ReadEvent
    <3>3. QED
      BY <2>1, <2>2, <3>1, <3>2, ChunkStep
  <2>4. CASE keyOf[n] \notin Key
    <3>1. EnqueuePlain(n)
      BY <1>1, <2>1, <2>4 DEF ReadEvent
    <3>2. QED
      BY <2>1, <2>2, <2>4, <3>1, PlainStep
  <2>5. QED
    BY <2>3, <2>4
<1>2. ASSUME UNCHANGED <<keyOf, stream, looping, held, heldOrder, armed, sent>>,
             brokerOpen' \in BOOLEAN, brokerOpen' => brokerOpen
      PROVE  ChanInv'
  <2>1. /\ Published' = Published /\ Brokered' = Brokered /\ HeldBack' = HeldBack
        /\ Taken' = Taken /\ EventsOf(stream)' = EventsOf(stream)
    BY <1>2 DEF Published, Brokered, HeldBack, Taken, EventsOf
  <2>2. /\ ChanSeqs /\ HeldIsOfKey /\ HeldIsListed /\ StreamIsLater /\ NoGaps /\ InOrder(sent)
    BY DEF ChanInv
  <2>3. ChanSeqs' /\ StreamIsLater' /\ NoGaps'
    BY <1>2, <2>1, <2>2 DEF ChanSeqs, StreamIsLater, NoGaps
  <2>4. HeldIsOfKey' /\ HeldIsListed'
    BY <1>2, <2>1, <2>2 DEF HeldIsOfKey, HeldIsListed
  <2>5. InOrder(sent)'
    BY <1>2, <2>2 DEF InOrder, MustPrecede, Published
  <2>6. QED
    BY <2>3, <2>4, <2>5 DEF ChanInv
<1>3. ASSUME ShutdownBroker PROVE ChanInv'
  BY <1>2, <1>3 DEF ShutdownBroker
<1>4. CASE UNCHANGED chanVars
  <2>1. brokerOpen' = brokerOpen /\ brokerOpen \in BOOLEAN
    BY <1>4 DEF chanVars, ChanInv, ChanSeqs
  <2>2. QED
    BY <1>2, <1>4, <2>1 DEF chanVars
<1>5. QED
  BY <1>1, <1>3, <1>4, PublishStep, DirectStep, EndStep, TimerStep DEF ChanNext

LEMMA ChanInvariant == ChanSpec => []ChanInv
<1>1. ChanInit => ChanInv
  <2> SUFFICES ASSUME ChanInit PROVE ChanInv
    OBVIOUS
  <2>1. /\ keyOf = <<>> /\ stream = <<>> /\ sent = <<>> /\ heldOrder = <<>> /\ armed = {}
        /\ held = [k \in Key |-> <<>>] /\ \A k \in Key : held[k] = <<>>
        /\ brokerOpen \in BOOLEAN /\ looping \in BOOLEAN
    BY DEF ChanInit
  <2>2. /\ <<>> \in Seq(Nat) /\ <<>> \in Seq(Key) /\ <<>> \in Seq(Key \cup {Plain, Direct})
        /\ Len(<<>>) = 0 /\ 0 <= MaxEvents
    BY EmptySeq, CoalescerAssumption
  <2>3. ChanSeqs
    <3>1. held \in [Key -> Seq(Nat)]
      BY <2>1, <2>2
    <3>2. QED
      BY <2>1, <2>2, <3>1 DEF ChanSeqs
  <2>4. /\ EventsOf(stream) = {} /\ EventsOf(sent) = {} /\ EventsOf(heldOrder) = {}
        /\ Rising(stream) /\ Len(sent) = 0 /\ Len(heldOrder) = 0
        /\ \A k \in Key : EventsOf(held[k]) = {} /\ Rising(held[k])
    BY <2>1, NoEvents
  <2>5. Published = {} /\ Brokered = {} /\ Taken = {}
    <3>1. Len(keyOf) = 0
      BY <2>1, <2>2
    <3>2. QED
      BY <2>4, <3>1 DEF Published, Brokered, HeldBack, Taken
  <2>6. HeldIsOfKey /\ HeldIsListed
    BY <2>1, <2>4 DEF HeldIsOfKey, HeldIsListed
  <2>7. StreamIsLater /\ NoGaps /\ InOrder(sent)
    BY <2>4, <2>5 DEF StreamIsLater, NoGaps, InOrder
  <2>8. QED
    BY <2>3, <2>6, <2>7 DEF ChanInv
<1>2. ChanInv /\ [ChanNext]_chanVars => ChanInv'
  BY ChanStep
<1>3. QED
  BY <1>1, <1>2, PTL DEF ChanSpec

\* The variables of the channel have their types: the loop, the coalescer and
\* the clients get only events that were published.
THEOREM ChanTypeCorrect == ChanSpec => []ChanTypeOK
<1>1. ChanInv => ChanTypeOK
  <2> SUFFICES ASSUME ChanInv PROVE ChanTypeOK
    OBVIOUS
  <2>1. /\ ChanSeqs /\ HeldIsOfKey /\ StreamIsLater
    BY DEF ChanInv
  <2>2. \A n \in Published : keyOf[n] \in Key \cup {Plain, Direct}
    BY <2>1, ElementOfSeq DEF ChanSeqs, Published
  <2>3. \A i \in 1 .. Len(heldOrder) : heldOrder[i] \in Key
    BY <2>1, ElementOfSeq DEF ChanSeqs
  <2>4. \A i \in 1 .. Len(stream) : stream[i] \in Published
    BY <2>1 DEF StreamIsLater, EventsOf, Brokered
  <2>5. \A i \in 1 .. Len(sent) : sent[i] \in Published
    BY <2>1 DEF HeldIsOfKey, EventsOf
  <2>6. \A k \in Key : \A i \in 1 .. Len(held[k]) : held[k][i] \in Published
    BY <2>1 DEF HeldIsOfKey, EventsOf
  <2>7. QED
    BY <2>1, <2>2, <2>3, <2>4, <2>5, <2>6 DEF ChanTypeOK, ChanSeqs
<1>2. QED
  BY ChanInvariant, <1>1, PTL

\* Every event is sent once, and after those that must precede it: text of one
\* agent keeps its order, and nothing passes a plain event that went through
\* the broker, although text is held back (enqueue, flush, flushAll, dispose).
THEOREM SentOnceTheorem == ChanSpec => []SentOnceInOrder
<1>1. ChanInv => SentOnceInOrder
  BY DEF ChanInv, InOrder, SentOnceInOrder
<1>2. QED
  BY ChanInvariant, <1>1, PTL
==============================================================================
