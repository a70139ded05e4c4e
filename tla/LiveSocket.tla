----------------------------- MODULE LiveSocket -----------------------------
(***************************************************************************)
(* The WebSocket between the page (stores/websocket.svelte.ts) and the     *)
(* server (server/websocket-handler.ts, ws/ws-manager.ts): connecting over *)
(* several candidate addresses, subscriptions to sessions, the heartbeat,  *)
(* and reconnecting.                                                       *)
(*                                                                         *)
(* One page with one connection at a time, of two ends: a connection is    *)
(* named and its name used again once both ends have forgotten it.  What   *)
(* the server sends (StreamCoalescer) and the limit of 1000 clients are    *)
(* left out, and the delays of the two retry timers are one: a retry is    *)
(* due.  The sessions exist.  An address that is no valid one, or that the *)
(* browser forbids, is one all the time.                                   *)
(***************************************************************************)
EXTENDS Naturals, Sequences

CONSTANTS
    Conn,        \* names of connections
    NoConn,      \* no connection
    Chat,        \* the sessions that can be viewed
    NoChat,      \* no session
    Candidates,  \* how many addresses the page tries
    MaxCuts,     \* bound: how often the network or the server drops one
    MaxViews     \* bound: how often the user goes to a session

ASSUME SocketAssumption ==
    /\ NoConn \notin Conn
    /\ NoChat \notin Chat
    /\ Candidates \in Nat \ {0}
    /\ MaxCuts \in Nat
    /\ MaxViews \in Nat

VARIABLES
    started,    \* the page is initialized
    link,       \* the state of a connection, as the network has it
    page,       \* wsConnection
    candidate,  \* wsCandidateIndex
    retryDue,   \* a retry timer runs
    viewed,     \* subscribedSessions of the page
    active,     \* activeSessionId
    wire,       \* the subscriptions under way on a connection
    clients,    \* clients of the server
    subscribed, \* subscribedSessions of a client
    isAlive,    \* isAlive of a client
    dismissed,  \* the server has closed a connection that worked
    cuts, views,
    refused     \* the candidates of which the browser makes no WebSocket at all

sockVars == <<started, link, page, candidate, retryDue, viewed, active, wire, clients, subscribed,
              isAlive, dismissed, cuts, views, refused>>

SockTypeOK ==
    /\ started \in BOOLEAN
    /\ link \in [Conn -> {"free", "opening", "open", "closed"}]
    /\ page \in Conn \cup {NoConn}
    /\ candidate \in 0 .. Candidates - 1
    /\ retryDue \in BOOLEAN
    /\ viewed \subseteq Chat
    /\ active \in Chat \cup {NoChat}
    /\ wire \in [Conn -> Seq(SUBSET Chat)]
    /\ clients \subseteq Conn
    /\ subscribed \in [Conn -> SUBSET Chat]
    /\ isAlive \in [Conn -> BOOLEAN]
    /\ dismissed \in BOOLEAN
    /\ cuts \in 0 .. MaxCuts
    /\ views \in 0 .. MaxViews
    /\ refused \subseteq 0 .. Candidates - 1

SockInit ==
    /\ started = FALSE
    /\ link = [c \in Conn |-> "free"]
    /\ page = NoConn
    /\ candidate = 0
    /\ retryDue = FALSE
    /\ viewed = {}
    /\ active = NoChat
    /\ wire = [c \in Conn |-> <<>>]
    /\ clients = {}
    /\ subscribed = [c \in Conn |-> {}]
    /\ isAlive = [c \in Conn |-> FALSE]
    /\ dismissed = FALSE
    /\ cuts = 0
    /\ views = 0
    /\ refused \in SUBSET (0 .. Candidates - 1)

-----------------------------------------------------------------------------
\* Subscription messages of one handler are one.
Send(c, ss) == wire' = [wire EXCEPT ![c] = Append(@, ss)]

\* useSessionSync: another session is gone to.  Without a connection it is
\* left to onopen to note it, and on one that was dropped nothing is sent.
View(s) ==
    /\ views < MaxViews
    /\ views' = views + 1
    /\ active' = s
    /\ viewed' = IF page # NoConn THEN viewed \cup ({s} \ {NoChat}) ELSE viewed
    /\ IF page # NoConn /\ link[page] = "open" /\ s # NoChat
         THEN Send(page, {s})
         ELSE UNCHANGED wire
    /\ UNCHANGED <<started, link, page, candidate, retryDue, clients, subscribed, isAlive,
                   dismissed, cuts, refused>>

\* onMount, once the sessions are loaded: the first connect.
PageStarts ==
    /\ ~ started
    /\ started' = TRUE
    /\ retryDue' = TRUE
    /\ UNCHANGED <<link, page, candidate, viewed, active, wire, clients, subscribed, isAlive,
                   dismissed, cuts, views, refused>>

\* connect makes a connection, which the server may refuse or add.
Connect(c) ==
    /\ retryDue
    /\ candidate \notin refused
    /\ link[c] = "free"
    /\ c \notin clients
    /\ retryDue' = FALSE
    /\ link' = [link EXCEPT ![c] = "opening"]
    /\ UNCHANGED <<started, page, candidate, viewed, active, wire, clients, subscribed, isAlive,
                   dismissed, cuts, views, refused>>

\* new WebSocket throws: the same candidate is due again (scheduleReconnect).
ConnectThrows ==
    /\ retryDue
    /\ candidate \in refused
    /\ retryDue' = TRUE
    /\ UNCHANGED <<started, link, page, candidate, viewed, active, wire, clients, subscribed, isAlive,
                   dismissed, cuts, views, refused>>

\* handleWSOpen: add.
ServerOpens(c) ==
    /\ link[c] = "opening"
    /\ c \notin clients
    /\ clients' = clients \cup {c}
    /\ subscribed' = [subscribed EXCEPT ![c] = {}]
    /\ isAlive' = [isAlive EXCEPT ![c] = TRUE]
    /\ UNCHANGED <<started, link, page, candidate, retryDue, viewed, active, wire, dismissed,
                   cuts, views, refused>>

\* Variant: only the active session is subscribed to again.
PageOpens_ActiveOnly(c) ==
    /\ link[c] = "opening"
    /\ c \in clients
    /\ link' = [link EXCEPT ![c] = "open"]
    /\ page' = c
    /\ viewed' = viewed \cup ({active} \ {NoChat})
    /\ Send(c, {active} \ {NoChat})
    /\ UNCHANGED <<started, candidate, retryDue, active, clients, subscribed, isAlive,
                   dismissed, cuts, views, refused>>

\* onopen.
PageOpens(c) ==
    /\ link[c] = "opening"
    /\ c \in clients
    /\ link' = [link EXCEPT ![c] = "open"]
    /\ page' = c
    /\ viewed' = viewed \cup ({active} \ {NoChat})
    /\ Send(c, viewed')
    /\ UNCHANGED <<started, candidate, retryDue, active, clients, subscribed, isAlive,
                   dismissed, cuts, views, refused>>

\* handleWSMessage: subscribe_session, of a client the manager still has.
ServerSubscribes(c) ==
    /\ link[c] = "open"
    /\ wire[c] # <<>>
    /\ wire' = [wire EXCEPT ![c] = Tail(@)]
    /\ subscribed' = IF c \in clients THEN [subscribed EXCEPT ![c] = @ \cup Head(wire[c])]
                                      ELSE subscribed
    /\ UNCHANGED <<started, link, page, candidate, retryDue, viewed, active, clients, isAlive,
                   dismissed, cuts, views, refused>>

-----------------------------------------------------------------------------
\* The page gives a connection up, or the network or the server does.
Cut(c) ==
    /\ cuts < MaxCuts
    /\ link[c] \in {"opening", "open"}
    /\ cuts' = cuts + 1
    /\ link' = [link EXCEPT ![c] = "closed"]
    /\ wire' = [wire EXCEPT ![c] = <<>>]
    /\ UNCHANGED <<started, page, candidate, retryDue, viewed, active, clients, subscribed,
                   isAlive, dismissed, views, refused>>

\* Variant: the addresses are tried past the last one.
PageCloses_PastEnd(c) ==
    /\ link[c] = "closed"
    /\ link' = [link EXCEPT ![c] = "free"]
    /\ page' = NoConn
    /\ candidate' = candidate + 1
    /\ retryDue' = TRUE
    /\ UNCHANGED <<started, viewed, active, wire, clients, subscribed, isAlive, dismissed, cuts,
                   views, refused>>

\* Variant: the last candidate fails and no retry is scheduled.
PageCloses_LastGivesUp(c) ==
    /\ link[c] = "closed"
    /\ link' = [link EXCEPT ![c] = "free"]
    /\ page' = NoConn
    /\ candidate' = IF candidate < Candidates - 1 THEN candidate + 1 ELSE 0
    /\ retryDue' = (candidate < Candidates - 1)
    /\ UNCHANGED <<started, viewed, active, wire, clients, subscribed, isAlive, dismissed, cuts,
                   views, refused>>

\* onclose: the next candidate, or the first one again after scheduleReconnect.
PageCloses(c) ==
    /\ link[c] = "closed"
    /\ link' = [link EXCEPT ![c] = "free"]
    /\ page' = NoConn
    /\ candidate' = IF candidate < Candidates - 1 THEN candidate + 1 ELSE 0
    /\ retryDue' = TRUE
    /\ UNCHANGED <<started, viewed, active, wire, clients, subscribed, isAlive, dismissed, cuts,
                   views, refused>>

\* handleWSClose: remove.
ServerCloses(c) ==
    /\ c \in clients
    /\ link[c] \in {"closed", "free"}
    /\ clients' = clients \ {c}
    /\ subscribed' = [subscribed EXCEPT ![c] = {}]
    /\ UNCHANGED <<started, link, page, candidate, retryDue, viewed, active, wire, isAlive,
                   dismissed, cuts, views, refused>>

\* heartbeat, every 30 s: a client that was not marked alive since the last
\* one is closed.  Nothing marks it: handlePong has no caller.
Heartbeat ==
    LET stale == {c \in clients : ~ isAlive[c]} IN
    /\ clients' = clients \ stale
    /\ isAlive' = [c \in Conn |-> FALSE]
    /\ dismissed' = (dismissed \/ \E c \in stale : link[c] = "open")
    /\ link' = [c \in Conn |-> IF c \in stale /\ link[c] \in {"opening", "open"}
                                 THEN "closed" ELSE link[c]]
    /\ wire' = [c \in Conn |-> IF c \in stale THEN <<>> ELSE wire[c]]
    /\ UNCHANGED <<started, page, candidate, retryDue, viewed, active, subscribed, cuts, views,
                   refused>>

SockNext ==
    \/ \E s \in Chat \cup {NoChat} : View(s)
    \/ \E c \in Conn : \/ Connect(c) \/ ServerOpens(c) \/ PageOpens(c)
                       \/ ServerSubscribes(c) \/ Cut(c)
                       \/ PageCloses(c) \/ ServerCloses(c)
    \/ PageStarts \/ ConnectThrows
    \/ Heartbeat

SockSpec == SockInit /\ [][SockNext]_sockVars

\* The page's and the server's handlers run and timers fire.  A connection
\* opens within two heartbeats at some time: they are 30 s apart.
SockFairness ==
    /\ SF_sockVars(\E c \in Conn : PageOpens(c))
    /\ \A c \in Conn : /\ WF_sockVars(Connect(c)) /\ WF_sockVars(ServerOpens(c))
                       /\ WF_sockVars(PageCloses(c)) /\ WF_sockVars(ServerCloses(c))

-----------------------------------------------------------------------------
(* Properties *)

\* Over a connection that both ends know, the server sends or is about to send
\* the page every session it has noted, the active one among them, also after
\* a reconnect ("the server keeps per-connection subscriptions").
SubscriptionsFollow ==
    page # NoConn =>
        /\ active \in viewed \cup {NoChat}
        /\ link[page] = "open" /\ page \in clients =>
             \A s \in viewed : \/ s \in subscribed[page]
                               \/ \E i \in 1 .. Len(wire[page]) : s \in wire[page][i]

\* A page without a connection gets one, whichever of its candidates fail to
\* connect and however often the server drops it, unless it comes to a
\* candidate that the browser refuses (connect, onclose, scheduleReconnect).
PageReconnects ==
    started /\ page = NoConn ~> page # NoConn \/ (retryDue /\ candidate \in refused)

\* A candidate that works is found, whichever the others are.
WorkingCandidateIsFound ==
    started /\ page = NoConn /\ refused # 0 .. Candidates - 1 ~> page # NoConn

\* "Check for stale connections": only a connection that is broken is closed.
HealthyClientsStay == ~ dismissed
=============================================================================
