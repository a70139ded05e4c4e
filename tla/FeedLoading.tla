---------------------------- MODULE FeedLoading ----------------------------
(***************************************************************************)
(* How the feed of the page gets the history of the chat it shows:         *)
(* hooks/useSessionSync.svelte.ts on a change of the active session, the   *)
(* agent.status message in stores/websocket.svelte.ts at the end of a      *)
(* turn, and loadSessionMessages in stores/feed.svelte.ts, whose requests  *)
(* are awaited while live entries arrive and the user goes elsewhere.      *)
(*                                                                         *)
(* A message is its chat and its number there.  Its live entry and its row *)
(* of the history are not told apart, the archived tool runs, the timeline *)
(* and the limit on the length of the feed are left out, and the generation*)
(* of a load is whether it is still the latest.                            *)
(***************************************************************************)
EXTENDS Naturals, Sequences

CONSTANTS
    Room,        \* the sessions of the page
    NoRoom,      \* no session is active
    Load,        \* the loads that can be under way
    MaxMessages, \* bound: messages of a session
    MaxMoves     \* bound: how often the user goes to another session

ASSUME FeedAssumption ==
    /\ NoRoom \notin Room
    /\ MaxMessages \in Nat
    /\ MaxMoves \in Nat

VARIABLES
    here,        \* activeSessionId
    lastSynced,  \* lastSubscribedSessionId
    made,        \* how many messages a session has had
    stored,      \* how many of them the server has stored
    feed,        \* the entries shown
    feedOf,      \* the session whose history was last put into the feed
    load,        \* the loads under way
    moves

feedVars == <<here, lastSynced, made, stored, feed, feedOf, load, moves>>

Message == [room : Room, no : 1 .. MaxMessages]
Free == [phase |-> "free"]

\* A load is begun by useSessionSync, then it is dropped unless it is the
\* latest one, or by the end of a turn.  What its session had when it began to
\* await is kept for LoadKeepsLiveEntries only.
Loading ==
    [phase : {"asked", "answered", "awaiting"}, room : Room, by : {"sync", "status"},
     latest : BOOLEAN, got : 0 .. MaxMessages, start : Nat, had : 0 .. MaxMessages]

FeedTypeOK ==
    /\ here \in Room \cup {NoRoom}
    /\ lastSynced \in Room \cup {NoRoom}
    /\ made \in [Room -> 0 .. MaxMessages]
    /\ stored \in [Room -> 0 .. MaxMessages]
    /\ feed \in Seq(Message)
    /\ feedOf \in Room \cup {NoRoom}
    /\ load \in [Load -> {Free} \cup Loading]
    /\ moves \in 0 .. MaxMoves

FeedInit ==
    /\ here = NoRoom
    /\ lastSynced = NoRoom
    /\ made = [s \in Room |-> 0]
    /\ stored = [s \in Room |-> 0]
    /\ feed = <<>>
    /\ feedOf = NoRoom
    /\ load = [l \in Load |-> Free]
    /\ moves = 0

Asked(s, source) ==
    [phase |-> "asked", room |-> s, by |-> source, latest |-> TRUE, got |-> 0, start |-> 0,
     had |-> 0]

-----------------------------------------------------------------------------
\* No session is active: the feed is cleared.
LeaveAll ==
    /\ moves < MaxMoves
    /\ here # NoRoom
    /\ moves' = moves + 1
    /\ here' = NoRoom
    /\ lastSynced' = NoRoom
    /\ feed' = <<>>
    /\ feedOf' = NoRoom
    /\ UNCHANGED <<made, stored, load>>

\* Another session is active: its load is now the latest.  The feed keeps what
\* it shows until the history is there.
GoTo(s, l) ==
    /\ moves < MaxMoves
    /\ s # here
    /\ moves' = moves + 1
    /\ here' = s
    /\ IF s = lastSynced
         THEN UNCHANGED <<lastSynced, load>>
         ELSE /\ load[l] = Free
              /\ lastSynced' = s
              /\ load' = [k \in Load |->
                            CASE k = l -> Asked(s, "sync")
                              [] k # l /\ load[k] # Free -> [load[k] EXCEPT !.latest = FALSE]
                              [] OTHER -> Free]
    /\ UNCHANGED <<made, stored, feed, feedOf>>

\* The manager's status says that its turn in the active session is over.
TurnEnds(l) ==
    /\ here # NoRoom
    /\ load[l] = Free
    /\ load' = [load EXCEPT ![l] = Asked(here, "status")]
    /\ UNCHANGED <<here, lastSynced, made, stored, feed, feedOf, moves>>

\* A message of the user or a live answer: shown if its session is active
\* (addUserMessage, accumulateFeedEntry), and stored by the server later.
NewMessage(s) ==
    /\ made[s] < MaxMessages
    /\ made' = [made EXCEPT ![s] = @ + 1]
    /\ feed' = IF s = here THEN Append(feed, [room |-> s, no |-> made[s] + 1]) ELSE feed
    /\ UNCHANGED <<here, lastSynced, stored, feedOf, load, moves>>

Store(s) ==
    /\ stored[s] < made[s]
    /\ stored' = [stored EXCEPT ![s] = @ + 1]
    /\ UNCHANGED <<here, lastSynced, made, feed, feedOf, load, moves>>

-----------------------------------------------------------------------------
\* fetchMessages: the rows at this time, or none if the request fails.
Answer(l) ==
    /\ load[l].phase = "asked"
    /\ \E got \in {stored[load[l].room], 0} :
         load' = [load EXCEPT ![l].phase = "answered", ![l].got = got]
    /\ UNCHANGED <<here, lastSynced, made, stored, feed, feedOf, moves>>

\* loadSessionMessages notes the length of the feed and awaits more.
BeginLoad(l) ==
    /\ load[l].phase = "answered"
    /\ load' = [load EXCEPT ![l] =
                  IF @.by = "sync" /\ ~ @.latest
                    THEN Free
                    ELSE [@ EXCEPT !.phase = "awaiting", !.start = Len(feed),
                                   !.had = made[load[l].room]]]
    /\ UNCHANGED <<here, lastSynced, made, stored, feed, feedOf, moves>>

History(s, n) == [i \in 1 .. n |-> [room |-> s, no |-> i]]

\* Variant: which session is active by now is not asked.
EndLoad_Anywhere(l) ==
    /\ load[l].phase = "awaiting"
    /\ load' = [load EXCEPT ![l] = Free]
    /\ feed' = History(load[l].room, load[l].got) \o SubSeq(feed, load[l].start + 1, Len(feed))
    /\ feedOf' = load[l].room
    /\ UNCHANGED <<here, lastSynced, made, stored, moves>>

\* The history replaces what the feed had when the load began.
EndLoad(l) ==
    /\ load[l].phase = "awaiting"
    /\ load' = [load EXCEPT ![l] = Free]
    /\ IF here = load[l].room
         THEN /\ feed' = History(here, load[l].got)
                           \o SubSeq(feed, load[l].start + 1, Len(feed))
              /\ feedOf' = here
         ELSE UNCHANGED <<feed, feedOf>>
    /\ UNCHANGED <<here, lastSynced, made, stored, moves>>

FeedNext ==
    \/ LeaveAll
    \/ \E s \in Room : NewMessage(s) \/ Store(s)
    \/ \E l \in Load : \/ \E s \in Room : GoTo(s, l)
                       \/ TurnEnds(l) \/ Answer(l) \/ BeginLoad(l) \/ EndLoad(l)

FeedSpec == FeedInit /\ [][FeedNext]_feedVars

-----------------------------------------------------------------------------
(* Properties *)

\* When nothing is being loaded, the history shown is that of the active
\* session, however often the user went back and forth, and in whatever order
\* the loads ended (loadGeneration, the checks after each await).
SettledFeedIsOfActive ==
    (\A l \in Load : load[l] = Free) => feedOf = here

\* "Anything pushed onto the feed while we awaited (live stream events for
\* this session) belongs after history": a load that ends drops no entry that
\* came since it began to await.
LoadKeepsLiveEntries ==
    [][\A l \in Load :
         load[l].phase = "awaiting" /\ load'[l] = Free /\ here = load[l].room =>
            \A i \in 1 .. Len(feed) :
               feed[i].room = here /\ feed[i].no > load[l].had =>
                  \E j \in 1 .. Len(feed') : feed'[j] = feed[i]]_feedVars
=============================================================================
