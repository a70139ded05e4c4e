---------------------------- MODULE RelaySession ----------------------------
(***************************************************************************)
(* A shared session: the host's backend (collaboration/relay-client.ts and *)
(* manager.ts), the relay (relay/server.ts) and the guests' pages.  Guests *)
(* are admitted by the host, and what the host broadcasts goes to them     *)
(* over a peer channel or over the relay, which keeps a history for those  *)
(* who come later.                                                         *)
(*                                                                         *)
(* The host's connection to the relay may break; each side notices that in *)
(* its own time.  A guest is one connection of a guest.  Tiers, policies   *)
(* other than the join mode, prompts and remote inference are left out: an *)
(* event is one that every tier may see, and the relay does not restart.   *)
(***************************************************************************)
EXTENDS Naturals, Sequences

CONSTANTS
    Guest,
    Link,        \* names of host connections
    NoLink,
    MaxHistory,  \* how many events the relay keeps (200)
    MaxEmits,    \* bound: events that the host broadcasts
    MaxBreaks    \* bound: how often the host's connection breaks

ASSUME RelayAssumption ==
    /\ NoLink \notin Link
    /\ MaxHistory \in Nat \ {0}
    /\ MaxEmits \in Nat
    /\ MaxBreaks \in Nat

VARIABLES
    \* the host
    hostLink,     \* ws of the RelayClient
    pendingJoins,
    channel,      \* the guests with an open peer channel
    emits,        \* how many events were broadcast
    \* the connection between them
    toHost, toRelay,
    unclosed,     \* broken connections whose close the relay has not handled
    hostBroken,   \* the host has not handled the close of its own
    breaks,
    \* the relay
    relayHost,    \* hostWs of the session
    joinMode,
    guests,       \* the guests of the session, by their state
    history,
    \* the guests
    inChannel,    \* events under way in a peer channel
    view,         \* the events a guest has been shown
    \* what happened, for the properties
    entitled,     \* the guests that the host approved, or that needed no approval
    lost          \* events that were in a channel when it failed

relayVars == <<hostLink, pendingJoins, channel, emits, toHost, toRelay, unclosed, hostBroken,
               breaks, relayHost, joinMode, guests, history, inChannel, view, entitled, lost>>

hostSide == <<hostLink, pendingJoins, channel, emits>>
wireSide == <<toHost, toRelay, unclosed, hostBroken, breaks>>
relaySide == <<relayHost, joinMode, guests, history>>
guestSide == <<inChannel, view, entitled, lost>>

Emitted == 1 .. MaxEmits
Present(g) == guests[g] \in {"waiting", "admitted", "rejected"}
Admitted == {g \in Guest : guests[g] = "admitted"}
Elems(s) == {s[i] : i \in 1 .. Len(s)}

\* What the relay sends the host, and the host the relay: except are the guests
\* that have a message from the host already.
ToHostMessage == [type : {"guest-list"}] \cup [type : {"join-request", "guest-left"}, guest : Guest]
Decision == [type : {"join-decision"}, guest : Guest, approved : BOOLEAN, except : SUBSET Guest]
Event == [type : {"event"}, no : Emitted, except : SUBSET Guest]

RelayTypeOK ==
    /\ hostLink \in Link \cup {NoLink}
    /\ pendingJoins \subseteq Guest
    /\ channel \subseteq Guest
    /\ emits \in 0 .. MaxEmits
    /\ toHost \in Seq(ToHostMessage)
    /\ toRelay \in Seq(Decision \cup Event)
    /\ unclosed \subseteq Link
    /\ hostBroken \in BOOLEAN
    /\ breaks \in 0 .. MaxBreaks
    /\ relayHost \in Link \cup {NoLink}
    /\ joinMode \in {"approval", "auto"}
    /\ guests \in [Guest -> {"away", "waiting", "admitted", "rejected", "left"}]
    /\ history \in Seq(Emitted) /\ Len(history) <= MaxHistory
    /\ inChannel \in [Guest -> Seq(Emitted)]
    /\ view \in [Guest -> Seq(Emitted)]
    /\ entitled \subseteq Guest
    /\ lost \in [Guest -> SUBSET Emitted]

RelayInit ==
    /\ hostLink = NoLink
    /\ pendingJoins = {}
    /\ channel = {}
    /\ emits = 0
    /\ toHost = <<>> /\ toRelay = <<>>
    /\ unclosed = {}
    /\ hostBroken = FALSE
    /\ breaks = 0
    /\ relayHost = NoLink
    /\ joinMode \in {"approval", "auto"}
    /\ guests = [g \in Guest |-> "away"]
    /\ history = <<>>
    /\ inChannel = [g \in Guest |-> <<>>]
    /\ view = [g \in Guest |-> <<>>]
    /\ entitled = {}
    /\ lost = [g \in Guest |-> {}]

-----------------------------------------------------------------------------
\* What the relay sends over its hostWs arrives if that is the connection the
\* host has now.
ToHost(msg) ==
    toHost' = IF relayHost # NoLink /\ relayHost = hostLink /\ ~ hostBroken
                THEN Append(toHost, msg) ELSE toHost

Notice(type, g) == [type |-> type, guest |-> g]

\* startSession, or the timer 5 s after a close: the relay's open handler
\* takes the new connection and sends the list of guests over it.
HostConnects(k) ==
    /\ hostLink = NoLink
    /\ k \notin unclosed
    /\ k # relayHost
    /\ hostLink' = k
    /\ relayHost' = k
    /\ toHost' = <<[type |-> "guest-list"]>>
    /\ toRelay' = <<>>
    /\ UNCHANGED <<pendingJoins, channel, emits, unclosed, hostBroken, breaks, joinMode,
                   guests, history, guestSide>>

\* The connection breaks, with what is under way on it.
LinkBreaks ==
    /\ breaks < MaxBreaks
    /\ hostLink # NoLink
    /\ ~ hostBroken
    /\ breaks' = breaks + 1
    /\ hostBroken' = TRUE
    /\ unclosed' = unclosed \cup {hostLink}
    /\ toHost' = <<>> /\ toRelay' = <<>>
    /\ UNCHANGED <<hostSide, relaySide, guestSide>>

\* The close listener of the host.
HostNoticesBreak ==
    /\ hostBroken
    /\ hostBroken' = FALSE
    /\ hostLink' = NoLink
    /\ UNCHANGED <<pendingJoins, channel, emits, toHost, toRelay, unclosed, breaks, relaySide,
                   guestSide>>

\* The close handler of the relay: no host, also if a new one is connected.
RelayNoticesBreak(k) ==
    /\ k \in unclosed
    /\ unclosed' = unclosed \ {k}
    /\ relayHost' = NoLink
    /\ UNCHANGED <<hostSide, toHost, toRelay, hostBroken, breaks, joinMode, guests, history,
                   guestSide>>

-----------------------------------------------------------------------------
\* The relay's open handler for a guest: it is admitted and sent the history,
\* or waits for the host.
GuestJoins(g) ==
    /\ guests[g] = "away"
    /\ IF joinMode = "auto"
         THEN /\ guests' = [guests EXCEPT ![g] = "admitted"]
              /\ view' = [view EXCEPT ![g] = history]
              /\ entitled' = entitled \cup {g}
              /\ UNCHANGED toHost
         ELSE /\ guests' = [guests EXCEPT ![g] = "waiting"]
              /\ ToHost(Notice("join-request", g))
              /\ UNCHANGED <<view, entitled>>
    /\ UNCHANGED <<hostSide, toRelay, unclosed, hostBroken, breaks, relayHost, joinMode,
                   history, inChannel, lost>>

\* The connection of a guest ends, by its own doing or after a rejection.
GuestLeaves(g) ==
    /\ Present(g)
    /\ guests' = [guests EXCEPT ![g] = "left"]
    /\ ToHost(Notice("guest-left", g))
    /\ UNCHANGED <<hostSide, toRelay, unclosed, hostBroken, breaks, relayHost, joinMode,
                   history, guestSide>>

\* updatePolicy.
SetJoinMode(mode) ==
    /\ hostLink # NoLink /\ ~ hostBroken
    /\ mode # joinMode
    /\ joinMode' = mode
    /\ UNCHANGED <<hostSide, wireSide, relayHost, guests, history, guestSide>>

\* The peer channel of a guest that is gone is closed.
CloseChannel(g) ==
    /\ channel' = channel \ {g}
    /\ lost' = [lost EXCEPT ![g] = @ \cup Elems(inChannel[g])]
    /\ inChannel' = [inChannel EXCEPT ![g] = <<>>]

\* The message listener of the host.
HostReceives ==
    /\ toHost # <<>>
    /\ toHost' = Tail(toHost)
    /\ LET m == Head(toHost) IN
         CASE m.type = "join-request" ->
                /\ pendingJoins' = pendingJoins \cup {m.guest}
                /\ UNCHANGED <<channel, inChannel, lost>>
           [] m.type = "guest-left" ->
                /\ pendingJoins' = pendingJoins \ {m.guest}
                /\ CloseChannel(m.guest)
           [] m.type = "guest-list" ->      \* fills connectedGuests only
                UNCHANGED <<pendingJoins, channel, inChannel, lost>>
    /\ UNCHANGED <<hostLink, emits, toRelay, unclosed, hostBroken, breaks, relaySide, view,
                   entitled>>

\* RelayClient.broadcast: nothing without a connection; else over the peer
\* channels, and over the relay to all others.
Broadcast(msg) ==
    IF hostLink = NoLink
      THEN UNCHANGED <<toRelay, inChannel>>
      ELSE /\ toRelay' = IF hostBroken THEN toRelay
                         ELSE Append(toRelay, [msg EXCEPT !.except = channel])
           /\ inChannel' = IF msg.type # "event" THEN inChannel
                           ELSE [g \in Guest |-> IF g \in channel
                                                   THEN Append(inChannel[g], msg.no)
                                                   ELSE inChannel[g]]

\* resolveJoin.
HostDecides(g, ok) ==
    /\ g \in pendingJoins
    /\ pendingJoins' = pendingJoins \ {g}
    /\ Broadcast([type |-> "join-decision", guest |-> g, approved |-> ok, except |-> {}])
    /\ entitled' = IF ok THEN entitled \cup {g} ELSE entitled
    /\ UNCHANGED <<hostLink, channel, emits, toHost, unclosed, hostBroken, breaks, relaySide,
                   view, lost>>

\* broadcastEvent.
HostEmits ==
    /\ emits < MaxEmits
    /\ emits' = emits + 1
    /\ Broadcast([type |-> "event", no |-> emits + 1, except |-> {}])
    /\ UNCHANGED <<hostLink, pendingJoins, channel, toHost, unclosed, hostBroken, breaks,
                   relaySide, view, entitled, lost>>

-----------------------------------------------------------------------------
\* Variant: an admitted guest is not sent the history.
RelayDecides_NoHistory(m) ==
    /\ guests' = IF Present(m.guest)
                   THEN [guests EXCEPT ![m.guest] = IF m.approved THEN "admitted"
                                                                  ELSE "rejected"]
                   ELSE guests
    /\ UNCHANGED <<view, history>>

\* A join-decision, about a guest that may have left.
RelayDecides(m) ==
    /\ IF Present(m.guest)
         THEN /\ guests' = [guests EXCEPT ![m.guest] = IF m.approved THEN "admitted"
                                                                     ELSE "rejected"]
              /\ view' = IF m.approved THEN [view EXCEPT ![m.guest] = history] ELSE view
         ELSE UNCHANGED <<guests, view>>
    /\ UNCHANGED history

\* Variant: guests that wait for the host are sent events, too.
RelayForwards_ToAll(m) ==
    /\ view' = [g \in Guest |-> IF Present(g) /\ g \notin m.except
                                  THEN Append(view[g], m.no) ELSE view[g]]
    /\ history' = LET h == Append(history, m.no) IN
                  IF Len(h) > MaxHistory THEN Tail(h) ELSE h
    /\ UNCHANGED guests

\* An event goes to the admitted guests that had none from the host, and into
\* the history.
RelayForwards(m) ==
    /\ view' = [g \in Guest |-> IF g \in Admitted \ m.except
                                  THEN Append(view[g], m.no) ELSE view[g]]
    /\ history' = LET h == Append(history, m.no) IN
                  IF Len(h) > MaxHistory THEN Tail(h) ELSE h
    /\ UNCHANGED guests

\* The relay's message handler for the host.
RelayReceives ==
    /\ toRelay # <<>>
    /\ toRelay' = Tail(toRelay)
    /\ LET m == Head(toRelay) IN
         IF m.type = "event" THEN RelayForwards(m) ELSE RelayDecides(m)
    /\ UNCHANGED <<hostSide, toHost, unclosed, hostBroken, breaks, relayHost, joinMode,
                   inChannel, entitled, lost>>

\* startPeer of an admitted guest: the offer and its answer go over the relay.
OpenChannel(g) ==
    /\ g \in Admitted \ channel
    /\ relayHost # NoLink /\ relayHost = hostLink /\ ~ hostBroken
    /\ channel' = channel \cup {g}
    /\ UNCHANGED <<hostLink, pendingJoins, emits, wireSide, relaySide, guestSide>>

\* HybridPeerTransport closes a channel that failed.
ChannelFails(g) ==
    /\ g \in channel
    /\ CloseChannel(g)
    /\ UNCHANGED <<hostLink, pendingJoins, emits, wireSide, relaySide, view, entitled>>

ChannelDelivers(g) ==
    /\ inChannel[g] # <<>>
    /\ inChannel' = [inChannel EXCEPT ![g] = Tail(@)]
    /\ view' = [view EXCEPT ![g] = Append(@, Head(inChannel[g]))]
    /\ UNCHANGED <<hostSide, wireSide, relaySide, entitled, lost>>

RelayNext ==
    \/ \E k \in Link : HostConnects(k) \/ RelayNoticesBreak(k)
    \/ LinkBreaks
    \/ HostNoticesBreak
    \/ \E g \in Guest : \/ GuestJoins(g) \/ GuestLeaves(g)
                        \/ HostDecides(g, TRUE) \/ HostDecides(g, FALSE)
                        \/ OpenChannel(g) \/ ChannelFails(g) \/ ChannelDelivers(g)
    \/ \E mode \in {"approval", "auto"} : SetJoinMode(mode)
    \/ HostReceives
    \/ HostEmits
    \/ RelayReceives

RelaySpec == RelayInit /\ [][RelayNext]_relayVars

-----------------------------------------------------------------------------
(* Properties *)

\* A guest sees no event twice, whether it came with the history, over the
\* relay or over a channel, and an admitted guest has seen, or will see, every
\* event of the relay's history, unless the channel it was in has failed.
GuestsSeeEachEventOnce ==
    \A g \in Guest :
        /\ \A i, j \in 1 .. Len(view[g]) : i # j => view[g][i] # view[g][j]
        /\ g \in Admitted =>
             Elems(history) \subseteq Elems(view[g]) \cup Elems(inChannel[g]) \cup lost[g]

\* A guest that had to wait is shown events, or is given a channel, only after
\* the host has approved it, however decisions, departures and reconnects fall.
OnlyTheEntitledSee ==
    \A g \in Guest : view[g] # <<>> \/ g \in channel => g \in entitled

\* "Send pending guest list to host": a host that is connected, and has read
\* what the relay sent, is offered every guest that waits for him.
WaitingGuestsAreOffered ==
    relayHost # NoLink /\ relayHost = hostLink /\ ~ hostBroken
    /\ toHost = <<>> /\ toRelay = <<>> =>
        \A g \in Guest : guests[g] = "waiting" => g \in pendingJoins
=============================================================================
