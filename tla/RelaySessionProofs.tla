-------------------------- MODULE RelaySessionProofs -------------------------
(***************************************************************************)
(* Theorems about RelaySession, for every set of guests and connections,   *)
(* every length of the history and every bound.                            *)
(***************************************************************************)
EXTENDS RelaySession, SequenceTheorems, TLAPS

-----------------------------------------------------------------------------
(* Messages and events *)

\* A message that is read was sent, and the rest was sent as well.
LEMMA ReadMessage ==
    ASSUME NEW M, NEW q \in Seq(M), q # <<>>
    PROVE  /\ Head(q) \in M /\ Tail(q) \in Seq(M) /\ Len(q) >= 1
           /\ Head(q) = q[1]
           /\ Len(Tail(q)) = Len(q) - 1
           /\ \A i \in 1 .. Len(q) - 1 : Tail(q)[i] = q[i + 1]
<1>1. Len(q) \in Nat /\ Len(q) # 0
  BY EmptySeq, LenProperties
<1>2. QED
  BY <1>1, HeadTailProperties

\* A message is added at the end.
LEMMA SentMessage ==
    ASSUME NEW M, NEW q \in Seq(M), NEW m \in M
    PROVE  /\ Append(q, m) \in Seq(M)
           /\ Append(q, m) # <<>>
           /\ Len(Append(q, m)) = Len(q) + 1
           /\ \A i \in 1 .. Len(q) : Append(q, m)[i] = q[i]
           /\ Append(q, m)[Len(q) + 1] = m
<1>1. Len(q) \in Nat /\ Len(Append(q, m)) = Len(q) + 1 /\ Append(q, m) \in Seq(M)
  BY AppendProperties, LenProperties
<1>2. Append(q, m) # <<>>
  BY <1>1, EmptySeq
<1>3. QED
  BY <1>1, <1>2, AppendProperties

\* The elements of a sequence of events are events.
LEMMA ElemsAreEvents ==
    ASSUME NEW q \in Seq(Emitted)
    PROVE  Elems(q) \subseteq Emitted
BY ElementOfSeq DEF Elems

\* What the host broadcasts is a message to the relay, and to the channels.
LEMMA BroadcastType ==
    ASSUME RelayTypeOK, NEW msg \in Decision \cup Event, Broadcast(msg)
    PROVE  /\ toRelay' \in Seq(Decision \cup Event)
           /\ inChannel' \in [Guest -> Seq(Emitted)]
<1>1. [msg EXCEPT !.except = channel] \in Decision \cup Event
  BY DEF RelayTypeOK, Decision, Event
<1>2. toRelay' \in Seq(Decision \cup Event)
  <2>1. Append(toRelay, [msg EXCEPT !.except = channel]) \in Seq(Decision \cup Event)
    BY <1>1, SentMessage DEF RelayTypeOK
  <2>2. toRelay' = toRelay \/ toRelay' = Append(toRelay, [msg EXCEPT !.except = channel])
    BY DEF Broadcast
  <2>3. QED
    BY <2>1, <2>2 DEF RelayTypeOK
<1>3. inChannel' \in [Guest -> Seq(Emitted)]
  <2>1. CASE hostLink = NoLink \/ msg.type # "event"
    <3>1. CASE hostLink = NoLink
      BY <3>1 DEF RelayTypeOK, Broadcast
    <3>2. CASE hostLink # NoLink /\ msg.type # "event"
      BY <3>2 DEF RelayTypeOK, Broadcast
    <3>3. QED
      BY <2>1, <3>1, <3>2
  <2>2. CASE hostLink # NoLink /\ msg.type = "event"
    <3>1. msg.no \in Emitted
      BY <2>2 DEF Decision, Event
    <3>2. \A g \in Guest : Append(inChannel[g], msg.no) \in Seq(Emitted)
      BY <3>1, SentMessage DEF RelayTypeOK
    <3>3. QED
      BY <2>2, <3>2 DEF RelayTypeOK, Broadcast
  <2>3. QED
    BY <2>1, <2>2
<1>4. QED
  BY <1>2, <1>3

\* A decision is one that the host broadcasts.
LEMMA DecisionType ==
    ASSUME NEW g \in Guest, NEW ok \in BOOLEAN
    PROVE  [type |-> "join-decision", guest |-> g, approved |-> ok, except |-> {}]
             \in Decision \cup Event
BY DEF Decision

\* A failed or closed channel loses events that were emitted.
LEMMA CloseType ==
    ASSUME RelayTypeOK, NEW g \in Guest, CloseChannel(g)
    PROVE  /\ channel' \subseteq Guest
           /\ inChannel' \in [Guest -> Seq(Emitted)]
           /\ lost' \in [Guest -> SUBSET Emitted]
<1>1. Elems(inChannel[g]) \subseteq Emitted
  BY ElemsAreEvents DEF RelayTypeOK
<1>2. <<>> \in Seq(Emitted)
  BY EmptySeq
<1>3. QED
  BY <1>1, <1>2 DEF RelayTypeOK, CloseChannel

\* The host is sent messages of its kind.
LEMMA ToHostType ==
    ASSUME RelayTypeOK, NEW msg \in ToHostMessage, ToHost(msg)
    PROVE  toHost' \in Seq(ToHostMessage)
BY SentMessage DEF RelayTypeOK, ToHost

-----------------------------------------------------------------------------
(* Every step keeps the types *)

\* A forwarded event is shown and kept, and the history does not outgrow its
\* limit.
LEMMA ForwardType ==
    ASSUME RelayTypeOK, NEW m, m.no \in Emitted, RelayForwards(m)
    PROVE  /\ view' \in [Guest -> Seq(Emitted)]
           /\ history' \in Seq(Emitted)
           /\ Len(history') <= MaxHistory
<1>1. \A g \in Guest : Append(view[g], m.no) \in Seq(Emitted)
  BY SentMessage DEF RelayTypeOK
<1>2. view' \in [Guest -> Seq(Emitted)]
  BY <1>1 DEF RelayTypeOK, RelayForwards
<1>3. DEFINE h == Append(history, m.no)
<1>4. h \in Seq(Emitted) /\ h # <<>> /\ Len(h) = Len(history) + 1 /\ Len(history) <= MaxHistory
      /\ Len(history) \in Nat
  BY SentMessage, LenProperties DEF RelayTypeOK
<1>5. Tail(h) \in Seq(Emitted) /\ Len(Tail(h)) = Len(h) - 1
  BY <1>4, ReadMessage
<1>6. history' = IF Len(h) > MaxHistory THEN Tail(h) ELSE h
  BY DEF RelayForwards
<1>7. QED
  <2> HIDE DEF h
  <2>1. QED
    BY <1>2, <1>4, <1>5, <1>6, RelayAssumption

\* No handler of the host, of the relay or of a guest leaves the types.
LEMMA RelayTypeStep ==
    ASSUME RelayTypeOK, [RelayNext]_relayVars
    PROVE  RelayTypeOK'
<1> USE RelayAssumption DEF RelayTypeOK, hostSide, wireSide, relaySide,
        guestSide
<1>1. ASSUME NEW k \in Link, HostConnects(k) PROVE RelayTypeOK'
  <2>1. [type |-> "guest-list"] \in ToHostMessage
    BY DEF ToHostMessage
  <2>2. <<[type |-> "guest-list"]>> \in Seq(ToHostMessage) /\ <<>> \in Seq(Decision \cup Event)
    BY <2>1, EmptySeq
  <2>3. QED
    BY <1>1, <2>2 DEF HostConnects
<1>2. ASSUME NEW k \in Link, RelayNoticesBreak(k) PROVE RelayTypeOK'
  BY <1>2 DEF RelayNoticesBreak
<1>3. ASSUME LinkBreaks PROVE RelayTypeOK'
  <2>1. breaks' \in 0 .. MaxBreaks /\ hostLink \in Link
    BY <1>3 DEF LinkBreaks
  <2>2. <<>> \in Seq(ToHostMessage) /\ <<>> \in Seq(Decision \cup Event)
    BY EmptySeq
  <2>3. QED
    BY <1>3, <2>1, <2>2 DEF LinkBreaks
<1>4. ASSUME HostNoticesBreak PROVE RelayTypeOK'
  BY <1>4 DEF HostNoticesBreak
<1>5. ASSUME NEW g \in Guest, GuestJoins(g) PROVE RelayTypeOK'
  <2>1. Notice("join-request", g) \in ToHostMessage
    BY DEF ToHostMessage, Notice
  <2>2. toHost' \in Seq(ToHostMessage)
    BY <1>5, <2>1, ToHostType DEF GuestJoins
  <2>3. /\ guests' \in [Guest -> {"away", "waiting", "admitted", "rejected", "left"}]
        /\ view' \in [Guest -> Seq(Emitted)]
        /\ entitled' \subseteq Guest
    <3>1. CASE joinMode = "auto"
      <4>1. /\ guests' = [guests EXCEPT ![g] = "admitted"]
            /\ view' = [view EXCEPT ![g] = history] /\ entitled' = entitled \cup {g}
        BY <1>5, <3>1 DEF GuestJoins
      <4>2. view' \in [Guest -> Seq(Emitted)]
        BY <4>1
      <4>3. QED
        BY <4>1, <4>2
    <3>2. CASE joinMode # "auto"
      <4>1. guests' = [guests EXCEPT ![g] = "waiting"] /\ view' = view /\ entitled' = entitled
        BY <1>5, <3>2 DEF GuestJoins
      <4>2. QED
        BY <4>1
    <3>3. QED
      BY <3>1, <3>2
  <2>4. UNCHANGED <<hostLink, pendingJoins, channel, emits, toRelay, unclosed, hostBroken,
                    breaks, relayHost, joinMode, history, inChannel, lost>>
    BY <1>5 DEF GuestJoins
  <2>5. QED
    BY <2>2, <2>3, <2>4
<1>6. ASSUME NEW g \in Guest, GuestLeaves(g) PROVE RelayTypeOK'
  <2>1. Notice("guest-left", g) \in ToHostMessage
    BY DEF ToHostMessage, Notice
  <2>2. toHost' \in Seq(ToHostMessage)
    BY <1>6, <2>1, ToHostType DEF GuestLeaves
  <2>3. QED
    BY <1>6, <2>2 DEF GuestLeaves
<1>7. ASSUME NEW g \in Guest, NEW ok \in BOOLEAN, HostDecides(g, ok) PROVE RelayTypeOK'
  <2>1. toRelay' \in Seq(Decision \cup Event) /\ inChannel' \in [Guest -> Seq(Emitted)]
    BY <1>7, DecisionType, BroadcastType DEF HostDecides
  <2>2. QED
    BY <1>7, <2>1 DEF HostDecides
<1>8. ASSUME NEW g \in Guest, OpenChannel(g) PROVE RelayTypeOK'
  BY <1>8 DEF OpenChannel, Admitted
<1>9. ASSUME NEW g \in Guest, ChannelFails(g) PROVE RelayTypeOK'
  <2>1. /\ channel' \subseteq Guest
        /\ inChannel' \in [Guest -> Seq(Emitted)]
        /\ lost' \in [Guest -> SUBSET Emitted]
    BY <1>9, CloseType DEF ChannelFails
  <2>2. QED
    BY <1>9, <2>1 DEF ChannelFails
<1>10. ASSUME NEW g \in Guest, ChannelDelivers(g) PROVE RelayTypeOK'
  <2>1. Head(inChannel[g]) \in Emitted /\ Tail(inChannel[g]) \in Seq(Emitted)
    BY <1>10, ReadMessage DEF ChannelDelivers
  <2>2. Append(view[g], Head(inChannel[g])) \in Seq(Emitted)
    BY <2>1, SentMessage
  <2>3. QED
    BY <1>10, <2>1, <2>2 DEF ChannelDelivers
<1>11. ASSUME NEW mode \in {"approval", "auto"}, SetJoinMode(mode) PROVE RelayTypeOK'
  BY <1>11 DEF SetJoinMode
<1>12. ASSUME HostReceives PROVE RelayTypeOK'
  <2>1. Head(toHost) \in ToHostMessage /\ Tail(toHost) \in Seq(ToHostMessage)
    BY <1>12, ReadMessage DEF HostReceives
  <2>2. UNCHANGED <<hostLink, emits, toRelay, unclosed, hostBroken, breaks, relaySide, view,
                    entitled>> /\ toHost' = Tail(toHost)
    BY <1>12 DEF HostReceives
  <2>3. /\ pendingJoins' \subseteq Guest
        /\ channel' \subseteq Guest
        /\ inChannel' \in [Guest -> Seq(Emitted)]
        /\ lost' \in [Guest -> SUBSET Emitted]
    <3>1. CASE Head(toHost).type = "join-request"
      <4>1. Head(toHost).guest \in Guest
        BY <2>1, <3>1 DEF ToHostMessage
      <4>2. QED
        BY <1>12, <3>1, <4>1 DEF HostReceives
    <3>2. CASE Head(toHost).type = "guest-left"
      <4>1. Head(toHost).guest \in Guest
        BY <2>1, <3>2 DEF ToHostMessage
      <4>2. CloseChannel(Head(toHost).guest) /\ pendingJoins' = pendingJoins \ {Head(toHost).guest}
        BY <1>12, <3>2 DEF HostReceives
      <4>3. QED
        BY <4>1, <4>2, CloseType
    <3>3. CASE Head(toHost).type = "guest-list"
      BY <1>12, <3>3 DEF HostReceives
    <3>4. QED
      BY <2>1, <3>1, <3>2, <3>3 DEF ToHostMessage
  <2>4. QED
    BY <2>1, <2>2, <2>3
<1>13. ASSUME HostEmits PROVE RelayTypeOK'
  <2>1. emits + 1 \in Emitted /\ emits' \in 0 .. MaxEmits
    BY <1>13 DEF HostEmits, Emitted
  <2>2. [type |-> "event", no |-> emits + 1, except |-> {}] \in Decision \cup Event
    BY <2>1 DEF Event
  <2>3. toRelay' \in Seq(Decision \cup Event) /\ inChannel' \in [Guest -> Seq(Emitted)]
    BY <1>13, <2>2, BroadcastType DEF HostEmits
  <2>4. QED
    BY <1>13, <2>1, <2>3 DEF HostEmits
<1>14. ASSUME RelayReceives PROVE RelayTypeOK'
  <2>1. /\ Head(toRelay) \in Decision \cup Event
        /\ Tail(toRelay) \in Seq(Decision \cup Event)
    BY <1>14, ReadMessage DEF RelayReceives
  <2>2. toRelay' = Tail(toRelay)
        /\ UNCHANGED <<hostSide, toHost, unclosed, hostBroken, breaks, relayHost, joinMode,
                       inChannel, entitled, lost>>
    BY <1>14 DEF RelayReceives
  <2>3. CASE Head(toRelay).type = "event"
    <3>1. Head(toRelay).no \in Emitted /\ RelayForwards(Head(toRelay))
      BY <1>14, <2>1, <2>3 DEF RelayReceives, Decision, Event
    <3>2. /\ view' \in [Guest -> Seq(Emitted)]
          /\ history' \in Seq(Emitted)
          /\ Len(history') <= MaxHistory
      BY <3>1, ForwardType
    <3>3. guests' = guests
      BY <3>1 DEF RelayForwards
    <3>4. QED
      BY <2>1, <2>2, <3>2, <3>3
  <2>4. CASE Head(toRelay).type # "event"
    <3>1. RelayDecides(Head(toRelay)) /\ Head(toRelay) \in Decision
      BY <1>14, <2>1, <2>4 DEF RelayReceives, Event
    <3>2. guests' \in [Guest -> {"away", "waiting", "admitted", "rejected", "left"}]
      BY <3>1 DEF RelayDecides
    <3>3. Head(toRelay).guest \in Guest
      BY <3>1 DEF Decision
    <3>4. history' = history
          /\ (view' = view \/ view' = [view EXCEPT ![Head(toRelay).guest] = history])
      BY <3>1 DEF RelayDecides
    <3>5. view' \in [Guest -> Seq(Emitted)]
      BY <3>3, <3>4
    <3>6. QED
      BY <2>1, <2>2, <3>2, <3>4, <3>5
  <2>5. QED
    BY <2>3, <2>4
<1>15. CASE UNCHANGED relayVars
  BY <1>15 DEF relayVars
<1>16. QED
  BY <1>1, <1>2, <1>3, <1>4, <1>5, <1>6, <1>7, <1>8, <1>9, <1>10, <1>11, <1>12,
     <1>13, <1>14, <1>15 DEF RelayNext

-----------------------------------------------------------------------------
(* Who sees what *)

\* A guest that has seen something, or is about to, is entitled to it.
SeesByRight ==
    \A g \in Guest :
        guests[g] = "admitted" \/ g \in channel \/ view[g] # <<>> \/ inChannel[g] # <<>> =>
            g \in entitled

\* An approval that is under way was the host's.
Approves(m) == m.type = "join-decision" /\ m.approved

ApprovedByHost ==
    \A i \in 1 .. Len(toRelay) : Approves(toRelay[i]) => toRelay[i].guest \in entitled

\* What a guest is shown, or sent, it is entitled to.
LEMMA RightStep ==
    ASSUME RelayTypeOK, SeesByRight, ApprovedByHost, [RelayNext]_relayVars
    PROVE  SeesByRight'
<1> USE RelayAssumption DEF RelayTypeOK, SeesByRight, ApprovedByHost, hostSide,
        wireSide, relaySide, guestSide
<1>1. ASSUME NEW k \in Link, HostConnects(k) PROVE SeesByRight'
  BY <1>1 DEF HostConnects
<1>2. ASSUME NEW k \in Link, RelayNoticesBreak(k) PROVE SeesByRight'
  BY <1>2 DEF RelayNoticesBreak
<1>3. ASSUME LinkBreaks PROVE SeesByRight'
  BY <1>3 DEF LinkBreaks
<1>4. ASSUME HostNoticesBreak PROVE SeesByRight'
  BY <1>4 DEF HostNoticesBreak
<1>5. ASSUME NEW g \in Guest, GuestJoins(g) PROVE SeesByRight'
  BY <1>5 DEF GuestJoins, Notice, ToHost
<1>6. ASSUME NEW g \in Guest, GuestLeaves(g) PROVE SeesByRight'
  BY <1>6 DEF GuestLeaves, Notice, ToHost
<1>7. ASSUME NEW g \in Guest, NEW ok \in BOOLEAN, HostDecides(g, ok) PROVE SeesByRight'
  <2>1. entitled \subseteq entitled' /\ UNCHANGED <<guests, channel, view>>
    BY <1>7 DEF HostDecides
  <2>2. inChannel' = inChannel
    BY <1>7 DEF HostDecides, Broadcast
  <2>3. QED
    BY <2>1, <2>2
<1>8. ASSUME NEW g \in Guest, OpenChannel(g) PROVE SeesByRight'
  BY <1>8 DEF OpenChannel, Admitted
<1>9. ASSUME NEW g \in Guest, ChannelFails(g) PROVE SeesByRight'
  BY <1>9 DEF ChannelFails, CloseChannel
<1>10. ASSUME NEW g \in Guest, ChannelDelivers(g) PROVE SeesByRight'
  BY <1>10 DEF ChannelDelivers
<1>11. ASSUME NEW mode \in {"approval", "auto"}, SetJoinMode(mode) PROVE SeesByRight'
  BY <1>11 DEF SetJoinMode
<1>12. ASSUME HostReceives PROVE SeesByRight'
  <2>1. UNCHANGED <<guests, view, entitled>>
    BY <1>12 DEF HostReceives
  <2>2. CASE UNCHANGED <<channel, inChannel>>
    BY <2>1, <2>2
  <2>3. CASE Head(toHost).type = "guest-left"
    <3>1. CloseChannel(Head(toHost).guest)
      BY <1>12, <2>3 DEF HostReceives
    <3>2. channel' \subseteq channel /\ \A g \in Guest : inChannel'[g] # <<>> => inChannel[g] # <<>>
      BY <3>1 DEF CloseChannel
    <3>3. QED
      BY <2>1, <3>2
  <2>4. QED
    <3>1. Head(toHost) \in ToHostMessage
      BY <1>12, ReadMessage DEF HostReceives
    <3>2. Head(toHost).type \in {"guest-list", "join-request", "guest-left"}
      BY <3>1 DEF ToHostMessage
    <3>3. Head(toHost).type # "guest-left" => UNCHANGED <<channel, inChannel>>
      BY <1>12, <3>2 DEF HostReceives
    <3>4. QED
      BY <2>2, <2>3, <3>3
<1>13. ASSUME HostEmits PROVE SeesByRight'
  <2>1. UNCHANGED <<guests, channel, view, entitled>>
    BY <1>13 DEF HostEmits
  <2>2. \A g \in Guest : g \notin channel => inChannel'[g] = inChannel[g]
    BY <1>13 DEF HostEmits, Broadcast
  <2>3. QED
    BY <2>1, <2>2
<1>14. ASSUME RelayReceives PROVE SeesByRight'
  <2>1. /\ Head(toRelay) \in Decision \cup Event
        /\ Head(toRelay) = toRelay[1] /\ 1 \in 1 .. Len(toRelay)
    BY <1>14, ReadMessage, LenProperties DEF RelayReceives
  <2>2. UNCHANGED <<channel, inChannel, entitled>>
    BY <1>14 DEF RelayReceives
  <2>3. CASE Head(toRelay).type = "event"
    <3>1. RelayForwards(Head(toRelay))
      BY <1>14, <2>3 DEF RelayReceives
    <3>2. guests' = guests /\ \A g \in Guest : g \notin Admitted => view'[g] = view[g]
      BY <3>1 DEF RelayForwards
    <3>3. QED
      BY <2>2, <3>2 DEF Admitted
  <2>4. CASE Head(toRelay).type # "event"
    <3>1. RelayDecides(Head(toRelay)) /\ Head(toRelay) \in Decision
      BY <1>14, <2>1, <2>4 DEF RelayReceives, Event
    <3>2. /\ Head(toRelay).type = "join-decision" /\ Head(toRelay).approved \in BOOLEAN
          /\ Head(toRelay).guest \in Guest
      BY <3>1 DEF Decision
    <3>3. Head(toRelay).approved => Head(toRelay).guest \in entitled
      BY <2>1, <3>2 DEF Approves
    <3>4. \A g \in Guest : g # Head(toRelay).guest => view'[g] = view[g] /\ guests'[g] = guests[g]
      BY <3>1 DEF RelayDecides
    <3>5. ~ Head(toRelay).approved =>
            view' = view /\ \A g \in Guest : guests'[g] = "admitted" => guests[g] = "admitted"
      BY <3>1, <3>2 DEF RelayDecides
    <3>6. QED
      BY <2>2, <3>3, <3>4, <3>5
  <2>5. QED
    BY <2>3, <2>4
<1>15. CASE UNCHANGED relayVars
  BY <1>15 DEF relayVars
<1>16. QED
  BY <1>1, <1>2, <1>3, <1>4, <1>5, <1>6, <1>7, <1>8, <1>9, <1>10, <1>11, <1>12,
     <1>13, <1>14, <1>15 DEF RelayNext

\* An approval that is broadcast is of a guest that is entitled by now.
LEMMA BroadcastApproval ==
    ASSUME RelayTypeOK, ApprovedByHost, NEW msg \in Decision \cup Event, Broadcast(msg),
           entitled \subseteq entitled', Approves(msg) => msg.guest \in entitled'
    PROVE  ApprovedByHost'
<1>1. DEFINE sent == [msg EXCEPT !.except = channel]
<1>2. sent \in Decision \cup Event
  BY DEF RelayTypeOK, Decision, Event
<1>3. Approves(sent) => sent.guest \in entitled'
  BY DEF Approves, Decision, Event
<1>4. CASE toRelay' = toRelay
  BY <1>4 DEF ApprovedByHost, Approves
<1>5. CASE toRelay' = Append(toRelay, sent)
  <2> HIDE DEF sent
  <2>1. /\ Len(toRelay') = Len(toRelay) + 1 /\ Len(toRelay) \in Nat
        /\ \A i \in 1 .. Len(toRelay) : toRelay'[i] = toRelay[i]
        /\ toRelay'[Len(toRelay) + 1] = sent
    BY <1>2, <1>5, SentMessage, LenProperties DEF RelayTypeOK
  <2>2. \A i \in 1 .. Len(toRelay') : i \in 1 .. Len(toRelay) \/ i = Len(toRelay) + 1
    BY <2>1
  <2>3. QED
    BY <1>3, <2>1, <2>2 DEF ApprovedByHost, Approves
<1>6. QED
  BY <1>4, <1>5 DEF Broadcast

\* An approval on its way to the relay is of a guest that is entitled.
LEMMA ApprovalStep ==
    ASSUME RelayTypeOK, ApprovedByHost, [RelayNext]_relayVars
    PROVE  ApprovedByHost'
<1> USE RelayAssumption DEF RelayTypeOK, ApprovedByHost, Approves, hostSide,
        wireSide, relaySide, guestSide
<1>1. ASSUME NEW k \in Link, HostConnects(k) PROVE ApprovedByHost'
  <2>1. toRelay' = <<>>
    BY <1>1 DEF HostConnects
  <2>2. QED
    BY <2>1
<1>2. ASSUME NEW k \in Link, RelayNoticesBreak(k) PROVE ApprovedByHost'
  BY <1>2 DEF RelayNoticesBreak
<1>3. ASSUME LinkBreaks PROVE ApprovedByHost'
  <2>1. toRelay' = <<>>
    BY <1>3 DEF LinkBreaks
  <2>2. QED
    BY <2>1
<1>4. ASSUME HostNoticesBreak PROVE ApprovedByHost'
  BY <1>4 DEF HostNoticesBreak
<1>5. ASSUME NEW g \in Guest, GuestJoins(g) PROVE ApprovedByHost'
  BY <1>5 DEF GuestJoins, Notice, ToHost
<1>6. ASSUME NEW g \in Guest, GuestLeaves(g) PROVE ApprovedByHost'
  BY <1>6 DEF GuestLeaves, Notice, ToHost
<1>7. ASSUME NEW g \in Guest, NEW ok \in BOOLEAN, HostDecides(g, ok) PROVE ApprovedByHost'
  <2>1. DEFINE d == [type |-> "join-decision", guest |-> g, approved |-> ok, except |-> {}]
  <2>2. /\ Broadcast(d) /\ entitled \subseteq entitled' /\ (ok => g \in entitled')
        /\ d \in Decision \cup Event /\ d.guest = g /\ d.approved = ok
    BY <1>7, DecisionType DEF HostDecides
  <2>3. QED
    <3> HIDE DEF d
    <3>1. QED
      BY <2>2, BroadcastApproval
<1>8. ASSUME NEW g \in Guest, OpenChannel(g) PROVE ApprovedByHost'
  BY <1>8 DEF OpenChannel
<1>9. ASSUME NEW g \in Guest, ChannelFails(g) PROVE ApprovedByHost'
  BY <1>9 DEF ChannelFails, CloseChannel
<1>10. ASSUME NEW g \in Guest, ChannelDelivers(g) PROVE ApprovedByHost'
  BY <1>10 DEF ChannelDelivers
<1>11. ASSUME NEW mode \in {"approval", "auto"}, SetJoinMode(mode) PROVE ApprovedByHost'
  BY <1>11 DEF SetJoinMode
<1>12. ASSUME HostReceives PROVE ApprovedByHost'
  BY <1>12 DEF HostReceives, CloseChannel
<1>13. ASSUME HostEmits PROVE ApprovedByHost'
  <2>1. DEFINE e == [type |-> "event", no |-> emits + 1, except |-> {}]
  <2>2. emits + 1 \in Emitted
    BY <1>13 DEF HostEmits, Emitted
  <2>3. /\ Broadcast(e) /\ entitled \subseteq entitled'
        /\ e \in Decision \cup Event /\ e.type = "event"
    BY <1>13, <2>2 DEF HostEmits, Event
  <2>4. QED
    <3> HIDE DEF e
    <3>1. ~ Approves(e)
      BY <2>3 DEF Approves
    <3>2. QED
      BY <2>3, <3>1, BroadcastApproval
<1>14. ASSUME RelayReceives PROVE ApprovedByHost'
  <2>1. /\ toRelay' = Tail(toRelay) /\ entitled' = entitled /\ Len(toRelay) \in Nat
        /\ Len(Tail(toRelay)) = Len(toRelay) - 1
        /\ \A i \in 1 .. Len(toRelay) - 1 : Tail(toRelay)[i] = toRelay[i + 1]
    BY <1>14, ReadMessage, LenProperties DEF RelayReceives
  <2>2. \A i \in 1 .. Len(toRelay) - 1 : i + 1 \in 1 .. Len(toRelay)
    BY <2>1
  <2>3. QED
    BY <2>1, <2>2 DEF Approves
<1>15. CASE UNCHANGED relayVars
  BY <1>15 DEF relayVars
<1>16. QED
  BY <1>1, <1>2, <1>3, <1>4, <1>5, <1>6, <1>7, <1>8, <1>9, <1>10, <1>11, <1>12,
     <1>13, <1>14, <1>15 DEF RelayNext

-----------------------------------------------------------------------------
(* Nobody sees an event twice, or misses one *)

\* No two places of a sequence hold the same.
Distinct(q) == \A i, j \in 1 .. Len(q) : i # j => q[i] # q[j]

\* Where a guest asks to join, and where its request is decided.
AskedAt(g) == {i \in 1 .. Len(toHost) : toHost[i].type = "join-request" /\ toHost[i].guest = g}
DecidedAt(g) ==
    {i \in 1 .. Len(toRelay) : toRelay[i].type = "join-decision" /\ toRelay[i].guest = g}

\* A guest's request is under way, with the host, or decided: one of the three
\* and there once, and only while the guest waits or after it has left.
AsksOnce ==
    \A g \in Guest :
        /\ AskedAt(g) # {} \/ g \in pendingJoins \/ DecidedAt(g) # {} =>
             guests[g] \in {"waiting", "left"}
        /\ AskedAt(g) # {} => g \notin pendingJoins /\ DecidedAt(g) = {}
        /\ g \in pendingJoins => DecidedAt(g) = {}
        /\ \A i, j \in AskedAt(g) : i = j
        /\ \A i, j \in DecidedAt(g) : i = j

\* A guest that was never admitted has nothing.
WaitsEmptyHanded ==
    \A g \in Guest :
        guests[g] \in {"away", "waiting"} =>
            view[g] = <<>> /\ inChannel[g] = <<>> /\ g \notin channel

\* The events that are on their way to the relay.
Sent == {i \in 1 .. Len(toRelay) : toRelay[i].type = "event"}

\* An event on its way was broadcast, once, and is not in the history yet.
EventsAreNew ==
    /\ Distinct(history) /\ Elems(history) \subseteq 1 .. emits
    /\ \A i \in Sent : toRelay[i].no \in 1 .. emits \ Elems(history)
    /\ \A i, j \in Sent : i # j => toRelay[i].no # toRelay[j].no

\* What a guest has been shown, or will be.
InHand(g) == Elems(view[g]) \cup Elems(inChannel[g])

\* A guest is shown an event, or will be, once.
InHandOnce ==
    \A g \in Guest :
        /\ Distinct(view[g]) /\ Distinct(inChannel[g])
        /\ Elems(view[g]) \cap Elems(inChannel[g]) = {}
        /\ InHand(g) \subseteq 1 .. emits

\* The guests that an event excepts are those that have it from the host.
ExceptedHaveIt ==
    \A i \in Sent : \A g \in Guest :
        IF g \in toRelay[i].except THEN toRelay[i].no \in InHand(g) \cup lost[g]
                                   ELSE toRelay[i].no \notin InHand(g)

\* An admitted guest has, or has lost, what the history holds.
NothingMissed ==
    \A g \in Admitted : Elems(history) \subseteq InHand(g) \cup lost[g]

SeenInv ==
    AsksOnce /\ WaitsEmptyHanded /\ EventsAreNew /\ InHandOnce /\ ExceptedHaveIt /\ NothingMissed

-----------------------------------------------------------------------------
(* Sequences without repetition *)

\* An element that is added at the end.
LEMMA ElemsAdded ==
    ASSUME NEW M, NEW q \in Seq(M), NEW m \in M
    PROVE  /\ Elems(Append(q, m)) = Elems(q) \cup {m}
           /\ Distinct(q) /\ m \notin Elems(q) => Distinct(Append(q, m))
<1>1. DEFINE r == Append(q, m)
<1>2. /\ Len(q) \in Nat /\ Len(r) = Len(q) + 1
      /\ \A i \in 1 .. Len(q) : r[i] = q[i]
      /\ r[Len(q) + 1] = m
  BY SentMessage, LenProperties
<1> HIDE DEF r
<1>3. \A i \in 1 .. Len(r) : i \in 1 .. Len(q) \/ i = Len(q) + 1
  BY <1>2
<1>4. \A i \in 1 .. Len(q) : i \in 1 .. Len(r) /\ i # Len(q) + 1
  BY <1>2
<1>5. Len(q) + 1 \in 1 .. Len(r)
  BY <1>2
<1>6. Elems(r) = Elems(q) \cup {m}
  <2>1. ASSUME NEW x \in Elems(r) PROVE x \in Elems(q) \cup {m}
    BY <1>2, <1>3 DEF Elems
  <2>2. ASSUME NEW x \in Elems(q) PROVE x \in Elems(r)
    BY <1>2, <1>4 DEF Elems
  <2>3. m \in Elems(r)
    BY <1>2, <1>5 DEF Elems
  <2>4. QED
    BY <2>1, <2>2, <2>3
<1>7. ASSUME Distinct(q), m \notin Elems(q) PROVE Distinct(r)
  <2>1. \A i \in 1 .. Len(q) : q[i] # m
    BY <1>7 DEF Elems
  <2>2. QED
    BY <1>2, <1>3, <1>7, <2>1 DEF Distinct
<1>8. QED
  BY <1>6, <1>7 DEF r

\* An element that is taken from the front.
LEMMA ElemsTaken ==
    ASSUME NEW M, NEW q \in Seq(M), q # <<>>
    PROVE  /\ Elems(q) = {Head(q)} \cup Elems(Tail(q))
           /\ Distinct(q) => Distinct(Tail(q)) /\ Head(q) \notin Elems(Tail(q))
<1>1. DEFINE r == Tail(q)
<1>2. /\ Len(q) \in Nat /\ Len(q) >= 1 /\ Len(r) = Len(q) - 1
      /\ Head(q) = q[1]
      /\ \A i \in 1 .. Len(q) - 1 : r[i] = q[i + 1]
  BY ReadMessage, LenProperties
<1> HIDE DEF r
<1>3. \A i \in 1 .. Len(r) : i + 1 \in 1 .. Len(q) /\ i + 1 # 1 /\ r[i] = q[i + 1]
  BY <1>2
<1>4. \A i \in 1 .. Len(q) : i = 1 \/ (i - 1 \in 1 .. Len(r) /\ r[i - 1] = q[i])
  <2>1. TAKE i \in 1 .. Len(q)
  <2>2. i # 1 => i - 1 \in 1 .. Len(q) - 1 /\ (i - 1) + 1 = i
    BY <1>2
  <2>3. QED
    BY <1>2, <2>2
<1>5. 1 \in 1 .. Len(q)
  BY <1>2
<1>6. Elems(q) = {Head(q)} \cup Elems(r)
  <2>1. ASSUME NEW x \in Elems(q) PROVE x \in {Head(q)} \cup Elems(r)
    <3>1. PICK i \in 1 .. Len(q) : x = q[i]
      BY DEF Elems
    <3>2. QED
      BY <1>2, <1>4, <3>1 DEF Elems
  <2>2. ASSUME NEW x \in Elems(r) PROVE x \in Elems(q)
    <3>1. PICK i \in 1 .. Len(r) : x = r[i]
      BY <2>2 DEF Elems
    <3>2. QED
      BY <1>3, <3>1 DEF Elems
  <2>3. Head(q) \in Elems(q)
    BY <1>2, <1>5 DEF Elems
  <2>4. QED
    BY <2>1, <2>2, <2>3
<1>7. ASSUME Distinct(q) PROVE Distinct(r) /\ Head(q) \notin Elems(r)
  <2>1. Distinct(r)
    <3>1. \A i, j \in 1 .. Len(r) : i # j => i + 1 # j + 1
      BY <1>2
    <3>2. QED
      BY <1>3, <1>7, <3>1 DEF Distinct
  <2>2. \A i \in 1 .. Len(r) : r[i] # Head(q)
    BY <1>2, <1>3, <1>5, <1>7 DEF Distinct
  <2>3. QED
    BY <2>1, <2>2 DEF Elems
<1>8. QED
  BY <1>6, <1>7 DEF r

LEMMA NoElems ==
    Elems(<<>>) = {} /\ Distinct(<<>>) /\ Len(<<>>) = 0
BY EmptySeq DEF Elems, Distinct

-----------------------------------------------------------------------------
(* Requests *)

\* A step that makes no request keeps them single.
LEMMA FewerAsks ==
    ASSUME AsksOnce, pendingJoins' \subseteq pendingJoins,
           \A g \in Guest :
               guests[g] \in {"waiting", "left"} => guests'[g] \in {"waiting", "left"},
           \A g \in Guest : AskedAt(g)' # {} => AskedAt(g) # {},
           \A g \in Guest : DecidedAt(g)' # {} => DecidedAt(g) # {},
           \A g \in Guest : \A i, j \in AskedAt(g)' : i = j,
           \A g \in Guest : \A i, j \in DecidedAt(g)' : i = j
    PROVE  AsksOnce'
BY DEF AsksOnce

\* So does one that leaves the wires alone, or clears them.
LEMMA SameAsks ==
    ASSUME AsksOnce, pendingJoins' \subseteq pendingJoins,
           \A g \in Guest :
               guests[g] \in {"waiting", "left"} => guests'[g] \in {"waiting", "left"},
           \A g \in Guest : AskedAt(g)' = AskedAt(g) \/ AskedAt(g)' = {},
           \A g \in Guest : DecidedAt(g)' = DecidedAt(g) \/ DecidedAt(g)' = {}
    PROVE  AsksOnce'
<1>1. \A g \in Guest : \A i, j \in AskedAt(g)' : i = j
  BY DEF AsksOnce
<1>2. \A g \in Guest : \A i, j \in DecidedAt(g)' : i = j
  BY DEF AsksOnce
<1>3. \A g \in Guest : AskedAt(g)' # {} => AskedAt(g) # {}
  OBVIOUS
<1>4. \A g \in Guest : DecidedAt(g)' # {} => DecidedAt(g) # {}
  OBVIOUS
<1>5. QED
  BY <1>1, <1>2, <1>3, <1>4, FewerAsks

\* What the relay sends the host is a request only if it says so.
LEMMA AsksSent ==
    ASSUME RelayTypeOK, NEW msg \in ToHostMessage, ToHost(msg), NEW g \in Guest
    PROVE  /\ ~ (msg.type = "join-request" /\ msg.guest = g) => AskedAt(g)' = AskedAt(g)
           /\ AskedAt(g) = {} => \A i, j \in AskedAt(g)' : i = j
<1>1. CASE toHost' = toHost
  BY <1>1 DEF AskedAt
<1>2. CASE toHost' = Append(toHost, msg)
  <2>1. /\ Len(toHost) \in Nat /\ Len(toHost') = Len(toHost) + 1
        /\ \A i \in 1 .. Len(toHost) : toHost'[i] = toHost[i]
        /\ toHost'[Len(toHost) + 1] = msg
    BY <1>2, SentMessage, LenProperties DEF RelayTypeOK
  <2>2. \A i \in 1 .. Len(toHost') : i \in 1 .. Len(toHost) \/ i = Len(toHost) + 1
    BY <2>1
  <2>3. \A i \in 1 .. Len(toHost) : i \in 1 .. Len(toHost')
    BY <2>1
  <2>4. ASSUME ~ (msg.type = "join-request" /\ msg.guest = g)
        PROVE  AskedAt(g)' = AskedAt(g)
    <3>1. \A i : i \in AskedAt(g)' <=> i \in AskedAt(g)
      BY <2>1, <2>2, <2>3, <2>4 DEF AskedAt
    <3>2. QED
      BY <3>1
  <2>5. ASSUME AskedAt(g) = {}, NEW i \in AskedAt(g)' PROVE i = Len(toHost) + 1
    BY <2>1, <2>2, <2>5 DEF AskedAt
  <2>6. QED
    BY <2>4, <2>5
<1>3. QED
  BY <1>1, <1>2 DEF ToHost

\* What the host broadcasts is a decision only if it says so.
LEMMA DecisionsSent ==
    ASSUME RelayTypeOK, NEW msg \in Decision \cup Event, Broadcast(msg), NEW g \in Guest
    PROVE  /\ ~ (msg.type = "join-decision" /\ msg.guest = g) => DecidedAt(g)' = DecidedAt(g)
           /\ DecidedAt(g) = {} => \A i, j \in DecidedAt(g)' : i = j
<1>1. CASE toRelay' = toRelay
  BY <1>1 DEF DecidedAt
<1>2. DEFINE sent == [msg EXCEPT !.except = channel]
<1>3. /\ sent \in Decision \cup Event /\ sent.type = msg.type
      /\ msg.type = "join-decision" => sent.guest = msg.guest
  BY DEF RelayTypeOK, Decision, Event
<1>4. CASE toRelay' = Append(toRelay, sent)
  <2> HIDE DEF sent
  <2>1. /\ Len(toRelay) \in Nat /\ Len(toRelay') = Len(toRelay) + 1
        /\ \A i \in 1 .. Len(toRelay) : toRelay'[i] = toRelay[i]
        /\ toRelay'[Len(toRelay) + 1] = sent
    BY <1>3, <1>4, SentMessage, LenProperties DEF RelayTypeOK
  <2>2. \A i \in 1 .. Len(toRelay') : i \in 1 .. Len(toRelay) \/ i = Len(toRelay) + 1
    BY <2>1
  <2>3. \A i \in 1 .. Len(toRelay) : i \in 1 .. Len(toRelay')
    BY <2>1
  <2>4. ASSUME ~ (msg.type = "join-decision" /\ msg.guest = g)
        PROVE  DecidedAt(g)' = DecidedAt(g)
    <3>1. \A i : i \in DecidedAt(g)' <=> i \in DecidedAt(g)
      BY <1>3, <2>1, <2>2, <2>3, <2>4 DEF DecidedAt
    <3>2. QED
      BY <3>1
  <2>5. ASSUME DecidedAt(g) = {}, NEW i \in DecidedAt(g)' PROVE i = Len(toRelay) + 1
    BY <2>1, <2>2, <2>5 DEF DecidedAt
  <2>6. QED
    BY <2>4, <2>5
<1>5. QED
  BY <1>1, <1>4 DEF Broadcast

\* Reading a message moves the requests behind it up.
LEMMA AsksRead ==
    ASSUME RelayTypeOK, toHost # <<>>, toHost' = Tail(toHost), NEW g \in Guest
    PROVE  \A i \in AskedAt(g)' : i + 1 \in AskedAt(g) /\ i \in Nat \ {0}
<1>1. /\ Len(toHost) \in Nat /\ Len(toHost') = Len(toHost) - 1
      /\ \A i \in 1 .. Len(toHost) - 1 : toHost'[i] = toHost[i + 1]
  BY ReadMessage, LenProperties DEF RelayTypeOK
<1>2. \A i \in 1 .. Len(toHost) - 1 : i + 1 \in 1 .. Len(toHost) /\ i \in Nat \ {0}
  BY <1>1
<1>3. QED
  BY <1>1, <1>2 DEF AskedAt

LEMMA DecisionsRead ==
    ASSUME RelayTypeOK, toRelay # <<>>, toRelay' = Tail(toRelay), NEW g \in Guest
    PROVE  \A i \in DecidedAt(g)' : i + 1 \in DecidedAt(g) /\ i \in Nat \ {0}
<1>1. /\ Len(toRelay) \in Nat /\ Len(toRelay') = Len(toRelay) - 1
      /\ \A i \in 1 .. Len(toRelay) - 1 : toRelay'[i] = toRelay[i + 1]
  BY ReadMessage, LenProperties DEF RelayTypeOK
<1>2. \A i \in 1 .. Len(toRelay) - 1 : i + 1 \in 1 .. Len(toRelay) /\ i \in Nat \ {0}
  BY <1>1
<1>3. QED
  BY <1>1, <1>2 DEF DecidedAt

\* A guest's request is one, from the relay's queue to the host's decision.
LEMMA AskStep ==
    ASSUME RelayTypeOK, AsksOnce, [RelayNext]_relayVars
    PROVE  AsksOnce'
<1> USE DEF hostSide, wireSide, relaySide, guestSide
<1>1. CASE UNCHANGED <<toHost, toRelay, pendingJoins, guests>>
  <2>1. \A g \in Guest : AskedAt(g)' = AskedAt(g) /\ DecidedAt(g)' = DecidedAt(g)
    BY <1>1 DEF AskedAt, DecidedAt
  <2>2. QED
    BY <1>1, <2>1, SameAsks
<1>2. ASSUME UNCHANGED <<pendingJoins, guests>>, toRelay' = <<>>, \A g \in Guest : AskedAt(g)' = {}
      PROVE  AsksOnce'
  <2>1. \A g \in Guest : DecidedAt(g)' = {}
    BY <1>2, EmptySeq DEF DecidedAt
  <2>2. QED
    BY <1>2, <2>1, SameAsks
<1>3. ASSUME NEW k \in Link, HostConnects(k) PROVE AsksOnce'
  <2>1. DEFINE q == <<[type |-> "guest-list"]>>
  <2>2. toHost' = q /\ Len(q) = 1 /\ q[1].type = "guest-list"
    BY <1>3 DEF HostConnects
  <2>3. \A g \in Guest : AskedAt(g)' = {}
    <3> HIDE DEF q
    <3>1. QED
      BY <2>2 DEF AskedAt
  <2>4. QED
    BY <1>2, <1>3, <2>3 DEF HostConnects
<1>4. ASSUME LinkBreaks PROVE AsksOnce'
  <2>1. \A g \in Guest : AskedAt(g)' = {}
    BY <1>4, EmptySeq DEF LinkBreaks, AskedAt
  <2>2. QED
    BY <1>2, <1>4, <2>1 DEF LinkBreaks
<1>5. ASSUME NEW g \in Guest, GuestJoins(g) PROVE AsksOnce'
  <2>1. /\ UNCHANGED <<pendingJoins, toRelay>> /\ guests[g] = "away"
        /\ \A h \in Guest \ {g} : guests'[h] = guests[h]
    BY <1>5 DEF GuestJoins, RelayTypeOK
  <2>2. \A h \in Guest : DecidedAt(h)' = DecidedAt(h)
    BY <2>1 DEF DecidedAt
  <2>3. AskedAt(g) = {} /\ g \notin pendingJoins /\ DecidedAt(g) = {}
    BY <2>1 DEF AsksOnce
  <2>4. CASE joinMode = "auto"
    <3>1. toHost' = toHost
      BY <1>5, <2>4 DEF GuestJoins
    <3>2. \A h \in Guest : AskedAt(h)' = AskedAt(h)
      BY <3>1 DEF AskedAt
    <3>3. QED
      BY <2>1, <2>2, <2>3, <3>2 DEF AsksOnce
  <2>5. CASE joinMode # "auto"
    <3>1. ToHost(Notice("join-request", g)) /\ guests'[g] = "waiting"
      BY <1>5, <2>5 DEF GuestJoins, RelayTypeOK
    <3>2. /\ Notice("join-request", g) \in ToHostMessage
          /\ Notice("join-request", g).guest = g
      BY DEF Notice, ToHostMessage
    <3>3. \A h \in Guest \ {g} : AskedAt(h)' = AskedAt(h)
      BY <3>1, <3>2, AsksSent
    <3>4. \A i, j \in AskedAt(g)' : i = j
      BY <2>3, <3>1, <3>2, AsksSent
    <3>5. QED
      BY <2>1, <2>2, <2>3, <3>1, <3>3, <3>4 DEF AsksOnce
  <2>6. QED
    BY <2>4, <2>5
<1>6. ASSUME NEW g \in Guest, GuestLeaves(g) PROVE AsksOnce'
  <2>1. /\ UNCHANGED <<pendingJoins, toRelay>>
        /\ \A h \in Guest : guests'[h] \in {guests[h], "left"}
    BY <1>6 DEF GuestLeaves, RelayTypeOK
  <2>2. \A h \in Guest : DecidedAt(h)' = DecidedAt(h)
    BY <2>1 DEF DecidedAt
  <2>3. /\ Notice("guest-left", g) \in ToHostMessage
        /\ Notice("guest-left", g).type # "join-request"
    BY DEF Notice, ToHostMessage
  <2>4. \A h \in Guest : AskedAt(h)' = AskedAt(h)
    BY <1>6, <2>3, AsksSent DEF GuestLeaves
  <2>5. QED
    BY <2>1, <2>2, <2>4, SameAsks
<1>7. ASSUME NEW g \in Guest, NEW ok \in BOOLEAN, HostDecides(g, ok) PROVE AsksOnce'
  <2>1. DEFINE d == [type |-> "join-decision", guest |-> g, approved |-> ok, except |-> {}]
  <2>2. /\ Broadcast(d) /\ d \in Decision \cup Event /\ d.guest = g
        /\ g \in pendingJoins /\ pendingJoins' = pendingJoins \ {g}
        /\ UNCHANGED <<toHost, guests>>
    BY <1>7, DecisionType DEF HostDecides
  <2> HIDE DEF d
  <2>3. \A h \in Guest : AskedAt(h)' = AskedAt(h)
    BY <2>2 DEF AskedAt
  <2>4. \A h \in Guest \ {g} : DecidedAt(h)' = DecidedAt(h)
    BY <2>2, DecisionsSent
  <2>5. DecidedAt(g) = {} /\ AskedAt(g) = {} /\ guests[g] \in {"waiting", "left"}
    BY <2>2 DEF AsksOnce
  <2>6. \A i, j \in DecidedAt(g)' : i = j
    BY <2>2, <2>5, DecisionsSent
  <2>7. QED
    BY <2>2, <2>3, <2>4, <2>5, <2>6 DEF AsksOnce
<1>8. ASSUME HostReceives PROVE AsksOnce'
  <2>1. /\ toHost # <<>> /\ toHost' = Tail(toHost) /\ UNCHANGED <<toRelay, guests>>
        /\ Head(toHost) \in ToHostMessage /\ Head(toHost) = toHost[1]
        /\ 1 \in 1 .. Len(toHost)
    BY <1>8, ReadMessage, LenProperties DEF HostReceives, RelayTypeOK
  <2>2. \A h \in Guest : DecidedAt(h)' = DecidedAt(h)
    BY <2>1 DEF DecidedAt
  <2>3. \A h \in Guest : \A i \in AskedAt(h)' : i + 1 \in AskedAt(h) /\ i \in Nat \ {0}
    BY <2>1, AsksRead
  <2>4. \A h \in Guest : AskedAt(h)' # {} => AskedAt(h) # {}
    BY <2>3
  <2>5. \A h \in Guest : \A i, j \in AskedAt(h)' : i = j
    <3>1. TAKE h \in Guest
    <3>2. TAKE i, j \in AskedAt(h)'
    <3>3. i + 1 = j + 1 /\ i \in Nat /\ j \in Nat
      BY <2>3 DEF AsksOnce
    <3>4. QED
      BY <3>3
  <2>6. CASE Head(toHost).type = "join-request"
    <3>1. PICK g \in Guest : Head(toHost).guest = g
      BY <2>1, <2>6 DEF ToHostMessage
    <3>2. pendingJoins' = pendingJoins \cup {g}
      BY <1>8, <2>6, <3>1 DEF HostReceives
    <3>3. 1 \in AskedAt(g)
      BY <2>1, <2>6, <3>1 DEF AskedAt
    <3>4. AskedAt(g)' = {}
      <4>1. ASSUME NEW i \in AskedAt(g)' PROVE FALSE
        <5>1. i + 1 = 1 /\ i \in Nat \ {0}
          BY <2>3, <3>3 DEF AsksOnce
        <5>2. QED
          BY <5>1
      <4>2. QED
        BY <4>1
    <3>5. QED
      BY <2>1, <2>2, <2>4, <2>5, <3>2, <3>3, <3>4 DEF AsksOnce
  <2>7. CASE Head(toHost).type # "join-request"
    <3>1. pendingJoins' \subseteq pendingJoins
      BY <1>8, <2>1, <2>7 DEF HostReceives, ToHostMessage
    <3>2. \A h \in Guest : \A i, j \in DecidedAt(h)' : i = j
      BY <2>2 DEF AsksOnce
    <3>3. \A h \in Guest : guests[h] \in {"waiting", "left"} => guests'[h] \in {"waiting", "left"}
      BY <2>1
    <3>4. \A h \in Guest : DecidedAt(h)' # {} => DecidedAt(h) # {}
      BY <2>2
    <3>5. QED
      BY <2>4, <2>5, <3>1, <3>2, <3>3, <3>4, FewerAsks
  <2>8. QED
    BY <2>6, <2>7
<1>9. ASSUME HostEmits PROVE AsksOnce'
  <2>1. DEFINE e == [type |-> "event", no |-> emits + 1, except |-> {}]
  <2>2. emits + 1 \in Emitted
    BY <1>9, RelayAssumption DEF HostEmits, Emitted, RelayTypeOK
  <2>3. /\ Broadcast(e) /\ e \in Decision \cup Event /\ e.type = "event"
        /\ UNCHANGED <<toHost, pendingJoins, guests>>
    BY <1>9, <2>2 DEF HostEmits, Event
  <2> HIDE DEF e
  <2>4. \A g \in Guest : DecidedAt(g)' = DecidedAt(g)
    BY <2>3, DecisionsSent
  <2>5. \A g \in Guest : AskedAt(g)' = AskedAt(g)
    BY <2>3 DEF AskedAt
  <2>6. QED
    BY <2>3, <2>4, <2>5, SameAsks
<1>10. ASSUME RelayReceives PROVE AsksOnce'
  <2>1. /\ toRelay # <<>> /\ toRelay' = Tail(toRelay) /\ UNCHANGED <<toHost, pendingJoins>>
        /\ Head(toRelay) \in Decision \cup Event /\ Head(toRelay) = toRelay[1]
        /\ 1 \in 1 .. Len(toRelay)
    BY <1>10, ReadMessage, LenProperties DEF RelayReceives, RelayTypeOK
  <2>2. \A h \in Guest : AskedAt(h)' = AskedAt(h)
    BY <2>1 DEF AskedAt
  <2>3. \A h \in Guest : \A i \in DecidedAt(h)' : i + 1 \in DecidedAt(h) /\ i \in Nat \ {0}
    BY <2>1, DecisionsRead
  <2>4. \A h \in Guest : DecidedAt(h)' # {} => DecidedAt(h) # {}
    BY <2>3
  <2>5. \A h \in Guest : \A i, j \in DecidedAt(h)' : i = j
    <3>1. TAKE h \in Guest
    <3>2. TAKE i, j \in DecidedAt(h)'
    <3>3. i + 1 = j + 1 /\ i \in Nat /\ j \in Nat
      BY <2>3 DEF AsksOnce
    <3>4. QED
      BY <3>3
  <2>6. CASE Head(toRelay).type = "event"
    <3>1. guests' = guests
      BY <1>10, <2>6 DEF RelayReceives, RelayForwards
    <3>2. \A h \in Guest : \A i, j \in AskedAt(h)' : i = j
      BY <2>2 DEF AsksOnce
    <3>3. \A h \in Guest : guests[h] \in {"waiting", "left"} => guests'[h] \in {"waiting", "left"}
      BY <3>1
    <3>4. \A h \in Guest : AskedAt(h)' # {} => AskedAt(h) # {}
      BY <2>2
    <3>5. QED
      BY <2>1, <2>4, <2>5, <3>2, <3>3, <3>4, FewerAsks
  <2>7. CASE Head(toRelay).type # "event"
    <3>1. Head(toRelay) \in Decision
      BY <2>1, <2>7 DEF Event
    <3>2. PICK g \in Guest : Head(toRelay).guest = g
      BY <3>1 DEF Decision
    <3>3. \A h \in Guest \ {g} : guests'[h] = guests[h]
      BY <1>10, <2>7, <3>2 DEF RelayReceives, RelayDecides, RelayTypeOK
    <3>4. 1 \in DecidedAt(g)
      BY <2>1, <3>1, <3>2 DEF DecidedAt, Decision
    <3>5. DecidedAt(g)' = {}
      <4>1. ASSUME NEW i \in DecidedAt(g)' PROVE FALSE
        <5>1. i + 1 = 1 /\ i \in Nat \ {0}
          BY <2>3, <3>4 DEF AsksOnce
        <5>2. QED
          BY <5>1
      <4>2. QED
        BY <4>1
    <3>6. AskedAt(g) = {} /\ g \notin pendingJoins
      BY <3>4 DEF AsksOnce
    <3>7. QED
      BY <2>1, <2>2, <2>4, <2>5, <3>3, <3>5, <3>6 DEF AsksOnce
  <2>8. QED
    BY <2>6, <2>7
<1>11. QED
  <2>1. ASSUME NEW k \in Link, RelayNoticesBreak(k) PROVE AsksOnce'
    BY <1>1, <2>1 DEF RelayNoticesBreak
  <2>2. ASSUME HostNoticesBreak PROVE AsksOnce'
    BY <1>1, <2>2 DEF HostNoticesBreak
  <2>3. ASSUME NEW g \in Guest, OpenChannel(g) PROVE AsksOnce'
    BY <1>1, <2>3 DEF OpenChannel
  <2>4. ASSUME NEW g \in Guest, ChannelFails(g) PROVE AsksOnce'
    BY <1>1, <2>4 DEF ChannelFails
  <2>5. ASSUME NEW g \in Guest, ChannelDelivers(g) PROVE AsksOnce'
    BY <1>1, <2>5 DEF ChannelDelivers
  <2>6. ASSUME NEW mode \in {"approval", "auto"}, SetJoinMode(mode) PROVE AsksOnce'
    BY <1>1, <2>6 DEF SetJoinMode
  <2>7. CASE UNCHANGED relayVars
    BY <1>1, <2>7 DEF relayVars
  <2>8. QED
    BY <1>3, <1>4, <1>5, <1>6, <1>7, <1>8, <1>9, <1>10, <2>1, <2>2, <2>3, <2>4,
       <2>5, <2>6, <2>7 DEF RelayNext

-----------------------------------------------------------------------------
(* Events *)

\* A guest that is not admitted gets nothing and has no channel.
LEMMA EmptyHandedStep ==
    ASSUME RelayTypeOK, WaitsEmptyHanded, [RelayNext]_relayVars
    PROVE  WaitsEmptyHanded'
<1> USE DEF RelayTypeOK, WaitsEmptyHanded, hostSide, wireSide, relaySide, guestSide
<1>1. ASSUME NEW k \in Link, HostConnects(k) \/ RelayNoticesBreak(k) PROVE WaitsEmptyHanded'
  BY <1>1 DEF HostConnects, RelayNoticesBreak
<1>2. ASSUME LinkBreaks \/ HostNoticesBreak PROVE WaitsEmptyHanded'
  BY <1>2 DEF LinkBreaks, HostNoticesBreak
<1>3. ASSUME NEW g \in Guest, GuestJoins(g) \/ GuestLeaves(g) PROVE WaitsEmptyHanded'
  BY <1>3 DEF GuestJoins, GuestLeaves
<1>4. ASSUME NEW g \in Guest, NEW ok \in BOOLEAN, HostDecides(g, ok) PROVE WaitsEmptyHanded'
  <2>1. UNCHANGED <<guests, channel, view, inChannel>>
    BY <1>4 DEF HostDecides, Broadcast
  <2>2. QED
    BY <2>1
<1>5. ASSUME NEW g \in Guest, OpenChannel(g) \/ ChannelFails(g) \/ ChannelDelivers(g)
      PROVE  WaitsEmptyHanded'
  BY <1>5 DEF OpenChannel, Admitted, ChannelFails, CloseChannel, ChannelDelivers
<1>6. ASSUME NEW mode \in {"approval", "auto"}, SetJoinMode(mode) PROVE WaitsEmptyHanded'
  BY <1>6 DEF SetJoinMode
<1>7. ASSUME HostReceives PROVE WaitsEmptyHanded'
  <2>1. UNCHANGED <<guests, view>> /\ Head(toHost) \in ToHostMessage
    BY <1>7, ReadMessage DEF HostReceives
  <2>2. UNCHANGED <<channel, inChannel>> \/ CloseChannel(Head(toHost).guest)
    BY <1>7, <2>1 DEF HostReceives, ToHostMessage
  <2>3. channel' \subseteq channel /\ \A g \in Guest : inChannel[g] = <<>> => inChannel'[g] = <<>>
    BY <2>2 DEF CloseChannel
  <2>4. QED
    BY <2>1, <2>3
<1>8. ASSUME HostEmits PROVE WaitsEmptyHanded'
  <2>1. /\ UNCHANGED <<guests, channel, view>>
        /\ \A g \in Guest : g \notin channel => inChannel'[g] = inChannel[g]
    BY <1>8 DEF HostEmits, Broadcast
  <2>2. QED
    BY <2>1
<1>9. ASSUME RelayReceives PROVE WaitsEmptyHanded'
  <2>1. UNCHANGED <<channel, inChannel>> /\ Head(toRelay) \in Decision \cup Event
    BY <1>9, ReadMessage DEF RelayReceives
  <2>2. CASE Head(toRelay).type = "event"
    BY <1>9, <2>1, <2>2 DEF RelayReceives, RelayForwards, Admitted
  <2>3. CASE Head(toRelay).type # "event"
    <3>1. RelayDecides(Head(toRelay)) /\ Head(toRelay) \in Decision
      BY <1>9, <2>1, <2>3 DEF RelayReceives, Event
    <3>2. PICK g \in Guest : g = Head(toRelay).guest
      BY <3>1 DEF Decision
    <3>3. \A h \in Guest \ {g} : guests'[h] = guests[h] /\ view'[h] = view[h]
      BY <3>1, <3>2 DEF RelayDecides
    <3>4. guests'[g] \in {"admitted", "rejected"} \/ (guests'[g] = guests[g] /\ view'[g] = view[g])
      BY <3>1, <3>2 DEF RelayDecides
    <3>5. QED
      BY <2>1, <3>3, <3>4
  <2>4. QED
    BY <2>2, <2>3
<1>10. CASE UNCHANGED relayVars
  BY <1>10 DEF relayVars
<1>11. QED
  BY <1>1, <1>2, <1>3, <1>4, <1>5, <1>6, <1>7, <1>8, <1>9, <1>10 DEF RelayNext

\* The events on the wire were on it before, d places further back.
Inherited(d) == \A i \in Sent' : i + d \in Sent /\ toRelay'[i] = toRelay[i + d]

\* A step that shows no guest an event it did not have keeps the numbers apart.
LEMMA SeenKept ==
    ASSUME EventsAreNew, InHandOnce, ExceptedHaveIt, NothingMissed,
           UNCHANGED <<emits, history>>, Admitted' \subseteq Admitted,
           \A g \in Guest : InHand(g)' \subseteq InHand(g),
           \A g \in Guest : InHand(g) \cup lost[g] \subseteq InHand(g)' \cup lost'[g],
           NEW d \in {0, 1}, Inherited(d)
    PROVE  /\ EventsAreNew' /\ ExceptedHaveIt' /\ NothingMissed'
           /\ \A g \in Guest : InHand(g)' \subseteq 1 .. emits'
<1>1. EventsAreNew'
  <2>1. \A i, j \in Sent' : i # j => i + d # j + d
    BY DEF Sent
  <2>2. \A i, j \in Sent' : i # j => toRelay'[i].no # toRelay'[j].no
    BY <2>1 DEF EventsAreNew, Inherited
  <2>3. \A i \in Sent' : toRelay'[i].no \in 1 .. emits \ Elems(history)
    BY DEF EventsAreNew, Inherited
  <2>4. QED
    BY <2>2, <2>3 DEF EventsAreNew, Distinct, Elems
<1>2. ExceptedHaveIt'
  <2>1. ASSUME NEW i \in Sent', NEW g \in Guest
        PROVE  IF g \in toRelay'[i].except THEN toRelay'[i].no \in InHand(g)' \cup lost'[g]
                                           ELSE toRelay'[i].no \notin InHand(g)'
    BY DEF ExceptedHaveIt, Inherited
  <2>2. QED
    BY <2>1 DEF ExceptedHaveIt
<1>3. NothingMissed'
  <2>1. Elems(history)' = Elems(history) /\ \A g \in Admitted' : g \in Admitted /\ g \in Guest
    BY DEF Elems, Admitted
  <2>2. ASSUME NEW g \in Admitted' PROVE Elems(history)' \subseteq InHand(g)' \cup lost'[g]
    BY <2>1 DEF NothingMissed
  <2>3. QED
    BY <2>2 DEF NothingMissed
<1>4. QED
  BY <1>1, <1>2, <1>3 DEF InHandOnce

\* So does one that moves no event at all.
LEMMA SeenSame ==
    ASSUME EventsAreNew, InHandOnce, ExceptedHaveIt, NothingMissed,
           UNCHANGED <<emits, history, view, inChannel, lost>>, Admitted' \subseteq Admitted,
           NEW d \in {0, 1}, Inherited(d)
    PROVE  EventsAreNew' /\ InHandOnce' /\ ExceptedHaveIt' /\ NothingMissed'
<1>1. \A g \in Guest : InHand(g)' = InHand(g) /\ lost'[g] = lost[g]
  BY DEF InHand, Elems
<1>2. \A g \in Guest : InHand(g)' \subseteq InHand(g)
  BY <1>1
<1>3. \A g \in Guest : InHand(g) \cup lost[g] \subseteq InHand(g)' \cup lost'[g]
  BY <1>1
<1>4. EventsAreNew' /\ ExceptedHaveIt' /\ NothingMissed'
  BY <1>2, <1>3, SeenKept
<1>5. InHandOnce'
  BY <1>1 DEF InHandOnce
<1>6. QED
  BY <1>4, <1>5

\* Admission: a guest that had nothing is shown the history.
LEMMA SeenAdmitted ==
    ASSUME RelayTypeOK, EventsAreNew, InHandOnce, ExceptedHaveIt, NothingMissed,
           WaitsEmptyHanded, NEW g \in Guest, guests[g] \in {"away", "waiting"},
           guests' = [guests EXCEPT ![g] = "admitted"],
           view' = [view EXCEPT ![g] = history],
           UNCHANGED <<emits, history, inChannel, lost>>,
           NEW d \in {0, 1}, Inherited(d)
    PROVE  EventsAreNew' /\ InHandOnce' /\ ExceptedHaveIt' /\ NothingMissed'
<1>1. view[g] = <<>> /\ inChannel[g] = <<>>
  BY DEF WaitsEmptyHanded
<1>2. /\ InHand(g) = {} /\ Elems(inChannel[g]) = {} /\ Distinct(inChannel[g])
  <2>1. Elems(view[g]) = {} /\ Elems(inChannel[g]) = {} /\ Distinct(inChannel[g])
    BY <1>1, NoElems
  <2>2. QED
    BY <2>1 DEF InHand
<1>3. view'[g] = history /\ \A h \in Guest \ {g} : view'[h] = view[h]
  BY DEF RelayTypeOK
<1>4. InHand(g)' = Elems(history)
  <2>1. InHand(g)' = Elems(view'[g]) \cup Elems(inChannel'[g])
    BY DEF InHand
  <2>2. QED
    BY <1>2, <1>3, <2>1
<1>5. \A h \in Guest \ {g} : InHand(h)' = InHand(h)
  BY <1>3 DEF InHand, Elems
<1>6. EventsAreNew'
  <2>1. \A i, j \in Sent' : i # j => i + d # j + d
    BY DEF Sent
  <2>2. \A i, j \in Sent' : i # j => toRelay'[i].no # toRelay'[j].no
    BY <2>1 DEF EventsAreNew, Inherited
  <2>3. \A i \in Sent' : toRelay'[i].no \in 1 .. emits \ Elems(history)
    BY DEF EventsAreNew, Inherited
  <2>4. QED
    BY <2>2, <2>3 DEF EventsAreNew, Distinct, Elems
<1>7. InHandOnce'
  <2>1. ASSUME NEW h \in Guest \ {g}
        PROVE  /\ Distinct(view'[h]) /\ Distinct(inChannel'[h])
               /\ Elems(view'[h]) \cap Elems(inChannel'[h]) = {}
               /\ InHand(h)' \subseteq 1 .. emits'
    BY <1>3, <1>5 DEF InHandOnce
  <2>2. /\ Distinct(view'[g]) /\ Distinct(inChannel'[g])
        /\ Elems(view'[g]) \cap Elems(inChannel'[g]) = {}
        /\ InHand(g)' \subseteq 1 .. emits'
    BY <1>2, <1>3, <1>4 DEF EventsAreNew
  <2>3. QED
    BY <2>1, <2>2 DEF InHandOnce
<1>8. ExceptedHaveIt'
  <2>1. ASSUME NEW i \in Sent', NEW h \in Guest
        PROVE  IF h \in toRelay'[i].except THEN toRelay'[i].no \in InHand(h)' \cup lost'[h]
                                           ELSE toRelay'[i].no \notin InHand(h)'
    <3>1. /\ i + d \in Sent /\ toRelay'[i] = toRelay[i + d]
          /\ toRelay[i + d].no \notin Elems(history)
      BY DEF Inherited, EventsAreNew
    <3>2. CASE h = g
      BY <1>2, <1>4, <3>1, <3>2 DEF ExceptedHaveIt
    <3>3. CASE h # g
      BY <1>5, <3>1, <3>3 DEF ExceptedHaveIt
    <3>4. QED
      BY <3>2, <3>3
  <2>2. QED
    BY <2>1 DEF ExceptedHaveIt
<1>9. NothingMissed'
  <2>1. Elems(history)' = Elems(history)
    BY DEF Elems
  <2>2. Admitted' = Admitted \cup {g}
    BY DEF Admitted, RelayTypeOK
  <2>3. ASSUME NEW h \in Admitted' PROVE Elems(history)' \subseteq InHand(h)' \cup lost'[h]
    <3>1. CASE h = g
      BY <1>4, <2>1, <3>1
    <3>2. CASE h # g
      <4>1. h \in Admitted /\ h \in Guest
        BY <2>2, <3>2 DEF Admitted
      <4>2. QED
        BY <1>5, <2>1, <3>2, <4>1 DEF NothingMissed
    <3>3. QED
      BY <3>1, <3>2
  <2>4. QED
    BY <2>3 DEF NothingMissed
<1>10. QED
  BY <1>6, <1>7, <1>8, <1>9

\* An event is forwarded: to the admitted guests that do not have it, and into
\* the history, which may drop its oldest.
LEMMA SeenForwarded ==
    ASSUME RelayTypeOK, EventsAreNew, InHandOnce, ExceptedHaveIt, NothingMissed,
           toRelay # <<>>, NEW m, m = toRelay[1], m.type = "event", m.no \in Emitted,
           RelayForwards(m), UNCHANGED <<emits, inChannel, lost>>, Inherited(1)
    PROVE  EventsAreNew' /\ InHandOnce' /\ ExceptedHaveIt' /\ NothingMissed'
<1>1. 1 \in Sent
  BY EmptySeq, LenProperties DEF Sent, RelayTypeOK
<1>2. m.no \in 1 .. emits \ Elems(history)
  BY <1>1 DEF EventsAreNew
<1>3. \A i \in Sent' : i + 1 \in Sent /\ i + 1 # 1 /\ toRelay'[i] = toRelay[i + 1]
                       /\ toRelay[i + 1].no # m.no
  <2>1. \A i \in Sent' : i \in Nat \ {0}
    BY DEF Sent
  <2>2. \A i \in Sent' : i + 1 # 1
    BY <2>1
  <2>3. QED
    BY <1>1, <2>2 DEF Inherited, EventsAreNew
<1>4. /\ Elems(history') \subseteq Elems(history) \cup {m.no}
      /\ Distinct(history')
  <2>1. DEFINE h == Append(history, m.no)
  <2>2. /\ h \in Seq(Emitted) /\ h # <<>>
        /\ Elems(h) = Elems(history) \cup {m.no} /\ Distinct(h)
    BY <1>2, ElemsAdded, SentMessage DEF RelayTypeOK, EventsAreNew
  <2>3. Elems(Tail(h)) \subseteq Elems(h) /\ Distinct(Tail(h))
    <3> HIDE DEF h
    <3>1. QED
      BY <2>2, ElemsTaken
  <2>4. history' = h \/ history' = Tail(h)
    BY DEF RelayForwards
  <2>5. QED
    <3> HIDE DEF h
    <3>1. QED
      BY <2>2, <2>3, <2>4
<1>5. \A g \in Guest : /\ g \in Admitted \ m.except => view'[g] = Append(view[g], m.no)
                       /\ g \notin Admitted \ m.except => view'[g] = view[g]
  BY DEF RelayForwards
<1>6. \A g \in Guest : /\ g \in Admitted \ m.except => InHand(g)' = InHand(g) \cup {m.no}
                       /\ g \notin Admitted \ m.except => InHand(g)' = InHand(g)
  <2>1. TAKE g \in Guest
  <2>2. Elems(Append(view[g], m.no)) = Elems(view[g]) \cup {m.no}
    BY ElemsAdded DEF RelayTypeOK
  <2>3. InHand(g)' = Elems(view'[g]) \cup Elems(inChannel[g])
    BY DEF InHand
  <2>4. QED
    BY <1>5, <2>2, <2>3 DEF InHand
<1>7. \A g \in Guest : IF g \in m.except THEN m.no \in InHand(g) \cup lost[g]
                                         ELSE m.no \notin InHand(g)
  BY <1>1 DEF ExceptedHaveIt
<1>8. Admitted' = Admitted
  BY DEF RelayForwards, Admitted
<1>9. EventsAreNew'
  <2>1. \A i, j \in Sent' : i # j => toRelay'[i].no # toRelay'[j].no
    <3>1. \A i, j \in Sent' : i # j => i + 1 # j + 1
      BY DEF Sent
    <3>2. QED
      BY <1>3, <3>1 DEF EventsAreNew
  <2>2. \A i \in Sent' : toRelay'[i].no \in 1 .. emits \ Elems(history')
    BY <1>3, <1>4 DEF EventsAreNew
  <2>3. Elems(history') \subseteq 1 .. emits
    BY <1>2, <1>4 DEF EventsAreNew
  <2>4. QED
    BY <1>4, <2>1, <2>2, <2>3 DEF EventsAreNew
<1>10. InHandOnce'
  <2>1. ASSUME NEW g \in Guest
        PROVE  /\ Distinct(view'[g]) /\ Distinct(inChannel'[g])
               /\ Elems(view'[g]) \cap Elems(inChannel'[g]) = {}
               /\ InHand(g)' \subseteq 1 .. emits'
    <3>1. CASE g \notin Admitted \ m.except
      BY <1>5, <1>6, <3>1 DEF InHandOnce
    <3>2. CASE g \in Admitted \ m.except
      <4>1. m.no \notin Elems(view[g]) /\ m.no \notin Elems(inChannel[g])
        BY <1>7, <3>2 DEF InHand
      <4>2. Elems(view'[g]) = Elems(view[g]) \cup {m.no} /\ Distinct(view'[g])
        <5>1. view[g] \in Seq(Emitted) /\ Distinct(view[g])
          BY DEF RelayTypeOK, InHandOnce
        <5>2. /\ Elems(Append(view[g], m.no)) = Elems(view[g]) \cup {m.no}
              /\ Distinct(Append(view[g], m.no))
          BY <4>1, <5>1, ElemsAdded
        <5>3. QED
          BY <1>5, <3>2, <5>2
      <4>3. QED
        BY <1>2, <1>6, <3>2, <4>1, <4>2 DEF InHandOnce
    <3>3. QED
      BY <3>1, <3>2
  <2>2. QED
    BY <2>1 DEF InHandOnce
<1>11. ExceptedHaveIt'
  <2>1. ASSUME NEW i \in Sent', NEW g \in Guest
        PROVE  IF g \in toRelay'[i].except THEN toRelay'[i].no \in InHand(g)' \cup lost'[g]
                                           ELSE toRelay'[i].no \notin InHand(g)'
    BY <1>3, <1>6 DEF ExceptedHaveIt
  <2>2. QED
    BY <2>1 DEF ExceptedHaveIt
<1>12. NothingMissed'
  <2>1. ASSUME NEW g \in Admitted PROVE Elems(history') \subseteq InHand(g)' \cup lost'[g]
    <3>1. g \in Guest /\ Elems(history) \subseteq InHand(g) \cup lost[g]
      BY DEF NothingMissed, Admitted
    <3>2. m.no \in InHand(g)' \cup lost[g]
      BY <1>6, <1>7, <3>1
    <3>3. QED
      BY <1>4, <1>6, <3>1, <3>2
  <2>2. QED
    BY <1>8, <2>1 DEF NothingMissed
<1>13. QED
  BY <1>9, <1>10, <1>11, <1>12

\* An event is broadcast: into the channels, and to the relay with the guests
\* that have one excepted.
LEMMA SeenEmitted ==
    ASSUME RelayTypeOK, EventsAreNew, InHandOnce, ExceptedHaveIt, NothingMissed, HostEmits
    PROVE  EventsAreNew' /\ InHandOnce' /\ ExceptedHaveIt' /\ NothingMissed'
<1>1. DEFINE n == emits + 1
             e == [type |-> "event", no |-> n, except |-> channel]
<1>2. /\ n \in Emitted /\ emits \in Nat /\ emits' = n
      /\ UNCHANGED <<guests, history, channel, view, lost>>
  BY RelayAssumption DEF HostEmits, RelayTypeOK, Emitted, relaySide
<1>3. n \notin 1 .. emits /\ 1 .. emits \subseteq 1 .. n /\ n \in 1 .. n
  BY <1>2
<1>4. e \in Decision \cup Event /\ e.type = "event" /\ e.no = n /\ e.except = channel
  BY <1>2 DEF Event, RelayTypeOK
<1>5. /\ hostLink = NoLink \/ hostBroken => toRelay' = toRelay
      /\ ~ (hostLink = NoLink \/ hostBroken) => toRelay' = Append(toRelay, e)
      /\ hostLink = NoLink => inChannel' = inChannel
      /\ hostLink # NoLink =>
           \A g \in Guest : inChannel'[g] = IF g \in channel THEN Append(inChannel[g], n)
                                                             ELSE inChannel[g]
  <2>1. DEFINE b == [type |-> "event", no |-> n, except |-> {}]
  <2>2. Broadcast(b)
    BY DEF HostEmits
  <2>3. [b EXCEPT !.except = channel] = e /\ b.type = "event" /\ b.no = n
    OBVIOUS
  <2>4. QED
    <3> HIDE DEF b, e
    <3>1. QED
      BY <2>2, <2>3 DEF Broadcast
<1> HIDE DEF n, e
<1>6. \A g \in Guest : n \notin InHand(g)
  BY <1>3 DEF InHandOnce
<1>7. \A g \in Guest :
        /\ hostLink # NoLink /\ g \in channel => inChannel'[g] = Append(inChannel[g], n)
        /\ ~ (hostLink # NoLink /\ g \in channel) => inChannel'[g] = inChannel[g]
  BY <1>5
<1>8. \A g \in Guest :
        /\ hostLink # NoLink /\ g \in channel =>
             /\ Elems(inChannel'[g]) = Elems(inChannel[g]) \cup {n}
             /\ Distinct(inChannel'[g])
        /\ ~ (hostLink # NoLink /\ g \in channel) =>
             /\ Elems(inChannel'[g]) = Elems(inChannel[g])
             /\ Distinct(inChannel'[g])
  <2>1. TAKE g \in Guest
  <2>2. inChannel[g] \in Seq(Emitted) /\ Distinct(inChannel[g]) /\ n \notin Elems(inChannel[g])
    BY <1>6 DEF RelayTypeOK, InHandOnce, InHand
  <2>3. /\ Elems(Append(inChannel[g], n)) = Elems(inChannel[g]) \cup {n}
        /\ Distinct(Append(inChannel[g], n))
    BY <1>2, <2>2, ElemsAdded
  <2>4. QED
    BY <1>7, <2>2, <2>3
<1>9. \A g \in Guest :
        /\ hostLink # NoLink /\ g \in channel => InHand(g)' = InHand(g) \cup {n}
        /\ ~ (hostLink # NoLink /\ g \in channel) => InHand(g)' = InHand(g)
  <2>1. \A g \in Guest : InHand(g)' = Elems(view[g]) \cup Elems(inChannel'[g])
    BY <1>2 DEF InHand
  <2>2. QED
    BY <1>8, <2>1 DEF InHand
<1>10. InHandOnce'
  <2>1. ASSUME NEW g \in Guest
        PROVE  /\ Distinct(view'[g]) /\ Distinct(inChannel'[g])
               /\ Elems(view'[g]) \cap Elems(inChannel'[g]) = {}
               /\ InHand(g)' \subseteq 1 .. emits'
    <3>1. n \notin Elems(view[g]) /\ view'[g] = view[g]
      BY <1>2, <1>6 DEF InHand
    <3>2. QED
      BY <1>2, <1>3, <1>8, <1>9, <3>1 DEF InHandOnce
  <2>2. QED
    BY <2>1 DEF InHandOnce
<1>11. NothingMissed'
  <2>1. Admitted' = Admitted /\ Elems(history)' = Elems(history)
    BY <1>2 DEF Admitted, Elems
  <2>2. ASSUME NEW g \in Admitted PROVE Elems(history) \subseteq InHand(g)' \cup lost'[g]
    <3>1. g \in Guest
      BY DEF Admitted
    <3>2. QED
      BY <1>2, <1>9, <3>1 DEF NothingMissed
  <2>3. QED
    BY <2>1, <2>2 DEF NothingMissed
<1>12. CASE hostLink = NoLink \/ hostBroken
  <2>1. Sent' = Sent /\ toRelay' = toRelay
    BY <1>5, <1>12 DEF Sent
  <2>2. EventsAreNew'
    BY <1>2, <1>3, <2>1 DEF EventsAreNew
  <2>3. ASSUME NEW i \in Sent, NEW g \in Guest
        PROVE  IF g \in toRelay[i].except THEN toRelay[i].no \in InHand(g)' \cup lost'[g]
                                          ELSE toRelay[i].no \notin InHand(g)'
    <3>1. toRelay[i].no # n
      BY <1>3 DEF EventsAreNew
    <3>2. QED
      BY <1>2, <1>9, <3>1 DEF ExceptedHaveIt
  <2>4. ExceptedHaveIt'
    BY <2>1, <2>3 DEF ExceptedHaveIt
  <2>5. QED
    BY <1>10, <1>11, <2>2, <2>4
<1>13. CASE ~ (hostLink = NoLink \/ hostBroken)
  <2>1. /\ Len(toRelay) \in Nat /\ Len(toRelay') = Len(toRelay) + 1
        /\ \A i \in 1 .. Len(toRelay) : toRelay'[i] = toRelay[i]
        /\ toRelay'[Len(toRelay) + 1] = e
    <3>1. toRelay' = Append(toRelay, e)
      BY <1>5, <1>13
    <3>2. toRelay \in Seq(Decision \cup Event)
      BY DEF RelayTypeOK
    <3>3. Len(toRelay) \in Nat
      BY <3>2, LenProperties
    <3>4. QED
      BY <1>4, <3>1, <3>2, <3>3, SentMessage
  <2>2. \A i \in 1 .. Len(toRelay') : i \in 1 .. Len(toRelay) \/ i = Len(toRelay) + 1
    BY <2>1
  <2>3. \A i \in Sent' : (i \in Sent /\ toRelay'[i] = toRelay[i] /\ toRelay[i].no # n)
                         \/ (i = Len(toRelay) + 1 /\ toRelay'[i] = e)
    BY <1>3, <2>1, <2>2 DEF Sent, EventsAreNew
  <2>4. EventsAreNew'
    <3>1. \A i \in Sent' : toRelay'[i].no \in 1 .. n \ Elems(history)
      BY <1>3, <1>4, <2>3 DEF EventsAreNew
    <3>2. \A i, j \in Sent' : i # j => toRelay'[i].no # toRelay'[j].no
      BY <1>4, <2>3 DEF EventsAreNew
    <3>3. QED
      BY <1>2, <1>3, <3>1, <3>2 DEF EventsAreNew
  <2>5. ExceptedHaveIt'
    <3>1. ASSUME NEW i \in Sent', NEW g \in Guest
          PROVE  IF g \in toRelay'[i].except THEN toRelay'[i].no \in InHand(g)' \cup lost'[g]
                                             ELSE toRelay'[i].no \notin InHand(g)'
      <4>1. CASE i \in Sent /\ toRelay'[i] = toRelay[i] /\ toRelay[i].no # n
        BY <1>2, <1>9, <4>1 DEF ExceptedHaveIt
      <4>2. CASE i = Len(toRelay) + 1 /\ toRelay'[i] = e
        BY <1>4, <1>6, <1>9, <1>13, <4>2
      <4>3. QED
        BY <2>3, <4>1, <4>2
    <3>2. QED
      BY <3>1 DEF ExceptedHaveIt
  <2>6. QED
    BY <1>10, <1>11, <2>4, <2>5
<1>14. QED
  BY <1>12, <1>13

\* A closed channel loses what was under way in it, and no more.
LEMMA SeenClosed ==
    ASSUME RelayTypeOK, EventsAreNew, InHandOnce, ExceptedHaveIt, NothingMissed,
           NEW g \in Guest, CloseChannel(g),
           UNCHANGED <<emits, history, view>>, Admitted' \subseteq Admitted, Inherited(0)
    PROVE  EventsAreNew' /\ InHandOnce' /\ ExceptedHaveIt' /\ NothingMissed'
<1>1. /\ inChannel'[g] = <<>> /\ lost'[g] = lost[g] \cup Elems(inChannel[g])
      /\ \A h \in Guest \ {g} : inChannel'[h] = inChannel[h] /\ lost'[h] = lost[h]
  BY DEF CloseChannel, RelayTypeOK
<1>2. Elems(inChannel'[g]) = {} /\ Distinct(inChannel'[g])
  BY <1>1, NoElems
<1>3. \A h \in Guest : InHand(h)' = Elems(view[h]) \cup Elems(inChannel'[h])
  BY DEF InHand
<1>4. \A h \in Guest : InHand(h)' \subseteq InHand(h)
  BY <1>1, <1>2, <1>3 DEF InHand
<1>5. \A h \in Guest : InHand(h) \cup lost[h] \subseteq InHand(h)' \cup lost'[h]
  BY <1>1, <1>2, <1>3 DEF InHand
<1>6. /\ EventsAreNew' /\ ExceptedHaveIt' /\ NothingMissed'
      /\ \A h \in Guest : InHand(h)' \subseteq 1 .. emits'
  BY <1>4, <1>5, SeenKept
<1>7. ASSUME NEW h \in Guest
      PROVE  /\ Distinct(view'[h]) /\ Distinct(inChannel'[h])
             /\ Elems(view'[h]) \cap Elems(inChannel'[h]) = {}
  BY <1>1, <1>2 DEF InHandOnce
<1>8. QED
  BY <1>6, <1>7 DEF InHandOnce

\* A delivered event moves from the channel to the guest's view.
LEMMA SeenDelivered ==
    ASSUME RelayTypeOK, EventsAreNew, InHandOnce, ExceptedHaveIt, NothingMissed,
           NEW g \in Guest, ChannelDelivers(g), Inherited(0)
    PROVE  EventsAreNew' /\ InHandOnce' /\ ExceptedHaveIt' /\ NothingMissed'
<1>1. PICK m : m = Head(inChannel[g])
  OBVIOUS
<1>2. PICK rest : rest = Tail(inChannel[g])
  OBVIOUS
<1>3. /\ inChannel[g] \in Seq(Emitted) /\ inChannel[g] # <<>> /\ view[g] \in Seq(Emitted)
      /\ Distinct(view[g]) /\ Distinct(inChannel[g])
      /\ Elems(view[g]) \cap Elems(inChannel[g]) = {}
  BY DEF ChannelDelivers, RelayTypeOK, InHandOnce
<1>4. /\ Elems(inChannel[g]) = {m} \cup Elems(rest)
      /\ Distinct(rest) /\ m \notin Elems(rest) /\ m \in Emitted
  BY <1>1, <1>2, <1>3, ElemsTaken, ReadMessage
<1>5. /\ inChannel'[g] = rest /\ view'[g] = Append(view[g], m) /\ lost' = lost
      /\ \A h \in Guest \ {g} : inChannel'[h] = inChannel[h] /\ view'[h] = view[h]
      /\ UNCHANGED <<emits, history, guests>>
  BY <1>1, <1>2 DEF ChannelDelivers, RelayTypeOK, hostSide, relaySide
<1>6. m \notin Elems(view[g])
  BY <1>3, <1>4
<1>7. Elems(view'[g]) = Elems(view[g]) \cup {m} /\ Distinct(view'[g])
  BY <1>3, <1>4, <1>5, <1>6, ElemsAdded
<1>8. \A h \in Guest : InHand(h)' = Elems(view'[h]) \cup Elems(inChannel'[h])
  BY DEF InHand
<1>9. \A h \in Guest : InHand(h)' = InHand(h)
  BY <1>4, <1>5, <1>7, <1>8 DEF InHand
<1>10. \A h \in Guest : InHand(h)' \subseteq InHand(h)
  BY <1>9
<1>11. \A h \in Guest : InHand(h) \cup lost[h] \subseteq InHand(h)' \cup lost'[h]
  BY <1>5, <1>9
<1>12. Admitted' \subseteq Admitted
  BY <1>5 DEF Admitted
<1>13. /\ EventsAreNew' /\ ExceptedHaveIt' /\ NothingMissed'
       /\ \A h \in Guest : InHand(h)' \subseteq 1 .. emits'
  BY <1>5, <1>10, <1>11, <1>12, SeenKept
<1>14. ASSUME NEW h \in Guest
       PROVE  /\ Distinct(view'[h]) /\ Distinct(inChannel'[h])
              /\ Elems(view'[h]) \cap Elems(inChannel'[h]) = {}
  <2>1. CASE h = g
    BY <1>3, <1>4, <1>5, <1>7, <2>1
  <2>2. CASE h # g
    BY <1>5, <2>2 DEF InHandOnce
  <2>3. QED
    BY <2>1, <2>2
<1>15. QED
  BY <1>13, <1>14 DEF InHandOnce

\* No step shows a guest an event twice, or lets an admitted guest miss one.
LEMMA SeenStep ==
    ASSUME RelayTypeOK, SeenInv, [RelayNext]_relayVars
    PROVE  EventsAreNew' /\ InHandOnce' /\ ExceptedHaveIt' /\ NothingMissed'
<1> DEFINE Goal == EventsAreNew' /\ InHandOnce' /\ ExceptedHaveIt' /\ NothingMissed'
<1>1. /\ AsksOnce /\ WaitsEmptyHanded /\ EventsAreNew /\ InHandOnce /\ ExceptedHaveIt
      /\ NothingMissed
  BY DEF SeenInv
<1> HIDE DEF Goal
<1>2. ASSUME toRelay' = toRelay PROVE Inherited(0)
  BY <1>2 DEF Inherited, Sent
<1>3. ASSUME toRelay' = <<>> PROVE Inherited(0)
  <2>1. Sent' = {}
    BY <1>3, EmptySeq DEF Sent
  <2>2. QED
    BY <2>1 DEF Inherited
<1>4. ASSUME NEW msg \in Decision, Broadcast(msg) PROVE Inherited(0)
  <2>1. DEFINE sent == [msg EXCEPT !.except = channel]
  <2>2. sent \in Decision \cup Event /\ sent.type = "join-decision"
    BY DEF RelayTypeOK, Decision
  <2>3. toRelay' = toRelay \/ toRelay' = Append(toRelay, sent)
    BY <1>4 DEF Broadcast
  <2> HIDE DEF sent
  <2>4. CASE toRelay' = toRelay
    BY <1>2, <2>4
  <2>5. CASE toRelay' = Append(toRelay, sent)
    <3>1. toRelay \in Seq(Decision \cup Event)
      BY DEF RelayTypeOK
    <3>2. Len(toRelay) \in Nat
      BY <3>1, LenProperties
    <3>3. /\ Len(toRelay') = Len(toRelay) + 1
          /\ \A i \in 1 .. Len(toRelay) : toRelay'[i] = toRelay[i]
          /\ toRelay'[Len(toRelay) + 1] = sent
      BY <2>2, <2>5, <3>1, SentMessage
    <3>4. \A i \in 1 .. Len(toRelay') : i \in 1 .. Len(toRelay) \/ i = Len(toRelay) + 1
      BY <3>2, <3>3
    <3>5. \A i \in Sent' : i \in Sent /\ toRelay'[i] = toRelay[i] /\ i + 0 = i
      BY <2>2, <3>2, <3>3, <3>4 DEF Sent
    <3>6. QED
      BY <3>5 DEF Inherited
  <2>6. QED
    BY <2>3, <2>4, <2>5
<1>5. ASSUME UNCHANGED <<emits, history, view, inChannel, lost>>, Admitted' \subseteq Admitted,
             Inherited(0)
      PROVE  Goal
  BY <1>1, <1>5, SeenSame DEF Goal
<1>6. ASSUME NEW k \in Link, HostConnects(k) PROVE Goal
  <2>1. toRelay' = <<>> /\ UNCHANGED <<emits, guests, history, view, inChannel, lost>>
    BY <1>6 DEF HostConnects, guestSide
  <2>2. Admitted' \subseteq Admitted
    BY <2>1 DEF Admitted
  <2>3. QED
    BY <1>3, <1>5, <2>1, <2>2
<1>7. ASSUME NEW k \in Link, RelayNoticesBreak(k) PROVE Goal
  <2>1. UNCHANGED <<toRelay, emits, guests, history, view, inChannel, lost>>
    BY <1>7 DEF RelayNoticesBreak, hostSide, guestSide
  <2>2. Admitted' \subseteq Admitted
    BY <2>1 DEF Admitted
  <2>3. QED
    BY <1>2, <1>5, <2>1, <2>2
<1>8. ASSUME LinkBreaks PROVE Goal
  <2>1. toRelay' = <<>> /\ UNCHANGED <<emits, guests, history, view, inChannel, lost>>
    BY <1>8 DEF LinkBreaks, hostSide, relaySide, guestSide
  <2>2. Admitted' \subseteq Admitted
    BY <2>1 DEF Admitted
  <2>3. QED
    BY <1>3, <1>5, <2>1, <2>2
<1>9. ASSUME HostNoticesBreak PROVE Goal
  <2>1. UNCHANGED <<toRelay, emits, guests, history, view, inChannel, lost>>
    BY <1>9 DEF HostNoticesBreak, relaySide, guestSide
  <2>2. Admitted' \subseteq Admitted
    BY <2>1 DEF Admitted
  <2>3. QED
    BY <1>2, <1>5, <2>1, <2>2
<1>10. ASSUME NEW g \in Guest, GuestJoins(g) PROVE Goal
  <2>1. UNCHANGED <<toRelay, emits, history, inChannel, lost>> /\ guests[g] = "away"
    BY <1>10 DEF GuestJoins, hostSide
  <2>2. Inherited(0)
    BY <1>2, <2>1
  <2>3. CASE joinMode = "auto"
    <3>1. /\ guests' = [guests EXCEPT ![g] = "admitted"]
          /\ view' = [view EXCEPT ![g] = history]
      BY <1>10, <2>3 DEF GuestJoins
    <3>2. QED
      BY <1>1, <2>1, <2>2, <3>1, SeenAdmitted DEF Goal
  <2>4. CASE joinMode # "auto"
    <3>1. guests' = [guests EXCEPT ![g] = "waiting"] /\ view' = view
      BY <1>10, <2>4 DEF GuestJoins
    <3>2. Admitted' \subseteq Admitted
      BY <3>1 DEF Admitted, RelayTypeOK
    <3>3. QED
      BY <1>5, <2>1, <2>2, <3>1, <3>2
  <2>5. QED
    BY <2>3, <2>4
<1>11. ASSUME NEW g \in Guest, GuestLeaves(g) PROVE Goal
  <2>1. /\ UNCHANGED <<toRelay, emits, history, view, inChannel, lost>>
        /\ guests' = [guests EXCEPT ![g] = "left"]
    BY <1>11 DEF GuestLeaves, hostSide, guestSide
  <2>2. Admitted' \subseteq Admitted
    BY <2>1 DEF Admitted, RelayTypeOK
  <2>3. QED
    BY <1>2, <1>5, <2>1, <2>2
<1>12. ASSUME NEW mode \in {"approval", "auto"}, SetJoinMode(mode) PROVE Goal
  <2>1. UNCHANGED <<toRelay, emits, guests, history, view, inChannel, lost>>
    BY <1>12 DEF SetJoinMode, hostSide, wireSide, guestSide
  <2>2. Admitted' \subseteq Admitted
    BY <2>1 DEF Admitted
  <2>3. QED
    BY <1>2, <1>5, <2>1, <2>2
<1>13. ASSUME HostReceives PROVE Goal
  <2>1. UNCHANGED <<toRelay, emits, guests, history, view>> /\ Head(toHost) \in ToHostMessage
    BY <1>13, ReadMessage DEF HostReceives, relaySide, RelayTypeOK
  <2>2. Admitted' \subseteq Admitted
    BY <2>1 DEF Admitted
  <2>3. CASE Head(toHost).type = "guest-left"
    <3>1. PICK g \in Guest : g = Head(toHost).guest
      BY <2>1, <2>3 DEF ToHostMessage
    <3>2. CloseChannel(g)
      BY <1>13, <2>3, <3>1 DEF HostReceives
    <3>3. Inherited(0)
      BY <1>2, <2>1
    <3>4. QED
      BY <1>1, <2>1, <2>2, <3>2, <3>3, SeenClosed DEF Goal
  <2>4. CASE Head(toHost).type # "guest-left"
    <3>1. UNCHANGED <<inChannel, lost>>
      BY <1>13, <2>1, <2>4 DEF HostReceives, ToHostMessage
    <3>2. QED
      BY <1>2, <1>5, <2>1, <2>2, <3>1
  <2>5. QED
    BY <2>3, <2>4
<1>14. ASSUME NEW g \in Guest, NEW ok \in BOOLEAN, HostDecides(g, ok) PROVE Goal
  <2>1. DEFINE d == [type |-> "join-decision", guest |-> g, approved |-> ok, except |-> {}]
  <2>2. /\ d \in Decision /\ d.type = "join-decision" /\ Broadcast(d)
        /\ UNCHANGED <<emits, guests, history, view, lost>>
    BY <1>14 DEF HostDecides, Decision, relaySide
  <2> HIDE DEF d
  <2>3. inChannel' = inChannel
    BY <2>2 DEF Broadcast
  <2>4. Admitted' \subseteq Admitted
    BY <2>2 DEF Admitted
  <2>5. QED
    BY <1>4, <1>5, <2>2, <2>3, <2>4
<1>15. ASSUME HostEmits PROVE Goal
  BY <1>1, <1>15, SeenEmitted DEF Goal
<1>16. ASSUME NEW g \in Guest, OpenChannel(g) PROVE Goal
  <2>1. UNCHANGED <<toRelay, emits, guests, history, view, inChannel, lost>>
    BY <1>16 DEF OpenChannel, wireSide, relaySide, guestSide
  <2>2. Admitted' \subseteq Admitted
    BY <2>1 DEF Admitted
  <2>3. QED
    BY <1>2, <1>5, <2>1, <2>2
<1>17. ASSUME NEW g \in Guest, ChannelFails(g) PROVE Goal
  <2>1. CloseChannel(g) /\ UNCHANGED <<toRelay, emits, guests, history, view>>
    BY <1>17 DEF ChannelFails, wireSide, relaySide
  <2>2. Admitted' \subseteq Admitted
    BY <2>1 DEF Admitted
  <2>3. Inherited(0)
    BY <1>2, <2>1
  <2>4. QED
    BY <1>1, <2>1, <2>2, <2>3, SeenClosed DEF Goal
<1>18. ASSUME NEW g \in Guest, ChannelDelivers(g) PROVE Goal
  <2>1. Inherited(0)
    BY <1>2, <1>18 DEF ChannelDelivers, wireSide
  <2>2. QED
    BY <1>1, <1>18, <2>1, SeenDelivered DEF Goal
<1>19. ASSUME RelayReceives PROVE Goal
  <2>1. PICK m : m = Head(toRelay)
    OBVIOUS
  <2>2. /\ toRelay # <<>> /\ toRelay' = Tail(toRelay) /\ UNCHANGED <<emits, inChannel, lost>>
        /\ m \in Decision \cup Event /\ m = toRelay[1] /\ Len(toRelay) \in Nat
        /\ 1 \in 1 .. Len(toRelay) /\ Len(toRelay') = Len(toRelay) - 1
        /\ \A i \in 1 .. Len(toRelay) - 1 : toRelay'[i] = toRelay[i + 1]
    BY <1>19, <2>1, ReadMessage, LenProperties DEF RelayReceives, RelayTypeOK, hostSide
  <2>3. Inherited(1)
    <3>1. \A i \in 1 .. Len(toRelay') : i + 1 \in 1 .. Len(toRelay) /\ toRelay'[i] = toRelay[i + 1]
      BY <2>2
    <3>2. QED
      BY <3>1 DEF Inherited, Sent
  <2>4. CASE m.type = "event"
    <3>1. m.no \in Emitted /\ RelayForwards(m)
      BY <1>19, <2>1, <2>2, <2>4 DEF RelayReceives, Decision, Event
    <3>2. QED
      BY <1>1, <2>2, <2>3, <2>4, <3>1, SeenForwarded DEF Goal
  <2>5. CASE m.type # "event"
    <3>1. m \in Decision /\ m.type = "join-decision" /\ RelayDecides(m)
      BY <1>19, <2>1, <2>2, <2>5 DEF RelayReceives, Decision, Event
    <3>2. PICK g \in Guest : g = m.guest
      BY <3>1 DEF Decision
    <3>3. 1 \in DecidedAt(g)
      BY <2>2, <3>1, <3>2 DEF DecidedAt
    <3>4. guests[g] \in {"waiting", "left"} /\ history' = history
      BY <1>1, <3>1, <3>3 DEF AsksOnce, RelayDecides
    <3>5. CASE guests[g] = "waiting" /\ m.approved
      <4>1. /\ guests' = [guests EXCEPT ![g] = "admitted"]
            /\ view' = [view EXCEPT ![g] = history]
        BY <3>1, <3>2, <3>5 DEF RelayDecides, Present
      <4>2. guests[g] \in {"away", "waiting"}
        BY <3>5
      <4>3. QED
        BY <1>1, <2>2, <2>3, <3>4, <4>1, <4>2, SeenAdmitted DEF Goal
    <3>6. CASE ~ (guests[g] = "waiting" /\ m.approved)
      <4>1. view' = view /\ (guests' = guests \/ guests' = [guests EXCEPT ![g] = "rejected"])
        BY <3>1, <3>2, <3>4, <3>6 DEF RelayDecides, Present
      <4>2. Admitted' \subseteq Admitted
        BY <4>1 DEF Admitted, RelayTypeOK
      <4>3. QED
        BY <1>1, <2>2, <2>3, <3>4, <4>1, <4>2, SeenSame DEF Goal
    <3>7. QED
      BY <3>5, <3>6
  <2>6. QED
    BY <2>4, <2>5
<1>20. CASE UNCHANGED relayVars
  <2>1. UNCHANGED <<toRelay, emits, guests, history, view, inChannel, lost>>
    BY <1>20 DEF relayVars
  <2>2. Admitted' \subseteq Admitted
    BY <2>1 DEF Admitted
  <2>3. Goal
    BY <1>2, <1>5, <2>1, <2>2
  <2>4. QED
    BY <2>3 DEF Goal
<1>21. QED
  <2>1. Goal
    BY <1>6, <1>7, <1>8, <1>9, <1>10, <1>11, <1>12, <1>13, <1>14, <1>15, <1>16,
       <1>17, <1>18, <1>19, <1>20 DEF RelayNext, Goal
  <2>2. QED
    BY <2>1 DEF Goal

-----------------------------------------------------------------------------
(* The theorems *)

RelayInv == RelayTypeOK /\ SeesByRight /\ ApprovedByHost

LEMMA RelayInvariant == RelaySpec => []RelayInv
<1>1. RelayInit => RelayInv
  <2> SUFFICES ASSUME RelayInit PROVE RelayInv
    OBVIOUS
  <2>1. /\ <<>> \in Seq(Emitted) /\ <<>> \in Seq(ToHostMessage)
        /\ <<>> \in Seq(Decision \cup Event)
        /\ Len(<<>>) = 0
    BY EmptySeq
  <2>2. /\ inChannel \in [Guest -> Seq(Emitted)]
        /\ view \in [Guest -> Seq(Emitted)]
        /\ lost \in [Guest -> SUBSET Emitted]
        /\ guests \in [Guest -> {"away", "waiting", "admitted", "rejected", "left"}]
    BY <2>1 DEF RelayInit
  <2>3. RelayTypeOK
    <3>1. 0 \in 0 .. MaxBreaks /\ 0 \in 0 .. MaxEmits /\ 0 <= MaxHistory
      BY RelayAssumption
    <3>2. history \in Seq(Emitted) /\ Len(history) <= MaxHistory
      BY <2>1, <3>1 DEF RelayInit
    <3>3. QED
      BY <2>1, <2>2, <3>1, <3>2 DEF RelayInit, RelayTypeOK
  <2>4. QED
    BY <2>1, <2>3 DEF RelayInit, RelayInv, SeesByRight, ApprovedByHost
<1>2. RelayInv /\ [RelayNext]_relayVars => RelayInv'
  BY RelayTypeStep, RightStep, ApprovalStep DEF RelayInv
<1>3. QED
  BY <1>1, <1>2, PTL DEF RelaySpec

\* The variables have their types: the history keeps to its limit.
THEOREM RelayTypeCorrect == RelaySpec => []RelayTypeOK
BY RelayInvariant, PTL DEF RelayInv

\* A guest that had to wait is shown events, or is given a channel, only after
\* the host has approved it (the relay's handlers, resolveJoin, the transport).
THEOREM EntitledTheorem == RelaySpec => []OnlyTheEntitledSee
<1>1. RelayInv => OnlyTheEntitledSee
  BY DEF RelayInv, SeesByRight, OnlyTheEntitledSee
<1>2. QED
  BY RelayInvariant, <1>1, PTL

LEMMA SeenInvariant == RelaySpec => []SeenInv
<1>1. RelayInit => SeenInv
  <2> SUFFICES ASSUME RelayInit PROVE SeenInv
    OBVIOUS
  <2>1. /\ toHost = <<>> /\ toRelay = <<>> /\ pendingJoins = {} /\ channel = {}
        /\ history = <<>> /\ guests = [g \in Guest |-> "away"]
        /\ \A g \in Guest : view[g] = <<>> /\ inChannel[g] = <<>>
    BY DEF RelayInit
  <2>2. Sent = {} /\ \A g \in Guest : AskedAt(g) = {} /\ DecidedAt(g) = {}
    BY <2>1, EmptySeq DEF Sent, AskedAt, DecidedAt
  <2>3. /\ Elems(history) = {} /\ Distinct(history)
        /\ \A g \in Guest : /\ Elems(view[g]) = {} /\ Distinct(view[g])
                            /\ Elems(inChannel[g]) = {} /\ Distinct(inChannel[g])
    BY <2>1, NoElems
  <2>4. AsksOnce /\ WaitsEmptyHanded
    BY <2>1, <2>2 DEF AsksOnce, WaitsEmptyHanded
  <2>5. EventsAreNew /\ InHandOnce /\ ExceptedHaveIt /\ NothingMissed
    BY <2>2, <2>3 DEF EventsAreNew, InHandOnce, InHand, ExceptedHaveIt, NothingMissed
  <2>6. QED
    BY <2>4, <2>5 DEF SeenInv
<1>2. RelayTypeOK /\ SeenInv /\ [RelayNext]_relayVars => SeenInv'
  <2> SUFFICES ASSUME RelayTypeOK, SeenInv, [RelayNext]_relayVars PROVE SeenInv'
    OBVIOUS
  <2>1. AsksOnce /\ WaitsEmptyHanded
    BY DEF SeenInv
  <2>2. AsksOnce' /\ WaitsEmptyHanded'
    BY <2>1, AskStep, EmptyHandedStep
  <2>3. EventsAreNew' /\ InHandOnce' /\ ExceptedHaveIt' /\ NothingMissed'
    BY SeenStep
  <2>4. QED
    BY <2>2, <2>3 DEF SeenInv
<1>3. QED
  BY <1>1, <1>2, RelayTypeCorrect, PTL DEF RelaySpec

\* A guest is shown no event twice, whether it comes with the history, over the
\* relay or over a peer channel, and an admitted guest has, will have, or lost
\* with a channel each event of the history (the relay's except list).
THEOREM SeenOnceTheorem == RelaySpec => []GuestsSeeEachEventOnce
<1>1. SeenInv => GuestsSeeEachEventOnce
  BY DEF SeenInv, InHandOnce, NothingMissed, InHand, Distinct, GuestsSeeEachEventOnce
<1>2. QED
  BY SeenInvariant, <1>1, PTL
=============================================================================
