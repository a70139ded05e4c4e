-------------------------- MODULE StreamCoalescer --------------------------
(***************************************************************************)
(* The way of a live event from its publisher to the clients: the broker   *)
(* (pubsub.ts), the loop that reads it (ws/broker.ts) and the coalescer    *)
(* that merges text chunks (ws/stream-coalescer.ts).                       *)
(*                                                                         *)
(* An event is the place of its publication.  Its key is the session, type *)
(* and agent of a text chunk, which is merged with the chunks of the same  *)
(* key before it, or Plain.  A merged message is the sequence of the       *)
(* chunks whose text it joins.  A Direct event is one that a route sends   *)
(* to the clients itself, past the broker.  Truncated tool output and the  *)
(* choice of the clients (LiveSocket) are left out.                        *)
(***************************************************************************)
EXTENDS Naturals, Sequences

CONSTANTS
    Key,         \* session, type and agent of text chunks
    Plain,       \* the key of any other event
    Direct,      \* the key of an event sent past the broker
    MaxEvents    \* bound: how many events are published

ASSUME CoalescerAssumption ==
    /\ Plain \notin Key
    /\ Direct \notin Key \cup {Plain}
    /\ MaxEvents \in Nat

VARIABLES
    keyOf,       \* the keys of the events published
    stream,      \* the broker's stream to the loop
    brokerOpen,  \* the broker has not been shut down
    looping,     \* the loop reads
    held,        \* pending: the chunks held back for a key
    heldOrder,   \* the order in which pending got its keys
    armed,       \* the keys whose flush timer runs
    sent         \* the events sent, in order

chanVars == <<keyOf, stream, brokerOpen, looping, held, heldOrder, armed, sent>>

Published == 1 .. Len(keyOf)

ChanTypeOK ==
    /\ Len(keyOf) <= MaxEvents
    /\ \A n \in Published : keyOf[n] \in Key \cup {Plain, Direct}
    /\ \A i \in 1 .. Len(stream) : stream[i] \in Published
    /\ brokerOpen \in BOOLEAN
    /\ looping \in BOOLEAN
    /\ DOMAIN held = Key
    /\ \A k \in Key : \A i \in 1 .. Len(held[k]) : held[k][i] \in Published
    /\ \A i \in 1 .. Len(heldOrder) : heldOrder[i] \in Key
    /\ armed \subseteq Key
    /\ \A i \in 1 .. Len(sent) : sent[i] \in Published

ChanInit ==
    /\ keyOf = <<>>
    /\ stream = <<>>
    /\ brokerOpen = TRUE
    /\ looping = TRUE
    /\ held = [k \in Key |-> <<>>]
    /\ heldOrder = <<>>
    /\ armed = {}
    /\ sent = <<>>

-----------------------------------------------------------------------------
\* Broker.publish: after the shutdown there is no subscriber.
Publish(k) ==
    /\ Len(keyOf) < MaxEvents
    /\ keyOf' = Append(keyOf, k)
    /\ stream' = IF brokerOpen THEN Append(stream, Len(keyOf) + 1) ELSE stream
    /\ UNCHANGED <<brokerOpen, looping, held, heldOrder, armed, sent>>

\* wsManager.broadcastToSession called by a route.
SendDirect ==
    /\ Len(keyOf) < MaxEvents
    /\ keyOf' = Append(keyOf, Direct)
    /\ sent' = Append(sent, Len(keyOf) + 1)
    /\ UNCHANGED <<stream, brokerOpen, looping, held, heldOrder, armed>>

\* What the chunks held for the first n keys amount to, one after another.
FlushedTo[n \in 0 .. Len(heldOrder)] ==
    IF n = 0 THEN <<>> ELSE FlushedTo[n - 1] \o held[heldOrder[n]]

Flushed == FlushedTo[Len(heldOrder)]

FlushAll ==
    /\ held' = [k \in Key |-> <<>>]
    /\ heldOrder' = <<>>
    /\ armed' = {}

\* Variant: the text before a plain event stays where it is.
EnqueuePlain_KeepsHeld(n) ==
    /\ sent' = Append(sent, n)
    /\ UNCHANGED <<held, heldOrder, armed>>

EnqueuePlain(n) ==
    /\ sent' = sent \o Flushed \o <<n>>
    /\ FlushAll

\* Variant: a chunk that is merged stops the timer and starts no new one.
EnqueueChunk_Disarms(n, k) ==
    /\ held' = [held EXCEPT ![k] = Append(@, n)]
    /\ IF held[k] = <<>>
         THEN heldOrder' = Append(heldOrder, k) /\ armed' = armed \cup {k}
         ELSE armed' = armed \ {k} /\ UNCHANGED heldOrder
    /\ UNCHANGED sent

\* A chunk joins the ones of its key and starts their timer anew.
EnqueueChunk(n, k) ==
    /\ held' = [held EXCEPT ![k] = Append(@, n)]
    /\ heldOrder' = IF held[k] = <<>> THEN Append(heldOrder, k) ELSE heldOrder
    /\ armed' = armed \cup {k}
    /\ UNCHANGED sent

\* The loop takes the next event: StreamCoalescer.enqueue.
ReadEvent ==
    /\ looping
    /\ stream # <<>>
    /\ LET n == Head(stream) IN
         IF keyOf[n] \in Key THEN EnqueueChunk(n, keyOf[n]) ELSE EnqueuePlain(n)
    /\ stream' = Tail(stream)
    /\ UNCHANGED <<keyOf, brokerOpen, looping>>

\* The order of pending without one of its keys.
OrderWithout(k) ==
    LET at == CHOOSE i \in 1 .. Len(heldOrder) : heldOrder[i] = k
    IN  [i \in 1 .. Len(heldOrder) - 1 |-> heldOrder[IF i < at THEN i ELSE i + 1]]

\* The timer of a key fires, 50 ms after its last chunk: flush.
FlushTimer(k) ==
    /\ k \in armed
    /\ armed' = armed \ {k}
    /\ sent' = sent \o held[k]
    /\ held' = [held EXCEPT ![k] = <<>>]
    /\ heldOrder' = OrderWithout(k)
    /\ UNCHANGED <<keyOf, stream, brokerOpen, looping>>

\* Broker.shutdown closes the stream, whose events can still be read.
ShutdownBroker ==
    /\ brokerOpen
    /\ brokerOpen' = FALSE
    /\ UNCHANGED <<keyOf, stream, looping, held, heldOrder, armed, sent>>

\* The loop has read all: dispose.
LoopEnds ==
    /\ looping
    /\ ~ brokerOpen
    /\ stream = <<>>
    /\ looping' = FALSE
    /\ sent' = sent \o Flushed
    /\ FlushAll
    /\ UNCHANGED <<keyOf, stream, brokerOpen>>

ChanNext ==
    \/ \E k \in Key \cup {Plain} : Publish(k)
    \/ SendDirect
    \/ ReadEvent
    \/ \E k \in Key : FlushTimer(k)
    \/ ShutdownBroker
    \/ LoopEnds

ChanSpec == ChanInit /\ [][ChanNext]_chanVars

\* The loop reads on and timers fire.
ChanFairness == WF_chanVars(ReadEvent) /\ \A k \in Key : WF_chanVars(FlushTimer(k))

-----------------------------------------------------------------------------
(* Properties *)

\* Whether an event must not be overtaken by a later one: text of one agent
\* keeps its order, and nothing that went through the broker passes a plain
\* event or is passed by one (a tool call, the end of a turn), although text
\* is held back (enqueue, flushAll).
MustPrecede(m, n) ==
    /\ m < n
    /\ Direct \notin {keyOf[m], keyOf[n]}
    /\ keyOf[m] = keyOf[n] \/ Plain \in {keyOf[m], keyOf[n]}

\* Events are sent once, and each after those that must precede it.
SentOnceInOrder ==
    \A j \in 1 .. Len(sent) :
        /\ \A i \in 1 .. j - 1 : sent[i] # sent[j]
        /\ \A m \in Published :
             MustPrecede(m, sent[j]) => \E i \in 1 .. j - 1 : sent[i] = m

\* Text is not held for ever: what enters the stream is sent (FLUSH_MS).
StreamIsSent ==
    \A n \in 1 .. MaxEvents :
        (\E i \in 1 .. Len(stream) : stream[i] = n)
            ~> \E i \in 1 .. Len(sent) : sent[i] = n
=============================================================================
