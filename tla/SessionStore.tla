---------------------------- MODULE SessionStore ----------------------------
(***************************************************************************)
(* The session store of src/src/backend/store.zag: a list of sessions held *)
(* in memory, one file (sessions.json) that holds the saved list, and one  *)
(* file per session (messages/<id>.json) that holds its message history.   *)
(*                                                                         *)
(* Every operation runs to completion on the one application thread, but   *)
(* it leaves the store through SEVERAL file operations, each of which is   *)
(* atomic on its own (a temporary file renamed into place) and each of     *)
(* which may fail without the caller noticing.  The model therefore        *)
(* changes the memory in one step and queues the file operations in        *)
(* "writes"; they reach the disk one by one, and the process may die       *)
(* before any of them.  No other operation starts while the queue is not   *)
(* empty, because the thread that would run it is still in the handler.    *)
(*                                                                         *)
(* Titles, times, versions, token counts and costs are left out: no        *)
(* control depends on them.  A message is its role and its text.           *)
(***************************************************************************)
EXTENDS Integers, Sequences

CONSTANTS
    SessionId,    \* session ids that util_nanoid may hand out
    Text,         \* nonempty message texts
    Imported,     \* histories a migrated data directory may start with
    NoFile,       \* a messages/<id>.json that does not exist
    MaxMessages,  \* bound: longest history the model explores
    MaxFailures,  \* bound: file operations that fail
    MaxTorn       \* bound: times the process dies in the middle of a handler

Message == [role : {"user", "assistant"}, text : Text]

ASSUME StoreAssumption ==
    /\ Imported \subseteq Seq(Message)
    /\ NoFile \notin Seq(Message)
    /\ MaxMessages \in Nat
    /\ MaxFailures \in Nat
    /\ MaxTorn \in Nat

VARIABLES
    sessions,      \* Store.sessions: the in-memory list
    sessionsFile,  \* what sessions.json holds
    messages,      \* what each messages/<id>.json holds
    writes,        \* file operations the running handler has still to issue
    created,       \* ids handed out so far (an id is never handed out twice)
    failures,      \* file operations that have failed
    torn           \* handlers cut short by the death of the process

storeVars == <<sessions, sessionsFile, messages, writes, created, failures, torn>>

-----------------------------------------------------------------------------
Session == [id : SessionId, count : Int]

Save == [op |-> "save"]
Seed(id) == [op |-> "seed", id |-> id]
AppendTo(id, msg) == [op |-> "append", id |-> id, msg |-> msg]
Unlink(id) == [op |-> "unlink", id |-> id]

Write == {Save}
         \cup {Seed(id) : id \in SessionId}
         \cup {AppendTo(id, msg) : id \in SessionId, msg \in Message}
         \cup {Unlink(id) : id \in SessionId}

Listed(list) == {list[i].id : i \in DOMAIN list}

\* What a reader of messages/<id>.json is given: a missing file reads as "[]".
History(id) == IF messages[id] = NoFile THEN <<>> ELSE messages[id]

\* The handler that ran last has returned to the event loop.
Idle == writes = <<>>

\* The list without its i-th entry: later entries move down by one.
Without(list, i) ==
    [k \in 1 .. Len(list) - 1 |-> IF k < i THEN list[k] ELSE list[k + 1]]

\* store_find scans from the front and returns the first match.
Finds(i, id) == /\ sessions[i].id = id
                /\ \A j \in DOMAIN sessions : j < i => sessions[j].id # id

Counted(i, change) == [sessions EXCEPT ![i].count = @ + change]

\* An exact trailing user/assistant pair.
Regenerable(h) == /\ Len(h) >= 2
                  /\ h[Len(h) - 1].role = "user"
                  /\ h[Len(h)].role = "assistant"

-----------------------------------------------------------------------------
StoreInit ==
    /\ \/ /\ sessions = <<>>
          /\ messages = [id \in SessionId |-> NoFile]
          /\ created = {}
       \/ \E id \in SessionId, h \in Imported :
             /\ sessions = <<[id |-> id, count |-> Len(h)]>>
             /\ messages = [s \in SessionId |-> IF s = id THEN h ELSE NoFile]
             /\ created = {id}
    /\ sessionsFile = sessions
    /\ writes = <<>>
    /\ failures = 0
    /\ torn = 0

\* Variant: freshness is looked up in the file instead of guaranteed.
CreateSession_UnsavedForgotten(id) ==
    /\ Idle
    /\ id \notin Listed(sessionsFile)
    /\ sessions' = Append(sessions, [id |-> id, count |-> 0])
    /\ created' = created \cup {id}
    /\ writes' = <<Save, Seed(id)>>
    /\ UNCHANGED <<sessionsFile, messages, failures, torn>>

CreateSession(id) ==
    /\ Idle
    /\ id \notin created
    /\ sessions' = Append(sessions, [id |-> id, count |-> 0])
    /\ created' = created \cup {id}
    /\ writes' = <<Save, Seed(id)>>
    /\ UNCHANGED <<sessionsFile, messages, failures, torn>>

\* Variant: the history is unlinked before the list is saved.
DeleteSession_UnlinkFirst(id) ==
    /\ Idle
    /\ \E i \in DOMAIN sessions :
          /\ sessions[i].id = id
          /\ sessions' = Without(sessions, i)
    /\ writes' = <<Unlink(id), Save>>
    /\ UNCHANGED <<sessionsFile, messages, created, failures, torn>>

\* Variant: the shortened list is not saved.
DeleteSession_Unsaved(id) ==
    /\ Idle
    /\ \E i \in DOMAIN sessions :
          /\ sessions[i].id = id
          /\ sessions' = Without(sessions, i)
    /\ writes' = <<Unlink(id)>>
    /\ UNCHANGED <<sessionsFile, messages, created, failures, torn>>

\* The scan keeps the last match; the rest of the list is shifted over it.
DeleteSession(id) ==
    /\ Idle
    /\ \E i \in DOMAIN sessions :
          /\ sessions[i].id = id
          /\ \A j \in DOMAIN sessions : j > i => sessions[j].id # id
          /\ sessions' = Without(sessions, i)
    /\ writes' = <<Save, Unlink(id)>>
    /\ UNCHANGED <<sessionsFile, messages, created, failures, torn>>

RenameSession(id) ==
    /\ Idle
    /\ id \in Listed(sessions)
    /\ writes' = <<Save>>
    /\ UNCHANGED <<sessions, sessionsFile, messages, created, failures, torn>>

\* Variant: role and text change places among the arguments of message_json.
AppendMessage_Swapped(id, role, text) ==
    /\ Idle
    /\ Len(History(id)) < MaxMessages
    /\ \E i \in DOMAIN sessions : /\ Finds(i, id)
                                  /\ sessions' = Counted(i, 1)
    /\ writes' = <<AppendTo(id, [role |-> text, text |-> role]), Save>>
    /\ UNCHANGED <<sessionsFile, messages, created, failures, torn>>

\* The message is written first, the count in sessions.json afterwards.
AppendMessage(id, role, text) ==
    /\ Idle
    /\ Len(History(id)) < MaxMessages
    /\ \E i \in DOMAIN sessions : /\ Finds(i, id)
                                  /\ sessions' = Counted(i, 1)
    /\ writes' = <<AppendTo(id, [role |-> role, text |-> text]), Save>>
    /\ UNCHANGED <<sessionsFile, messages, created, failures, torn>>

\* Variant: the retracted answer is still counted.
Regenerate_StillCounted(id) ==
    /\ Idle
    /\ Regenerable(History(id))
    /\ id \in Listed(sessions)
    /\ messages' = [messages EXCEPT
                      ![id] = SubSeq(History(id), 1, Len(History(id)) - 1)]
    /\ writes' = <<Save>>
    /\ UNCHANGED <<sessions, sessionsFile, created, failures, torn>>

\* Variant: the prompt is retracted together with its answer.
Regenerate_DropsPrompt(id) ==
    /\ Idle
    /\ Regenerable(History(id))
    /\ \E i \in DOMAIN sessions : /\ Finds(i, id)
                                  /\ sessions' = Counted(i, -1)
    /\ messages' = [messages EXCEPT
                      ![id] = SubSeq(History(id), 1, Len(History(id)) - 2)]
    /\ writes' = <<Save>>
    /\ UNCHANGED <<sessionsFile, created, failures, torn>>

\* The one write whose result is looked at: the history without its last
\* answer replaces the file before the memory changes.
Regenerate(id) ==
    /\ Idle
    /\ Regenerable(History(id))
    /\ \E i \in DOMAIN sessions : /\ Finds(i, id)
                                  /\ sessions' = Counted(i, -1)
    /\ messages' = [messages EXCEPT
                      ![id] = SubSeq(History(id), 1, Len(History(id)) - 1)]
    /\ writes' = <<Save>>
    /\ UNCHANGED <<sessionsFile, created, failures, torn>>

\* The replacement could not be written; the caller gives up.
RegenerateFails(id) ==
    /\ Idle
    /\ Regenerable(History(id))
    /\ failures < MaxFailures
    /\ failures' = failures + 1
    /\ UNCHANGED <<sessions, sessionsFile, messages, writes, created, torn>>

-----------------------------------------------------------------------------
\* The file operations of the running handler, in the order it issues them.
NextIs(op) == writes # <<>> /\ Head(writes).op = op

SaveSessions ==
    /\ NextIs("save")
    /\ sessionsFile' = sessions
    /\ writes' = Tail(writes)
    /\ UNCHANGED <<sessions, messages, created, failures, torn>>

SeedMessages ==
    /\ NextIs("seed")
    /\ messages' = [messages EXCEPT ![Head(writes).id] = <<>>]
    /\ writes' = Tail(writes)
    /\ UNCHANGED <<sessions, sessionsFile, created, failures, torn>>

WriteMessage ==
    /\ NextIs("append")
    /\ LET w == Head(writes)
       IN messages' = [messages EXCEPT ![w.id] = Append(History(w.id), w.msg)]
    /\ writes' = Tail(writes)
    /\ UNCHANGED <<sessions, sessionsFile, created, failures, torn>>

UnlinkMessages ==
    /\ NextIs("unlink")
    /\ messages' = [messages EXCEPT ![Head(writes).id] = NoFile]
    /\ writes' = Tail(writes)
    /\ UNCHANGED <<sessions, sessionsFile, created, failures, torn>>

\* A file operation fails and the handler, which ignores its result, goes on.
FailWrite ==
    /\ writes # <<>>
    /\ failures < MaxFailures
    /\ failures' = failures + 1
    /\ writes' = Tail(writes)
    /\ UNCHANGED <<sessions, sessionsFile, messages, created, torn>>

\* The read half of an append fails: the file reads as empty, and the new
\* message replaces the history.
AppendOverUnreadable ==
    /\ NextIs("append")
    /\ failures < MaxFailures
    /\ failures' = failures + 1
    /\ messages' = [messages EXCEPT ![Head(writes).id] = <<Head(writes).msg>>]
    /\ writes' = Tail(writes)
    /\ UNCHANGED <<sessions, sessionsFile, created, torn>>

\* The process ends, between two handlers or in the middle of one, and is
\* started again: store_open rebuilds the list from sessions.json.
Reopen(list) ==
    /\ Idle \/ torn < MaxTorn
    /\ torn' = IF Idle THEN torn ELSE torn + 1
    /\ sessions' = list
    /\ writes' = <<>>
    /\ UNCHANGED <<sessionsFile, messages, created>>

Restart == Reopen(sessionsFile) /\ UNCHANGED failures

\* sessions.json cannot be read at startup: the program goes on with no list.
RestartUnreadable ==
    /\ failures < MaxFailures
    /\ failures' = failures + 1
    /\ Reopen(<<>>)

-----------------------------------------------------------------------------
Disk == \/ SaveSessions \/ SeedMessages \/ WriteMessage \/ UnlinkMessages
        \/ FailWrite \/ AppendOverUnreadable

StoreNext ==
    \/ \E id \in SessionId :
          \/ CreateSession(id)
          \/ DeleteSession(id)
          \/ RenameSession(id)
          \/ Regenerate(id)
          \/ RegenerateFails(id)
          \/ \E role \in {"user", "assistant"}, text \in Text :
                AppendMessage(id, role, text)
    \/ Disk
    \/ Restart
    \/ RestartUnreadable

StoreSpec == StoreInit /\ [][StoreNext]_storeVars

-----------------------------------------------------------------------------
(* Properties *)

\* Type invariant: the lists, the files and the queue hold what their readers
\* in store.zag expect.
StoreTypeOK ==
    /\ sessions \in Seq(Session)
    /\ sessionsFile \in Seq(Session)
    /\ messages \in [SessionId -> Seq(Message) \cup {NoFile}]
    /\ writes \in Seq(Write)
    /\ created \subseteq SessionId
    /\ failures \in 0 .. MaxFailures
    /\ torn \in 0 .. MaxTorn

Distinct(list) ==
    \A i, j \in DOMAIN list : list[i].id = list[j].id => i = j

\* No id is listed twice, in memory or in sessions.json, whatever fails and
\* whenever the process dies: store_find returns the first match and
\* store_delete_session removes the last, so a duplicate would make the two
\* disagree about which session they mean.
UniqueIds == Distinct(sessions) /\ Distinct(sessionsFile)

\* How far a session's count is ahead of its history.
Drift(session) == session.count - Len(History(session.id))

Within(drift, bound) == -bound <= drift /\ drift <= bound

\* Messages of a running append that are counted but not yet in the file.
Pending(id) == IF /\ writes # <<>>
                  /\ Head(writes).op = "append"
                  /\ Head(writes).id = id
               THEN 1 ELSE 0

\* messageCount and the history agree, and drift by at most one for each
\* handler that a crash has cut between its two writes: store_append_message
\* and store_touch (or the commit of a regeneration and store_touch) write
\* two files and nothing reconciles them when the store is opened.
CountAccuracy ==
    failures = 0 =>
        \A i \in DOMAIN sessions :
            Within(Drift(sessions[i]) - Pending(sessions[i].id), torn)

\* When a handler has returned and no write failed, sessions.json holds what
\* the user sees: a crash while the program waits for input loses nothing.
IdleIsDurable == failures = 0 /\ Idle => sessionsFile = sessions

\* A messages file disappears only when sessions.json has stopped listing its
\* session (store_delete_session saves before it unlinks), so no crash leaves
\* a listed session whose history is gone.
HistoryOutlivesListing ==
    [][failures' = 0 =>
          \A id \in SessionId :
             messages[id] # NoFile /\ messages'[id] = NoFile =>
                id \notin Listed(sessionsFile)]_storeVars

\* While no write fails, a session the user was shown deleted is back in a list
\* only if the process died in that very deletion, before its history was
\* unlinked.  Memory, sessions.json and queue must agree about every other
\* session at every crash: a handler that returned without its save, or one that
\* issues it too late, gives itself away only restarts later.
DeletionIsFinal ==
    [][failures' = 0 =>
          \A id \in (created \ Listed(sessions)) \cap Listed(sessions') :
             \E k \in DOMAIN writes : writes[k] = Unlink(id)]_storeVars

-----------------------------------------------------------------------------
(* What the store promises *)

\* A conversation is what a program started now would show of a session: one
\* that sessions.json lists is live, one that was given up is gone.
DurablePhase == [id \in SessionId |->
    IF id \in Listed(sessionsFile) THEN "live"
    ELSE IF id \in created /\ id \notin Listed(sessions) THEN "gone"
    ELSE "never"]

DurableLog == [id \in SessionId |->
    IF id \in Listed(sessionsFile) THEN History(id) ELSE <<>>]

Durable == INSTANCE Conversations WITH
              Id <- SessionId, Msg <- Message, Start <- Imported,
              Answer <- {m \in Message : m.role = "assistant"},
              phase <- DurablePhase, log <- DurableLog

\* While no file operation fails, every step of the store, crashes included,
\* changes the durable conversations as Conversations allows or not at all.
KeepsConversations == Durable!ConvSpec
=============================================================================
