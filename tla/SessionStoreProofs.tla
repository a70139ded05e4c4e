------------------------- MODULE SessionStoreProofs -------------------------
(***************************************************************************)
(* Theorems about SessionStore, for every set of session ids and texts and *)
(* for every value of its bounds.                                          *)
(***************************************************************************)
EXTENDS SessionStore, SequenceTheorems, TLAPS

-----------------------------------------------------------------------------
(* Facts about the operators the store is built from *)

\* Removing one entry from a list keeps it a list of the same kind of entry,
\* one shorter, and every entry left was there before.
LEMMA WithoutProperties ==
    ASSUME NEW S, NEW list \in Seq(S), NEW i \in 1 .. Len(list)
    PROVE  /\ Without(list, i) \in Seq(S)
           /\ Len(Without(list, i)) = Len(list) - 1
           /\ \A k \in 1 .. Len(list) - 1 :
                Without(list, i)[k] = IF k < i THEN list[k] ELSE list[k + 1]
<1> DEFINE n == Len(list) - 1
           e(k) == IF k < i THEN list[k] ELSE list[k + 1]
<1>1. n \in Nat
  BY LenProperties
<1>2. \A k \in 1 .. n : e(k) \in S
  BY LenProperties
<1>3. Without(list, i) = [k \in 1 .. n |-> e(k)]
  BY DEF Without
<1>4. [k \in 1 .. n |-> e(k)] \in Seq(S)
  BY <1>1, <1>2, IsASeq
<1>5. QED
  BY <1>1, <1>3, <1>4, LenProperties

\* A history read from a well-typed store is a sequence of messages.
LEMMA HistoryType ==
    ASSUME messages \in [SessionId -> Seq(Message) \cup {NoFile}],
           NEW id \in SessionId
    PROVE  History(id) \in Seq(Message)
BY DEF History

\* Counting a message up or down leaves the list well typed and changes
\* neither its length nor any of its ids.
LEMMA CountedProperties ==
    ASSUME sessions \in Seq(Session), NEW i \in DOMAIN sessions,
           NEW change \in Int
    PROVE  /\ Counted(i, change) \in Seq(Session)
           /\ DOMAIN Counted(i, change) = DOMAIN sessions
           /\ \A j \in DOMAIN sessions :
                /\ Counted(i, change)[j].id = sessions[j].id
                /\ Counted(i, change)[j].count =
                      IF j = i THEN sessions[j].count + change
                               ELSE sessions[j].count
<1>1. DOMAIN sessions = 1 .. Len(sessions)
  BY LenProperties
<1>2. sessions[i] \in Session
  BY <1>1, ElementOfSeq
<1> DEFINE e == [sessions[i] EXCEPT !.count = @ + change]
<1>3. /\ e \in Session
      /\ e.id = sessions[i].id
      /\ e.count = sessions[i].count + change
  BY <1>2 DEF Session
<1>4. Counted(i, change) = [sessions EXCEPT ![i] = e]
  BY DEF Counted
<1> HIDE DEF e
<1>5. QED
  BY <1>1, <1>3, <1>4, ExceptSeq

-----------------------------------------------------------------------------
(* Type correctness *)

\* The initial states are well typed.
LEMMA TypeInit == StoreInit => StoreTypeOK
<1> SUFFICES ASSUME StoreInit PROVE StoreTypeOK
  OBVIOUS
<1> USE StoreAssumption
<1>1. CASE sessions = <<>> /\ messages = [id \in SessionId |-> NoFile] /\ created = {}
  BY <1>1 DEF StoreInit, StoreTypeOK
<1>2. ASSUME NEW id \in SessionId, NEW h \in Imported,
             sessions = <<[id |-> id, count |-> Len(h)]>>,
             messages = [s \in SessionId |-> IF s = id THEN h ELSE NoFile],
             created = {id}
      PROVE  StoreTypeOK
  <2>1. h \in Seq(Message) /\ Len(h) \in Nat
    BY LenProperties
  <2>2. sessions \in Seq(Session)
    BY <1>2, <2>1 DEF Session
  <2>3. messages \in [SessionId -> Seq(Message) \cup {NoFile}]
    BY <1>2, <2>1
  <2>4. QED
    BY <1>2, <2>2, <2>3 DEF StoreInit, StoreTypeOK
<1>3. QED
  BY <1>1, <1>2 DEF StoreInit

\* Every step keeps the store well typed.
LEMMA TypeStep == StoreTypeOK /\ [StoreNext]_storeVars => StoreTypeOK'
<1> SUFFICES ASSUME StoreTypeOK, [StoreNext]_storeVars
             PROVE  StoreTypeOK'
  OBVIOUS
<1> USE StoreAssumption
<1>1. ASSUME NEW id \in SessionId, CreateSession(id)
      PROVE  StoreTypeOK'
  <2>1. [id |-> id, count |-> 0] \in Session
    BY DEF Session
  <2>2. sessions' \in Seq(Session)
    BY <1>1, <2>1 DEF CreateSession, StoreTypeOK
  <2>3. writes' \in Seq(Write)
    BY <1>1 DEF CreateSession, Write
  <2>4. QED
    BY <1>1, <2>2, <2>3 DEF CreateSession, StoreTypeOK
<1>2. ASSUME NEW id \in SessionId, DeleteSession(id)
      PROVE  StoreTypeOK'
  <2>1. PICK i \in DOMAIN sessions : sessions' = Without(sessions, i)
    BY <1>2 DEF DeleteSession
  <2>2. i \in 1 .. Len(sessions)
    BY LenProperties DEF StoreTypeOK
  <2>3. sessions' \in Seq(Session)
    BY <2>1, <2>2, WithoutProperties DEF StoreTypeOK
  <2>4. writes' \in Seq(Write)
    BY <1>2 DEF DeleteSession, Write
  <2>5. QED
    BY <1>2, <2>3, <2>4 DEF DeleteSession, StoreTypeOK
<1>3. ASSUME NEW id \in SessionId, RenameSession(id)
      PROVE  StoreTypeOK'
  <2>1. writes' \in Seq(Write)
    BY <1>3 DEF RenameSession, Write
  <2>2. QED
    BY <1>3, <2>1 DEF RenameSession, StoreTypeOK
<1>4. ASSUME NEW id \in SessionId, Regenerate(id)
      PROVE  StoreTypeOK'
  <2>1. sessions' \in Seq(Session)
    BY <1>4, CountedProperties DEF Regenerate, StoreTypeOK
  <2>2. History(id) \in Seq(Message)
    BY HistoryType DEF StoreTypeOK
  <2>3. SubSeq(History(id), 1, Len(History(id)) - 1) \in Seq(Message)
    <3>1. Len(History(id)) \in Nat
      BY <2>2, LenProperties
    <3>2. \A k \in 1 .. Len(History(id)) - 1 : History(id)[k] \in Message
      BY <2>2, <3>1, ElementOfSeq
    <3>3. QED
      BY <3>1, <3>2, SubSeqProperties
  <2>4. writes' \in Seq(Write)
    BY <1>4 DEF Regenerate, Write
  <2>5. messages' \in [SessionId -> Seq(Message) \cup {NoFile}]
    BY <1>4, <2>3 DEF Regenerate, StoreTypeOK
  <2>6. QED
    BY <1>4, <2>1, <2>4, <2>5 DEF Regenerate, StoreTypeOK
<1>5. ASSUME NEW id \in SessionId, NEW role \in {"user", "assistant"},
             NEW text \in Text, AppendMessage(id, role, text)
      PROVE  StoreTypeOK'
  <2>1. sessions' \in Seq(Session)
    BY <1>5, CountedProperties DEF AppendMessage, StoreTypeOK
  <2>2. [role |-> role, text |-> text] \in Message
    BY DEF Message
  <2>3. writes' \in Seq(Write)
    BY <1>5, <2>2 DEF AppendMessage, Write
  <2>4. QED
    BY <1>5, <2>1, <2>3 DEF AppendMessage, StoreTypeOK
<1>6. ASSUME writes # <<>> PROVE Head(writes) \in Write /\ Tail(writes) \in Seq(Write)
  BY <1>6, HeadTailProperties DEF StoreTypeOK
<1>7. CASE SaveSessions
  BY <1>6, <1>7 DEF SaveSessions, NextIs, StoreTypeOK
<1>8. CASE SeedMessages
  <2>1. <<>> \in Seq(Message)
    OBVIOUS
  <2>2. QED
    BY <1>6, <1>8, <2>1 DEF SeedMessages, NextIs, StoreTypeOK
<1>9. ASSUME NextIs("append")
      PROVE  Head(writes).id \in SessionId /\ Head(writes).msg \in Message
  BY <1>6, <1>9 DEF NextIs, Write, Save, Seed, AppendTo, Unlink
<1>10. CASE WriteMessage
  <2>1. Append(History(Head(writes).id), Head(writes).msg) \in Seq(Message)
    BY <1>9, <1>10, HistoryType DEF WriteMessage, StoreTypeOK
  <2>2. QED
    BY <1>6, <1>10, <2>1 DEF WriteMessage, NextIs, StoreTypeOK
<1>11. CASE UnlinkMessages
  BY <1>6, <1>11 DEF UnlinkMessages, NextIs, StoreTypeOK
<1>12. CASE FailWrite
  BY <1>6, <1>12 DEF FailWrite, StoreTypeOK
<1>13. CASE AppendOverUnreadable
  <2>1. <<Head(writes).msg>> \in Seq(Message)
    BY <1>9, <1>13 DEF AppendOverUnreadable
  <2>2. messages' \in [SessionId -> Seq(Message) \cup {NoFile}]
    BY <1>13, <2>1 DEF AppendOverUnreadable, StoreTypeOK
  <2>3. failures' \in 0 .. MaxFailures
    BY <1>13 DEF AppendOverUnreadable, StoreTypeOK
  <2>4. QED
    BY <1>6, <1>13, <2>2, <2>3 DEF AppendOverUnreadable, NextIs, StoreTypeOK
<1>14. CASE Restart
  BY <1>14 DEF Restart, Reopen, Idle, StoreTypeOK
<1>15. CASE RestartUnreadable
  BY <1>15 DEF RestartUnreadable, Reopen, Idle, StoreTypeOK
<1>16. CASE UNCHANGED storeVars
  BY <1>16 DEF storeVars, StoreTypeOK
<1>17. ASSUME NEW id \in SessionId, RegenerateFails(id)
       PROVE  StoreTypeOK'
  BY <1>17 DEF RegenerateFails, StoreTypeOK
<1>18. QED
  BY <1>1, <1>2, <1>3, <1>4, <1>5, <1>7, <1>8, <1>10, <1>11, <1>12, <1>13,
     <1>14, <1>15, <1>16, <1>17 DEF StoreNext, Disk

\* Whatever the handlers, failed writes and restarts, the lists, the files and
\* the queue of file operations keep their types.
THEOREM TypeCorrect == StoreSpec => []StoreTypeOK
<1>1. QED
  BY TypeInit, TypeStep, PTL DEF StoreSpec

-----------------------------------------------------------------------------
(* The inductive invariant *)

\* No id is listed twice, and only ids that were handed out are listed.
Known(list) == \A i \in DOMAIN list : list[i].id \in created

ListsInv == /\ UniqueIds
            /\ Known(sessions)
            /\ Known(sessionsFile)

\* What is left of a handler's file operations, for each handler.
QueueInv ==
    \/ writes = <<>>
    \/ writes = <<Save>>
    \/ \E id \in created :
          /\ writes = <<Save, Seed(id)>> \/ writes = <<Seed(id)>>
          /\ History(id) = <<>>
    \/ \E id \in created :
          /\ writes = <<Save, Unlink(id)>> \/ writes = <<Unlink(id)>>
          /\ id \notin Listed(sessions)
    \/ \E id \in created, msg \in Message : writes = <<AppendTo(id, msg), Save>>

\* Nothing is written under an id before the id is handed out.
FreshInv == \A id \in SessionId \ created : History(id) = <<>>

\* A handler that has no save left to issue has issued it.
SavedInv ==
    failures = 0 /\ (\A k \in DOMAIN writes : writes[k].op # "save") =>
        sessionsFile = sessions

\* sessions.json is as accurate as the memory, except between the rewriting
\* of a history and the save that follows it.
Slack == IF writes = <<Save>> THEN 1 ELSE 0

FileAccuracy ==
    failures = 0 =>
        \A i \in DOMAIN sessionsFile :
            Within(Drift(sessionsFile[i]), torn + Slack)

StoreInv == /\ StoreTypeOK
            /\ ListsInv
            /\ QueueInv
            /\ FreshInv
            /\ SavedInv
            /\ CountAccuracy
            /\ FileAccuracy

-----------------------------------------------------------------------------
(* No id is listed twice *)

\* The initial states satisfy ListsInv.
LEMMA ListsInit == StoreInit => ListsInv
BY DEF StoreInit, ListsInv, UniqueIds, Distinct, Known

\* Every step preserves ListsInv: only CreateSession adds an id, and it adds
\* one that was never handed out; every other change of a list drops entries,
\* keeps their ids, or copies the other list.
LEMMA ListsStep ==
    StoreTypeOK /\ ListsInv /\ [StoreNext]_storeVars => ListsInv'
<1> SUFFICES ASSUME StoreTypeOK, ListsInv, [StoreNext]_storeVars
             PROVE  ListsInv'
  OBVIOUS
<1> USE DEF ListsInv, UniqueIds, Distinct, Known
<1>0. /\ DOMAIN sessions = 1 .. Len(sessions)
      /\ Len(sessions) \in Nat
  BY LenProperties DEF StoreTypeOK
<1>1. ASSUME NEW id \in SessionId, CreateSession(id)
      PROVE  ListsInv'
  <2> DEFINE e == [id |-> id, count |-> 0]
  <2>1. /\ Len(sessions') = Len(sessions) + 1
        /\ DOMAIN sessions' = 1 .. Len(sessions) + 1
        /\ \A k \in 1 .. Len(sessions) : sessions'[k] = sessions[k]
        /\ sessions'[Len(sessions) + 1] = e
    BY <1>1 DEF CreateSession, StoreTypeOK
  <2>2. \A k \in DOMAIN sessions : sessions[k].id # id
    BY <1>1 DEF CreateSession
  <2>3. \A k \in DOMAIN sessions' :
           \/ k \in DOMAIN sessions /\ sessions'[k].id = sessions[k].id
           \/ k = Len(sessions) + 1 /\ sessions'[k].id = id
    BY <1>0, <2>1
  <2>4. Distinct(sessions')
    BY <2>2, <2>3
  <2>5. Known(sessions)'
    BY <1>1, <2>3 DEF CreateSession
  <2>6. QED
    BY <1>1, <2>4, <2>5 DEF CreateSession
<1>2. ASSUME NEW id \in SessionId, DeleteSession(id)
      PROVE  ListsInv'
  <2>1. PICK i \in DOMAIN sessions : sessions' = Without(sessions, i)
    BY <1>2 DEF DeleteSession
  <2>2. /\ DOMAIN sessions' = 1 .. Len(sessions) - 1
        /\ \A k \in DOMAIN sessions' :
              sessions'[k] = IF k < i THEN sessions[k] ELSE sessions[k + 1]
    BY <2>1 DEF Without
  <2>3. Distinct(sessions')
    BY <1>0, <2>2
  <2>4. Known(sessions)'
    BY <1>0, <1>2, <2>2 DEF DeleteSession
  <2>5. QED
    BY <1>2, <2>3, <2>4 DEF DeleteSession
<1>3. ASSUME NEW id \in SessionId, RenameSession(id) \/ RegenerateFails(id)
      PROVE  ListsInv'
  BY <1>3 DEF RenameSession, RegenerateFails
<1>4. ASSUME NEW i \in DOMAIN sessions, NEW change \in Int,
             sessions' = Counted(i, change),
             UNCHANGED <<sessionsFile, created>>
      PROVE  ListsInv'
  <2>1. /\ DOMAIN sessions' = DOMAIN sessions
        /\ \A k \in DOMAIN sessions : sessions'[k].id = sessions[k].id
    BY <1>4, CountedProperties DEF StoreTypeOK
  <2>2. QED
    BY <1>4, <2>1
<1>5. ASSUME NEW id \in SessionId, Regenerate(id)
      PROVE  ListsInv'
  BY <1>4, <1>5 DEF Regenerate
<1>6. ASSUME NEW id \in SessionId, NEW role \in {"user", "assistant"},
             NEW text \in Text, AppendMessage(id, role, text)
      PROVE  ListsInv'
  BY <1>4, <1>6 DEF AppendMessage
<1>7. CASE Disk
  BY <1>7 DEF Disk, SaveSessions, SeedMessages, WriteMessage, UnlinkMessages,
              FailWrite, AppendOverUnreadable
<1>8. CASE Restart
  BY <1>8 DEF Restart, Reopen
<1>9. CASE RestartUnreadable
  BY <1>9 DEF RestartUnreadable, Reopen
<1>10. CASE UNCHANGED storeVars
  BY <1>10 DEF storeVars
<1>11. QED
  BY <1>1, <1>2, <1>3, <1>5, <1>6, <1>7, <1>8, <1>9, <1>10 DEF StoreNext

\* ListsInv is an invariant, and with it the property the runs check: no id is
\* ever listed twice, in memory or in sessions.json.
THEOREM IdsStayUnique == StoreSpec => []UniqueIds
<1>1. StoreSpec => [](StoreTypeOK /\ ListsInv)
  BY TypeInit, TypeStep, ListsInit, ListsStep, PTL DEF StoreSpec
<1>2. StoreTypeOK /\ ListsInv => UniqueIds
  BY DEF ListsInv
<1>3. QED
  BY <1>1, <1>2, PTL

-----------------------------------------------------------------------------
(* The queue of file operations *)

\* Each disk step takes the operation it is for from the front of the queue.
LEMMA QueueFront ==
    ASSUME QueueInv, writes # <<>>
    PROVE  \/ /\ writes = <<Save>>
              /\ Head(writes) = Save
              /\ Tail(writes) = <<>>
           \/ \E id \in created : /\ writes = <<Save, Seed(id)>>
                                  /\ Head(writes) = Save
                                  /\ Tail(writes) = <<Seed(id)>>
                                  /\ History(id) = <<>>
           \/ \E id \in created : /\ writes = <<Seed(id)>>
                                  /\ Head(writes) = Seed(id)
                                  /\ Tail(writes) = <<>>
                                  /\ History(id) = <<>>
           \/ \E id \in created : /\ writes = <<Save, Unlink(id)>>
                                  /\ Head(writes) = Save
                                  /\ Tail(writes) = <<Unlink(id)>>
                                  /\ id \notin Listed(sessions)
           \/ \E id \in created : /\ writes = <<Unlink(id)>>
                                  /\ Head(writes) = Unlink(id)
                                  /\ Tail(writes) = <<>>
                                  /\ id \notin Listed(sessions)
           \/ \E id \in created, msg \in Message :
                  /\ writes = <<AppendTo(id, msg), Save>>
                  /\ Head(writes) = AppendTo(id, msg)
                  /\ Tail(writes) = <<Save>>
<1>1. \A a : Head(<<a>>) = a /\ Tail(<<a>>) = <<>>
  OBVIOUS
<1>2. \A a, b : Head(<<a, b>>) = a /\ Tail(<<a, b>>) = <<b>>
  OBVIOUS
<1>3. QED
  <2>1. CASE writes = <<Save>>
    BY <1>1, <2>1
  <2>2. ASSUME NEW id \in created, History(id) = <<>>,
               writes = <<Save, Seed(id)>> \/ writes = <<Seed(id)>>
        PROVE  \/ /\ writes = <<Save, Seed(id)>>
                  /\ Head(writes) = Save
                  /\ Tail(writes) = <<Seed(id)>>
               \/ /\ writes = <<Seed(id)>>
                  /\ Head(writes) = Seed(id)
                  /\ Tail(writes) = <<>>
    BY <1>1, <1>2, <2>2
  <2>3. ASSUME NEW id \in created, id \notin Listed(sessions),
               writes = <<Save, Unlink(id)>> \/ writes = <<Unlink(id)>>
        PROVE  \/ /\ writes = <<Save, Unlink(id)>>
                  /\ Head(writes) = Save
                  /\ Tail(writes) = <<Unlink(id)>>
               \/ /\ writes = <<Unlink(id)>>
                  /\ Head(writes) = Unlink(id)
                  /\ Tail(writes) = <<>>
    BY <1>1, <1>2, <2>3
  <2>4. ASSUME NEW id \in created, NEW msg \in Message,
               writes = <<AppendTo(id, msg), Save>>
        PROVE  /\ Head(writes) = AppendTo(id, msg)
               /\ Tail(writes) = <<Save>>
    BY <1>2, <2>4
  <2>5. QED
    BY <2>1, <2>2, <2>3, <2>4, Zenon DEF QueueInv

\* The kinds of file operation differ.
LEMMA WriteOps ==
    /\ Save.op = "save"
    /\ \A id : Seed(id).op = "seed" /\ Seed(id).id = id
    /\ \A id : Unlink(id).op = "unlink" /\ Unlink(id).id = id
    /\ \A id, msg : /\ AppendTo(id, msg).op = "append"
                    /\ AppendTo(id, msg).id = id
                    /\ AppendTo(id, msg).msg = msg
BY DEF Save, Seed, Unlink, AppendTo

\* A list of operations is named by its length and its entries.
LEMMA QueueShapes ==
    /\ \A a : <<a>> # <<>> /\ DOMAIN <<a>> = {1} /\ <<a>>[1] = a
    /\ \A a, b : /\ <<a, b>> # <<>> /\ DOMAIN <<a, b>> = {1, 2}
                 /\ <<a, b>>[1] = a /\ <<a, b>>[2] = b
    /\ \A a, b, c : <<a>> # <<b, c>>
OBVIOUS

\* After a deletion the deleted id is listed no more: it was listed once.
LEMMA DeletedIsUnlisted ==
    ASSUME StoreTypeOK, UniqueIds, NEW i \in DOMAIN sessions,
           sessions' = Without(sessions, i)
    PROVE  sessions[i].id \notin Listed(sessions')
<1>1. /\ DOMAIN sessions = 1 .. Len(sessions)
      /\ Len(sessions) \in Nat
  BY LenProperties DEF StoreTypeOK
<1>2. \A k \in DOMAIN sessions' :
         \E j \in DOMAIN sessions : j # i /\ sessions'[k] = sessions[j]
  BY <1>1 DEF Without
<1>3. \A k \in DOMAIN sessions' : sessions'[k].id # sessions[i].id
  BY <1>2 DEF UniqueIds, Distinct
<1>4. QED
  BY <1>3 DEF Listed

\* A handler queues one of the shapes of QueueInv, and a disk step leaves the
\* rest of such a shape.
LEMMA QueueStep == StoreInv /\ [StoreNext]_storeVars => QueueInv'
<1> SUFFICES ASSUME StoreInv, [StoreNext]_storeVars
             PROVE  QueueInv'
  OBVIOUS
<1> USE DEF StoreInv
<1>1. ASSUME NEW id \in SessionId, CreateSession(id)
      PROVE  QueueInv'
  <2>1. History(id)' = <<>>
    BY <1>1 DEF CreateSession, FreshInv, History
  <2>2. id \in created' /\ writes' = <<Save, Seed(id)>>
    BY <1>1 DEF CreateSession
  <2>3. QED
    BY <2>1, <2>2, Zenon DEF QueueInv
<1>2. ASSUME NEW id \in SessionId, DeleteSession(id)
      PROVE  QueueInv'
  <2>1. PICK i \in DOMAIN sessions :
           sessions[i].id = id /\ sessions' = Without(sessions, i)
    BY <1>2 DEF DeleteSession
  <2>2. id \notin Listed(sessions')
    BY <2>1, DeletedIsUnlisted DEF ListsInv
  <2>3. id \in created' /\ writes' = <<Save, Unlink(id)>>
    BY <1>2, <2>1 DEF DeleteSession, ListsInv, Known
  <2>4. QED
    BY <2>2, <2>3, Zenon DEF QueueInv
<1>3. ASSUME NEW id \in SessionId, RenameSession(id) \/ Regenerate(id)
      PROVE  QueueInv'
  BY <1>3 DEF RenameSession, Regenerate, QueueInv
<1>4. ASSUME NEW id \in SessionId, NEW role \in {"user", "assistant"},
             NEW text \in Text, AppendMessage(id, role, text)
      PROVE  QueueInv'
  <2>1. id \in created'
    BY <1>4 DEF AppendMessage, Finds, ListsInv, Known
  <2>2. [role |-> role, text |-> text] \in Message
    BY DEF Message
  <2>3. writes' = <<AppendTo(id, [role |-> role, text |-> text]), Save>>
    BY <1>4 DEF AppendMessage
  <2>4. QED
    BY <2>1, <2>2, <2>3, Zenon DEF QueueInv
<1>5. CASE Disk
  <2>0. /\ writes # <<>>
        /\ writes' = Tail(writes)
        /\ created' = created
        /\ sessions' = sessions
    BY <1>5 DEF Disk, SaveSessions, SeedMessages, WriteMessage,
                UnlinkMessages, FailWrite, AppendOverUnreadable, NextIs
  <2>1. CASE Tail(writes) = <<>> \/ Tail(writes) = <<Save>>
    BY <2>0, <2>1 DEF QueueInv
  <2>2. ASSUME NEW id \in created, writes = <<Save, Seed(id)>>,
               Head(writes) = Save, Tail(writes) = <<Seed(id)>>,
               History(id) = <<>>
        PROVE  QueueInv'
    <3>1. ~ NextIs("seed") /\ ~ NextIs("append") /\ ~ NextIs("unlink")
      BY <2>2, WriteOps DEF NextIs
    <3>2. messages' = messages
      BY <1>5, <3>1 DEF Disk, SaveSessions, SeedMessages, WriteMessage,
                        UnlinkMessages, FailWrite, AppendOverUnreadable
    <3>3. History(id)' = <<>>
      BY <2>2, <3>2 DEF History
    <3>4. id \in created' /\ writes' = <<Seed(id)>>
      BY <2>0, <2>2
    <3>5. QED
      BY <3>3, <3>4, Zenon DEF QueueInv
  <2>3. ASSUME NEW id \in created, writes = <<Save, Unlink(id)>>,
               Tail(writes) = <<Unlink(id)>>, id \notin Listed(sessions)
        PROVE  QueueInv'
    <3>1. /\ id \in created'
          /\ writes' = <<Unlink(id)>>
          /\ id \notin Listed(sessions')
      BY <2>0, <2>3
    <3>2. QED
      BY <3>1, Zenon DEF QueueInv
  <2>4. QED
    BY <2>0, <2>1, <2>2, <2>3, QueueFront
<1>6. CASE Restart \/ RestartUnreadable
  BY <1>6 DEF Restart, RestartUnreadable, Reopen, QueueInv
<1>7. CASE UNCHANGED storeVars
  BY <1>7 DEF storeVars, QueueInv, History
<1>8. ASSUME NEW id \in SessionId, RegenerateFails(id)
      PROVE  QueueInv'
  BY <1>8 DEF RegenerateFails, Idle, QueueInv
<1>9. QED
  BY <1>1, <1>2, <1>3, <1>4, <1>5, <1>6, <1>7, <1>8 DEF StoreNext

\* Only histories of ids that were handed out are written.
LEMMA FreshStep == StoreInv /\ [StoreNext]_storeVars => FreshInv'
<1> SUFFICES ASSUME StoreInv, [StoreNext]_storeVars
             PROVE  FreshInv'
  OBVIOUS
<1> USE DEF StoreInv
<1>0. created \subseteq created'
  BY DEF StoreNext, storeVars, CreateSession, DeleteSession, RenameSession,
         Regenerate, RegenerateFails, AppendMessage, Disk, SaveSessions,
         SeedMessages, WriteMessage, UnlinkMessages, FailWrite, AppendOverUnreadable,
         Restart, RestartUnreadable, Reopen
<1>1. CASE messages' = messages
  BY <1>0, <1>1 DEF FreshInv, History
<1>2. ASSUME NEW id \in created, NEW file,
             messages' = [messages EXCEPT ![id] = file]
      PROVE  FreshInv'
  BY <1>0, <1>2 DEF FreshInv, History, StoreTypeOK
<1>3. ASSUME NEW id \in SessionId, Regenerate(id)
      PROVE  FreshInv'
  <2>1. id \in created
    BY <1>3 DEF Regenerate, Finds, ListsInv, Known
  <2>2. QED
    BY <1>2, <1>3, <2>1 DEF Regenerate
<1>4. NextIs("seed") \/ NextIs("append") \/ NextIs("unlink") =>
         Head(writes).id \in created
  BY QueueFront, WriteOps DEF NextIs
<1>5. CASE SeedMessages \/ WriteMessage \/ UnlinkMessages \/ AppendOverUnreadable
  BY <1>2, <1>4, <1>5 DEF SeedMessages, WriteMessage, UnlinkMessages,
                          AppendOverUnreadable
<1>6. CASE SaveSessions \/ FailWrite \/ Restart \/ RestartUnreadable \/ UNCHANGED storeVars
  BY <1>1, <1>6 DEF SaveSessions, FailWrite, Restart, RestartUnreadable,
                    Reopen, storeVars
<1>7. ASSUME NEW id \in SessionId,
             \/ CreateSession(id) \/ DeleteSession(id) \/ RenameSession(id)
             \/ RegenerateFails(id)
             \/ \E role \in {"user", "assistant"}, text \in Text :
                   AppendMessage(id, role, text)
      PROVE  FreshInv'
  BY <1>1, <1>7 DEF CreateSession, DeleteSession, RenameSession,
                    RegenerateFails, AppendMessage
<1>8. QED
  BY <1>3, <1>5, <1>6, <1>7 DEF StoreNext, Disk

\* Every handler ends with sessions.json equal to the memory: it queues a save
\* after its last change of the memory.
LEMMA SavedStep == StoreInv /\ [StoreNext]_storeVars => SavedInv'
<1> SUFFICES ASSUME StoreInv, [StoreNext]_storeVars,
                    failures' = 0, \A k \in DOMAIN writes' : writes'[k].op # "save"
             PROVE  sessionsFile' = sessions'
  BY DEF SavedInv
<1> USE DEF StoreInv
<1>0. failures \in Nat
  BY DEF StoreTypeOK
<1>1. ASSUME NEW w, writes' = <<Save>> \/ writes' = <<Save, w>> \/ writes' = <<w, Save>>
      PROVE  FALSE
  <2>1. PICK k \in DOMAIN writes' : writes'[k] = Save
    BY <1>1, QueueShapes
  <2>2. QED
    BY <2>1, WriteOps
<1>2. ASSUME NEW id \in SessionId,
             \/ CreateSession(id) \/ DeleteSession(id)
             \/ RenameSession(id) \/ Regenerate(id)
             \/ \E role \in {"user", "assistant"}, text \in Text :
                   AppendMessage(id, role, text)
      PROVE  sessionsFile' = sessions'
  BY <1>1, <1>2 DEF CreateSession, DeleteSession, RenameSession, Regenerate,
                    AppendMessage
<1>3. CASE SaveSessions \/ Restart
  BY <1>3 DEF SaveSessions, Restart, Reopen
<1>4. CASE WriteMessage
  <2>1. writes' = <<Save>>
    BY <1>4, QueueFront, WriteOps DEF WriteMessage, NextIs
  <2>2. QED
    BY <1>1, <2>1
<1>5. CASE SeedMessages \/ UnlinkMessages
  <2>1. PICK w : writes = <<w>> /\ w.op # "save"
    BY <1>5, QueueFront, WriteOps DEF SeedMessages, UnlinkMessages, NextIs
  <2>2. \A k \in DOMAIN writes : writes[k].op # "save"
    BY <2>1, QueueShapes
  <2>3. QED
    BY <1>5, <2>2 DEF SavedInv, SeedMessages, UnlinkMessages
<1>6. CASE FailWrite \/ AppendOverUnreadable \/ RestartUnreadable
  BY <1>0, <1>6 DEF FailWrite, AppendOverUnreadable, RestartUnreadable
<1>7. CASE UNCHANGED storeVars
  BY <1>7 DEF storeVars, SavedInv
<1>8. ASSUME NEW id \in SessionId, RegenerateFails(id)
      PROVE  sessionsFile' = sessions'
  BY <1>0, <1>8 DEF RegenerateFails
<1>9. QED
  BY <1>2, <1>3, <1>4, <1>5, <1>6, <1>7, <1>8 DEF StoreNext, Disk

\* A message is pending only while its append is at the front of the queue.
LEMMA PendingOnlyAppend ==
    ASSUME NEW id, writes = <<>> \/ Head(writes).op # "append" \/ Head(writes).id # id
    PROVE  Pending(id) = 0
BY DEF Pending

\* Drift is a number wherever it is taken.
LEMMA DriftType ==
    ASSUME StoreTypeOK
    PROVE  /\ torn \in Nat
           /\ \A id \in SessionId : Len(History(id)) \in Nat
           /\ \A i \in DOMAIN sessions : /\ sessions[i] \in Session
                                         /\ Drift(sessions[i]) \in Int
           /\ \A i \in DOMAIN sessionsFile : /\ sessionsFile[i] \in Session
                                             /\ Drift(sessionsFile[i]) \in Int
<1>1. torn \in Nat
  BY DEF StoreTypeOK
<1>2. ASSUME NEW id \in SessionId
      PROVE  Len(History(id)) \in Nat
  BY HistoryType, LenProperties DEF StoreTypeOK
<1>3. \A e \in Session : Drift(e) \in Int
  BY <1>2 DEF Session, Drift
<1>4. ASSUME NEW i \in DOMAIN sessions
      PROVE  sessions[i] \in Session
  BY LenProperties, ElementOfSeq DEF StoreTypeOK
<1>5. ASSUME NEW i \in DOMAIN sessionsFile
      PROVE  sessionsFile[i] \in Session
  BY LenProperties, ElementOfSeq DEF StoreTypeOK
<1>6. QED
  BY <1>1, <1>2, <1>3, <1>4, <1>5

\* While a handler waits for input both lists are as accurate as the memory.
LEMMA IdleAccuracy ==
    ASSUME StoreInv, Idle, failures = 0
    PROVE  /\ \A i \in DOMAIN sessions : Within(Drift(sessions[i]), torn)
           /\ sessionsFile = sessions
<1>1. sessionsFile = sessions
  BY DEF StoreInv, SavedInv, Idle
<1>2. \A id : Pending(id) = 0
  BY PendingOnlyAppend DEF Idle
<1>3. \A i \in DOMAIN sessions : Drift(sessions[i]) \in Int
  BY DriftType DEF StoreInv
<1>4. \A i \in DOMAIN sessions : Drift(sessions[i]) - Pending(sessions[i].id) = Drift(sessions[i])
  BY <1>2, <1>3
<1>5. QED
  BY <1>1, <1>4 DEF StoreInv, CountAccuracy

\* The front of the queue in the states a step of the running handler reaches.
LEMMA NothingPending ==
    ASSUME NEW w, w.op # "append",
           writes' = <<>> \/ writes' = <<w>> \/ (\E v : writes' = <<w, v>>)
    PROVE  \A id : Pending(id)' = 0
<1>1. \A a, b : Head(<<a>>) = a /\ Head(<<a, b>>) = a
  OBVIOUS
<1>2. writes' = <<>> \/ Head(writes') = w
  BY <1>1
<1>3. QED
  BY <1>2 DEF Pending

\* A disk step that is not the writing of a message leaves nothing pending.
LEMMA DiskPending ==
    ASSUME QueueInv, writes # <<>>, writes' = Tail(writes)
    PROVE  \A id : Pending(id)' = 0
<1>1. PICK w : /\ w.op # "append"
               /\ Tail(writes) = <<>> \/ Tail(writes) = <<w>>
  BY QueueFront, WriteOps
<1>2. QED
  BY <1>1, NothingPending

\* A step after which nothing has failed is not a failure itself.
LEMMA NoFailure ==
    ASSUME StoreInv, StoreNext, failures' = 0
    PROVE  /\ failures = 0
           /\ ~ FailWrite /\ ~ AppendOverUnreadable /\ ~ RestartUnreadable
           /\ \A id \in SessionId : ~ RegenerateFails(id)
<1>1. failures \in Nat
  BY DEF StoreInv, StoreTypeOK
<1>2. /\ ~ FailWrite /\ ~ AppendOverUnreadable /\ ~ RestartUnreadable
      /\ \A id \in SessionId : ~ RegenerateFails(id)
  BY <1>1 DEF FailWrite, AppendOverUnreadable, RestartUnreadable, RegenerateFails
<1>3. failures' = failures
  BY <1>2 DEF StoreNext, CreateSession, DeleteSession, RenameSession,
              Regenerate, AppendMessage, Disk, SaveSessions, SeedMessages,
              WriteMessage, UnlinkMessages, Restart
<1>4. QED
  BY <1>2, <1>3

\* A handler that is neither an append nor a regeneration moves entries of the
\* list, or adds an empty session, and touches no history.
LEMMA CountHandlers ==
    ASSUME StoreInv, Idle, failures = 0, NEW id \in SessionId,
           CreateSession(id) \/ DeleteSession(id) \/ RenameSession(id)
    PROVE  /\ \A i \in DOMAIN sessions' : Within(Drift(sessions[i])', torn)
           /\ \A x : Pending(x)' = 0
           /\ UNCHANGED <<sessionsFile, messages, torn>>
<1> USE DEF StoreInv
<1>0. /\ DOMAIN sessions = 1 .. Len(sessions)
      /\ Len(sessions) \in Nat
      /\ torn \in Nat
  BY LenProperties DEF StoreTypeOK
<1>1. UNCHANGED <<sessionsFile, messages, torn>>
  BY DEF CreateSession, DeleteSession, RenameSession
<1>2. \A x : Pending(x)' = 0
  BY NothingPending, WriteOps DEF CreateSession, DeleteSession, RenameSession
<1>3. ASSUME NEW i \in DOMAIN sessions', NEW j \in DOMAIN sessions,
             sessions'[i] = sessions[j]
      PROVE  Within(Drift(sessions[i])', torn)
  BY <1>1, <1>3, IdleAccuracy DEF Drift, History
<1>4. CASE CreateSession(id)
  <2>1. /\ DOMAIN sessions' = 1 .. Len(sessions) + 1
        /\ \A k \in 1 .. Len(sessions) : sessions'[k] = sessions[k]
        /\ sessions'[Len(sessions) + 1] = [id |-> id, count |-> 0]
    BY <1>4 DEF CreateSession, StoreTypeOK
  <2>2. History(id)' = <<>>
    BY <1>1, <1>4 DEF CreateSession, FreshInv, History
  <2>3. ASSUME NEW i \in DOMAIN sessions', i = Len(sessions) + 1
        PROVE  Within(Drift(sessions[i])', torn)
    <3>1. sessions'[i].id = id /\ sessions'[i].count = 0
      BY <2>1, <2>3
    <3>2. Len(History(sessions[i].id)') = 0
      BY <2>2, <3>1 DEF History
    <3>3. QED
      BY <1>0, <3>1, <3>2 DEF Drift, Within
  <2>4. \A i \in DOMAIN sessions' : i = Len(sessions) + 1 \/ i \in DOMAIN sessions
    BY <1>0, <2>1
  <2>5. QED
    BY <1>0, <1>1, <1>2, <1>3, <2>1, <2>3, <2>4
<1>5. CASE DeleteSession(id)
  <2>1. PICK d \in DOMAIN sessions : sessions' = Without(sessions, d)
    BY <1>5 DEF DeleteSession
  <2>2. \A i \in DOMAIN sessions' : \E j \in DOMAIN sessions : sessions'[i] = sessions[j]
    BY <1>0, <2>1 DEF Without
  <2>3. QED
    BY <1>1, <1>2, <1>3, <2>2
<1>6. CASE RenameSession(id)
  BY <1>1, <1>2, <1>3, <1>6 DEF RenameSession
<1>7. QED
  BY <1>4, <1>5, <1>6

\* Taking the last answer away shortens one history and its count alike.
LEMMA CountRegenerate ==
    ASSUME StoreInv, Idle, failures = 0, NEW id \in SessionId, Regenerate(id)
    PROVE  /\ \A i \in DOMAIN sessions' : Within(Drift(sessions[i])', torn)
           /\ \A x : Pending(x)' = 0
           /\ \A x \in SessionId \ {id} : History(x)' = History(x)
           /\ Len(History(id)') = Len(History(id)) - 1
<1> USE DEF StoreInv
<1>1. PICK d \in DOMAIN sessions : sessions[d].id = id /\ sessions' = Counted(d, -1)
  BY DEF Regenerate, Finds
<1>2. /\ DOMAIN sessions' = DOMAIN sessions
      /\ \A j \in DOMAIN sessions :
            /\ sessions'[j].id = sessions[j].id
            /\ sessions'[j].count = IF j = d THEN sessions[j].count + (-1)
                                            ELSE sessions[j].count
  <2>1. -1 \in Int
    OBVIOUS
  <2>2. QED
    BY <1>1, <2>1, CountedProperties DEF StoreTypeOK
<1> DEFINE h == SubSeq(History(id), 1, Len(History(id)) - 1)
<1>3. Len(History(id)) \in Nat /\ Len(History(id)) >= 2
  BY DriftType DEF Regenerate, Regenerable
<1>4. h \in Seq(Message) /\ Len(h) = Len(History(id)) - 1
  <2>1. \A k \in 1 .. Len(History(id)) - 1 : History(id)[k] \in Message
    BY <1>3, HistoryType, ElementOfSeq DEF StoreTypeOK
  <2>2. QED
    BY <1>3, <2>1, SubSeqProperties
<1>5. messages' = [messages EXCEPT ![id] = h]
  BY DEF Regenerate
<1> HIDE DEF h
<1>6. \A x \in SessionId \ {id} : History(x)' = History(x)
  BY <1>5 DEF History, StoreTypeOK
<1>7. messages'[id] = h
  BY <1>5 DEF StoreTypeOK
<1>8. Len(History(id)') = Len(History(id)) - 1
  BY <1>4, <1>7, StoreAssumption DEF History
<1>9. \A x : Pending(x)' = 0
  BY NothingPending, WriteOps DEF Regenerate
<1>10. ASSUME NEW i \in DOMAIN sessions'
       PROVE  Within(Drift(sessions[i])', torn)
  <2>1. /\ Within(Drift(sessions[i]), torn)
        /\ sessions[i] \in Session
        /\ torn \in Nat
    BY <1>2, IdleAccuracy, DriftType
  <2>2. i = d <=> sessions[i].id = id
    BY <1>1, <1>2 DEF ListsInv, UniqueIds, Distinct
  <2>3. sessions[i].count \in Int /\ sessions[i].id \in SessionId
    BY <2>1 DEF Session
  <2>4. CASE i = d
    <3>1. sessions'[i].count = sessions[i].count - 1 /\ sessions'[i].id = id
      BY <1>1, <1>2, <2>3, <2>4
    <3>2. Drift(sessions[i])' = sessions[i].count - 1 - (Len(History(id)) - 1)
      BY <1>8, <3>1 DEF Drift, History
    <3>3. Drift(sessions[i])' = Drift(sessions[i])
      BY <1>3, <2>2, <2>3, <2>4, <3>2 DEF Drift
    <3>4. QED
      BY <2>1, <3>3
  <2>5. CASE i # d
    <3>1. sessions'[i].count = sessions[i].count /\ sessions'[i].id = sessions[i].id
      BY <1>2, <2>5
    <3>2. History(sessions[i].id)' = History(sessions[i].id)
      BY <1>6, <2>2, <2>3, <2>5, <3>1 DEF History
    <3>3. Drift(sessions[i])' = Drift(sessions[i])
      BY <3>1, <3>2 DEF Drift
    <3>4. QED
      BY <2>1, <3>3
  <2>6. QED
    BY <2>4, <2>5
<1>11. QED
  BY <1>6, <1>8, <1>9, <1>10

\* Appending counts the message at once and leaves it pending.
LEMMA CountAppend ==
    ASSUME StoreInv, Idle, failures = 0, NEW id \in SessionId,
           NEW role \in {"user", "assistant"}, NEW text \in Text,
           AppendMessage(id, role, text)
    PROVE  \A i \in DOMAIN sessions' :
              Within((Drift(sessions[i]) - Pending(sessions[i].id))', torn)
<1> USE DEF StoreInv
<1>1. PICK d \in DOMAIN sessions : sessions[d].id = id /\ sessions' = Counted(d, 1)
  BY DEF AppendMessage, Finds
<1>2. /\ DOMAIN sessions' = DOMAIN sessions
      /\ \A j \in DOMAIN sessions :
            /\ sessions'[j].id = sessions[j].id
            /\ sessions'[j].count = IF j = d THEN sessions[j].count + 1
                                            ELSE sessions[j].count
  BY <1>1, CountedProperties DEF StoreTypeOK
<1>3. \A x : History(x)' = History(x)
  BY DEF AppendMessage, History
<1>4. \A x : Pending(x)' = IF x = id THEN 1 ELSE 0
  <2>1. /\ writes' # <<>>
        /\ Head(writes') = AppendTo(id, [role |-> role, text |-> text])
    BY DEF AppendMessage
  <2>2. Head(writes').op = "append" /\ Head(writes').id = id
    BY <2>1, WriteOps
  <2>3. QED
    BY <2>1, <2>2 DEF Pending
<1>5. ASSUME NEW i \in DOMAIN sessions'
      PROVE  Within((Drift(sessions[i]) - Pending(sessions[i].id))', torn)
  <2>1. /\ Within(Drift(sessions[i]), torn)
        /\ sessions[i] \in Session
        /\ Drift(sessions[i]) \in Int
    BY <1>2, IdleAccuracy, DriftType
  <2>2. i = d <=> sessions[i].id = id
    BY <1>1, <1>2 DEF ListsInv, UniqueIds, Distinct
  <2>3. sessions[i].count \in Int /\ sessions'[i].id = sessions[i].id
    BY <1>2, <2>1 DEF Session
  <2>4. Len(History(sessions[i].id)) \in Nat
    BY <2>1, DriftType DEF Session
  <2>5. Len(History(sessions[i].id)') = Len(History(sessions[i].id))
    BY <1>3, <2>3 DEF History
  <2>6. Drift(sessions[i])' = sessions'[i].count - Len(History(sessions[i].id))
    BY <2>5 DEF Drift
  <2>7. Pending(sessions[i].id)' = IF i = d THEN 1 ELSE 0
    BY <1>4, <2>2, <2>3 DEF Pending
  <2>8. (Drift(sessions[i]) - Pending(sessions[i].id))' = Drift(sessions[i])
    BY <1>2, <2>3, <2>4, <2>6, <2>7 DEF Drift
  <2>9. QED
    BY <2>1, <2>8
<1>6. QED
  BY <1>5

\* Writing a message makes its history one longer, and no other.
LEMMA WriteLengthens ==
    ASSUME StoreInv, WriteMessage, NEW x \in SessionId
    PROVE  Len(History(x)') = Len(History(x)) + Pending(x)
<1> USE DEF StoreInv
<1>0. Len(History(x)) \in Nat
  BY DriftType
<1>1. PICK id \in created, msg \in Message :
         /\ writes # <<>>
         /\ Head(writes) = AppendTo(id, msg)
  BY QueueFront, WriteOps DEF WriteMessage, NextIs
<1>2. Head(writes).op = "append" /\ Head(writes).id = id /\ Head(writes).msg = msg
  BY <1>1, WriteOps
<1>3. messages' = [messages EXCEPT ![id] = Append(History(id), msg)]
  BY <1>2 DEF WriteMessage
<1>4. id \in SessionId
  BY DEF StoreTypeOK
<1>5. Pending(x) = IF x = id THEN 1 ELSE 0
  BY <1>1, <1>2 DEF Pending
<1>6. /\ Append(History(id), msg) \in Seq(Message)
      /\ Len(Append(History(id), msg)) = Len(History(id)) + 1
  BY <1>4, HistoryType DEF StoreTypeOK
<1>7. messages'[id] = Append(History(id), msg)
  BY <1>3, <1>4 DEF StoreTypeOK
<1>8. CASE x = id
  BY <1>5, <1>6, <1>7, <1>8, StoreAssumption DEF History
<1>9. CASE x # id
  <2>1. History(x)' = History(x)
    BY <1>3, <1>9 DEF History, StoreTypeOK
  <2>2. QED
    BY <1>0, <1>5, <1>9, <2>1
<1>10. QED
  BY <1>8, <1>9

\* The steps that issue a file operation, when it succeeds: only the writing
\* of a message changes how long a history is.
LEMMA DiskHistories ==
    ASSUME StoreInv, failures = 0,
           SaveSessions \/ SeedMessages \/ UnlinkMessages \/ WriteMessage,
           NEW x \in SessionId, x \in Listed(sessions)
    PROVE  /\ ~ WriteMessage => Len(History(x)') = Len(History(x))
           /\ WriteMessage => Len(History(x)') = Len(History(x)) + Pending(x)
<1> USE DEF StoreInv
<1>0. Len(History(x)) \in Nat
  BY DriftType
<1>1. CASE SaveSessions
  BY <1>1 DEF SaveSessions, WriteMessage, NextIs, History
<1>2. CASE SeedMessages
  <2>1. ~ WriteMessage
    BY <1>2 DEF SeedMessages, WriteMessage, NextIs
  <2>2. PICK id \in created : Head(writes) = Seed(id) /\ History(id) = <<>>
    BY <1>2, QueueFront, WriteOps DEF SeedMessages, NextIs
  <2>3. messages' = [messages EXCEPT ![id] = <<>>]
    BY <1>2, <2>2, WriteOps DEF SeedMessages
  <2>4. History(x)' = History(x)
    BY <2>2, <2>3 DEF History, StoreTypeOK
  <2>5. QED
    BY <2>1, <2>4
<1>3. CASE UnlinkMessages
  <2>1. ~ WriteMessage
    BY <1>3 DEF UnlinkMessages, WriteMessage, NextIs
  <2>2. PICK id \in created : Head(writes) = Unlink(id) /\ id \notin Listed(sessions)
    BY <1>3, QueueFront, WriteOps DEF UnlinkMessages, NextIs
  <2>3. messages' = [messages EXCEPT ![id] = NoFile]
    BY <1>3, <2>2, WriteOps DEF UnlinkMessages
  <2>4. History(x)' = History(x)
    BY <2>2, <2>3 DEF History, StoreTypeOK
  <2>5. QED
    BY <2>1, <2>4
<1>4. CASE WriteMessage
  BY <1>4, WriteLengthens
<1>5. QED
  BY <1>1, <1>2, <1>3, <1>4

\* A file operation that succeeds keeps the memory's counts accurate: when it
\* lengthens a history, the message was pending before and is not after.
LEMMA CountDisk ==
    ASSUME StoreInv, failures = 0,
           SaveSessions \/ SeedMessages \/ UnlinkMessages \/ WriteMessage
    PROVE  /\ UNCHANGED <<sessions, torn>>
           /\ \A i \in DOMAIN sessions : Within(Drift(sessions[i])', torn)
           /\ \A x : Pending(x)' = 0
<1> USE DEF StoreInv
<1>1. /\ UNCHANGED <<sessions, torn>>
      /\ writes # <<>>
      /\ writes' = Tail(writes)
  BY DEF SaveSessions, SeedMessages, UnlinkMessages, WriteMessage, NextIs
<1>2. \A x : Pending(x)' = 0
  BY <1>1, DiskPending
<1>3. ASSUME NEW i \in DOMAIN sessions
      PROVE  Within(Drift(sessions[i])', torn)
  <2> DEFINE x == sessions[i].id
  <2>1. /\ x \in SessionId
        /\ sessions[i].count \in Int
        /\ x \in Listed(sessions)
    BY DriftType DEF Session, Listed
  <2>2. Len(History(x)) \in Nat
    BY <2>1, DriftType
  <2>3. Within(sessions[i].count - Len(History(x)) - Pending(x), torn)
    BY DEF CountAccuracy, Drift
  <2>4. Drift(sessions[i])' = sessions[i].count - Len(History(sessions[i].id)')
    BY <1>1 DEF Drift, History
  <2>5. Pending(x) \in {0, 1}
    BY DEF Pending
  <2>6. Len(History(sessions[i].id)') = Len(History(x)) + Pending(x)
    <3>1. ~ WriteMessage => Pending(x) = 0
      BY <1>1, PendingOnlyAppend DEF SaveSessions, SeedMessages, UnlinkMessages, NextIs
    <3>2. \A y \in SessionId : y \in Listed(sessions) =>
             /\ ~ WriteMessage => Len(History(y)') = Len(History(y))
             /\ WriteMessage => Len(History(y)') = Len(History(y)) + Pending(y)
      BY DiskHistories
    <3>3. Len(History(sessions[i].id)') = Len(History(x)) + Pending(x)
      BY <1>1, <2>1, <2>2, <3>1, <3>2 DEF History
    <3>4. QED
      BY <3>3
  <2>7. QED
    BY <2>1, <2>2, <2>3, <2>4, <2>5, <2>6
<1>4. QED
  BY <1>1, <1>2, <1>3

\* Drift is a number in the next state too.
DriftsAreInt == \A i \in DOMAIN sessions : Drift(sessions[i]) \in Int

LEMMA DriftsStayInt == StoreTypeOK /\ [StoreNext]_storeVars => DriftsAreInt'
<1>1. StoreTypeOK => DriftsAreInt
  BY DriftType DEF DriftsAreInt
<1>2. QED
  BY <1>1, TypeStep, PTL

\* Every step keeps the memory's counts accurate.
LEMMA CountStep == StoreInv /\ [StoreNext]_storeVars => CountAccuracy'
<1> SUFFICES ASSUME StoreInv, [StoreNext]_storeVars, failures' = 0
             PROVE  \A i \in DOMAIN sessions' :
                       Within((Drift(sessions[i]) - Pending(sessions[i].id))', torn')
  BY DEF CountAccuracy
<1> USE DEF StoreInv
<1>1. CASE UNCHANGED storeVars
  BY <1>1 DEF storeVars, CountAccuracy, Drift, Pending, History
<1>2. CASE StoreNext
  <2>1. /\ failures = 0
        /\ ~ FailWrite /\ ~ AppendOverUnreadable /\ ~ RestartUnreadable
        /\ \A id \in SessionId : ~ RegenerateFails(id)
    BY <1>2, NoFailure
  <2>2. ASSUME \A i \in DOMAIN sessions' : Within(Drift(sessions[i])', torn'),
               \A i \in DOMAIN sessions' : Drift(sessions[i])' \in Int,
               \A x : Pending(x)' = 0
        PROVE  \A i \in DOMAIN sessions' :
                  Within((Drift(sessions[i]) - Pending(sessions[i].id))', torn')
    <3>1. ASSUME NEW i \in DOMAIN sessions'
          PROVE  (Drift(sessions[i]) - Pending(sessions[i].id))' = Drift(sessions[i])'
      <4>1. Pending(sessions[i].id)' = 0
        BY <2>2 DEF Pending
      <4>2. Drift(sessions[i])' \in Int
        BY <2>2
      <4>3. QED
        BY <4>1, <4>2
    <3>2. QED
      BY <2>2, <3>1
  <2>3. \A i \in DOMAIN sessions' : Drift(sessions[i])' \in Int
    BY DriftsStayInt DEF DriftsAreInt
  <2>4. ASSUME NEW id \in SessionId, CreateSession(id) \/ DeleteSession(id)
                                       \/ RenameSession(id)
        PROVE  \A i \in DOMAIN sessions' :
                  Within((Drift(sessions[i]) - Pending(sessions[i].id))', torn')
    <3>1. Idle
      BY <2>4 DEF CreateSession, DeleteSession, RenameSession
    <3>2. QED
      BY <2>1, <2>2, <2>3, <2>4, <3>1, CountHandlers
  <2>5. ASSUME NEW id \in SessionId, Regenerate(id)
        PROVE  \A i \in DOMAIN sessions' :
                  Within((Drift(sessions[i]) - Pending(sessions[i].id))', torn')
    <3>1. Idle /\ torn' = torn
      BY <2>5 DEF Regenerate
    <3>2. QED
      BY <2>1, <2>2, <2>3, <2>5, <3>1, CountRegenerate
  <2>6. ASSUME NEW id \in SessionId, NEW role \in {"user", "assistant"},
               NEW text \in Text, AppendMessage(id, role, text)
        PROVE  \A i \in DOMAIN sessions' :
                  Within((Drift(sessions[i]) - Pending(sessions[i].id))', torn')
    <3>1. Idle /\ torn' = torn
      BY <2>6 DEF AppendMessage
    <3>2. QED
      BY <2>1, <2>6, <3>1, CountAppend
  <2>7. CASE Disk
    BY <2>1, <2>2, <2>3, <2>7, CountDisk DEF Disk
  <2>8. CASE Restart
    <3>1. /\ sessions' = sessionsFile
          /\ messages' = messages
          /\ torn' = IF Idle THEN torn ELSE torn + 1
          /\ writes' = <<>>
      BY <2>8 DEF Restart, Reopen
    <3>2. \A x : Pending(x)' = 0
      BY <3>1 DEF Pending
    <3>3. /\ torn \in Nat
          /\ Idle => Slack = 0
          /\ Slack \in {0, 1}
      BY DriftType DEF Slack, Idle
    <3>4. ASSUME NEW i \in DOMAIN sessions'
          PROVE  Within(Drift(sessions[i])', torn')
      <4>1. Drift(sessions[i])' = Drift(sessionsFile[i])
        BY <3>1 DEF Drift, History
      <4>2. Within(Drift(sessionsFile[i]), torn + Slack)
        BY <2>1, <3>1 DEF FileAccuracy
      <4>3. Drift(sessionsFile[i]) \in Int
        BY <3>1, DriftType
      <4>4. QED
        BY <3>1, <3>3, <4>1, <4>2, <4>3 DEF Within
    <3>5. QED
      BY <2>2, <2>3, <3>2, <3>4
  <2>9. QED
    BY <1>2, <2>1, <2>4, <2>5, <2>6, <2>7, <2>8 DEF StoreNext
<1>3. QED
  BY <1>1, <1>2

\* Every step keeps sessions.json as accurate as FileAccuracy says.
LEMMA FileStep == StoreInv /\ [StoreNext]_storeVars => FileAccuracy'
<1> SUFFICES ASSUME StoreInv, [StoreNext]_storeVars, failures' = 0,
                    NEW i \in DOMAIN sessionsFile'
             PROVE  Within(Drift(sessionsFile[i])', torn' + Slack')
  BY DEF FileAccuracy
<1> USE DEF StoreInv
<1>0. torn \in Nat /\ Slack \in {0, 1} /\ Slack' \in {0, 1}
  BY DriftType DEF Slack
<1>1. CASE UNCHANGED storeVars
  BY <1>1 DEF storeVars, FileAccuracy, Drift, Slack, History
<1>2. CASE StoreNext
  <2>1. /\ failures = 0
        /\ ~ FailWrite /\ ~ AppendOverUnreadable /\ ~ RestartUnreadable
        /\ \A id \in SessionId : ~ RegenerateFails(id)
    BY <1>2, NoFailure
  <2>2. ASSUME Idle, UNCHANGED <<sessionsFile, messages, torn>>
        PROVE  Within(Drift(sessionsFile[i])', torn' + Slack')
    <3>1. Drift(sessionsFile[i])' = Drift(sessionsFile[i])
      BY <2>2 DEF Drift, History
    <3>2. Within(Drift(sessionsFile[i]), torn) /\ Drift(sessionsFile[i]) \in Int
      BY <2>1, <2>2, IdleAccuracy, DriftType
    <3>3. QED
      BY <1>0, <2>2, <3>1, <3>2 DEF Within
  <2>3. ASSUME NEW id \in SessionId,
               \/ CreateSession(id) \/ DeleteSession(id) \/ RenameSession(id)
               \/ \E role \in {"user", "assistant"}, text \in Text :
                     AppendMessage(id, role, text)
        PROVE  Within(Drift(sessionsFile[i])', torn' + Slack')
    BY <2>2, <2>3 DEF CreateSession, DeleteSession, RenameSession, AppendMessage
  <2>4. ASSUME NEW id \in SessionId, Regenerate(id)
        PROVE  Within(Drift(sessionsFile[i])', torn' + Slack')
    <3>1. Idle /\ UNCHANGED <<sessionsFile, torn>> /\ Slack' = 1
      BY <2>4 DEF Regenerate, Slack
    <3>2. /\ Within(Drift(sessionsFile[i]), torn)
          /\ sessionsFile[i] \in Session
      BY <2>1, <3>1, IdleAccuracy, DriftType
    <3>3. /\ sessionsFile[i].id \in SessionId
          /\ sessionsFile[i].count \in Int
          /\ Len(History(sessionsFile[i].id)) \in Nat
      BY <3>2, DriftType DEF Session
    <3>4. \/ Len(History(sessionsFile[i].id)') = Len(History(sessionsFile[i].id))
          \/ Len(History(sessionsFile[i].id)') = Len(History(sessionsFile[i].id)) - 1
      BY <2>1, <2>4, <3>1, <3>3, CountRegenerate DEF History
    <3>5. Drift(sessionsFile[i])' =
             sessionsFile[i].count - Len(History(sessionsFile[i].id)')
      BY <3>1 DEF Drift, History
    <3>6. QED
      BY <1>0, <3>1, <3>2, <3>3, <3>4, <3>5 DEF Within, Drift
  <2>5. CASE SaveSessions
    <3>1. sessionsFile' = sessions'
      BY <2>5 DEF SaveSessions
    <3>2. /\ UNCHANGED <<sessions, torn>>
          /\ \A k \in DOMAIN sessions : Within(Drift(sessions[k])', torn)
      BY <2>1, <2>5, CountDisk
    <3>3. Within(Drift(sessionsFile[i])', torn) /\ Drift(sessionsFile[i])' \in Int
      BY <3>1, <3>2, DriftsStayInt DEF DriftsAreInt, Drift, History
    <3>4. QED
      BY <1>0, <3>2, <3>3 DEF Within
  <2>6. CASE SeedMessages \/ UnlinkMessages
    <3>1. PICK w : writes = <<w>> /\ w.op # "save"
      BY <2>6, QueueFront, WriteOps DEF SeedMessages, UnlinkMessages, NextIs
    <3>2. sessionsFile = sessions
      BY <2>1, <3>1, QueueShapes DEF SavedInv
    <3>3. sessionsFile' = sessions'
      BY <2>6, <3>2 DEF SeedMessages, UnlinkMessages
    <3>4. /\ UNCHANGED <<sessions, torn>>
          /\ \A k \in DOMAIN sessions : Within(Drift(sessions[k])', torn)
      BY <2>1, <2>6, CountDisk
    <3>5. Within(Drift(sessionsFile[i])', torn) /\ Drift(sessionsFile[i])' \in Int
      BY <3>3, <3>4, DriftsStayInt DEF DriftsAreInt, Drift, History
    <3>6. QED
      BY <1>0, <3>4, <3>5 DEF Within
  <2>7. CASE WriteMessage
    <3>1. /\ writes' = <<Save>>
          /\ writes # <<Save>>
      BY <2>7, QueueFront, QueueShapes, WriteOps DEF WriteMessage, NextIs
    <3>2. /\ Slack = 0 /\ Slack' = 1
          /\ UNCHANGED <<sessionsFile, torn>>
      BY <2>7, <3>1 DEF Slack, WriteMessage
    <3>3. /\ sessionsFile[i] \in Session
          /\ Within(Drift(sessionsFile[i]), torn)
      BY <1>0, <2>1, <3>2, DriftType DEF FileAccuracy
    <3>4. /\ sessionsFile[i].id \in SessionId
          /\ sessionsFile[i].count \in Int
          /\ Len(History(sessionsFile[i].id)) \in Nat
      BY <3>3, DriftType DEF Session
    <3>5. \A x : Pending(x) \in {0, 1}
      BY DEF Pending
    <3>6. \A x \in SessionId : Len(History(x)') = Len(History(x)) + Pending(x)
      BY <2>7, WriteLengthens
    <3>7. \/ Len(History(sessionsFile[i].id)') = Len(History(sessionsFile[i].id))
          \/ Len(History(sessionsFile[i].id)') = Len(History(sessionsFile[i].id)) + 1
      BY <3>2, <3>4, <3>5, <3>6 DEF History
    <3>8. Drift(sessionsFile[i])' =
             sessionsFile[i].count - Len(History(sessionsFile[i].id)')
      BY <3>2 DEF Drift, History
    <3>9. QED
      BY <1>0, <3>2, <3>3, <3>4, <3>7, <3>8 DEF Within, Drift
  <2>8. CASE Restart
    <3>1. /\ UNCHANGED <<sessionsFile, messages>>
          /\ torn' = IF Idle THEN torn ELSE torn + 1
          /\ Slack' = 0
          /\ Idle => Slack = 0
      BY <2>8 DEF Restart, Reopen, Slack, Idle
    <3>2. Drift(sessionsFile[i])' = Drift(sessionsFile[i])
      BY <3>1 DEF Drift, History
    <3>3. /\ Within(Drift(sessionsFile[i]), torn + Slack)
          /\ Drift(sessionsFile[i]) \in Int
      BY <2>1, <3>1, DriftType DEF FileAccuracy
    <3>4. QED
      BY <1>0, <3>1, <3>2, <3>3 DEF Within
  <2>9. QED
    BY <1>2, <2>1, <2>3, <2>4, <2>5, <2>6, <2>7, <2>8 DEF StoreNext, Disk
<1>3. QED
  BY <1>1, <1>2

-----------------------------------------------------------------------------
(* The invariant and what follows from it *)

\* The initial states, imported ones included, satisfy the invariant.
LEMMA InvInit == StoreInit => StoreInv
<1> SUFFICES ASSUME StoreInit PROVE StoreInv
  OBVIOUS
<1>1. StoreTypeOK /\ ListsInv
  BY TypeInit, ListsInit
<1>2. QueueInv /\ SavedInv
  BY DEF StoreInit, QueueInv, SavedInv
<1>3. FreshInv
  BY DEF StoreInit, FreshInv, History
<1>4. \A x : Pending(x) = 0
  BY PendingOnlyAppend DEF StoreInit
<1>5. torn = 0 /\ Slack = 0 /\ sessionsFile = sessions
  BY DEF StoreInit, Slack
<1>6. ASSUME NEW i \in DOMAIN sessions
      PROVE  Drift(sessions[i]) = 0
  <2>1. CASE sessions = <<>>
    BY <2>1
  <2>2. ASSUME NEW id \in SessionId, NEW h \in Imported,
               sessions = <<[id |-> id, count |-> Len(h)]>>,
               messages = [s \in SessionId |-> IF s = id THEN h ELSE NoFile]
        PROVE  Drift(sessions[i]) = 0
    <3>1. h \in Seq(Message) /\ Len(h) \in Nat
      BY StoreAssumption, LenProperties
    <3>2. History(id) = h
      BY <2>2, <3>1, StoreAssumption DEF History
    <3>3. sessions[i] = [id |-> id, count |-> Len(h)]
      BY <2>2
    <3>4. QED
      BY <3>1, <3>2, <3>3 DEF Drift
  <2>3. QED
    BY <2>1, <2>2 DEF StoreInit
<1>7. CountAccuracy /\ FileAccuracy
  BY <1>4, <1>5, <1>6 DEF CountAccuracy, FileAccuracy, Within
<1>8. QED
  BY <1>1, <1>2, <1>3, <1>7 DEF StoreInv

\* StoreInv is an inductive invariant of the store.
THEOREM InvariantHolds == StoreSpec => []StoreInv
<1>1. StoreInv /\ [StoreNext]_storeVars => StoreInv'
  BY TypeStep, ListsStep, QueueStep, FreshStep, SavedStep, CountStep, FileStep
     DEF StoreInv
<1>2. QED
  BY <1>1, InvInit, PTL DEF StoreSpec

\* However long the program runs, the message count of a session is off by at
\* most one for each handler that was cut short, provided no write failed.
THEOREM CountsStayAccurate == StoreSpec => []CountAccuracy
<1>1. StoreInv => CountAccuracy
  BY DEF StoreInv
<1>2. QED
  BY <1>1, InvariantHolds, PTL

\* Between two handlers the saved list is the list in memory.
THEOREM IdleStoreIsDurable == StoreSpec => []IdleIsDurable
<1>1. StoreInv => IdleIsDurable
  BY DEF StoreInv, SavedInv, IdleIsDurable, Idle
<1>2. QED
  BY <1>1, InvariantHolds, PTL

\* A messages file is removed only when sessions.json has let go of it.
THEOREM ListedHistoriesSurvive == StoreSpec => HistoryOutlivesListing
<1> DEFINE Survives ==
      failures' = 0 =>
          \A id \in SessionId :
             messages[id] # NoFile /\ messages'[id] = NoFile =>
                id \notin Listed(sessionsFile)
<1>1. StoreInv /\ [StoreNext]_storeVars => [Survives]_storeVars
  <2> SUFFICES ASSUME StoreInv, StoreNext, failures' = 0,
                      NEW id \in SessionId,
                      messages[id] # NoFile, messages'[id] = NoFile
               PROVE  id \notin Listed(sessionsFile)
    OBVIOUS
  <2> USE DEF StoreInv
  <2>1. /\ failures = 0
        /\ ~ FailWrite /\ ~ AppendOverUnreadable /\ ~ RestartUnreadable
        /\ \A x \in SessionId : ~ RegenerateFails(x)
    BY NoFailure
  <2>2. CASE UnlinkMessages
    <3>1. PICK x \in created : /\ writes = <<Unlink(x)>>
                              /\ Head(writes) = Unlink(x)
                              /\ x \notin Listed(sessions)
      BY <2>2, QueueFront, WriteOps DEF UnlinkMessages, NextIs
    <3>2. id = x
      BY <2>2, <3>1, WriteOps DEF UnlinkMessages, StoreTypeOK
    <3>3. sessionsFile = sessions
      BY <2>1, <3>1, QueueShapes, WriteOps DEF SavedInv
    <3>4. QED
      BY <3>1, <3>2, <3>3
  <2>3. ASSUME NEW x \in SessionId, NEW h \in Seq(Message),
               messages' = [messages EXCEPT ![x] = h]
        PROVE  FALSE
    BY <2>3, StoreAssumption DEF StoreTypeOK
  <2>4. CASE WriteMessage
    <3>1. PICK x \in created, msg \in Message : Head(writes) = AppendTo(x, msg)
      BY <2>4, QueueFront, WriteOps DEF WriteMessage, NextIs
    <3>2. x \in SessionId /\ Append(History(x), msg) \in Seq(Message)
      BY HistoryType DEF StoreTypeOK
    <3>3. Head(writes).id = x /\ Head(writes).msg = msg
      BY <3>1, WriteOps
    <3>4. messages' = [messages EXCEPT ![x] = Append(History(x), msg)]
      BY <2>4, <3>3 DEF WriteMessage
    <3>5. QED
      BY <2>3, <3>2, <3>4
  <2>5. CASE SeedMessages
    <3>1. PICK x \in created : Head(writes) = Seed(x)
      BY <2>5, QueueFront, WriteOps DEF SeedMessages, NextIs
    <3>2. x \in SessionId /\ <<>> \in Seq(Message)
      BY DEF StoreTypeOK
    <3>3. Head(writes).id = x
      BY <3>1, WriteOps
    <3>4. messages' = [messages EXCEPT ![x] = <<>>]
      BY <2>5, <3>3 DEF SeedMessages
    <3>5. QED
      BY <2>3, <3>2, <3>4
  <2>6. ASSUME NEW x \in SessionId, Regenerate(x)
        PROVE  FALSE
    <3>1. History(x) \in Seq(Message) /\ Len(History(x)) \in Nat
      BY HistoryType, LenProperties DEF StoreTypeOK
    <3>2. \A k \in 1 .. Len(History(x)) - 1 : History(x)[k] \in Message
      BY <3>1, ElementOfSeq
    <3>3. SubSeq(History(x), 1, Len(History(x)) - 1) \in Seq(Message)
      BY <3>1, <3>2, SubSeqProperties
    <3>4. QED
      BY <2>3, <2>6, <3>3 DEF Regenerate
  <2>7. messages' # messages
    OBVIOUS
  <2>8. QED
    BY <2>1, <2>2, <2>4, <2>5, <2>6, <2>7
       DEF StoreNext, Disk, CreateSession, DeleteSession, RenameSession,
           AppendMessage, SaveSessions, Restart, Reopen
<1>2. QED
  BY <1>1, InvariantHolds, PTL DEF HistoryOutlivesListing, StoreSpec
-----------------------------------------------------------------------------
(* The store implements Conversations *)

\* While nothing has failed, the two lists name the same sessions, except
\* between the change of the memory and the save that follows it: there they
\* differ by the session the running handler creates or deletes.
ListingInv ==
    failures = 0 =>
        /\ writes = <<Save>> => Listed(sessionsFile) = Listed(sessions)
        /\ \A id \in SessionId, msg \in Message :
              writes = <<AppendTo(id, msg), Save>> =>
                 /\ Listed(sessionsFile) = Listed(sessions)
                 /\ id \in Listed(sessions)
        /\ \A id \in SessionId :
              /\ writes = <<Save, Seed(id)>> =>
                    /\ Listed(sessions) = Listed(sessionsFile) \cup {id}
                    /\ id \notin Listed(sessionsFile)
              /\ writes = <<Save, Unlink(id)>> =>
                    Listed(sessions) = Listed(sessionsFile) \ {id}

\* What each change of the list does to the ids that are listed.
LEMMA CreateLists ==
    ASSUME StoreTypeOK, NEW id \in SessionId, CreateSession(id)
    PROVE  Listed(sessions') = Listed(sessions) \cup {id}
<1>1. /\ DOMAIN sessions = 1 .. Len(sessions)
      /\ Len(sessions) \in Nat
  BY LenProperties DEF StoreTypeOK
<1>2. /\ DOMAIN sessions' = 1 .. Len(sessions) + 1
      /\ \A k \in 1 .. Len(sessions) : sessions'[k] = sessions[k]
      /\ sessions'[Len(sessions) + 1] = [id |-> id, count |-> 0]
  BY DEF CreateSession, StoreTypeOK
<1>3. PICK n : n = Len(sessions) + 1
  OBVIOUS
<1>4. /\ \A k : k \in DOMAIN sessions' <=> k \in DOMAIN sessions \/ k = n
      /\ \A k \in DOMAIN sessions : sessions'[k] = sessions[k]
      /\ sessions'[n].id = id
  BY <1>1, <1>2, <1>3
<1>5. \A x : x \in Listed(sessions') <=> x \in Listed(sessions) \/ x = id
  BY <1>4, Zenon DEF Listed
<1>6. QED
  BY <1>5

LEMMA DeleteUnlists ==
    ASSUME StoreTypeOK, UniqueIds, NEW id \in SessionId, DeleteSession(id)
    PROVE  /\ id \in Listed(sessions)
           /\ Listed(sessions') = Listed(sessions) \ {id}
<1>1. /\ DOMAIN sessions = 1 .. Len(sessions)
      /\ Len(sessions) \in Nat
  BY LenProperties DEF StoreTypeOK
<1>2. PICK i \in DOMAIN sessions :
         sessions[i].id = id /\ sessions' = Without(sessions, i)
  BY DEF DeleteSession
<1>3. id \in Listed(sessions)
  BY <1>2 DEF Listed
<1>4. id \notin Listed(sessions')
  BY <1>2, DeletedIsUnlisted
<1>5. ASSUME NEW k \in DOMAIN sessions'
      PROVE  sessions'[k].id \in Listed(sessions)
  BY <1>1, <1>2 DEF Without, Listed
<1>6. ASSUME NEW j \in DOMAIN sessions, j # i
      PROVE  \E k \in DOMAIN sessions' : sessions'[k] = sessions[j]
  <2>1. CASE j < i
    <3>1. j \in DOMAIN sessions' /\ sessions'[j] = sessions[j]
      BY <1>1, <1>2, <2>1 DEF Without
    <3>2. QED
      BY <3>1
  <2>2. CASE j > i
    <3>1. PICK k : k = j - 1
      OBVIOUS
    <3>2. k \in 1 .. Len(sessions) - 1 /\ ~ (k < i) /\ k + 1 = j
      BY <1>1, <2>2, <3>1
    <3>3. k \in DOMAIN sessions' /\ sessions'[k] = sessions[j]
      BY <1>2, <3>2 DEF Without
    <3>4. QED
      BY <3>3
  <2>3. QED
    BY <1>1, <1>6, <2>1, <2>2
<1>7. ASSUME NEW x \in Listed(sessions), x # id
      PROVE  x \in Listed(sessions')
  <2>1. PICK j \in DOMAIN sessions : sessions[j].id = x
    BY DEF Listed
  <2>2. j # i
    BY <1>2, <1>7, <2>1
  <2>3. PICK k \in DOMAIN sessions' : sessions'[k] = sessions[j]
    BY <1>6, <2>2
  <2>4. sessions'[k].id = x
    BY <2>1, <2>3
  <2>5. QED
    BY <2>4 DEF Listed
<1>8. \A x : x \in Listed(sessions') <=> x \in Listed(sessions) /\ x # id
  <2>1. ASSUME NEW x \in Listed(sessions')
        PROVE  x \in Listed(sessions) /\ x # id
    BY <1>4, <1>5 DEF Listed
  <2>2. QED
    BY <1>7, <2>1
<1>9. QED
  BY <1>3, <1>8

LEMMA CountingListsTheSame ==
    ASSUME StoreTypeOK, NEW i \in DOMAIN sessions, NEW change \in Int,
           sessions' = Counted(i, change)
    PROVE  Listed(sessions') = Listed(sessions)
<1>1. /\ DOMAIN sessions' = DOMAIN sessions
      /\ \A k \in DOMAIN sessions : sessions'[k].id = sessions[k].id
  BY CountedProperties DEF StoreTypeOK
<1>2. QED
  BY <1>1 DEF Listed

\* Only ids that were handed out are listed.
LEMMA ListedAreCreated ==
    ASSUME StoreInv
    PROVE  /\ Listed(sessions) \subseteq created
           /\ Listed(sessionsFile) \subseteq created
           /\ created \subseteq SessionId
BY DEF StoreInv, ListsInv, Known, Listed, StoreTypeOK

\* The operations of a handler differ, so that a queue has one shape.
LEMMA DifferentQueues ==
    ASSUME NEW id, NEW x, NEW m, NEW y
    PROVE  /\ <<Save, Seed(id)>> # <<AppendTo(x, m), Save>>
           /\ <<Save, Seed(id)>> # <<Save, Unlink(x)>>
           /\ <<Save, Unlink(id)>> # <<AppendTo(x, m), Save>>
           /\ <<Save, Seed(id)>> = <<Save, Seed(x)>> => id = x
           /\ <<Save, Unlink(id)>> = <<Save, Unlink(x)>> => id = x
           /\ <<AppendTo(id, y), Save>> = <<AppendTo(x, m), Save>> => id = x /\ y = m
<1>1. /\ Save # AppendTo(x, m)
      /\ Seed(id) # Unlink(x)
      /\ Seed(id) = Seed(x) => id = x
      /\ Unlink(id) = Unlink(x) => id = x
      /\ AppendTo(id, y) = AppendTo(x, m) => id = x /\ y = m
  <2>1. Save.op # AppendTo(x, m).op
    BY WriteOps
  <2>2. Seed(id).op # Unlink(x).op
    BY WriteOps
  <2>3. Seed(id) = Seed(x) => id = x
    <3>1. Seed(id).id = id /\ Seed(x).id = x
      BY WriteOps
    <3>2. QED
      BY <3>1
  <2>4. Unlink(id) = Unlink(x) => id = x
    <3>1. Unlink(id).id = id /\ Unlink(x).id = x
      BY WriteOps
    <3>2. QED
      BY <3>1
  <2>5. AppendTo(id, y) = AppendTo(x, m) => id = x /\ y = m
    <3>1. /\ AppendTo(id, y).id = id /\ AppendTo(x, m).id = x
          /\ AppendTo(id, y).msg = y /\ AppendTo(x, m).msg = m
      BY WriteOps
    <3>2. QED
      BY <3>1
  <2>6. QED
    BY <2>1, <2>2, <2>3, <2>4, <2>5
<1>2. \A a, b, c, d : <<a, b>> = <<c, d>> => a = c /\ b = d
  OBVIOUS
<1>3. QED
  BY <1>1, <1>2

\* Between two handlers the lists name the same sessions.
LEMMA IdleListed ==
    ASSUME StoreInv, Idle, failures = 0
    PROVE  Listed(sessionsFile) = Listed(sessions)
<1>1. sessionsFile = sessions
  BY IdleAccuracy
<1>2. QED
  BY <1>1

\* A handler leaves its change of the memory unsaved, a disk step saves it or
\* leaves it to the save that follows, a restart forgets it.
LEMMA ListingStep ==
    StoreInv /\ ListingInv /\ [StoreNext]_storeVars => ListingInv'
<1> SUFFICES ASSUME StoreInv, ListingInv, [StoreNext]_storeVars, failures' = 0
             PROVE  ListingInv'
  BY DEF ListingInv
<1>1. CASE UNCHANGED storeVars
  <2>1. /\ writes' = writes /\ sessions' = sessions
        /\ sessionsFile' = sessionsFile /\ failures' = failures
    BY <1>1 DEF storeVars
  <2>2. QED
    BY <2>1 DEF ListingInv
<1>2. CASE StoreNext
  <2>1. /\ failures = 0
        /\ ~ FailWrite /\ ~ AppendOverUnreadable /\ ~ RestartUnreadable
        /\ \A id \in SessionId : ~ RegenerateFails(id)
    BY <1>2, NoFailure
  <2> USE DEF StoreInv
  <2>2. ASSUME NEW id \in SessionId, CreateSession(id)
        PROVE  ListingInv'
    <3>1. Listed(sessionsFile) = Listed(sessions) /\ id \notin Listed(sessions)
      BY <2>1, <2>2, IdleListed, ListedAreCreated DEF CreateSession
    <3>2. Listed(sessions') = Listed(sessions) \cup {id}
      BY <2>2, CreateLists
    <3>3. sessionsFile' = sessionsFile /\ writes' = <<Save, Seed(id)>>
      BY <2>2 DEF CreateSession
    <3>4. Listed(sessionsFile') = Listed(sessions)
      BY <3>1, <3>3
    <3>5. writes' # <<Save>>
      BY <3>3, QueueShapes
    <3>6. QED
      BY <3>1, <3>2, <3>3, <3>4, <3>5, DifferentQueues DEF ListingInv
  <2>3. ASSUME NEW id \in SessionId, DeleteSession(id)
        PROVE  ListingInv'
    <3>1. Listed(sessionsFile) = Listed(sessions)
      BY <2>1, <2>3, IdleListed DEF DeleteSession
    <3>2. Listed(sessions') = Listed(sessions) \ {id}
      BY <2>3, DeleteUnlists DEF ListsInv
    <3>3. sessionsFile' = sessionsFile /\ writes' = <<Save, Unlink(id)>>
      BY <2>3 DEF DeleteSession
    <3>4. Listed(sessionsFile') = Listed(sessions)
      BY <3>1, <3>3
    <3>5. writes' # <<Save>>
      BY <3>3, QueueShapes
    <3>6. QED
      BY <3>2, <3>3, <3>4, <3>5, DifferentQueues DEF ListingInv
  <2>4. ASSUME NEW id \in SessionId, RenameSession(id) \/ Regenerate(id)
        PROVE  ListingInv'
    <3>1. Listed(sessionsFile) = Listed(sessions)
      BY <2>1, <2>4, IdleListed DEF RenameSession, Regenerate
    <3>2. Listed(sessions') = Listed(sessions)
      <4>1. CASE RenameSession(id)
        BY <4>1 DEF RenameSession
      <4>2. CASE Regenerate(id)
        <5>1. -1 \in Int
          OBVIOUS
        <5>2. QED
          BY <4>2, <5>1, CountingListsTheSame DEF Regenerate
      <4>3. QED
        BY <2>4, <4>1, <4>2
    <3>3. sessionsFile' = sessionsFile /\ writes' = <<Save>>
      BY <2>4 DEF RenameSession, Regenerate
    <3>4. Listed(sessionsFile') = Listed(sessions')
      BY <3>1, <3>2, <3>3
    <3>5. \A a, b : writes' # <<a, b>>
      BY <3>3, QueueShapes
    <3>6. QED
      BY <3>4, <3>5 DEF ListingInv
  <2>5. ASSUME NEW id \in SessionId, NEW role \in {"user", "assistant"},
               NEW text \in Text, AppendMessage(id, role, text)
        PROVE  ListingInv'
    <3>1. Listed(sessionsFile) = Listed(sessions)
      BY <2>1, <2>5, IdleListed DEF AppendMessage
    <3>2. Listed(sessions') = Listed(sessions)
      BY <2>5, CountingListsTheSame DEF AppendMessage
    <3>3. PICK msg : writes' = <<AppendTo(id, msg), Save>>
      BY <2>5 DEF AppendMessage
    <3>4. id \in Listed(sessions')
      BY <2>5, <3>2 DEF AppendMessage, Finds, Listed
    <3>5. sessionsFile' = sessionsFile
      BY <2>5 DEF AppendMessage
    <3>6. Listed(sessionsFile') = Listed(sessions')
      BY <3>1, <3>2, <3>5
    <3>7. QED
      BY <3>3, <3>4, <3>6, DifferentQueues DEF ListingInv
  <2>6. CASE SaveSessions
    <3>1. sessionsFile' = sessions' /\ sessions' = sessions /\ writes' = Tail(writes)
      BY <2>6 DEF SaveSessions
    <3>2. Listed(sessionsFile') = Listed(sessions')
      BY <3>1
    <3>3. writes' = <<>> \/ \E w : writes' = <<w>> /\ w # Save
      <4>1. Head(writes) = Save
        BY <2>6, QueueFront, WriteOps DEF SaveSessions, NextIs
      <4>2. \A id : Seed(id) # Save /\ Unlink(id) # Save
        BY WriteOps
      <4>3. writes # <<>>
        BY <2>6 DEF SaveSessions, NextIs
      <4>4. \A id, msg : Save # AppendTo(id, msg)
        BY WriteOps
      <4>5. QED
        BY <3>1, <4>1, <4>2, <4>3, <4>4, QueueFront
    <3>4. \A a, b : writes' # <<a, b>>
      BY <3>3, QueueShapes
    <3>5. QED
      BY <3>2, <3>4 DEF ListingInv
  <2>7. CASE SeedMessages \/ UnlinkMessages
    <3>1. /\ writes # <<>> /\ writes' = Tail(writes)
          /\ Head(writes).op = "seed" \/ Head(writes).op = "unlink"
      BY <2>7 DEF SeedMessages, UnlinkMessages, NextIs
    <3>2. writes' = <<>>
      BY <3>1, QueueFront, WriteOps
    <3>3. QED
      BY <3>2, QueueShapes DEF ListingInv
  <2>8. CASE WriteMessage
    <3>1. PICK id \in created, msg \in Message :
             writes = <<AppendTo(id, msg), Save>> /\ Tail(writes) = <<Save>>
      BY <2>8, QueueFront, WriteOps DEF WriteMessage, NextIs
    <3>2. Listed(sessionsFile) = Listed(sessions)
      BY <2>1, <3>1, ListedAreCreated DEF ListingInv
    <3>3. writes' = <<Save>> /\ UNCHANGED <<sessions, sessionsFile>>
      BY <2>8, <3>1 DEF WriteMessage
    <3>4. Listed(sessionsFile') = Listed(sessions')
      BY <3>2, <3>3
    <3>5. \A a, b : writes' # <<a, b>>
      BY <3>3, QueueShapes
    <3>6. QED
      BY <3>4, <3>5 DEF ListingInv
  <2>9. CASE Restart
    <3>1. writes' = <<>>
      BY <2>9 DEF Restart, Reopen
    <3>2. QED
      BY <3>1, QueueShapes DEF ListingInv
  <2>10. QED
    BY <1>2, <2>1, <2>2, <2>3, <2>4, <2>5, <2>6, <2>7, <2>8, <2>9
       DEF StoreNext, Disk
<1>3. QED
  BY <1>1, <1>2

\* A step that keeps sessions.json, the ids that were given up and the listed
\* histories changes no conversation.
LEMMA SameConversations ==
    ASSUME Listed(sessionsFile') = Listed(sessionsFile),
           \A id \in SessionId \ Listed(sessionsFile) :
              id \in created' \ Listed(sessions') <=> id \in created \ Listed(sessions),
           \A id \in Listed(sessionsFile) : History(id)' = History(id)
    PROVE  UNCHANGED <<DurablePhase, DurableLog>>
<1>1. \A id \in SessionId :
         /\ id \in Listed(sessionsFile') <=> id \in Listed(sessionsFile)
         /\ id \notin Listed(sessionsFile) =>
               (id \in created' /\ id \notin Listed(sessions')
                  <=> id \in created /\ id \notin Listed(sessions))
  OBVIOUS
<1>2. DurablePhase' = DurablePhase
  BY <1>1 DEF DurablePhase
<1>3. DurableLog' = DurableLog
  BY <1>1 DEF DurableLog
<1>4. QED
  BY <1>2, <1>3

\* The handlers that start an operation change no conversation: what is on
\* disk is changed later, by the operations they queue.
LEMMA HandlersStutter ==
    ASSUME StoreInv, failures = 0, NEW id \in SessionId,
           \/ CreateSession(id) \/ DeleteSession(id) \/ RenameSession(id)
           \/ \E role \in {"user", "assistant"}, text \in Text :
                 AppendMessage(id, role, text)
    PROVE  UNCHANGED <<DurablePhase, DurableLog>>
<1> USE DEF StoreInv
<1>1. /\ Idle
      /\ sessionsFile' = sessionsFile
      /\ messages' = messages
  BY DEF CreateSession, DeleteSession, RenameSession, AppendMessage
<1>2. \A x : History(x)' = History(x)
  BY <1>1 DEF History
<1>3. Listed(sessionsFile) = Listed(sessions)
  BY <1>1, IdleListed
<1>4. Listed(sessionsFile') = Listed(sessionsFile)
  BY <1>1
<1>5. \A x \in SessionId \ Listed(sessionsFile) :
         x \in created' \ Listed(sessions') <=> x \in created \ Listed(sessions)
  <2>1. CASE CreateSession(id)
    <3>1. Listed(sessions') = Listed(sessions) \cup {id}
      BY <2>1, CreateLists
    <3>2. created' = created \cup {id} /\ id \notin created
      BY <2>1 DEF CreateSession
    <3>3. QED
      BY <3>1, <3>2
  <2>2. CASE DeleteSession(id)
    <3>1. /\ Listed(sessions') = Listed(sessions) \ {id}
          /\ id \in Listed(sessions)
      BY <2>2, DeleteUnlists DEF ListsInv
    <3>2. created' = created
      BY <2>2 DEF DeleteSession
    <3>3. QED
      BY <1>3, <3>1, <3>2
  <2>3. CASE RenameSession(id)
    <3>1. sessions' = sessions /\ created' = created
      BY <2>3 DEF RenameSession
    <3>2. QED
      BY <3>1
  <2>4. ASSUME NEW role \in {"user", "assistant"}, NEW text \in Text,
               AppendMessage(id, role, text)
        PROVE  Listed(sessions') = Listed(sessions) /\ created' = created
    BY <2>4, CountingListsTheSame DEF AppendMessage
  <2>5. QED
    BY <2>1, <2>2, <2>3, <2>4
<1>6. QED
  BY <1>2, <1>4, <1>5, SameConversations

\* Taking the last answer away is the retraction of a prompt's answer.
LEMMA RegenerateRetracts ==
    ASSUME StoreInv, failures = 0, NEW id \in SessionId, Regenerate(id)
    PROVE  Durable!Retract(id)
<1> USE DEF StoreInv
<1>1. /\ Idle
      /\ sessionsFile' = sessionsFile
      /\ created' = created
      /\ Regenerable(History(id))
  BY DEF Regenerate
<1>2. Listed(sessionsFile) = Listed(sessions)
  BY <1>1, IdleListed
<1>3. Listed(sessions') = Listed(sessions) /\ id \in Listed(sessions)
  <2>1. -1 \in Int
    OBVIOUS
  <2>2. QED
    BY <2>1, CountingListsTheSame DEF Regenerate, Finds, Listed
<1>4. PICK h : h = SubSeq(History(id), 1, Len(History(id)) - 1)
  OBVIOUS
<1>5. /\ Len(History(id)) \in Nat
      /\ History(id) \in Seq(Message)
      /\ Len(History(id)) >= 2
  BY <1>1, DriftType, HistoryType DEF StoreTypeOK, Regenerable
<1>6. h \in Seq(Message)
  <2>1. \A k \in 1 .. Len(History(id)) - 1 : History(id)[k] \in Message
    BY <1>5, ElementOfSeq
  <2>2. QED
    BY <1>4, <1>5, <2>1, SubSeqProperties
<1>7. messages' = [messages EXCEPT ![id] = h]
  BY <1>4 DEF Regenerate
<1>8. History(id)' = h /\ \A x \in SessionId \ {id} : History(x)' = History(x)
  <2>1. messages'[id] = h /\ \A x \in SessionId \ {id} : messages'[x] = messages[x]
    BY <1>7 DEF StoreTypeOK
  <2>2. QED
    BY <1>6, <2>1, StoreAssumption DEF History
<1>9. DurableLog[id] = History(id) /\ DurablePhase[id] = "live"
  BY <1>2, <1>3 DEF DurableLog, DurablePhase
<1>10. DurableLog' = [DurableLog EXCEPT ![id] = h]
  <2>1. Listed(sessionsFile') = Listed(sessionsFile)
    BY <1>1
  <2>2. DurableLog' = [x \in SessionId |->
             IF x \in Listed(sessionsFile) THEN History(x)' ELSE <<>>]
    BY <2>1 DEF DurableLog
  <2>3. ASSUME NEW x \in SessionId
        PROVE  DurableLog'[x] = IF x = id THEN h ELSE DurableLog[x]
    BY <1>2, <1>3, <1>8, <2>2 DEF DurableLog
  <2>4. DOMAIN DurableLog = SessionId /\ DOMAIN DurableLog' = SessionId
    BY DEF DurableLog
  <2>5. QED
    BY <2>2, <2>3 DEF DurableLog
<1>11. DurablePhase' = DurablePhase
  <2>1. /\ Listed(sessionsFile') = Listed(sessionsFile)
        /\ Listed(sessions') = Listed(sessions)
        /\ created' = created
    BY <1>1, <1>3
  <2>2. QED
    BY <2>1 DEF DurablePhase
<1>12. /\ DurableLog[id][Len(DurableLog[id])] \in {m \in Message : m.role = "assistant"}
       /\ DurableLog[id][Len(DurableLog[id]) - 1] \notin {m \in Message : m.role = "assistant"}
  <2>1. History(id)[Len(History(id))] \in Message
    BY <1>5, ElementOfSeq
  <2>2. /\ History(id)[Len(History(id))].role = "assistant"
        /\ History(id)[Len(History(id)) - 1].role = "user"
    BY <1>1 DEF Regenerable
  <2>3. QED
    BY <1>9, <2>1, <2>2
<1>13. DurableLog' = [DurableLog EXCEPT
                         ![id] = SubSeq(@, 1, Len(DurableLog[id]) - 1)]
  BY <1>4, <1>9, <1>10
<1>14. QED
  BY <1>5, <1>9, <1>11, <1>12, <1>13 DEF Durable!Retract

\* Writing a message is the one step that says it.
LEMMA WriteSays ==
    ASSUME StoreInv, ListingInv, failures = 0, WriteMessage
    PROVE  \E id \in SessionId, msg \in Message : Durable!Say(id, msg)
<1> USE DEF StoreInv
<1>1. PICK id \in created, msg \in Message :
         /\ writes = <<AppendTo(id, msg), Save>>
         /\ Head(writes) = AppendTo(id, msg)
  BY QueueFront, WriteOps DEF WriteMessage, NextIs
<1>2. id \in SessionId
  BY ListedAreCreated
<1>3. id \in Listed(sessionsFile)
  BY <1>1, <1>2 DEF ListingInv
<1>4. PICK h : h = Append(History(id), msg)
  OBVIOUS
<1>5. h \in Seq(Message)
  BY <1>2, <1>4, HistoryType DEF StoreTypeOK
<1>6. messages' = [messages EXCEPT ![id] = h]
  <2>1. Head(writes).id = id /\ Head(writes).msg = msg
    BY <1>1, WriteOps
  <2>2. QED
    BY <1>4, <2>1 DEF WriteMessage
<1>7. History(id)' = h /\ \A x \in SessionId \ {id} : History(x)' = History(x)
  <2>1. messages'[id] = h /\ \A x \in SessionId \ {id} : messages'[x] = messages[x]
    BY <1>2, <1>6 DEF StoreTypeOK
  <2>2. QED
    BY <1>5, <2>1, StoreAssumption DEF History
<1>8. /\ sessionsFile' = sessionsFile
      /\ sessions' = sessions
      /\ created' = created
  BY DEF WriteMessage
<1>9. DurablePhase' = DurablePhase
  BY <1>8 DEF DurablePhase
<1>10. DurableLog[id] = History(id) /\ DurablePhase[id] = "live"
  BY <1>2, <1>3 DEF DurableLog, DurablePhase
<1>11. DurableLog' = [DurableLog EXCEPT ![id] = h]
  <2>1. DurableLog' = [x \in SessionId |->
             IF x \in Listed(sessionsFile) THEN History(x)' ELSE <<>>]
    BY <1>8 DEF DurableLog
  <2>2. ASSUME NEW x \in SessionId
        PROVE  DurableLog'[x] = IF x = id THEN h ELSE DurableLog[x]
    BY <1>3, <1>7, <2>1 DEF DurableLog
  <2>3. QED
    BY <2>1, <2>2 DEF DurableLog
<1>12. DurableLog' = [DurableLog EXCEPT ![id] = Append(@, msg)]
  BY <1>4, <1>10, <1>11
<1>13. Durable!Say(id, msg)
  BY <1>9, <1>10, <1>12 DEF Durable!Say
<1>14. QED
  BY <1>2, <1>13

\* The save is the step at which a created conversation begins and a deleted
\* one is gone; after any other handler it changes none.
LEMMA SaveBeginsOrRemoves ==
    ASSUME StoreInv, ListingInv, failures = 0, SaveSessions
    PROVE  \/ \E id \in SessionId : Durable!Begin(id) \/ Durable!Remove(id)
           \/ UNCHANGED <<DurablePhase, DurableLog>>
<1> USE DEF StoreInv
<1>1. /\ sessions' = sessions
      /\ sessionsFile' = sessions
      /\ created' = created
      /\ messages' = messages
      /\ writes # <<>>
      /\ Head(writes) = Save
  BY QueueFront, WriteOps DEF SaveSessions, NextIs
<1>2. \A x : History(x)' = History(x)
  BY <1>1 DEF History
<1>3. Listed(sessions') = Listed(sessions) /\ Listed(sessionsFile') = Listed(sessions)
  BY <1>1
<1>4. /\ DurablePhase' = [x \in SessionId |->
                             IF x \in Listed(sessions) THEN "live"
                             ELSE IF x \in created THEN "gone" ELSE "never"]
      /\ DurableLog' = [x \in SessionId |->
                           IF x \in Listed(sessions) THEN History(x) ELSE <<>>]
  BY <1>1, <1>2, <1>3 DEF DurablePhase, DurableLog
<1>5. ASSUME Listed(sessionsFile) = Listed(sessions)
      PROVE  UNCHANGED <<DurablePhase, DurableLog>>
  BY <1>4, <1>5 DEF DurablePhase, DurableLog
<1>6. ASSUME NEW id \in created, writes = <<Save, Seed(id)>>, History(id) = <<>>
      PROVE  Durable!Begin(id)
  <2>1. /\ Listed(sessions) = Listed(sessionsFile) \cup {id}
        /\ id \notin Listed(sessionsFile)
        /\ id \in SessionId
    BY <1>6, ListedAreCreated DEF ListingInv
  <2>2. DurablePhase[id] = "never"
    BY <2>1 DEF DurablePhase
  <2>3. DurablePhase' = [DurablePhase EXCEPT ![id] = "live"]
    BY <1>4, <2>1 DEF DurablePhase
  <2>4. DurableLog' = DurableLog
    BY <1>4, <1>6, <2>1 DEF DurableLog
  <2>5. QED
    BY <2>2, <2>3, <2>4 DEF Durable!Begin
<1>7. ASSUME NEW id \in created, writes = <<Save, Unlink(id)>>, id \notin Listed(sessions)
      PROVE  \/ Durable!Remove(id)
             \/ UNCHANGED <<DurablePhase, DurableLog>>
  <2>1. /\ Listed(sessions) = Listed(sessionsFile) \ {id}
        /\ id \in SessionId
    BY <1>7, ListedAreCreated DEF ListingInv
  <2>2. CASE id \in Listed(sessionsFile)
    <3>1. DurablePhase[id] # "gone"
      BY <2>1, <2>2 DEF DurablePhase
    <3>2. DurablePhase' = [DurablePhase EXCEPT ![id] = "gone"]
      BY <1>4, <1>7, <2>1 DEF DurablePhase
    <3>3. DurableLog' = [DurableLog EXCEPT ![id] = <<>>]
      BY <1>4, <1>7, <2>1 DEF DurableLog
    <3>4. QED
      BY <3>1, <3>2, <3>3 DEF Durable!Remove
  <2>3. CASE id \notin Listed(sessionsFile)
    <3>1. Listed(sessionsFile) = Listed(sessions)
      BY <2>1, <2>3
    <3>2. QED
      BY <1>5, <3>1
  <2>4. QED
    BY <2>2, <2>3
<1>8. CASE writes = <<Save>>
  BY <1>5, <1>8 DEF ListingInv
<1>9. \A id, msg : Save # AppendTo(id, msg) /\ Save # Seed(id) /\ Save # Unlink(id)
  BY WriteOps
<1>10. QED
  <2>1. created \subseteq SessionId
    BY ListedAreCreated
  <2>2. \/ writes = <<Save>>
        \/ \E id \in created : writes = <<Save, Seed(id)>> /\ History(id) = <<>>
        \/ \E id \in created : writes = <<Save, Unlink(id)>> /\ id \notin Listed(sessions)
    BY <1>1, <1>9, QueueFront
  <2>3. QED
    BY <1>6, <1>7, <1>8, <2>1, <2>2

\* Seeding writes the empty history a new session reads as already, and
\* unlinking removes one that sessions.json has let go of.
LEMMA SeedAndUnlinkStutter ==
    ASSUME StoreInv, failures = 0, SeedMessages \/ UnlinkMessages
    PROVE  UNCHANGED <<DurablePhase, DurableLog>>
<1> USE DEF StoreInv
<1>1. /\ sessions' = sessions
      /\ sessionsFile' = sessionsFile
      /\ created' = created
      /\ writes # <<>>
      /\ Head(writes).op = "seed" \/ Head(writes).op = "unlink"
  BY DEF SeedMessages, UnlinkMessages, NextIs
<1>2. ASSUME NEW x \in Listed(sessionsFile)
      PROVE  History(x)' = History(x)
  <2>0. x \in SessionId
    BY ListedAreCreated
  <2>1. CASE SeedMessages
    <3>1. PICK id \in created : Head(writes) = Seed(id) /\ History(id) = <<>>
      BY <1>1, <2>1, QueueFront, WriteOps DEF SeedMessages, NextIs
    <3>2. Head(writes).id = id
      BY <3>1, WriteOps
    <3>3. messages' = [messages EXCEPT ![id] = <<>>]
      BY <2>1, <3>2 DEF SeedMessages
    <3>4. QED
      BY <2>0, <3>1, <3>3 DEF History, StoreTypeOK
  <2>2. CASE UnlinkMessages
    <3>1. PICK id \in created : /\ writes = <<Unlink(id)>>
                               /\ Head(writes) = Unlink(id)
                               /\ id \notin Listed(sessions)
      BY <1>1, <2>2, QueueFront, WriteOps DEF UnlinkMessages, NextIs
    <3>2. Head(writes).id = id /\ Unlink(id).op # "save"
      BY <3>1, WriteOps
    <3>3. sessionsFile = sessions
      BY <3>1, <3>2, QueueShapes DEF SavedInv
    <3>4. x # id
      BY <3>1, <3>3
    <3>5. messages' = [messages EXCEPT ![id] = NoFile]
      BY <2>2, <3>2 DEF UnlinkMessages
    <3>6. QED
      BY <2>0, <3>4, <3>5 DEF History, StoreTypeOK
  <2>3. QED
    BY <2>1, <2>2
<1>3. QED
  <2>1. /\ Listed(sessionsFile') = Listed(sessionsFile)
        /\ created' = created
        /\ Listed(sessions') = Listed(sessions)
    BY <1>1
  <2>2. QED
    BY <1>2, <2>1, SameConversations

\* A restart gives up the session whose creation it cut short, if there is
\* one, before it began; everything else on disk stays as it was.
LEMMA RestartGivesUp ==
    ASSUME StoreInv, ListingInv, failures = 0, Restart
    PROVE  \/ \E id \in SessionId : Durable!Remove(id)
           \/ UNCHANGED <<DurablePhase, DurableLog>>
<1> USE DEF StoreInv
<1>1. /\ sessions' = sessionsFile
      /\ sessionsFile' = sessionsFile
      /\ created' = created
      /\ messages' = messages
  BY DEF Restart, Reopen
<1>2. \A x : History(x)' = History(x)
  BY <1>1 DEF History
<1>3. Listed(sessions') = Listed(sessionsFile) /\ Listed(sessionsFile') = Listed(sessionsFile)
  BY <1>1
<1>4. CASE Listed(sessions) \subseteq Listed(sessionsFile)
  <2>1. \A x \in SessionId \ Listed(sessionsFile) :
           x \in created' \ Listed(sessions') <=> x \in created \ Listed(sessions)
    BY <1>1, <1>3, <1>4
  <2>2. QED
    BY <1>2, <1>3, <2>1, SameConversations
<1>5. ASSUME NEW id \in created, writes = <<Save, Seed(id)>>
      PROVE  Durable!Remove(id)
  <2>1. /\ Listed(sessions) = Listed(sessionsFile) \cup {id}
        /\ id \notin Listed(sessionsFile)
        /\ id \in SessionId
    BY <1>5, ListedAreCreated DEF ListingInv
  <2>2. DurablePhase[id] # "gone"
    BY <2>1 DEF DurablePhase
  <2>3. DurablePhase' = [DurablePhase EXCEPT ![id] = "gone"]
    BY <1>1, <1>3, <2>1 DEF DurablePhase
  <2>4. DurableLog' = DurableLog
    BY <1>2, <1>3 DEF DurableLog
  <2>5. DurableLog' = [DurableLog EXCEPT ![id] = <<>>]
    BY <2>1, <2>4 DEF DurableLog
  <2>6. QED
    BY <2>2, <2>3, <2>5 DEF Durable!Remove
<1>6. \/ Listed(sessions) \subseteq Listed(sessionsFile)
      \/ \E id \in created : writes = <<Save, Seed(id)>>
  <2>1. CASE Idle
    BY <2>1, IdleListed
  <2>2. CASE writes = <<Save>>
    BY <2>2 DEF ListingInv
  <2>3. ASSUME NEW id \in created, writes = <<Seed(id)>> \/ writes = <<Unlink(id)>>
        PROVE  Listed(sessions) \subseteq Listed(sessionsFile)
    <3>1. Seed(id).op # "save" /\ Unlink(id).op # "save"
      BY WriteOps
    <3>2. sessionsFile = sessions
      BY <2>3, <3>1, QueueShapes DEF SavedInv
    <3>3. QED
      BY <3>2
  <2>4. ASSUME NEW id \in created, writes = <<Save, Unlink(id)>>
        PROVE  Listed(sessions) \subseteq Listed(sessionsFile)
    BY <2>4, ListedAreCreated DEF ListingInv
  <2>5. ASSUME NEW id \in created, NEW msg \in Message,
               writes = <<AppendTo(id, msg), Save>>
        PROVE  Listed(sessions) \subseteq Listed(sessionsFile)
    BY <2>5, ListedAreCreated DEF ListingInv
  <2>6. QED
    BY <2>1, <2>2, <2>3, <2>4, <2>5, Zenon DEF QueueInv, Idle
<1>7. QED
  <2>1. created \subseteq SessionId
    BY ListedAreCreated
  <2>2. QED
    BY <1>4, <1>5, <1>6, <2>1

\* An empty or an imported data directory holds what Conversations starts with.
LEMMA DurableInit == StoreInit => Durable!ConvInit
<1> SUFFICES ASSUME StoreInit PROVE Durable!ConvInit
  OBVIOUS
<1>1. sessionsFile = sessions
  BY DEF StoreInit
<1>2. CASE sessions = <<>> /\ created = {}
  <2>1. Listed(sessionsFile) = {}
    BY <1>1, <1>2 DEF Listed
  <2>2. /\ DurablePhase = [x \in SessionId |-> "never"]
        /\ DurableLog = [x \in SessionId |-> <<>>]
    BY <1>2, <2>1 DEF DurablePhase, DurableLog
  <2>3. QED
    BY <2>2 DEF Durable!ConvInit
<1>3. ASSUME NEW id \in SessionId, NEW h \in Imported,
             sessions = <<[id |-> id, count |-> Len(h)]>>,
             messages = [s \in SessionId |-> IF s = id THEN h ELSE NoFile],
             created = {id}
      PROVE  Durable!ConvInit
  <2>1. Listed(sessionsFile) = {id} /\ Listed(sessions) = {id}
    <3>1. DOMAIN sessions = {1} /\ sessions[1].id = id
      BY <1>3
    <3>2. QED
      BY <1>1, <3>1 DEF Listed
  <2>2. History(id) = h
    BY <1>3, StoreAssumption DEF History
  <2>3. DurablePhase = [x \in SessionId |-> IF x = id THEN "live" ELSE "never"]
    BY <1>3, <2>1 DEF DurablePhase
  <2>4. DurableLog = [x \in SessionId |-> IF x = id THEN h ELSE <<>>]
    BY <2>1, <2>2 DEF DurableLog
  <2>5. QED
    BY <2>3, <2>4 DEF Durable!ConvInit
<1>4. QED
  BY <1>2, <1>3 DEF StoreInit

\* The initial queue is empty.
LEMMA ListingInit == StoreInit => ListingInv
<1> SUFFICES ASSUME StoreInit PROVE ListingInv
  OBVIOUS
<1>1. writes = <<>>
  BY DEF StoreInit
<1>2. QED
  BY <1>1, QueueShapes DEF ListingInv

\* Every step at which nothing fails is a step of Conversations or changes no
\* conversation.
LEMMA DurableStep ==
    StoreInv /\ ListingInv /\ (failures = 0)' /\ [StoreNext]_storeVars =>
       [Durable!ConvNext]_<<DurablePhase, DurableLog>>
<1> SUFFICES ASSUME StoreInv, ListingInv, failures' = 0, [StoreNext]_storeVars
             PROVE  Durable!ConvNext \/ UNCHANGED <<DurablePhase, DurableLog>>
  OBVIOUS
<1>1. CASE UNCHANGED storeVars
  <2>1. /\ Listed(sessionsFile') = Listed(sessionsFile)
        /\ Listed(sessions') = Listed(sessions)
        /\ created' = created
        /\ \A x : History(x)' = History(x)
    BY <1>1 DEF storeVars, History
  <2>2. QED
    BY <2>1, SameConversations
<1>2. CASE StoreNext
  <2>1. /\ failures = 0
        /\ ~ FailWrite /\ ~ AppendOverUnreadable /\ ~ RestartUnreadable
        /\ \A id \in SessionId : ~ RegenerateFails(id)
    BY <1>2, NoFailure
  <2>2. ASSUME NEW id \in SessionId,
               \/ CreateSession(id) \/ DeleteSession(id) \/ RenameSession(id)
               \/ \E role \in {"user", "assistant"}, text \in Text :
                     AppendMessage(id, role, text)
        PROVE  UNCHANGED <<DurablePhase, DurableLog>>
    BY <2>1, <2>2, HandlersStutter
  <2>3. ASSUME NEW id \in SessionId, Regenerate(id)
        PROVE  Durable!ConvNext
    BY <2>1, <2>3, RegenerateRetracts DEF Durable!ConvNext
  <2>4. CASE WriteMessage
    <3>1. PICK id \in SessionId, msg \in Message : Durable!Say(id, msg)
      BY <2>1, <2>4, WriteSays
    <3>2. QED
      BY <3>1 DEF Durable!ConvNext
  <2>5. CASE SaveSessions
    BY <2>1, <2>5, SaveBeginsOrRemoves DEF Durable!ConvNext
  <2>6. CASE SeedMessages \/ UnlinkMessages
    BY <2>1, <2>6, SeedAndUnlinkStutter
  <2>7. CASE Restart
    BY <2>1, <2>7, RestartGivesUp DEF Durable!ConvNext
  <2>8. QED
    BY <1>2, <2>1, <2>2, <2>3, <2>4, <2>5, <2>6, <2>7 DEF StoreNext, Disk
<1>3. QED
  BY <1>1, <1>2

\* StoreInv and ListingInv together are an inductive invariant.
LEMMA ListingHolds == StoreSpec => []ListingInv
<1>1. StoreInv /\ ListingInv /\ [StoreNext]_storeVars => ListingInv'
  BY ListingStep
<1>2. QED
  BY <1>1, InvariantHolds, ListingInit, PTL DEF StoreSpec

\* DeletionIsFinal: only a restart lists an id again that memory has dropped, and
\* what it reads names, of all such ids, the one whose deletion is being cut.
THEOREM DeletedStaysDeleted == StoreSpec => DeletionIsFinal
<1> DEFINE Returns(id) == id \in (created \ Listed(sessions)) \cap Listed(sessions')
           Final == failures' = 0 =>
                       \A id \in (created \ Listed(sessions)) \cap Listed(sessions') :
                          \E k \in DOMAIN writes : writes[k] = Unlink(id)
<1>1. StoreInv /\ ListingInv /\ [StoreNext]_storeVars => [Final]_storeVars
  <2> SUFFICES ASSUME StoreInv, ListingInv, StoreNext, failures' = 0,
                      NEW id, Returns(id)
               PROVE  \E k \in DOMAIN writes : writes[k] = Unlink(id)
    OBVIOUS
  <2> USE DEF StoreInv
  <2>1. /\ failures = 0
        /\ ~ FailWrite /\ ~ AppendOverUnreadable /\ ~ RestartUnreadable
        /\ \A x \in SessionId : ~ RegenerateFails(x)
    BY NoFailure
  <2>2. ASSUME Listed(sessions') \subseteq Listed(sessions)
        PROVE  FALSE
    BY <2>2
  <2>3. ASSUME NEW x \in SessionId, CreateSession(x)
        PROVE  FALSE
    <3>1. Listed(sessions') = Listed(sessions) \cup {x} /\ x \notin created
      BY <2>3, CreateLists DEF CreateSession
    <3>2. QED
      BY <3>1
  <2>4. ASSUME NEW x \in SessionId, DeleteSession(x)
        PROVE  FALSE
    BY <2>2, <2>4, DeleteUnlists DEF ListsInv
  <2>5. ASSUME NEW x \in SessionId,
               \/ Regenerate(x)
               \/ \E role \in {"user", "assistant"}, text \in Text :
                     AppendMessage(x, role, text)
        PROVE  FALSE
    <3>1. -1 \in Int /\ 1 \in Int
      OBVIOUS
    <3>2. Listed(sessions') = Listed(sessions)
      BY <2>5, <3>1, CountingListsTheSame DEF Regenerate, AppendMessage
    <3>3. QED
      BY <2>2, <3>2
  <2>6. ASSUME sessions' = sessions
        PROVE  FALSE
    <3>1. Listed(sessions') = Listed(sessions)
      BY <2>6
    <3>2. QED
      BY <2>2, <3>1
  <2>7. ASSUME Restart
        PROVE  \E k \in DOMAIN writes : writes[k] = Unlink(id)
    <3>1. id \in Listed(sessionsFile) /\ id \notin Listed(sessions)
      <4>1. sessions' = sessionsFile
        BY <2>7 DEF Restart, Reopen
      <4>2. Listed(sessions') = Listed(sessionsFile)
        BY <4>1
      <4>3. QED
        BY <4>2
    <3>2. ASSUME \A k \in DOMAIN writes : writes[k].op # "save"
          PROVE  FALSE
      BY <2>1, <3>1, <3>2 DEF SavedInv
    <3>3. ASSUME NEW x \in created,
                 writes = <<Save, Seed(x)>> \/ writes = <<Seed(x)>>
          PROVE  FALSE
      <4>1. x \in SessionId
        BY DEF StoreTypeOK
      <4>2. CASE writes = <<Save, Seed(x)>>
        BY <2>1, <3>1, <4>1, <4>2 DEF ListingInv
      <4>3. CASE writes = <<Seed(x)>>
        BY <3>2, <4>3, QueueShapes, WriteOps
      <4>4. QED
        BY <3>3, <4>2, <4>3
    <3>4. ASSUME NEW x \in created,
                 writes = <<Save, Unlink(x)>> \/ writes = <<Unlink(x)>>
          PROVE  \E k \in DOMAIN writes : writes[k] = Unlink(id)
      <4>1. x \in SessionId
        BY DEF StoreTypeOK
      <4>2. CASE writes = <<Save, Unlink(x)>>
        <5>1. Listed(sessions) = Listed(sessionsFile) \ {x}
          BY <2>1, <4>1, <4>2 DEF ListingInv
        <5>2. x = id
          BY <3>1, <5>1
        <5>3. 2 \in DOMAIN writes /\ writes[2] = Unlink(id)
          BY <4>2, <5>2, QueueShapes
        <5>4. QED
          BY <5>3
      <4>3. CASE writes = <<Unlink(x)>>
        BY <3>2, <4>3, QueueShapes, WriteOps
      <4>4. QED
        BY <3>4, <4>2, <4>3
    <3>5. ASSUME NEW x \in created, NEW msg \in Message,
                 writes = <<AppendTo(x, msg), Save>>
          PROVE  FALSE
      <4>1. x \in SessionId
        BY DEF StoreTypeOK
      <4>2. QED
        BY <2>1, <3>1, <3>5, <4>1 DEF ListingInv
    <3>6. ASSUME writes = <<>> \/ writes = <<Save>>
          PROVE  FALSE
      <4>1. CASE writes = <<>>
        BY <3>2, <4>1
      <4>2. CASE writes = <<Save>>
        BY <2>1, <3>1, <4>2 DEF ListingInv
      <4>3. QED
        BY <3>6, <4>1, <4>2
    <3>7. QED
      BY <3>3, <3>4, <3>5, <3>6, Zenon DEF QueueInv
  <2>8. QED
    BY <2>3, <2>4, <2>5, <2>6, <2>7, <2>1
       DEF StoreNext, Disk, RenameSession, SaveSessions, SeedMessages,
           WriteMessage, UnlinkMessages
<1>2. QED
  BY <1>1, InvariantHolds, ListingHolds, PTL DEF StoreSpec, DeletionIsFinal

\* As long as no file operation fails, the store implements Conversations,
\* whenever the process dies: each session on disk begins empty, grows by one
\* message at a time, loses only the answer of a trailing prompt/answer pair,
\* disappears as a whole and never comes back.
THEOREM StoreKeepsConversations ==
    StoreSpec /\ [](failures = 0) => KeepsConversations
<1>1. StoreInv /\ [StoreNext]_storeVars => StoreInv'
  BY TypeStep, ListsStep, QueueStep, FreshStep, SavedStep, CountStep, FileStep
     DEF StoreInv
<1>2. StoreInit => StoreInv /\ ListingInv /\ Durable!ConvInit
  BY InvInit, ListingInit, DurableInit
<1>3. QED
  BY <1>1, <1>2, ListingStep, DurableStep, PTL
     DEF StoreSpec, KeepsConversations, Durable!ConvSpec, Durable!convVars

\* When no file operation can fail at all, the store implements Conversations.
THEOREM UnfailingStoreKeepsConversations ==
    ASSUME MaxFailures = 0
    PROVE  StoreSpec => KeepsConversations
<1>1. StoreTypeOK => failures = 0
  BY DEF StoreTypeOK
<1>2. QED
  BY <1>1, TypeCorrect, StoreKeepsConversations, PTL
=============================================================================
