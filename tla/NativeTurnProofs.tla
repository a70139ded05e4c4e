-------------------------- MODULE NativeTurnProofs --------------------------
(***************************************************************************)
(* Theorems about NativeTurn, for every set of session ids and texts and   *)
(* for every value of its bounds.                                          *)
(***************************************************************************)
EXTENDS NativeTurn, SessionStoreProofs

-----------------------------------------------------------------------------
(* Facts about the child processes *)

\* Signalling or reaping a child leaves the list of children well typed and
\* as long as it was.
LEMMA SignalReapType ==
    ASSUME child \in Seq(Child), NEW n \in 1 .. Len(child)
    PROVE  /\ Signal(n) \in Seq(Child) /\ Len(Signal(n)) = Len(child)
           /\ Reap(n) \in Seq(Child) /\ Len(Reap(n)) = Len(child)
<1>1. child[n] \in Child
  BY ElementOfSeq
<1> DEFINE s == [child[n] EXCEPT !.signalled = TRUE]
           r == [child[n] EXCEPT !.state = "reaped"]
<1>2. s \in Child /\ r \in Child
  BY <1>1 DEF Child
<1>3. Signal(n) = [child EXCEPT ![n] = s] /\ Reap(n) = [child EXCEPT ![n] = r]
  BY DEF Signal, Reap
<1> HIDE DEF s, r
<1>4. QED
  BY <1>2, <1>3, ExceptSeq

\* The lines of an output are counted within the bound on its records.
LEMMA FinalLinesType ==
    ASSUME NEW h \in 0 .. 2 * MaxRecords
    PROVE  FinalLines(h) \in 0 .. MaxRecords
BY TurnAssumption DEF FinalLines

-----------------------------------------------------------------------------
(* Every step of the core is a step of the store *)

\* The records of runs, children and verdicts belong together, and the tick
\* stands behind a read only while the run it has read for is recorded.
Links ==
    /\ Len(child) <= MaxTurns
    /\ Len(verdict) = Len(child)
    /\ cliRun # NoRun => cliRun.turn <= Len(child)
    /\ codexRun # NoRun => codexRun.turn <= Len(child)
    /\ pc = "cliPoll" => cliRun # NoRun
    /\ pc \in {"codex", "codexPoll"} => codexRun # NoRun

CoreInv == StoreTypeOK /\ TurnTypeOK /\ Links

\* A recorded run names one of the children.
LEMMA RunsNameChildren ==
    ASSUME CoreInv
    PROVE  /\ Len(child) \in Nat
           /\ DOMAIN child = 1 .. Len(child)
           /\ 1 .. Len(child) \subseteq Turn
           /\ cliRun # NoRun => /\ cliRun \in CliRun
                                /\ cliRun.turn \in 1 .. Len(child)
                                /\ child[cliRun.turn] \in Child
           /\ codexRun # NoRun => /\ codexRun \in CodexRun
                                  /\ codexRun.turn \in 1 .. Len(child)
                                  /\ child[codexRun.turn] \in Child
<1>1. /\ Len(child) \in Nat
      /\ DOMAIN child = 1 .. Len(child)
      /\ Len(child) <= MaxTurns
      /\ \A n \in 1 .. Len(child) : child[n] \in Child
  BY LenProperties, ElementOfSeq DEF CoreInv, TurnTypeOK, Links
<1>2. 1 .. Len(child) \subseteq Turn
  BY <1>1, TurnAssumption DEF Turn
<1>3. ASSUME cliRun # NoRun
      PROVE  cliRun \in CliRun /\ cliRun.turn \in 1 .. Len(child)
  <2>1. cliRun \in CliRun
    BY <1>3 DEF CoreInv, TurnTypeOK
  <2>2. cliRun.turn \in Turn
    BY <2>1 DEF CliRun
  <2>3. QED
    BY <1>1, <1>3, <2>1, <2>2, TurnAssumption DEF CoreInv, Links, Turn
<1>4. ASSUME codexRun # NoRun
      PROVE  codexRun \in CodexRun /\ codexRun.turn \in 1 .. Len(child)
  <2>1. codexRun \in CodexRun
    BY <1>4 DEF CoreInv, TurnTypeOK
  <2>2. codexRun.turn \in Turn
    BY <2>1 DEF CodexRun
  <2>3. QED
    BY <1>1, <1>4, <2>1, <2>2, TurnAssumption DEF CoreInv, Links, Turn
<1>5. QED
  BY <1>1, <1>2, <1>3, <1>4

\* An appended message is a step of the store, whoever appends it.
LEMMA AppendIsStoreStep ==
    ASSUME StoreTypeOK, NEW id, NEW role \in {"user", "assistant"},
           NEW text \in Text, AppendMessage(id, role, text)
    PROVE  id \in SessionId /\ StoreNext
<1>1. PICK i \in DOMAIN sessions : Finds(i, id)
  BY DEF AppendMessage
<1>2. sessions[i] \in Session /\ sessions[i].id = id
  BY <1>1, LenProperties, ElementOfSeq DEF StoreTypeOK, Finds
<1>3. id \in SessionId
  BY <1>2 DEF Session
<1>4. QED
  BY <1>3 DEF StoreNext

\* So is the answer of a turn, or it leaves the store alone.
LEMMA PersistIsStoreStep ==
    ASSUME StoreTypeOK, NEW id, NEW n \in Turn, NEW records \in 0 .. MaxRecords,
           NEW stopped \in BOOLEAN, Persist(id, n, records, stopped)
    PROVE  [StoreNext]_storeVars
<1>1. CASE records > 0 /\ id \in Listed(sessions)
  <2>1. records \in 1 .. MaxRecords
    BY <1>1, TurnAssumption
  <2>2. Answer(n, records, stopped) \in Text
    BY <2>1, TurnAssumption
  <2>3. AppendMessage(id, "assistant", Answer(n, records, stopped))
    BY <1>1 DEF Persist
  <2>4. QED
    BY <2>2, <2>3, AppendIsStoreStep
<1>2. CASE ~ (records > 0 /\ id \in Listed(sessions))
  BY <1>2 DEF Persist
<1>3. QED
  BY <1>1, <1>2

LEMMA StepIsStoreStep == CoreInv /\ [TurnNext]_vars => [StoreNext]_storeVars
<1> SUFFICES ASSUME CoreInv, [TurnNext]_vars
             PROVE  [StoreNext]_storeVars
  OBVIOUS
<1>0. StoreTypeOK
  BY DEF CoreInv
<1>1. ASSUME NEW id \in SessionId, NEW force \in BOOLEAN, SessionNew(id, force)
      PROVE  StoreNext
  BY <1>1 DEF SessionNew, StoreNext
<1>2. ASSUME NEW id \in SessionId, SessionRename(id) \/ SessionDelete(id)
      PROVE  StoreNext
  BY <1>2 DEF SessionRename, SessionDelete, StoreNext
<1>3. CASE MessageSend
  <2>1. NewTurn \in Turn
    BY <1>3 DEF MessageSend, Spawn
  <2>2. Prompt(NewTurn) \in Text
    BY <2>1, TurnAssumption
  <2>3. AppendMessage(active, "user", Prompt(NewTurn))
    BY <1>3 DEF MessageSend
  <2>4. QED
    BY <1>0, <2>2, <2>3, AppendIsStoreStep
<1>4. CASE MessageRegenerate \/ MessageRegenerateFails
  <2>1. active \in SessionId
    BY <1>4 DEF MessageRegenerate, MessageRegenerateFails, CoreInv, TurnTypeOK
  <2>2. QED
    BY <1>4, <2>1 DEF MessageRegenerate, MessageRegenerateFails, StoreNext
<1>5. CASE CliFinish
  <2>1. cliRun # NoRun
    BY <1>5 DEF CliFinish, CoreInv, Links
  <2>2. /\ cliRun \in CliRun
        /\ cliRun.turn \in Turn
        /\ child[cliRun.turn] \in Child
    BY <2>1, RunsNameChildren
  <2>3. /\ FinalLines(child[cliRun.turn].written) \in 0 .. MaxRecords
        /\ (cliRun.cancelled /\ ~ cliRun.timedOut) \in BOOLEAN
    BY <2>2, FinalLinesType DEF Child
  <2>4. Persist(cliRun.session, cliRun.turn,
                FinalLines(child[cliRun.turn].written),
                cliRun.cancelled /\ ~ cliRun.timedOut)
    BY <1>5 DEF CliFinish
  <2>5. QED
    BY <1>0, <2>2, <2>3, <2>4, PersistIsStoreStep
<1>6. CASE CodexFinish
  <2>1. codexRun # NoRun
    BY <1>6 DEF CodexFinish, CoreInv, Links
  <2>2. codexRun \in CodexRun /\ codexRun.turn \in Turn
    BY <2>1, RunsNameChildren
  <2>3. /\ FinalLines(codexRun.seen) \in 0 .. MaxRecords
        /\ (codexRun.cancelled /\ ~ codexTimedOut) \in BOOLEAN
    BY <2>2, FinalLinesType DEF CodexRun
  <2>4. Persist(codexSession, codexRun.turn, FinalLines(codexRun.seen),
                codexRun.cancelled /\ ~ codexTimedOut)
    BY <1>6 DEF CodexFinish
  <2>5. QED
    BY <1>0, <2>2, <2>3, <2>4, PersistIsStoreStep
<1>7. CASE DiskStep \/ AppRestart \/ AppRestartUnreadable
  BY <1>7 DEF DiskStep, AppRestart, AppRestartUnreadable, StoreNext
<1>8. CASE \/ \E id \in SessionId : SessionSelect(id)
           \/ \E kind \in Kind : ProviderSelect(kind)
           \/ MessageCancel
           \/ TickCliRead \/ CliPollRunning
           \/ TickCodexRead \/ CodexPollRunning
           \/ \E n \in DOMAIN child : ChildWrites(n)
           \/ \E n \in DOMAIN child, exit \in {"ok", "fail", "noexec"} :
                 ChildExits(n, exit)
           \/ TimePasses
           \/ UNCHANGED vars
  BY <1>8 DEF SessionSelect, ProviderSelect, MessageCancel, TickCliRead,
              CliPollRunning, TickCodexRead, CodexPollRunning, ChildWrites,
              ChildExits, TimePasses, vars
<1>9. QED
  BY <1>1, <1>2, <1>3, <1>4, <1>5, <1>6, <1>7, <1>8 DEF TurnNext, Tick

-----------------------------------------------------------------------------
(* Type correctness of the core *)

\* The first entry of a list is a listed session.
LEMMA FirstOfProperties ==
    ASSUME NEW list \in Seq(Session)
    PROVE  /\ FirstOf(list) \in SessionId \cup {NoSession}
           /\ list # <<>> => FirstOf(list) \in SessionId \cap Listed(list)
           /\ list = <<>> => FirstOf(list) = NoSession
<1>1. CASE list = <<>>
  BY <1>1 DEF FirstOf
<1>2. CASE list # <<>>
  <2>1. 1 \in 1 .. Len(list) /\ DOMAIN list = 1 .. Len(list)
    BY <1>2, EmptySeq, LenProperties
  <2>2. list[1] \in Session
    BY <2>1, ElementOfSeq
  <2>3. QED
    BY <1>2, <2>1, <2>2 DEF FirstOf, Session, Listed
<1>3. QED
  BY <1>1, <1>2

LEMMA CoreInit == TurnInit => CoreInv
<1> SUFFICES ASSUME TurnInit PROVE CoreInv
  OBVIOUS
<1>1. StoreTypeOK
  BY TypeInit DEF TurnInit
<1>2. active \in SessionId \cup {NoSession}
  BY <1>1, FirstOfProperties DEF TurnInit, StoreTypeOK
<1>3. child \in Seq(Child) /\ Len(child) = 0
  BY DEF TurnInit
<1>4. /\ verdict \in Seq({"none", "thinking", "done", "cancelled", "error"})
      /\ Len(verdict) = 0
  BY DEF TurnInit
<1>5. TurnTypeOK
  BY <1>2, <1>3, <1>4 DEF TurnInit, TurnTypeOK
<1>6. Links
  <2>1. pc = "loop" /\ cliRun = NoRun /\ codexRun = NoRun
    BY DEF TurnInit
  <2>2. 0 <= MaxTurns
    BY TurnAssumption
  <2>3. QED
    BY <1>3, <1>4, <2>1, <2>2 DEF Links
<1>7. QED
  BY <1>1, <1>5, <1>6 DEF CoreInv

Verdict == {"none", "thinking", "done", "cancelled", "error"}

\* A turn that starts adds one child and one verdict.
LEMMA SpawnType ==
    ASSUME CoreInv, NewTurn \in Turn, NEW c \in Child, NEW v \in Verdict,
           child' = Append(child, c), verdict' = Append(verdict, v)
    PROVE  /\ child' \in Seq(Child)
           /\ verdict' \in Seq(Verdict)
           /\ Len(child') = NewTurn
           /\ Len(verdict') = NewTurn
           /\ NewTurn <= MaxTurns
           /\ Len(child) < NewTurn
BY LenProperties, TurnAssumption DEF CoreInv, TurnTypeOK, Links, NewTurn, Turn, Verdict

\* What is spawned is a child, if its prompt belongs to a turn.
LEMMA SpawnedType ==
    ASSUME selected \in Kind, NEW prompt \in Turn
    PROVE  /\ Spawned(prompt) \in Child
           /\ [Spawned(prompt) EXCEPT !.signalled = TRUE] \in Child
<1>1. 0 \in 0 .. 2 * MaxRecords
  BY TurnAssumption
<1>2. Spawned(prompt) \in Child
  BY <1>1 DEF Spawned, Child
<1>3. QED
  BY <1>2 DEF Child

\* The prompt a regeneration sends again belongs to a turn.
LEMMA LastPromptType ==
    ASSUME StoreTypeOK, NEW id \in SessionId, Regenerable(History(id))
    PROVE  LastPrompt(id) \in Turn
<1>1. History(id) \in Seq(Message) /\ Len(History(id)) \in Nat
  BY HistoryType, LenProperties DEF StoreTypeOK
<1>2. Len(History(id)) - 1 \in 1 .. Len(History(id))
  BY <1>1 DEF Regenerable
<1>3. History(id)[Len(History(id)) - 1] \in Message
  BY <1>1, <1>2, ElementOfSeq
<1>4. QED
  BY <1>3, TurnAssumption DEF LastPrompt, Message

\* The run recorded for a turn that starts.
LEMMA StartRunType ==
    ASSUME CoreInv, active \in SessionId, NewTurn \in Turn, StartRun
    PROVE  /\ cliRun' \in CliRun \cup {NoRun}
           /\ codexRun' \in CodexRun \cup {NoRun}
           /\ codexSession' \in SessionId \cup {NoSession}
           /\ codexTimedOut' \in BOOLEAN
           /\ elapsed' \in BOOLEAN
           /\ cliRun' = cliRun \/ cliRun'.turn = NewTurn
           /\ codexRun' = codexRun \/ codexRun'.turn = NewTurn
<1>1. 0 \in 0 .. 2 * MaxRecords
  BY TurnAssumption
<1> DEFINE cli == [turn |-> NewTurn, session |-> active, seen |-> 0,
                    cancelled |-> FALSE, timedOut |-> FALSE]
           codex == [turn |-> NewTurn, seen |-> 0, cancelled |-> FALSE]
<1>2. /\ cli \in CliRun /\ cli.turn = NewTurn
      /\ codex \in CodexRun /\ codex.turn = NewTurn
  BY <1>1 DEF CliRun, CodexRun
<1>3. /\ elapsed' = FALSE
      /\ \/ /\ cliRun' = cli
            /\ UNCHANGED <<codexRun, codexSession, codexTimedOut>>
         \/ /\ codexRun' = codex
            /\ codexSession' = active
            /\ codexTimedOut' = FALSE
            /\ UNCHANGED cliRun
  BY Zenon DEF StartRun
<1> HIDE DEF cli, codex
<1>4. QED
  BY <1>2, <1>3, Zenon DEF CoreInv, TurnTypeOK

\* Every step keeps the records of the core well typed and linked.
LEMMA CoreStep == CoreInv /\ [TurnNext]_vars => CoreInv'
<1> SUFFICES ASSUME CoreInv, [TurnNext]_vars
             PROVE  TurnTypeOK' /\ Links'
  BY StepIsStoreStep, TypeStep DEF CoreInv
<1> USE DEF CoreInv
<1>0. sessions' \in Seq(Session)
  BY StepIsStoreStep, TypeStep DEF StoreTypeOK
<1>1. ASSUME active' \in SessionId \cup {NoSession}, selected' \in Kind,
             elapsed' \in BOOLEAN,
             UNCHANGED <<cliRun, codexRun, codexSession, codexTimedOut, pc,
                         child, verdict>>
      PROVE  TurnTypeOK' /\ Links'
  BY <1>1 DEF TurnTypeOK, Links
<1>2. ASSUME NEW id \in SessionId, NEW force \in BOOLEAN, SessionNew(id, force)
      PROVE  TurnTypeOK' /\ Links'
  BY <1>1, <1>2 DEF SessionNew, runVars, TurnTypeOK
<1>3. ASSUME NEW id \in SessionId,
             SessionSelect(id) \/ SessionRename(id)
      PROVE  TurnTypeOK' /\ Links'
  BY <1>1, <1>3 DEF SessionSelect, SessionRename, runVars, turnVars, TurnTypeOK
<1>4. ASSUME NEW id \in SessionId, SessionDelete(id)
      PROVE  TurnTypeOK' /\ Links'
  <2>1. active' \in SessionId \cup {NoSession}
    BY <1>0, <1>4, FirstOfProperties DEF SessionDelete, TurnTypeOK
  <2>2. QED
    BY <1>1, <1>4, <2>1 DEF SessionDelete, runVars, TurnTypeOK
<1>5. CASE (\E kind \in Kind : ProviderSelect(kind)) \/ DiskStep \/ UNCHANGED vars
  BY <1>1, <1>5 DEF ProviderSelect, DiskStep, runVars, turnVars, vars, TurnTypeOK
<1>6. CASE TimePasses
  BY <1>1, <1>6 DEF TimePasses, TurnTypeOK
<1>7. ASSUME NEW prompt \in Turn, Spawn(prompt), StartRun, active \in SessionId,
             UNCHANGED <<active, selected, pc>>
      PROVE  TurnTypeOK' /\ Links'
  <2>1. NewTurn \in Turn /\ pc = "loop"
    BY <1>7 DEF Spawn, Waiting
  <2>2. Spawned(prompt) \in Child /\ "thinking" \in Verdict
    BY SpawnedType DEF TurnTypeOK, Verdict
  <2>3. /\ child' = Append(child, Spawned(prompt))
        /\ verdict' = Append(verdict, "thinking")
    BY <1>7 DEF Spawn, StartRun
  <2>4. /\ child' \in Seq(Child)
        /\ verdict' \in Seq(Verdict)
        /\ Len(child') = NewTurn /\ Len(verdict') = NewTurn
        /\ NewTurn <= MaxTurns /\ Len(child) < NewTurn
    BY <2>1, <2>2, <2>3, SpawnType
  <2>5. /\ cliRun' \in CliRun \cup {NoRun}
        /\ codexRun' \in CodexRun \cup {NoRun}
        /\ codexSession' \in SessionId \cup {NoSession}
        /\ codexTimedOut' \in BOOLEAN
        /\ elapsed' \in BOOLEAN
        /\ cliRun' = cliRun \/ cliRun'.turn = NewTurn
        /\ codexRun' = codexRun \/ codexRun'.turn = NewTurn
    BY <1>7, <2>1, StartRunType
  <2>6. TurnTypeOK'
    BY <1>7, <2>4, <2>5 DEF TurnTypeOK, Verdict
  <2>7. /\ cliRun' # NoRun => cliRun'.turn <= NewTurn
        /\ codexRun' # NoRun => codexRun'.turn <= NewTurn
    <3>1. NewTurn \in Nat /\ Len(child) \in Nat
      BY <2>1, RunsNameChildren, TurnAssumption DEF Turn
    <3>2. /\ cliRun # NoRun => cliRun.turn \in Nat /\ cliRun.turn <= Len(child)
          /\ codexRun # NoRun => codexRun.turn \in Nat /\ codexRun.turn <= Len(child)
      BY RunsNameChildren DEF Links
    <3>3. QED
      BY <2>4, <2>5, <3>1, <3>2
  <2>8. QED
    BY <1>7, <2>1, <2>4, <2>6, <2>7 DEF Links
<1>8. CASE MessageSend
  <2>1. active \in SessionId
    BY <1>8 DEF MessageSend, Spawn, TurnTypeOK
  <2>2. NewTurn \in Turn /\ Spawn(NewTurn) /\ StartRun /\ UNCHANGED <<active, selected, pc>>
    BY <1>8 DEF MessageSend, Spawn
  <2>3. QED
    BY <1>7, <2>1, <2>2
<1>9. CASE MessageRegenerate
  <2>1. active \in SessionId
    BY <1>9 DEF MessageRegenerate, TurnTypeOK
  <2>2. LastPrompt(active) \in Turn
    BY <1>9, <2>1, LastPromptType DEF MessageRegenerate, Regenerate
  <2>3. Spawn(LastPrompt(active)) /\ StartRun /\ UNCHANGED <<active, selected, pc>>
    BY <1>9 DEF MessageRegenerate
  <2>4. QED
    BY <1>7, <2>1, <2>2, <2>3
<1>10. CASE MessageRegenerateFails
  <2> DEFINE c == [Spawned(LastPrompt(active)) EXCEPT !.signalled = TRUE]
             run == [turn |-> NewTurn, seen |-> 0, cancelled |-> TRUE]
  <2>1. active \in SessionId /\ NewTurn \in Turn /\ pc = "loop"
    BY <1>10 DEF MessageRegenerateFails, Waiting, TurnTypeOK
  <2>2. LastPrompt(active) \in Turn
    BY <1>10, <2>1, LastPromptType DEF MessageRegenerateFails, RegenerateFails
  <2>3. c \in Child
    BY <2>2, SpawnedType DEF TurnTypeOK
  <2>4. child' = Append(child, c) /\ verdict' = Append(verdict, "none")
    BY <1>10 DEF MessageRegenerateFails
  <2>5. "none" \in Verdict
    BY DEF Verdict
  <2> HIDE DEF c
  <2>6. /\ child' \in Seq(Child)
        /\ verdict' \in Seq(Verdict)
        /\ Len(child') = NewTurn /\ Len(verdict') = NewTurn
        /\ NewTurn <= MaxTurns /\ Len(child) < NewTurn
    BY <2>1, <2>3, <2>4, <2>5, SpawnType
  <2>7. 0 \in 0 .. 2 * MaxRecords
    BY TurnAssumption
  <2>8. run \in CodexRun /\ run.turn = NewTurn
    BY <2>1, <2>7 DEF CodexRun
  <2>9. codexRun' = run \/ codexRun' = codexRun
    BY <1>10 DEF MessageRegenerateFails
  <2> HIDE DEF run
  <2>10. TurnTypeOK'
    BY <1>10, <2>6, <2>8, <2>9 DEF MessageRegenerateFails, TurnTypeOK, Verdict
  <2>11. /\ cliRun' # NoRun => cliRun'.turn <= NewTurn
         /\ codexRun' # NoRun => codexRun'.turn <= NewTurn
    <3>1. NewTurn \in Nat /\ Len(child) \in Nat
      BY <2>1, RunsNameChildren, TurnAssumption DEF Turn
    <3>2. /\ cliRun # NoRun => cliRun.turn \in Nat /\ cliRun.turn <= Len(child)
          /\ codexRun # NoRun => codexRun.turn \in Nat /\ codexRun.turn <= Len(child)
      BY RunsNameChildren DEF Links
    <3>3. cliRun' = cliRun
      BY <1>10 DEF MessageRegenerateFails
    <3>4. QED
      BY <2>6, <2>8, <2>9, <3>1, <3>2, <3>3
  <2>12. pc' = "loop"
    BY <1>10, <2>1 DEF MessageRegenerateFails
  <2>13. QED
    BY <2>6, <2>10, <2>11, <2>12 DEF Links
<1>11. CASE MessageCancel
  <2>1. CASE codexRun # NoRun /\ cliRun' = cliRun
    <3> DEFINE run == [codexRun EXCEPT !.cancelled = TRUE]
    <3>1. codexRun' = run /\ child' = Signal(codexRun.turn)
      BY <1>11, <2>1 DEF MessageCancel
    <3>2. run \in CodexRun /\ run.turn = codexRun.turn
      BY <2>1, RunsNameChildren DEF CodexRun
    <3>3. child' \in Seq(Child) /\ Len(child') = Len(child)
      BY <2>1, <3>1, RunsNameChildren, SignalReapType DEF TurnTypeOK
    <3> HIDE DEF run
    <3>4. QED
      BY <1>11, <2>1, <3>1, <3>2, <3>3 DEF MessageCancel, Waiting, TurnTypeOK, Links
  <2>2. CASE cliRun # NoRun /\ codexRun = NoRun
    <3> DEFINE run == [cliRun EXCEPT !.cancelled = TRUE]
    <3>1. cliRun' = run /\ child' = Signal(cliRun.turn) /\ codexRun' = codexRun
      BY <1>11, <2>2 DEF MessageCancel
    <3>2. run \in CliRun /\ run.turn = cliRun.turn
      BY <2>2, RunsNameChildren DEF CliRun
    <3>3. child' \in Seq(Child) /\ Len(child') = Len(child)
      BY <2>2, <3>1, RunsNameChildren, SignalReapType DEF TurnTypeOK
    <3> HIDE DEF run
    <3>4. QED
      BY <1>11, <2>2, <3>1, <3>2, <3>3 DEF MessageCancel, Waiting, TurnTypeOK, Links
  <2>3. QED
    BY <1>11, <2>1, <2>2 DEF MessageCancel
<1>12. CASE TickCliRead
  <2>1. /\ cliRun # NoRun
        /\ cliRun \in CliRun
        /\ cliRun.turn \in 1 .. Len(child)
        /\ child[cliRun.turn] \in Child
    BY <1>12, RunsNameChildren DEF TickCliRead
  <2>2. child[cliRun.turn].written \in 0 .. 2 * MaxRecords
    BY <2>1 DEF Child
  <2>3. PICK late \in BOOLEAN :
           /\ cliRun' = [cliRun EXCEPT !.timedOut = @ \/ late,
                                       !.seen = child[cliRun.turn].written]
           /\ child' = IF late THEN Signal(cliRun.turn) ELSE child
    BY <1>12 DEF TickCliRead
  <2>4. cliRun' \in CliRun /\ cliRun'.turn = cliRun.turn
    BY <2>1, <2>2, <2>3 DEF CliRun
  <2>5. child' \in Seq(Child) /\ Len(child') = Len(child)
    BY <2>1, <2>3, SignalReapType DEF TurnTypeOK
  <2>6. TurnTypeOK'
    BY <1>12, <2>4, <2>5 DEF TickCliRead, TurnTypeOK
  <2>7. cliRun' # NoRun
    BY <2>4, TurnAssumption
  <2>8. QED
    BY <1>12, <2>1, <2>4, <2>5, <2>6, <2>7 DEF TickCliRead, Links
<1>13. CASE TickCodexRead
  <2>1. /\ codexRun # NoRun
        /\ codexRun \in CodexRun
        /\ codexRun.turn \in 1 .. Len(child)
        /\ child[codexRun.turn] \in Child
    BY <1>13, RunsNameChildren DEF TickCodexRead
  <2>2. child[codexRun.turn].written \in 0 .. 2 * MaxRecords
    BY <2>1 DEF Child
  <2>3. PICK late \in BOOLEAN :
           /\ codexTimedOut' = (codexTimedOut \/ late)
           /\ codexRun' = [codexRun EXCEPT !.cancelled = @ \/ late,
                                           !.seen = child[codexRun.turn].written]
           /\ child' = IF late THEN Signal(codexRun.turn) ELSE child
    BY <1>13 DEF TickCodexRead
  <2>4. codexRun' \in CodexRun /\ codexRun'.turn = codexRun.turn
    BY <2>1, <2>2, <2>3 DEF CodexRun
  <2>5. child' \in Seq(Child) /\ Len(child') = Len(child)
    BY <2>1, <2>3, SignalReapType DEF TurnTypeOK
  <2>6. codexTimedOut' \in BOOLEAN
    BY <2>3
  <2>7. TurnTypeOK'
    BY <1>13, <2>4, <2>5, <2>6 DEF TickCodexRead, TurnTypeOK
  <2>8. codexRun' # NoRun
    BY <2>4, TurnAssumption
  <2>9. QED
    BY <1>13, <2>1, <2>4, <2>5, <2>7, <2>8 DEF TickCodexRead, Links
<1>14. CASE CliPollRunning \/ CodexPollRunning
  BY <1>14 DEF CliPollRunning, CodexPollRunning, AfterCli, runVars, TurnTypeOK, Links
<1>15. ASSUME NEW n \in 1 .. Len(child), NEW v \in Verdict,
              child' = Reap(n), verdict' = [verdict EXCEPT ![n] = v]
       PROVE  /\ child' \in Seq(Child) /\ Len(child') = Len(child)
              /\ verdict' \in Seq(Verdict) /\ Len(verdict') = Len(verdict)
  BY <1>15, SignalReapType, ExceptSeq DEF TurnTypeOK, Links, Verdict
<1>16. CASE CliFinish
  <2>1. cliRun # NoRun /\ cliRun.turn \in 1 .. Len(child)
    BY <1>16, RunsNameChildren DEF CliFinish, Links
  <2>2. PICK v \in Verdict : verdict' = [verdict EXCEPT ![cliRun.turn] = v]
    BY <1>16 DEF CliFinish, Verdict
  <2>3. child' = Reap(cliRun.turn)
    BY <1>16 DEF CliFinish
  <2>4. /\ child' \in Seq(Child) /\ Len(child') = Len(child)
        /\ verdict' \in Seq(Verdict) /\ Len(verdict') = Len(verdict)
    BY <1>15, <2>1, <2>2, <2>3
  <2>5. QED
    BY <1>16, <2>4 DEF CliFinish, AfterCli, TurnTypeOK, Links, Verdict
<1>17. CASE CodexFinish
  <2>1. codexRun # NoRun /\ codexRun.turn \in 1 .. Len(child)
    BY <1>17, RunsNameChildren DEF CodexFinish, Links
  <2>2. verdict[codexRun.turn] \in Verdict
    BY <2>1, ElementOfSeq DEF TurnTypeOK, Links, Verdict
  <2>3. PICK v \in Verdict : verdict' = [verdict EXCEPT ![codexRun.turn] = v]
    BY <1>17, <2>2 DEF CodexFinish, Verdict
  <2>4. child' = Reap(codexRun.turn)
    BY <1>17 DEF CodexFinish
  <2>5. /\ child' \in Seq(Child) /\ Len(child') = Len(child)
        /\ verdict' \in Seq(Verdict) /\ Len(verdict') = Len(verdict)
    BY <1>15, <2>1, <2>3, <2>4
  <2>6. QED
    BY <1>17, <2>5 DEF CodexFinish, TurnTypeOK, Links, Verdict
<1>18. ASSUME NEW n \in DOMAIN child, NEW c \in Child,
              child' = [child EXCEPT ![n] = c],
              UNCHANGED <<active, selected, runVars, pc, verdict>>
       PROVE  TurnTypeOK' /\ Links'
  <2>1. child' \in Seq(Child) /\ Len(child') = Len(child)
    BY <1>18, RunsNameChildren, ExceptSeq DEF TurnTypeOK
  <2>2. QED
    BY <1>18, <2>1 DEF runVars, TurnTypeOK, Links
<1>19. ASSUME NEW n \in DOMAIN child, ChildWrites(n)
       PROVE  TurnTypeOK' /\ Links'
  <2> DEFINE c == [child[n] EXCEPT !.written = @ + 1]
  <2>1. child[n] \in Child
    BY <1>19, RunsNameChildren, ElementOfSeq DEF TurnTypeOK
  <2>2. child[n].written + 1 \in 0 .. 2 * MaxRecords
    BY <1>19, <2>1, TurnAssumption DEF ChildWrites, Child
  <2>3. c \in Child
    BY <2>1, <2>2 DEF Child
  <2>4. child' = [child EXCEPT ![n] = c]
    BY <1>19 DEF ChildWrites
  <2> HIDE DEF c
  <2>5. QED
    BY <1>18, <1>19, <2>3, <2>4 DEF ChildWrites
<1>20. ASSUME NEW n \in DOMAIN child, NEW exit \in {"ok", "fail", "noexec"},
              ChildExits(n, exit)
       PROVE  TurnTypeOK' /\ Links'
  <2> DEFINE c == [child[n] EXCEPT !.state = "zombie", !.exit = exit]
  <2>1. child[n] \in Child
    BY <1>20, RunsNameChildren, ElementOfSeq DEF TurnTypeOK
  <2>2. c \in Child
    BY <2>1 DEF Child
  <2>3. child' = [child EXCEPT ![n] = c]
    BY <1>20 DEF ChildExits
  <2> HIDE DEF c
  <2>4. QED
    BY <1>18, <1>20, <2>2, <2>3 DEF ChildExits
<1>21. CASE Reborn
  <2> DEFINE e(n) == IF child[n].state = "reaped" THEN child[n]
                     ELSE [child[n] EXCEPT !.state = "orphan"]
  <2>1. \A n \in 1 .. Len(child) : e(n) \in Child
    <3>1. \A n \in 1 .. Len(child) : child[n] \in Child
      BY ElementOfSeq DEF TurnTypeOK
    <3>2. QED
      BY <3>1 DEF Child
  <2>2. child' = [n \in 1 .. Len(child) |-> e(n)]
    BY <1>21, RunsNameChildren DEF Reborn
  <2>3. Len(child) \in Nat
    BY RunsNameChildren
  <2>4. [n \in 1 .. Len(child) |-> e(n)] \in Seq(Child)
    BY <2>1, <2>3, IsASeq
  <2>5. child' \in Seq(Child) /\ Len(child') = Len(child)
    BY <2>2, <2>3, <2>4
  <2>6. active' \in SessionId \cup {NoSession}
    BY <1>0, <1>21, FirstOfProperties DEF Reborn
  <2>7. QED
    BY <1>21, <2>5, <2>6 DEF Reborn, TurnTypeOK, Links
<1>22. QED
  BY <1>2, <1>3, <1>4, <1>5, <1>6, <1>8, <1>9, <1>10, <1>11, <1>12, <1>13,
     <1>14, <1>16, <1>17, <1>19, <1>20, <1>21
     DEF TurnNext, Tick, AppRestart, AppRestartUnreadable

\* However commands, ticks, children, failed writes and restarts follow each
\* other, the records of the core stay well typed and linked.
THEOREM CoreInvariant == TurnSpec => []CoreInv
<1>1. CoreInv /\ [TurnNext]_vars => CoreInv'
  BY CoreStep
<1>2. QED
  BY <1>1, CoreInit, PTL DEF TurnSpec

\* The records of the core stay well typed (core_dispatch and core_tick).
THEOREM CoreTypeCorrect == TurnSpec => []TurnTypeOK
<1>1. CoreInv => TurnTypeOK
  BY DEF CoreInv
<1>2. QED
  BY <1>1, CoreInvariant, PTL

\* Each step of the core takes one step of the session store or leaves it alone,
\* so that the theorems about StoreSpec can be cited for the application.
LEMMA CoreUsesStore == TurnSpec => StoreSpec
<1>1. TurnInit => StoreInit
  BY DEF TurnInit
<1>2. CoreInv /\ [TurnNext]_vars => [StoreNext]_storeVars
  BY StepIsStoreStep
<1>3. QED
  BY <1>1, <1>2, CoreInvariant, PTL DEF TurnSpec, StoreSpec

\* Whatever the core does with its runs, as long as no file operation fails the
\* conversations on disk change only as Conversations allows.
THEOREM CoreKeepsConversations ==
    TurnSpec /\ [](failures = 0) => KeepsConversations
<1>1. QED
  BY CoreUsesStore, StoreKeepsConversations, PTL

-----------------------------------------------------------------------------
(* The active session is listed *)

\* The first entry serves as active session.
LEMMA FirstServes ==
    ASSUME NEW list \in Seq(Session)
    PROVE  /\ FirstOf(list) # NoSession => FirstOf(list) \in Listed(list)
           /\ FirstOf(list) = NoSession => list = <<>>
BY FirstOfProperties, TurnAssumption

\* What a step of the store may do to the set of listed ids, as far as the
\* choice of the active session depends on it.
LEMMA ListedAfterCreate ==
    ASSUME StoreTypeOK, NEW id \in SessionId, CreateSession(id)
    PROVE  id \in Listed(sessions')
<1>1. /\ Len(sessions) + 1 \in DOMAIN sessions'
      /\ sessions'[Len(sessions) + 1] = [id |-> id, count |-> 0]
  BY LenProperties DEF CreateSession, StoreTypeOK
<1>2. QED
  BY <1>1 DEF Listed

LEMMA ListedAfterDelete ==
    ASSUME StoreTypeOK, NEW id \in SessionId, DeleteSession(id)
    PROVE  Listed(sessions) \ {id} \subseteq Listed(sessions')
<1>1. PICK i \in DOMAIN sessions : /\ sessions[i].id = id
                                  /\ sessions' = Without(sessions, i)
  BY DEF DeleteSession
<1>2. /\ DOMAIN sessions = 1 .. Len(sessions)
      /\ Len(sessions) \in Nat
  BY LenProperties DEF StoreTypeOK
<1>3. /\ DOMAIN sessions' = 1 .. Len(sessions) - 1
      /\ \A k \in DOMAIN sessions' :
            sessions'[k] = IF k < i THEN sessions[k] ELSE sessions[k + 1]
  BY <1>1 DEF Without
<1>4. ASSUME NEW j \in DOMAIN sessions, sessions[j].id # id
      PROVE  sessions[j].id \in Listed(sessions')
  <2>1. j # i
    BY <1>1, <1>4
  <2>2. CASE j < i
    <3>1. j \in DOMAIN sessions' /\ sessions'[j] = sessions[j]
      BY <1>1, <1>2, <1>3, <2>2
    <3>2. QED
      BY <3>1 DEF Listed
  <2>3. CASE j > i
    <3>1. j - 1 \in DOMAIN sessions' /\ sessions'[j - 1] = sessions[j]
      BY <1>1, <1>2, <1>3, <2>3
    <3>2. QED
      BY <3>1 DEF Listed
  <2>4. QED
    BY <1>1, <1>2, <2>1, <2>2, <2>3
<1>5. QED
  BY <1>4 DEF Listed

LEMMA ListedAfterCount ==
    ASSUME StoreTypeOK, NEW i \in DOMAIN sessions, NEW change \in Int,
           sessions' = Counted(i, change)
    PROVE  Listed(sessions') = Listed(sessions) /\ sessions # <<>>
<1>1. /\ DOMAIN sessions' = DOMAIN sessions
      /\ \A k \in DOMAIN sessions : sessions'[k].id = sessions[k].id
  BY CountedProperties DEF StoreTypeOK
<1>2. QED
  BY <1>1 DEF Listed

\* Appending and regenerating need a listed session and keep the ids.
LEMMA ListedAfterMessage ==
    ASSUME StoreTypeOK, NEW id, NEW role, NEW text,
           AppendMessage(id, role, text) \/ Regenerate(id)
    PROVE  Listed(sessions') = Listed(sessions) /\ sessions # <<>>
<1>1. PICK i \in DOMAIN sessions, change \in Int : sessions' = Counted(i, change)
  BY DEF AppendMessage, Regenerate
<1>2. QED
  BY <1>1, ListedAfterCount

\* The active session exists, and there is one whenever there are sessions,
\* after every command, tick, failed write and restart (session_new, select,
\* delete and core_open_mode).
THEOREM ActiveStaysListed == TurnSpec => []ActiveIsListed
<1>1. TurnInit => ActiveIsListed
  <2> SUFFICES ASSUME TurnInit PROVE ActiveIsListed
    OBVIOUS
  <2>1. StoreTypeOK
    BY TypeInit DEF TurnInit
  <2>2. QED
    BY <2>1, FirstServes DEF TurnInit, StoreTypeOK, ActiveIsListed
<1>2. CoreInv /\ ActiveIsListed /\ [TurnNext]_vars => ActiveIsListed'
  <2> SUFFICES ASSUME CoreInv, ActiveIsListed, [TurnNext]_vars
               PROVE  ActiveIsListed'
    OBVIOUS
  <2>0. StoreTypeOK /\ StoreTypeOK' /\ active \in SessionId \cup {NoSession}
    BY StepIsStoreStep, TypeStep DEF CoreInv, TurnTypeOK
  <2>1. CASE UNCHANGED <<active, sessions>>
    BY <2>1 DEF ActiveIsListed
  <2>2. ASSUME NEW id \in SessionId, NEW force \in BOOLEAN, SessionNew(id, force)
        PROVE  ActiveIsListed'
    BY <2>0, <2>2, ListedAfterCreate, TurnAssumption DEF SessionNew, ActiveIsListed
  <2>3. ASSUME NEW id \in SessionId, SessionSelect(id)
        PROVE  ActiveIsListed'
    BY <2>3, TurnAssumption DEF SessionSelect, storeVars, ActiveIsListed
  <2>4. ASSUME NEW id \in SessionId, SessionDelete(id)
        PROVE  ActiveIsListed'
    <3>1. CASE id = active
      <4>1. active' = FirstOf(sessions')
        BY <2>4, <3>1 DEF SessionDelete
      <4>2. QED
        BY <2>0, <4>1, FirstServes DEF StoreTypeOK, ActiveIsListed
    <3>2. CASE id # active
      <4>1. sessions # <<>>
        BY <2>4 DEF SessionDelete, DeleteSession
      <4>2. active \in Listed(sessions) \ {id} /\ active' = active
        BY <2>4, <3>2, <4>1 DEF SessionDelete, ActiveIsListed
      <4>3. active \in Listed(sessions')
        BY <2>0, <2>4, <4>2, ListedAfterDelete DEF SessionDelete
      <4>4. active # NoSession
        BY <4>1 DEF ActiveIsListed
      <4>5. QED
        BY <4>2, <4>3, <4>4 DEF ActiveIsListed
    <3>3. QED
      BY <3>1, <3>2
  <2>5. ASSUME Listed(sessions') = Listed(sessions), sessions # <<>>,
               active' = active
        PROVE  ActiveIsListed'
    BY <2>5 DEF ActiveIsListed
  <2>6. CASE MessageSend \/ MessageRegenerate
    BY <2>0, <2>5, <2>6, ListedAfterMessage DEF MessageSend, MessageRegenerate
  <2>7. ASSUME NEW id, NEW n, NEW records, NEW stopped,
               Persist(id, n, records, stopped), active' = active
        PROVE  ActiveIsListed'
    BY <2>0, <2>1, <2>5, <2>7, ListedAfterMessage DEF Persist, storeVars
  <2>8. CASE CliFinish
    BY <2>7, <2>8 DEF CliFinish
  <2>9. CASE CodexFinish
    BY <2>7, <2>9 DEF CodexFinish
  <2>10. CASE Reborn
    <3>1. active' = FirstOf(sessions')
      BY <2>10 DEF Reborn
    <3>2. QED
      BY <2>0, <3>1, FirstServes DEF StoreTypeOK, ActiveIsListed
  <2>11. CASE DiskStep
    BY <2>1, <2>11 DEF DiskStep, Disk, SaveSessions, SeedMessages, WriteMessage,
                       UnlinkMessages, FailWrite, AppendOverUnreadable, turnVars
  <2>12. ASSUME NEW id \in SessionId, SessionRename(id)
         PROVE  ActiveIsListed'
    BY <2>1, <2>12 DEF SessionRename, RenameSession, turnVars
  <2>13. CASE MessageRegenerateFails
    BY <2>1, <2>13 DEF MessageRegenerateFails, RegenerateFails
  <2>14. CASE \/ \E kind \in Kind : ProviderSelect(kind)
              \/ MessageCancel
              \/ TickCliRead \/ CliPollRunning
              \/ TickCodexRead \/ CodexPollRunning
              \/ \E n \in DOMAIN child : ChildWrites(n)
              \/ \E n \in DOMAIN child, exit \in {"ok", "fail", "noexec"} :
                    ChildExits(n, exit)
              \/ TimePasses
              \/ UNCHANGED vars
    BY <2>1, <2>14 DEF ProviderSelect, MessageCancel, TickCliRead,
              CliPollRunning, TickCodexRead, CodexPollRunning, ChildWrites,
              ChildExits, TimePasses, vars, turnVars, storeVars
  <2>15. QED
    BY <2>2, <2>3, <2>4, <2>6, <2>8, <2>9, <2>10, <2>11, <2>12, <2>13, <2>14
       DEF TurnNext, Tick, AppRestart, AppRestartUnreadable
<1>3. QED
  BY <1>1, <1>2, CoreInvariant, PTL DEF TurnSpec

-----------------------------------------------------------------------------
(* One attended child *)

\* Signalling changes the state of no child, reaping that of one.
LEMMA SignalReapStates ==
    ASSUME child \in Seq(Child), NEW n \in 1 .. Len(child)
    PROVE  \A m \in 1 .. Len(child) :
              /\ Signal(n)[m].state = child[m].state
              /\ Signal(n)[m].kind = child[m].kind
              /\ Reap(n)[m].state = IF m = n THEN "reaped" ELSE child[m].state
              /\ Reap(n)[m].kind = child[m].kind
<1>1. child[n] \in Child
  BY ElementOfSeq
<1> DEFINE s == [child[n] EXCEPT !.signalled = TRUE]
           r == [child[n] EXCEPT !.state = "reaped"]
<1>2. /\ s \in Child /\ s.state = child[n].state /\ s.kind = child[n].kind
      /\ r \in Child /\ r.state = "reaped" /\ r.kind = child[n].kind
  BY <1>1 DEF Child
<1>3. Signal(n) = [child EXCEPT ![n] = s] /\ Reap(n) = [child EXCEPT ![n] = r]
  BY DEF Signal, Reap
<1> HIDE DEF s, r
<1>4. QED
  BY <1>2, <1>3, ExceptSeq

\* Failures are only ever added.
LEMMA FailuresGrow ==
    ASSUME StoreTypeOK, [StoreNext]_storeVars
    PROVE  failures' = 0 => failures = 0
<1>1. failures \in Nat
  BY DEF StoreTypeOK
<1>2. failures' = failures \/ failures' = failures + 1
  BY DEF StoreNext, storeVars, CreateSession, DeleteSession, RenameSession,
         AppendMessage, Regenerate, RegenerateFails, Disk, SaveSessions,
         SeedMessages, WriteMessage, UnlinkMessages, FailWrite,
         AppendOverUnreadable, Restart, RestartUnreadable
<1>3. QED
  BY <1>1, <1>2

\* At most one run is recorded, and while no file operation fails every child
\* that has not been waited for has a run that will do it, through every order
\* of send, regenerate, cancel, timeout, exit and restart.
THEOREM ChildrenAreAttended == TurnSpec => []OneAttendedChild
<1>1. TurnInit => OneAttendedChild
  BY DEF TurnInit, OneAttendedChild
<1>2. CoreInv /\ OneAttendedChild /\ [TurnNext]_vars => OneAttendedChild'
  <2> SUFFICES ASSUME CoreInv, OneAttendedChild, [TurnNext]_vars
               PROVE  OneAttendedChild'
    OBVIOUS
  <2>0. /\ child \in Seq(Child)
        /\ DOMAIN child = 1 .. Len(child)
        /\ Len(child) \in Nat
        /\ failures' = 0 => failures = 0
    BY RunsNameChildren, StepIsStoreStep, FailuresGrow DEF CoreInv, TurnTypeOK
  <2>1. ASSUME DOMAIN child' = DOMAIN child,
               \A n \in DOMAIN child :
                  child'[n].state \in {"alive", "zombie"} =>
                     child[n].state \in {"alive", "zombie"},
               cliRun' = NoRun <=> cliRun = NoRun,
               codexRun' = NoRun <=> codexRun = NoRun,
               cliRun # NoRun => cliRun'.turn = cliRun.turn,
               codexRun # NoRun => codexRun'.turn = codexRun.turn
        PROVE  OneAttendedChild'
    BY <2>0, <2>1 DEF OneAttendedChild, Attended
  <2>2. CASE \/ UNCHANGED vars
             \/ \E id \in SessionId : \/ \E force \in BOOLEAN : SessionNew(id, force)
                                      \/ SessionSelect(id)
                                      \/ SessionRename(id)
                                      \/ SessionDelete(id)
             \/ \E kind \in Kind : ProviderSelect(kind)
             \/ CliPollRunning \/ CodexPollRunning
             \/ TimePasses \/ DiskStep
    <3>1. UNCHANGED <<cliRun, codexRun, child>>
      BY <2>2 DEF vars, turnVars, runVars, SessionNew, SessionSelect,
                  SessionRename, SessionDelete, ProviderSelect, CliPollRunning,
                  CodexPollRunning, TimePasses, DiskStep
    <3>2. QED
      BY <2>1, <3>1
  <2>3. ASSUME NEW prompt, Spawn(prompt), StartRun
        PROVE  OneAttendedChild'
    <3>1. cliRun = NoRun /\ codexRun = NoRun
      BY <2>3 DEF Spawn, Busy
    <3>2. /\ DOMAIN child' = 1 .. NewTurn
          /\ \A n \in 1 .. Len(child) : child'[n] = child[n]
          /\ NewTurn = Len(child) + 1
      BY <2>0, <2>3 DEF Spawn, NewTurn
    <3>3. \/ cliRun'.turn = NewTurn /\ cliRun' # NoRun /\ codexRun' = NoRun
          \/ codexRun'.turn = NewTurn /\ codexRun' # NoRun /\ cliRun' = NoRun
      <4>1. /\ NewTurn \in Turn
            /\ active \in SessionId
            /\ 0 \in 0 .. 2 * MaxRecords
        BY <2>3, TurnAssumption DEF Spawn, CoreInv, TurnTypeOK
      <4>2. /\ [turn |-> NewTurn, session |-> active, seen |-> 0,
                cancelled |-> FALSE, timedOut |-> FALSE] \in CliRun
            /\ [turn |-> NewTurn, seen |-> 0, cancelled |-> FALSE] \in CodexRun
        BY <4>1 DEF CliRun, CodexRun
      <4>3. /\ NoRun # [turn |-> NewTurn, session |-> active, seen |-> 0,
                        cancelled |-> FALSE, timedOut |-> FALSE]
            /\ NoRun # [turn |-> NewTurn, seen |-> 0, cancelled |-> FALSE]
        BY <4>2, TurnAssumption
      <4>4. QED
        BY <2>3, <3>1, <4>3 DEF StartRun
    <3>4. failures = 0 => \A n \in DOMAIN child : child[n].state \notin {"alive", "zombie"}
      BY <3>1 DEF OneAttendedChild, Attended
    <3>5. QED
      BY <2>0, <3>2, <3>3, <3>4 DEF OneAttendedChild, Attended
  <2>4. CASE MessageSend \/ MessageRegenerate
    BY <2>3, <2>4 DEF MessageSend, MessageRegenerate
  <2>5. CASE MessageRegenerateFails
    <3>1. failures' # 0 /\ cliRun' = NoRun
      BY <2>5 DEF MessageRegenerateFails, RegenerateFails, Busy, CoreInv, StoreTypeOK
    <3>2. QED
      BY <3>1 DEF OneAttendedChild
  <2>6. ASSUME NEW n \in 1 .. Len(child), child' = Signal(n) \/ child' = child
        PROVE  /\ DOMAIN child' = DOMAIN child
               /\ \A m \in DOMAIN child : child'[m].state = child[m].state
    BY <2>0, <2>6, SignalReapType, SignalReapStates, LenProperties
  <2>7. ASSUME cliRun # NoRun, cliRun' \in CliRun, cliRun'.turn = cliRun.turn,
               codexRun' = codexRun, child' = Signal(cliRun.turn) \/ child' = child
        PROVE  OneAttendedChild'
    BY <2>1, <2>6, <2>7, RunsNameChildren, TurnAssumption
  <2>8. ASSUME codexRun # NoRun, codexRun' \in CodexRun, codexRun'.turn = codexRun.turn,
               cliRun' = cliRun, child' = Signal(codexRun.turn) \/ child' = child
        PROVE  OneAttendedChild'
    BY <2>1, <2>6, <2>8, RunsNameChildren, TurnAssumption
  <2>9. CASE MessageCancel
    <3>1. CASE codexRun # NoRun /\ cliRun' = cliRun
      <4>1. /\ codexRun' = [codexRun EXCEPT !.cancelled = TRUE]
            /\ child' = Signal(codexRun.turn)
        BY <2>9, <3>1 DEF MessageCancel
      <4>2. codexRun' \in CodexRun /\ codexRun'.turn = codexRun.turn
        BY <3>1, <4>1, RunsNameChildren DEF CodexRun
      <4>3. QED
        BY <2>8, <3>1, <4>1, <4>2
    <3>2. CASE cliRun # NoRun /\ codexRun = NoRun
      <4>1. /\ cliRun' = [cliRun EXCEPT !.cancelled = TRUE]
            /\ child' = Signal(cliRun.turn) /\ codexRun' = codexRun
        BY <2>9, <3>2 DEF MessageCancel
      <4>2. cliRun' \in CliRun /\ cliRun'.turn = cliRun.turn
        BY <3>2, <4>1, RunsNameChildren DEF CliRun
      <4>3. QED
        BY <2>7, <3>2, <4>1, <4>2
    <3>3. QED
      BY <2>9, <3>1, <3>2 DEF MessageCancel
  <2>10. CASE TickCliRead
    <3>1. /\ cliRun # NoRun
          /\ cliRun \in CliRun
          /\ child[cliRun.turn].written \in 0 .. 2 * MaxRecords
      BY <2>10, RunsNameChildren DEF TickCliRead, Child
    <3>2. PICK late \in BOOLEAN :
             /\ cliRun' = [cliRun EXCEPT !.timedOut = @ \/ late,
                                         !.seen = child[cliRun.turn].written]
             /\ child' = IF late THEN Signal(cliRun.turn) ELSE child
      BY <2>10 DEF TickCliRead
    <3>3. cliRun' \in CliRun /\ cliRun'.turn = cliRun.turn
      BY <3>1, <3>2 DEF CliRun
    <3>4. QED
      BY <2>7, <2>10, <3>1, <3>2, <3>3 DEF TickCliRead
  <2>11. CASE TickCodexRead
    <3>1. /\ codexRun # NoRun
          /\ codexRun \in CodexRun
          /\ child[codexRun.turn].written \in 0 .. 2 * MaxRecords
      BY <2>11, RunsNameChildren DEF TickCodexRead, Child
    <3>2. PICK late \in BOOLEAN :
             /\ codexRun' = [codexRun EXCEPT !.cancelled = @ \/ late,
                                             !.seen = child[codexRun.turn].written]
             /\ child' = IF late THEN Signal(codexRun.turn) ELSE child
      BY <2>11 DEF TickCodexRead
    <3>3. codexRun' \in CodexRun /\ codexRun'.turn = codexRun.turn
      BY <3>1, <3>2 DEF CodexRun
    <3>4. QED
      BY <2>8, <2>11, <3>1, <3>2, <3>3 DEF TickCodexRead
  <2>12. ASSUME NEW n \in 1 .. Len(child), child' = Reap(n),
                cliRun' = NoRun \/ codexRun' = NoRun,
                \A m \in DOMAIN child : Attended(m) => m = n
         PROVE  OneAttendedChild'
    <3>1. DOMAIN child' = DOMAIN child
      BY <2>0, <2>12, SignalReapType, LenProperties
    <3>2. \A m \in DOMAIN child :
             child'[m].state = IF m = n THEN "reaped" ELSE child[m].state
      BY <2>0, <2>12, SignalReapStates
    <3>3. failures = 0 =>
             \A m \in DOMAIN child : child'[m].state \notin {"alive", "zombie"}
      BY <2>12, <3>2 DEF OneAttendedChild
    <3>4. QED
      BY <2>0, <2>12, <3>1, <3>3 DEF OneAttendedChild
  <2>13. CASE CliFinish
    <3>1. cliRun # NoRun /\ cliRun.turn \in 1 .. Len(child)
      BY <2>13, RunsNameChildren DEF CliFinish, CoreInv, Links
    <3>2. codexRun = NoRun
      BY <3>1 DEF OneAttendedChild
    <3>3. child' = Reap(cliRun.turn) /\ cliRun' = NoRun
      BY <2>13 DEF CliFinish
    <3>4. QED
      BY <2>12, <3>1, <3>2, <3>3 DEF Attended
  <2>14. CASE CodexFinish
    <3>1. codexRun # NoRun /\ codexRun.turn \in 1 .. Len(child)
      BY <2>14, RunsNameChildren DEF CodexFinish, CoreInv, Links
    <3>2. cliRun = NoRun
      BY <3>1 DEF OneAttendedChild
    <3>3. child' = Reap(codexRun.turn) /\ codexRun' = NoRun
      BY <2>14 DEF CodexFinish
    <3>4. QED
      BY <2>12, <3>1, <3>2, <3>3 DEF Attended
  <2>15. ASSUME NEW n \in DOMAIN child, NEW exit,
                ChildWrites(n) \/ ChildExits(n, exit)
         PROVE  OneAttendedChild'
    <3>1. /\ DOMAIN child' = DOMAIN child
          /\ child[n].state = "alive"
          /\ \A m \in DOMAIN child : m # n => child'[m] = child[m]
          /\ UNCHANGED <<cliRun, codexRun>>
      BY <2>15 DEF ChildWrites, ChildExits, runVars
    <3>2. QED
      BY <2>1, <3>1
  <2>16. CASE Reborn
    <3>1. /\ cliRun' = NoRun
          /\ DOMAIN child' = DOMAIN child
          /\ \A n \in DOMAIN child : child'[n] = IF child[n].state = "reaped" THEN child[n]
                                       ELSE [child[n] EXCEPT !.state = "orphan"]
      BY <2>16 DEF Reborn
    <3>2. \A n \in DOMAIN child : child[n] \in Child
      BY <2>0, ElementOfSeq
    <3>3. \A n \in DOMAIN child : child'[n].state \in {"reaped", "orphan"}
      BY <3>1, <3>2 DEF Child
    <3>4. QED
      BY <3>1, <3>3 DEF OneAttendedChild
  <2>17. QED
    BY <2>2, <2>4, <2>5, <2>9, <2>10, <2>11, <2>13, <2>14, <2>15, <2>16
       DEF TurnNext, Tick, AppRestart, AppRestartUnreadable
<1>3. QED
  BY <1>1, <1>2, CoreInvariant, PTL DEF TurnSpec

-----------------------------------------------------------------------------
(* How a turn ends *)

\* A recorded run names a child of its own executor.
Kinds ==
    /\ cliRun # NoRun => child[cliRun.turn].kind = "cli"
    /\ codexRun # NoRun => child[codexRun.turn].kind = "codex"

EndInv == Kinds /\ CliTurnsEndWithVerdict

\* A step that reaps nothing and starts nothing.
LEMMA QuietEnd ==
    ASSUME CoreInv, EndInv,
           DOMAIN child' = DOMAIN child,
           \A n \in DOMAIN child : /\ child'[n].kind = child[n].kind
                                   /\ child'[n].state = "reaped" => child[n].state = "reaped",
           verdict' = verdict,
           cliRun' = NoRun \/ (cliRun # NoRun /\ cliRun'.turn = cliRun.turn),
           codexRun' = NoRun \/ (codexRun # NoRun /\ codexRun'.turn = codexRun.turn)
    PROVE  EndInv'
<1>1. /\ cliRun # NoRun => cliRun.turn \in DOMAIN child
      /\ codexRun # NoRun => codexRun.turn \in DOMAIN child
  BY RunsNameChildren
<1>2. ASSUME cliRun' # NoRun PROVE child'[cliRun'.turn].kind = "cli"
  <2>1. /\ cliRun'.turn = cliRun.turn /\ cliRun.turn \in DOMAIN child
        /\ child[cliRun.turn].kind = "cli"
    BY <1>1, <1>2 DEF EndInv, Kinds
  <2>2. QED
    BY <2>1
<1>3. ASSUME codexRun' # NoRun PROVE child'[codexRun'.turn].kind = "codex"
  <2>1. /\ codexRun'.turn = codexRun.turn /\ codexRun.turn \in DOMAIN child
        /\ child[codexRun.turn].kind = "codex"
    BY <1>1, <1>3 DEF EndInv, Kinds
  <2>2. QED
    BY <2>1
<1>4. CliTurnsEndWithVerdict'
  <2> SUFFICES ASSUME NEW n \in DOMAIN child,
                      child'[n].kind = "cli", child'[n].state = "reaped"
               PROVE  verdict'[n] \in {"done", "cancelled", "error"}
    BY DEF CliTurnsEndWithVerdict, TurnsEndWithVerdict
  <2>1. child[n].kind = "cli" /\ child[n].state = "reaped"
    OBVIOUS
  <2>2. QED
    BY <2>1 DEF EndInv, CliTurnsEndWithVerdict, TurnsEndWithVerdict
<1>5. QED
  BY <1>2, <1>3, <1>4 DEF EndInv, Kinds

\* A turn that starts is not over, and its run is of its child's kind.
LEMMA StartEnd ==
    ASSUME CoreInv, EndInv, ~ Busy, NEW c, NEW v,
           child' = Append(child, c), verdict' = Append(verdict, v),
           c.kind = selected, c.state = "alive",
           \/ cliRun' = NoRun
           \/ cliRun'.turn = NewTurn /\ selected = "cli",
           \/ codexRun' = NoRun
           \/ codexRun'.turn = NewTurn /\ selected = "codex"
    PROVE  EndInv'
<1>1. /\ Len(child) \in Nat
      /\ DOMAIN child = 1 .. Len(child)
      /\ DOMAIN verdict = 1 .. Len(child)
  BY RunsNameChildren, LenProperties DEF CoreInv, TurnTypeOK, Links
<1>2. /\ DOMAIN child' = 1 .. NewTurn
      /\ \A n \in DOMAIN child : child'[n] = child[n] /\ verdict'[n] = verdict[n]
      /\ child'[NewTurn] = c
      /\ NewTurn = Len(child) + 1
  BY <1>1 DEF NewTurn, CoreInv, TurnTypeOK, Links
<1>3. Kinds'
  BY <1>2 DEF Kinds
<1>4. CliTurnsEndWithVerdict'
  BY <1>1, <1>2 DEF EndInv, CliTurnsEndWithVerdict, TurnsEndWithVerdict
<1>5. QED
  BY <1>3, <1>4 DEF EndInv

\* A turn that is reaped: a CLI turn is given one of the three verdicts.
LEMMA ReapEnd ==
    ASSUME CoreInv, EndInv, NEW n \in 1 .. Len(child), child' = Reap(n), NEW v,
           verdict' = [verdict EXCEPT ![n] = v],
           child[n].kind = "cli" => v \in {"done", "cancelled", "error"},
           cliRun' = NoRun \/ cliRun' = cliRun,
           codexRun' = NoRun \/ codexRun' = codexRun
    PROVE  EndInv'
<1>1. /\ Len(child) \in Nat
      /\ DOMAIN child = 1 .. Len(child)
      /\ DOMAIN verdict = 1 .. Len(child)
      /\ cliRun # NoRun => cliRun.turn \in DOMAIN child
      /\ codexRun # NoRun => codexRun.turn \in DOMAIN child
  BY RunsNameChildren, LenProperties DEF CoreInv, TurnTypeOK, Links
<1>2. /\ DOMAIN child' = DOMAIN child
      /\ \A m \in DOMAIN child :
            /\ child'[m].kind = child[m].kind
            /\ m # n => child'[m].state = child[m].state
  BY <1>1, SignalReapType, SignalReapStates, LenProperties DEF CoreInv, TurnTypeOK
<1>3. \A m \in DOMAIN child : verdict'[m] = IF m = n THEN v ELSE verdict[m]
  BY <1>1
<1>4. Kinds'
  BY <1>1, <1>2 DEF EndInv, Kinds
<1>5. CliTurnsEndWithVerdict'
  BY <1>2, <1>3 DEF EndInv, CliTurnsEndWithVerdict, TurnsEndWithVerdict
<1>6. QED
  BY <1>4, <1>5 DEF EndInv

LEMMA EndStep == CoreInv /\ EndInv /\ [TurnNext]_vars => EndInv'
<1> SUFFICES ASSUME CoreInv, EndInv, [TurnNext]_vars
             PROVE  EndInv'
  OBVIOUS
<1>0. /\ child \in Seq(Child)
      /\ DOMAIN child = 1 .. Len(child)
  BY RunsNameChildren DEF CoreInv, TurnTypeOK
<1>1. CASE \/ UNCHANGED vars
           \/ \E id \in SessionId : \/ \E force \in BOOLEAN : SessionNew(id, force)
                                    \/ SessionSelect(id)
                                    \/ SessionRename(id)
                                    \/ SessionDelete(id)
           \/ \E kind \in Kind : ProviderSelect(kind)
           \/ CliPollRunning \/ CodexPollRunning
           \/ TimePasses \/ DiskStep
  <2>1. UNCHANGED <<cliRun, codexRun, child, verdict>>
    BY <1>1 DEF vars, turnVars, runVars, SessionNew, SessionSelect,
                SessionRename, SessionDelete, ProviderSelect, CliPollRunning,
                CodexPollRunning, TimePasses, DiskStep
  <2>2. QED
    BY <2>1, QuietEnd
<1>2. ASSUME NEW prompt, Spawn(prompt), StartRun
      PROVE  EndInv'
  <2>1. cliRun = NoRun /\ codexRun = NoRun /\ ~ Busy
    BY <1>2 DEF Spawn, Busy
  <2>2. \/ selected = "cli" /\ cliRun'.turn = NewTurn /\ codexRun' = NoRun
        \/ selected = "codex" /\ codexRun'.turn = NewTurn /\ cliRun' = NoRun
    BY <1>2, <2>1 DEF StartRun
  <2>3. /\ child' = Append(child, Spawned(prompt))
        /\ verdict' = Append(verdict, "thinking")
        /\ Spawned(prompt).kind = selected
        /\ Spawned(prompt).state = "alive"
    BY <1>2 DEF Spawn, StartRun, Spawned
  <2>4. QED
    BY <2>1, <2>2, <2>3, StartEnd
<1>3. CASE MessageSend \/ MessageRegenerate
  BY <1>2, <1>3 DEF MessageSend, MessageRegenerate
<1>4. CASE MessageRegenerateFails
  <2> DEFINE c == [Spawned(LastPrompt(active)) EXCEPT !.signalled = TRUE]
  <2>1. /\ child' = Append(child, c)
        /\ verdict' = Append(verdict, "none")
        /\ c.kind = selected /\ c.state = "alive"
        /\ ~ Busy
    BY <1>4 DEF MessageRegenerateFails, Spawned
  <2>2. cliRun' = NoRun
    BY <1>4 DEF MessageRegenerateFails, Busy
  <2>3. codexRun' = NoRun \/ (codexRun'.turn = NewTurn /\ selected = "codex")
    BY <1>4 DEF MessageRegenerateFails, Busy
  <2> HIDE DEF c
  <2>4. QED
    BY <2>1, <2>2, <2>3, StartEnd
<1>5. ASSUME NEW n \in 1 .. Len(child), child' = Signal(n) \/ child' = child,
             verdict' = verdict,
             cliRun' = cliRun \/ (cliRun # NoRun /\ cliRun'.turn = cliRun.turn),
             codexRun' = codexRun \/ (codexRun # NoRun /\ codexRun'.turn = codexRun.turn)
      PROVE  EndInv'
  <2>1. /\ DOMAIN child' = DOMAIN child
        /\ \A m \in DOMAIN child : /\ child'[m].kind = child[m].kind
                                   /\ child'[m].state = child[m].state
    <3>1. CASE child' = child
      BY <3>1
    <3>2. CASE child' = Signal(n)
      <4>1. DOMAIN Signal(n) = DOMAIN child
        BY <1>0, SignalReapType, LenProperties
      <4>2. QED
        BY <1>0, <3>2, <4>1, SignalReapStates
    <3>3. QED
      BY <1>5, <3>1, <3>2
  <2>2. QED
    BY <1>5, <2>1, QuietEnd
<1>6. CASE MessageCancel
  <2>1. CASE codexRun # NoRun /\ cliRun' = cliRun
    <3>1. /\ codexRun' = [codexRun EXCEPT !.cancelled = TRUE]
          /\ child' = Signal(codexRun.turn) /\ verdict' = verdict
      BY <1>6, <2>1 DEF MessageCancel
    <3>2. codexRun'.turn = codexRun.turn /\ codexRun.turn \in 1 .. Len(child)
      BY <2>1, <3>1, RunsNameChildren DEF CodexRun
    <3>3. QED
      BY <1>5, <2>1, <3>1, <3>2
  <2>2. CASE cliRun # NoRun /\ codexRun = NoRun
    <3>1. /\ cliRun' = [cliRun EXCEPT !.cancelled = TRUE] /\ codexRun' = codexRun
          /\ child' = Signal(cliRun.turn) /\ verdict' = verdict
      BY <1>6, <2>2 DEF MessageCancel
    <3>2. cliRun'.turn = cliRun.turn /\ cliRun.turn \in 1 .. Len(child)
      BY <2>2, <3>1, RunsNameChildren DEF CliRun
    <3>3. QED
      BY <1>5, <2>2, <3>1, <3>2
  <2>3. QED
    BY <1>6, <2>1, <2>2 DEF MessageCancel
<1>7. CASE TickCliRead
  <2>1. /\ cliRun # NoRun /\ codexRun' = codexRun /\ verdict' = verdict
        /\ child' = Signal(cliRun.turn) \/ child' = child
    BY <1>7 DEF TickCliRead
  <2>2. PICK late \in BOOLEAN :
           /\ cliRun' = [cliRun EXCEPT !.timedOut = @ \/ late,
                          !.seen = child[cliRun.turn].written]
           /\ child' = IF late THEN Signal(cliRun.turn) ELSE child
    BY <1>7 DEF TickCliRead
  <2>3. /\ cliRun \in CliRun /\ cliRun.turn \in 1 .. Len(child)
        /\ child[cliRun.turn].written \in 0 .. 2 * MaxRecords
    BY <2>1, RunsNameChildren DEF Child
  <2>4. cliRun' \in CliRun /\ cliRun'.turn = cliRun.turn
    BY <2>2, <2>3 DEF CliRun
  <2>5. QED
    BY <1>5, <2>1, <2>3, <2>4
<1>8. CASE TickCodexRead
  <2>1. /\ codexRun # NoRun /\ cliRun' = cliRun /\ verdict' = verdict
        /\ child' = Signal(codexRun.turn) \/ child' = child
    BY <1>8 DEF TickCodexRead
  <2>2. PICK late \in BOOLEAN :
           /\ codexRun' = [codexRun EXCEPT !.cancelled = @ \/ late,
                          !.seen = child[codexRun.turn].written]
           /\ child' = IF late THEN Signal(codexRun.turn) ELSE child
    BY <1>8 DEF TickCodexRead
  <2>3. /\ codexRun \in CodexRun /\ codexRun.turn \in 1 .. Len(child)
        /\ child[codexRun.turn].written \in 0 .. 2 * MaxRecords
    BY <2>1, RunsNameChildren DEF Child
  <2>4. codexRun' \in CodexRun /\ codexRun'.turn = codexRun.turn
    BY <2>2, <2>3 DEF CodexRun
  <2>5. QED
    BY <1>5, <2>1, <2>3, <2>4
<1>9. CASE CliFinish
  <2> DEFINE v == IF cliRun.timedOut THEN "error"
                  ELSE IF cliRun.cancelled THEN "cancelled"
                  ELSE IF /\ child[cliRun.turn].exit # "ok"
                          /\ FinalLines(child[cliRun.turn].written) = 0
                       THEN "error"
                  ELSE "done"
  <2>1. /\ child' = Reap(cliRun.turn)
        /\ verdict' = [verdict EXCEPT ![cliRun.turn] = v]
        /\ cliRun' = NoRun /\ codexRun' = codexRun
    BY <1>9 DEF CliFinish
  <2>2. cliRun.turn \in 1 .. Len(child)
    BY <1>9, RunsNameChildren DEF CliFinish, CoreInv, Links
  <2>3. v \in {"done", "cancelled", "error"}
    OBVIOUS
  <2> HIDE DEF v
  <2>4. QED
    BY <2>1, <2>2, <2>3, ReapEnd
<1>10. CASE CodexFinish
  <2> DEFINE n == codexRun.turn
             v == IF codexTimedOut THEN "error"
                  ELSE IF codexRun.cancelled THEN "cancelled"
                  ELSE IF child[n].exit = "ok" THEN "done"
                  ELSE IF FinalLines(codexRun.seen) = 0 THEN "error"
                  ELSE verdict[n]
  <2>1. /\ child' = Reap(n)
        /\ verdict' = [verdict EXCEPT ![n] = v]
        /\ codexRun' = NoRun /\ cliRun' = cliRun
    BY <1>10 DEF CodexFinish
  <2>2. n \in 1 .. Len(child) /\ child[n].kind # "cli"
    BY <1>10, RunsNameChildren DEF CodexFinish, CoreInv, Links, EndInv, Kinds
  <2> HIDE DEF n, v
  <2>3. QED
    BY <2>1, <2>2, ReapEnd
<1>11. ASSUME NEW n \in DOMAIN child, NEW exit,
              ChildWrites(n) \/ ChildExits(n, exit)
       PROVE  EndInv'
  <2>1. child[n] \in Child /\ n \in 1 .. Len(child)
    BY <1>0, <1>11, ElementOfSeq
  <2>2. /\ DOMAIN child' = DOMAIN child
        /\ child'[n].kind = child[n].kind
        /\ child'[n].state # "reaped"
        /\ \A m \in DOMAIN child : m # n => child'[m] = child[m]
        /\ UNCHANGED <<cliRun, codexRun, verdict>>
    BY <1>11, <2>1 DEF ChildWrites, ChildExits, runVars, Child
  <2>3. QED
    BY <2>2, QuietEnd
<1>12. CASE Reborn
  <2>1. \A n \in DOMAIN child : child[n] \in Child
    BY <1>0, ElementOfSeq
  <2>2. /\ cliRun' = NoRun /\ codexRun' = NoRun /\ verdict' = verdict
        /\ DOMAIN child' = DOMAIN child
        /\ \A n \in DOMAIN child : child'[n] = IF child[n].state = "reaped" THEN child[n]
                                     ELSE [child[n] EXCEPT !.state = "orphan"]
    BY <1>12 DEF Reborn
  <2>3. \A n \in DOMAIN child : /\ child'[n].kind = child[n].kind
                                /\ child'[n].state = "reaped" => child[n].state = "reaped"
    BY <2>1, <2>2 DEF Child
  <2>4. QED
    BY <2>2, <2>3, QuietEnd
<1>13. QED
  BY <1>1, <1>3, <1>4, <1>6, <1>7, <1>8, <1>9, <1>10, <1>11, <1>12
     DEF TurnNext, Tick, AppRestart, AppRestartUnreadable

LEMMA EndInvariant == TurnSpec => [](CoreInv /\ EndInv)
<1>1. TurnInit => EndInv
  BY DEF TurnInit, EndInv, Kinds, CliTurnsEndWithVerdict, TurnsEndWithVerdict
<1>2. QED
  BY <1>1, EndStep, CoreInvariant, PTL DEF TurnSpec

\* A turn of one of the five CLIs that has been waited for has reported done,
\* cancelled or error, whatever happened while it ran.
THEOREM CliTurnsEnd == TurnSpec => []CliTurnsEndWithVerdict
<1>1. EndInv => CliTurnsEndWithVerdict
  BY DEF EndInv
<1>2. QED
  BY <1>1, EndInvariant, PTL

\* Only CliFinish reaps a child of the five CLIs, the one of the recorded run.
LEMMA CliFinishReaps ==
    ASSUME CoreInv, EndInv, [TurnNext]_vars, NEW n \in DOMAIN child,
           child[n].kind = "cli", child[n].state # "reaped",
           child'[n].state = "reaped"
    PROVE  CliFinish /\ n = cliRun.turn
<1>1. /\ child \in Seq(Child)
      /\ DOMAIN child = 1 .. Len(child) /\ n \in 1 .. Len(child)
      /\ child[n] \in Child
  BY RunsNameChildren, ElementOfSeq DEF CoreInv, TurnTypeOK
<1>2. child' # child
  OBVIOUS
<1>3. \A c : child' # Append(child, c)
  BY <1>1
<1>4. \A m \in 1 .. Len(child) : child' # Signal(m)
  BY <1>1, SignalReapStates
<1>5. \A m \in 1 .. Len(child) : child' = Reap(m) => m = n
  BY <1>1, SignalReapStates
<1>6. ~ ( \/ UNCHANGED vars
          \/ \E id \in SessionId : \/ \E force \in BOOLEAN : SessionNew(id, force)
                                   \/ SessionSelect(id)
                                   \/ SessionRename(id)
                                   \/ SessionDelete(id)
          \/ \E kind \in Kind : ProviderSelect(kind)
          \/ CliPollRunning \/ CodexPollRunning
          \/ TimePasses \/ DiskStep)
  BY <1>2 DEF vars, turnVars, runVars, SessionNew, SessionSelect,
              SessionRename, SessionDelete, ProviderSelect, CliPollRunning,
              CodexPollRunning, TimePasses, DiskStep
<1>7. ~ MessageSend /\ ~ MessageRegenerate /\ ~ MessageRegenerateFails
  BY <1>3 DEF MessageSend, MessageRegenerate, MessageRegenerateFails, Spawn
<1>8. ~ MessageCancel /\ ~ TickCliRead /\ ~ TickCodexRead
  BY <1>2, <1>4, RunsNameChildren DEF MessageCancel, TickCliRead, TickCodexRead
<1>9. ASSUME CodexFinish PROVE FALSE
  <2>1. child' = Reap(codexRun.turn) /\ codexRun # NoRun
    BY <1>9 DEF CodexFinish, CoreInv, Links
  <2>2. n = codexRun.turn
    BY <1>5, <2>1, RunsNameChildren
  <2>3. QED
    BY <2>1, <2>2 DEF EndInv, Kinds
<1>10. ASSUME NEW m \in DOMAIN child, NEW exit,
              ChildWrites(m) \/ ChildExits(m, exit)
       PROVE  FALSE
  <2>1. CASE ChildWrites(m)
    <3>1. child[m].state = "alive" /\ child' = [child EXCEPT ![m].written = @ + 1]
      BY <2>1 DEF ChildWrites
    <3>2. child'[n].state = child[n].state
      BY <1>1, <3>1 DEF Child
    <3>3. QED
      BY <3>2
  <2>2. CASE ChildExits(m, exit)
    <3>1. child' = [child EXCEPT ![m].state = "zombie", ![m].exit = exit]
      BY <2>2 DEF ChildExits
    <3>2. child'[n].state \in {"zombie", child[n].state}
      BY <1>1, <3>1 DEF Child
    <3>3. QED
      BY <3>2
  <2>3. QED
    BY <1>10, <2>1, <2>2
<1>11. ASSUME Reborn PROVE FALSE
  <2>1. child'[n] = [child[n] EXCEPT !.state = "orphan"]
    BY <1>11 DEF Reborn
  <2>2. QED
    BY <1>1, <2>1 DEF Child
<1>12. CliFinish
  BY <1>6, <1>7, <1>8, <1>9, <1>10, <1>11
     DEF TurnNext, Tick, AppRestart, AppRestartUnreadable
<1>13. child' = Reap(cliRun.turn) /\ cliRun.turn \in 1 .. Len(child)
  BY <1>12, RunsNameChildren DEF CliFinish, CoreInv, Links
<1>14. QED
  BY <1>5, <1>12, <1>13

\* All that a child of the five CLIs has written, the lines after the last
\* poll too, becomes the answer in the session that asked if it still exists.
THEOREM CliAnswersAreWhole == TurnSpec => CliAnswerIsWhole
<1>1. CoreInv /\ EndInv /\ [TurnNext]_vars => [ReapsWhole("cli")]_vars
  <2> SUFFICES ASSUME CoreInv, EndInv, [TurnNext]_vars, NEW n \in DOMAIN child,
                      child[n].kind = "cli", child[n].state # "reaped",
                      child'[n].state = "reaped",
                      FinalLines(child[n].written) > 0,
                      Asker(n) \in Listed(sessions)
               PROVE  /\ writes' # <<>>
                      /\ Head(writes').op = "append"
                      /\ Head(writes').id = Asker(n)
                      /\ Head(writes').msg.text.turn = n
                      /\ Head(writes').msg.text.records = FinalLines(child[n].written)
    BY DEF ReapsWhole
  <2> DEFINE records == FinalLines(child[n].written)
             stopped == cliRun.cancelled /\ ~ cliRun.timedOut
             answer == [role |-> "assistant", text |-> Answer(n, records, stopped)]
  <2>1. CliFinish /\ n = cliRun.turn
    BY CliFinishReaps
  <2>2. cliRun # NoRun
    BY <2>1 DEF CliFinish, CoreInv, Links
  <2>3. Asker(n) = cliRun.session
    BY <2>1, <2>2 DEF Asker
  <2>4. Persist(cliRun.session, n, records, stopped)
    BY <2>1 DEF CliFinish
  <2>5. AppendMessage(Asker(n), "assistant", Answer(n, records, stopped))
    BY <2>3, <2>4 DEF Persist
  <2>6. writes' = <<AppendTo(Asker(n), answer), Save>>
    BY <2>5 DEF AppendMessage
  <2>7. /\ answer.text.turn = n
        /\ answer.text.records = records
    BY DEF Answer
  <2> HIDE DEF answer, records
  <2>8. /\ AppendTo(Asker(n), answer).op = "append"
        /\ AppendTo(Asker(n), answer).id = Asker(n)
        /\ AppendTo(Asker(n), answer).msg = answer
    BY DEF AppendTo
  <2>9. writes' # <<>> /\ Head(writes') = AppendTo(Asker(n), answer)
    BY <2>6
  <2>10. QED
    BY <2>7, <2>8, <2>9 DEF records
<1>2. QED
  BY <1>1, EndInvariant, PTL DEF TurnSpec, CliAnswerIsWhole

-----------------------------------------------------------------------------
(* Answers stand behind their prompts *)

\* The run of turn n has been asked for by session id.
Asks(n, id) ==
    \/ cliRun # NoRun /\ cliRun.turn = n /\ cliRun.session = id
    \/ codexRun # NoRun /\ codexRun.turn = n /\ codexSession = id

PromptOf(n) == [role |-> "user", text |-> Prompt(child[n].prompt)]

EndsWith(history, m) == history # <<>> /\ history[Len(history)] = m

Appends(queue, id, m) == queue = <<AppendTo(id, m), Save>>

\* Every answer on disk stands behind the prompt of its turn.
AnswersFollow ==
    \A id \in SessionId : \A i \in DOMAIN History(id) :
        History(id)[i].role = "assistant" =>
            /\ History(id)[i].text.turn \in DOMAIN child
            /\ i > 1
            /\ History(id)[i - 1] = PromptOf(History(id)[i].text.turn)

\* While a run is under way, the prompt it was given ends the history of the
\* session that asked, or is the message that is about to be written there:
\* only another run could put a message behind it.
PromptWaits ==
    \A n \in DOMAIN child, id \in Listed(sessions) :
        Asks(n, id) =>
            \/ Appends(writes, id, PromptOf(n))
            \/ /\ \A m \in Message : ~ Appends(writes, id, m)
               /\ EndsWith(History(id), PromptOf(n))

\* An answer about to be written will stand behind its prompt.
AnswerWaits ==
    \A id \in SessionId, m \in Message :
        Appends(writes, id, m) /\ m.role = "assistant" =>
            /\ m.text.turn \in DOMAIN child
            /\ EndsWith(History(id), PromptOf(m.text.turn))

AskersCreated ==
    \A n \in DOMAIN child, id \in SessionId : Asks(n, id) => id \in created

PromptInv ==
    failures = 0 => AnswersFollow /\ PromptWaits /\ AnswerWaits /\ AskersCreated

\* A child keeps its number and the prompt it was started with.
PromptsStay ==
    /\ DOMAIN child \subseteq DOMAIN child'
    /\ \A n \in DOMAIN child : child'[n].prompt = child[n].prompt

LEMMA PromptsStayStep == CoreInv /\ [TurnNext]_vars => PromptsStay
<1> SUFFICES ASSUME CoreInv, [TurnNext]_vars
             PROVE  PromptsStay
  OBVIOUS
<1>0. /\ DOMAIN child = 1 .. Len(child)
      /\ Len(child) \in Nat
      /\ child \in Seq(Child)
      /\ \A n \in DOMAIN child : child[n] \in Child
  <2>1. child \in Seq(Child)
    BY DEF CoreInv, TurnTypeOK
  <2>2. QED
    BY <2>1, LenProperties, ElementOfSeq
<1>1. CASE child' = child
  BY <1>1 DEF PromptsStay
<1>2. ASSUME NEW n, child' = Signal(n) \/ child' = Reap(n)
      PROVE  PromptsStay
  BY <1>0, <1>2 DEF Signal, Reap, PromptsStay, Child
<1>3. ASSUME NEW e, child' = Append(child, e)
      PROVE  PromptsStay
  BY <1>0, <1>3 DEF PromptsStay
<1>4. CASE MessageSend \/ MessageRegenerate \/ MessageRegenerateFails
  BY <1>3, <1>4 DEF MessageSend, MessageRegenerate, MessageRegenerateFails, Spawn
<1>5. CASE MessageCancel \/ TickCliRead \/ TickCodexRead \/ CliFinish \/ CodexFinish
  BY <1>1, <1>2, <1>5 DEF MessageCancel, TickCliRead, TickCodexRead, CliFinish, CodexFinish
<1>6. ASSUME NEW n \in DOMAIN child,
             \/ ChildWrites(n)
             \/ \E exit \in {"ok", "fail", "noexec"} : ChildExits(n, exit)
      PROVE  PromptsStay
  <2>1. CASE ChildWrites(n)
    BY <1>0, <2>1 DEF ChildWrites, PromptsStay, Child
  <2>2. ASSUME NEW exit, ChildExits(n, exit)
        PROVE  PromptsStay
    BY <1>0, <2>2 DEF ChildExits, PromptsStay, Child
  <2>3. QED
    BY <1>6, <2>1, <2>2
<1>7. CASE AppRestart \/ AppRestartUnreadable
  <2>1. Reborn
    BY <1>7 DEF AppRestart, AppRestartUnreadable
  <2>2. QED
    BY <1>0, <2>1 DEF Reborn, PromptsStay, Child
<1>8. CASE \/ \E id \in SessionId :
                 \/ \E force \in BOOLEAN : SessionNew(id, force)
                 \/ SessionSelect(id) \/ SessionRename(id) \/ SessionDelete(id)
           \/ \E kind \in Kind : ProviderSelect(kind)
           \/ CliPollRunning \/ CodexPollRunning
           \/ TimePasses \/ DiskStep
           \/ UNCHANGED vars
  BY <1>1, <1>8 DEF SessionNew, SessionSelect, SessionRename, SessionDelete,
        ProviderSelect, CliPollRunning, CodexPollRunning, TimePasses, DiskStep,
        turnVars, vars
<1>9. QED
  BY <1>4, <1>5, <1>6, <1>7, <1>8 DEF TurnNext, Tick

\* Histories that stay, or are emptied, keep their answers behind their prompts.
LEMMA AnswersStay ==
    ASSUME AnswersFollow, PromptsStay,
           \A id \in SessionId : History(id)' = History(id) \/ History(id)' = <<>>
    PROVE  AnswersFollow'
<1> SUFFICES ASSUME NEW id \in SessionId, NEW i \in DOMAIN History(id)',
                    History(id)'[i].role = "assistant"
             PROVE  /\ History(id)'[i].text.turn \in DOMAIN child'
                    /\ i > 1
                    /\ History(id)'[i - 1] = PromptOf(History(id)[i].text.turn)'
  BY DEF AnswersFollow
<1>1. CASE History(id)' = <<>>
  BY <1>1
<1>2. CASE History(id)' = History(id)
  <2>1. PICK k : k = History(id)[i].text.turn
    OBVIOUS
  <2>2. k \in DOMAIN child /\ i > 1 /\ History(id)[i - 1] = PromptOf(k)
    BY <1>2, <2>1 DEF AnswersFollow
  <2>3. k \in DOMAIN child' /\ PromptOf(k)' = PromptOf(k)
    BY <2>2 DEF PromptsStay, PromptOf
  <2>4. History(id)'[i].text.turn = k
    BY <1>2, <2>1
  <2>5. PromptOf(History(id)[i].text.turn)' = PromptOf(k)'
    BY <2>4 DEF PromptOf
  <2>6. QED
    BY <1>2, <2>2, <2>3, <2>4, <2>5
<1>3. QED
  BY <1>1, <1>2

\* The prompt of a turn is a message, and stays the prompt of that turn.
LEMMA PromptOfStays ==
    ASSUME CoreInv, PromptsStay, NEW n \in DOMAIN child
    PROVE  /\ n \in DOMAIN child'
           /\ PromptOf(n)' = PromptOf(n)
           /\ PromptOf(n) \in Message
<1>1. n \in DOMAIN child' /\ PromptOf(n)' = PromptOf(n)
  BY DEF PromptsStay, PromptOf
<1>2. child[n] \in Child
  BY LenProperties, ElementOfSeq DEF CoreInv, TurnTypeOK
<1>3. Prompt(child[n].prompt) \in Text
  BY <1>2, TurnAssumption DEF Child
<1>4. PromptOf(n) \in Message
  BY <1>3 DEF PromptOf, Message
<1>5. QED
  BY <1>1, <1>4

\* A step that adds no run and no message keeps every answer where it is: the
\* histories stay, apart from that of a session nobody lists any more, and the
\* queue stays or holds no message.
LEMMA PromptsQuiet ==
    ASSUME CoreInv, failures = 0, PromptInv, PromptsStay,
           \A id \in SessionId :
              \/ History(id)' = History(id)
              \/ /\ id \notin Listed(sessions')
                 /\ History(id)' = <<>>
                 /\ writes' = <<>>,
           \/ writes' = writes
           \/ \A id \in SessionId, m \in Message : ~ Appends(writes', id, m),
           \A n \in DOMAIN child', id \in SessionId :
              Asks(n, id)' => n \in DOMAIN child /\ Asks(n, id) /\ id \in created',
           \A n \in DOMAIN child, id \in Listed(sessions') :
              Asks(n, id)' =>
                 /\ id \in Listed(sessions)
                 /\ \/ writes' = writes
                    \/ \A m \in Message : ~ Appends(writes, id, m),
           Listed(sessions') \subseteq SessionId
    PROVE  PromptInv'
<1> USE DEF PromptInv
<1>0. /\ \A n \in DOMAIN child : n \in DOMAIN child' /\ PromptOf(n)' = PromptOf(n)
      /\ \A n \in DOMAIN child : PromptOf(n) \in Message
  BY PromptOfStays
<1>1. AnswersFollow'
  BY AnswersStay
<1>2. PromptWaits'
  <2> SUFFICES ASSUME NEW n \in DOMAIN child', NEW id \in Listed(sessions'),
                      Asks(n, id)'
               PROVE  \/ Appends(writes', id, PromptOf(n)')
                      \/ /\ \A m \in Message : ~ Appends(writes', id, m)
                         /\ EndsWith(History(id)', PromptOf(n)')
    BY DEF PromptWaits, Appends, EndsWith, PromptOf, History
  <2>1. id \in SessionId
    OBVIOUS
  <2>2. /\ n \in DOMAIN child
        /\ Asks(n, id)
        /\ id \in Listed(sessions)
    BY <2>1
  <2>3. History(id)' = History(id)
    BY <2>1
  <2>4. PromptOf(n)' = PromptOf(n)
    BY <1>0, <2>2
  <2>5. CASE writes' = writes
    BY <2>2, <2>3, <2>4, <2>5 DEF PromptWaits
  <2>6. CASE writes' # writes
    <3>1. \A m \in Message : ~ Appends(writes, id, m) /\ ~ Appends(writes', id, m)
      BY <2>1, <2>2, <2>6
    <3>2. EndsWith(History(id), PromptOf(n))
      BY <1>0, <2>2, <3>1 DEF PromptWaits
    <3>3. QED
      BY <2>3, <2>4, <3>1, <3>2
  <2>7. QED
    BY <2>5, <2>6
<1>3. AnswerWaits'
  <2> SUFFICES ASSUME NEW id \in SessionId, NEW m \in Message,
                      Appends(writes', id, m), m.role = "assistant"
               PROVE  /\ m.text.turn \in DOMAIN child'
                      /\ EndsWith(History(id)', PromptOf(m.text.turn)')
    BY DEF AnswerWaits, Appends, EndsWith, PromptOf, History
  <2>1. writes' = writes /\ writes' # <<>>
    BY QueueShapes DEF Appends
  <2>2. /\ m.text.turn \in DOMAIN child
        /\ EndsWith(History(id), PromptOf(m.text.turn))
    BY <2>1 DEF AnswerWaits
  <2>3. PICK k : k = m.text.turn
    OBVIOUS
  <2>4. k \in DOMAIN child' /\ PromptOf(k)' = PromptOf(k)
    BY <1>0, <2>2, <2>3
  <2>5. QED
    BY <2>1, <2>2, <2>3, <2>4
<1>4. AskersCreated'
  BY DEF AskersCreated
<1>5. QED
  BY <1>1, <1>2, <1>3, <1>4

\* Starting a run makes it the only one, asked for by the active session.
LEMMA StartAsks ==
    ASSUME ~ Busy, StartRun, NEW n, NEW id, Asks(n, id)'
    PROVE  n = NewTurn /\ id = active
BY DEF Busy, StartRun, Asks

\* The answer of the run that ends stands behind its prompt: the prompt ends
\* the history while nothing else is queued.
LEMMA PersistKeepsPrompts ==
    ASSUME StoreInv, CoreInv, failures = 0, PromptInv, PromptsStay,
           NEW n \in DOMAIN child, NEW id, NEW records, NEW stopped,
           Asks(n, id), Persist(id, n, records, stopped),
           \A k \in DOMAIN child', x \in SessionId : ~ Asks(k, x)',
           Listed(sessions') \subseteq SessionId
    PROVE  PromptInv'
<1> USE DEF PromptInv
<1>1. CASE records > 0 /\ id \in Listed(sessions)
  <2>1. PICK a : a = [role |-> "assistant", text |-> Answer(n, records, stopped)]
    OBVIOUS
  <2>2. /\ Idle
        /\ messages' = messages
        /\ writes' = <<AppendTo(id, a), Save>>
    BY <1>1, <2>1 DEF Persist, AppendMessage
  <2>3. \A x : History(x)' = History(x)
    BY <2>2 DEF History
  <2>4. AnswersFollow'
    BY <2>3, AnswersStay
  <2>5. ASSUME NEW m \in Message
        PROVE  ~ Appends(writes, id, m)
    BY <2>2, QueueShapes DEF Idle, Appends
  <2>6. ~ Appends(writes, id, PromptOf(n))
    BY <2>2, QueueShapes DEF Idle, Appends
  <2>7. EndsWith(History(id), PromptOf(n))
    BY <1>1, <2>6 DEF PromptWaits
  <2>8. AnswerWaits'
    <3> SUFFICES ASSUME NEW x \in SessionId, NEW m \in Message,
                        Appends(writes', x, m)
                 PROVE  /\ m.text.turn \in DOMAIN child'
                        /\ EndsWith(History(x)', PromptOf(m.text.turn)')
      BY DEF AnswerWaits, Appends, EndsWith, PromptOf, History
    <3>1. x = id /\ m = a
      BY <2>2, DifferentQueues DEF Appends
    <3>2. m.text.turn = n
      BY <2>1, <3>1 DEF Answer
    <3>3. QED
      BY <2>3, <2>7, <3>1, <3>2, PromptOfStays
  <2>9. PromptWaits' /\ AskersCreated'
    BY DEF PromptWaits, AskersCreated
  <2>10. QED
    BY <2>4, <2>8, <2>9
<1>2. CASE ~ (records > 0 /\ id \in Listed(sessions))
  <2>1. UNCHANGED storeVars
    BY <1>2 DEF Persist
  <2>2. writes' = writes /\ \A x : History(x)' = History(x)
    BY <2>1 DEF storeVars, History
  <2>3. \A k \in DOMAIN child, x \in Listed(sessions') : ~ Asks(k, x)'
    BY DEF PromptsStay
  <2>4. /\ \A k \in DOMAIN child', x \in SessionId :
              Asks(k, x)' => k \in DOMAIN child /\ Asks(k, x) /\ x \in created'
        /\ \A k \in DOMAIN child, x \in Listed(sessions') :
              Asks(k, x)' =>
                 /\ x \in Listed(sessions)
                 /\ \/ writes' = writes
                    \/ \A m \in Message : ~ Appends(writes, x, m)
    BY <2>3
  <2>5. QED
    BY <2>2, <2>4, PromptsQuiet
<1>3. QED
  BY <1>1, <1>2

\* A sent prompt is the message about to be written when its run is recorded.
LEMMA SendKeepsPrompts ==
    ASSUME StoreInv, CoreInv, failures = 0, PromptInv, PromptsStay, MessageSend
    PROVE  PromptInv'
<1> USE DEF PromptInv
<1>1. PICK n : n = NewTurn
  OBVIOUS
<1>2. PICK a : a = [role |-> "user", text |-> Prompt(n)]
  OBVIOUS
<1>3. /\ ~ Busy
      /\ StartRun
      /\ child' = Append(child, Spawned(n))
      /\ messages' = messages
      /\ writes' = <<AppendTo(active, a), Save>>
      /\ created' = created
      /\ active \in Listed(sessions)
  BY <1>1, <1>2 DEF MessageSend, Spawn, AppendMessage, Finds, Listed
<1>4. \A x : History(x)' = History(x)
  BY <1>3 DEF History
<1>5. AnswersFollow'
  BY <1>4, AnswersStay
<1>6. PromptOf(n)' = a
  <2>1. child'[n] = Spawned(n)
    BY <1>1, <1>3 DEF CoreInv, TurnTypeOK, NewTurn
  <2>2. child'[n].prompt = n
    BY <2>1 DEF Spawned
  <2>3. QED
    BY <1>2, <2>2 DEF PromptOf
<1>7. PromptWaits'
  <2> SUFFICES ASSUME NEW k \in DOMAIN child', NEW id \in Listed(sessions'),
                      Asks(k, id)'
               PROVE  Appends(writes', id, PromptOf(k)')
    BY DEF PromptWaits, Appends, EndsWith, PromptOf, History
  <2>1. k = n /\ id = active
    BY <1>1, <1>3, StartAsks
  <2>2. QED
    BY <1>3, <1>6, <2>1 DEF Appends
<1>8. AnswerWaits'
  <2> SUFFICES ASSUME NEW x \in SessionId, NEW m \in Message,
                      Appends(writes', x, m), m.role = "assistant"
               PROVE  FALSE
    BY DEF AnswerWaits, Appends
  <2>1. m = a
    BY <1>3, DifferentQueues DEF Appends
  <2>2. QED
    BY <1>2, <2>1
<1>9. AskersCreated'
  <2> SUFFICES ASSUME NEW k \in DOMAIN child', NEW id \in SessionId, Asks(k, id)'
               PROVE  id \in created'
    BY DEF AskersCreated
  <2>1. id = active
    BY <1>3, StartAsks
  <2>2. QED
    BY <1>3, <2>1, ListedAreCreated
<1>10. QED
  BY <1>5, <1>7, <1>8, <1>9

\* A regeneration takes the last answer away, so that its prompt ends the
\* history again, and starts a run for that prompt.
LEMMA RegenerateKeepsPrompts ==
    ASSUME StoreInv, CoreInv, failures = 0, PromptInv, PromptsStay, MessageRegenerate
    PROVE  PromptInv'
<1> USE DEF PromptInv
<1>1. PICK n : n = NewTurn
  OBVIOUS
<1>2. PICK p : p = LastPrompt(active)
  OBVIOUS
<1>3. PICK h : h = SubSeq(History(active), 1, Len(History(active)) - 1)
  OBVIOUS
<1>4. /\ ~ Busy
      /\ StartRun
      /\ child' = Append(child, Spawned(p))
      /\ messages' = [messages EXCEPT ![active] = h]
      /\ writes' = <<Save>>
      /\ created' = created
      /\ active \in Listed(sessions)
      /\ Regenerable(History(active))
  BY <1>2, <1>3 DEF MessageRegenerate, Spawn, Regenerate, Finds, Listed
<1>5. active \in SessionId /\ active \in created
  BY <1>4, ListedAreCreated
<1>6. PICK l : l = Len(History(active)) - 1
  OBVIOUS
<1>7. /\ History(active) \in Seq(Message)
      /\ Len(History(active)) \in Nat
      /\ l \in Nat /\ l >= 1 /\ Len(History(active)) = l + 1
      /\ DOMAIN History(active) = 1 .. l + 1
  <2>1. History(active) \in Seq(Message)
    BY <1>5, HistoryType DEF StoreInv, StoreTypeOK
  <2>2. Len(History(active)) \in Nat /\ DOMAIN History(active) = 1 .. Len(History(active))
    BY <2>1, LenProperties
  <2>3. QED
    BY <1>4, <1>6, <2>1, <2>2 DEF Regenerable
<1>8. /\ h \in Seq(Message)
      /\ Len(h) = l
      /\ \A i \in 1 .. l : h[i] = History(active)[i]
      /\ DOMAIN h = 1 .. l
  <2>1. \A k \in 1 .. l : History(active)[k] \in Message
    BY <1>7, ElementOfSeq
  <2>2. h = SubSeq(History(active), 1, l)
    BY <1>3, <1>6
  <2>3. QED
    BY <1>7, <2>1, <2>2, SubSeqProperties, LenProperties
<1>9. /\ History(active)' = h
      /\ \A x \in SessionId \ {active} : History(x)' = History(x)
  <2>1. messages'[active] = h /\ \A x \in SessionId \ {active} : messages'[x] = messages[x]
    BY <1>4, <1>5 DEF StoreInv, StoreTypeOK
  <2>2. active' = active
    BY DEF MessageRegenerate
  <2>3. QED
    BY <1>8, <2>1, <2>2, StoreAssumption DEF History
<1>10. AnswersFollow'
  <2> SUFFICES ASSUME NEW id \in SessionId, NEW i \in DOMAIN History(id)',
                      History(id)'[i].role = "assistant"
               PROVE  /\ History(id)'[i].text.turn \in DOMAIN child'
                      /\ i > 1
                      /\ History(id)'[i - 1] = PromptOf(History(id)[i].text.turn)'
    BY DEF AnswersFollow
  <2>1. /\ i \in DOMAIN History(id)
        /\ History(id)'[i] = History(id)[i]
        /\ i > 1 => History(id)'[i - 1] = History(id)[i - 1]
    <3>1. CASE id # active
      BY <1>9, <3>1
    <3>2. CASE id = active
      <4>1. active' = active
        BY DEF MessageRegenerate
      <4>2. History(id)' = h
        BY <1>9, <3>2, <4>1 DEF History
      <4>3. QED
        BY <1>7, <1>8, <3>2, <4>2
    <3>3. QED
      BY <3>1, <3>2
  <2>2. PICK k : k = History(id)[i].text.turn
    OBVIOUS
  <2>3. k \in DOMAIN child /\ i > 1 /\ History(id)[i - 1] = PromptOf(k)
    BY <2>1, <2>2 DEF AnswersFollow
  <2>4. k \in DOMAIN child' /\ PromptOf(k)' = PromptOf(k)
    BY <2>3, PromptOfStays
  <2>5. History(id)'[i].text.turn = k
    BY <2>1, <2>2
  <2>6. PromptOf(History(id)[i].text.turn)' = PromptOf(k)'
    BY <2>5 DEF PromptOf
  <2>7. QED
    BY <2>1, <2>3, <2>4, <2>5, <2>6
<1>11. History(active)[l] = PromptOf(n)'
  <2>1. PICK k : k = History(active)[l + 1].text.turn
    OBVIOUS
  <2>2. k \in DOMAIN child /\ History(active)[(l + 1) - 1] = PromptOf(k)
    BY <1>4, <1>5, <1>7, <2>1 DEF Regenerable, AnswersFollow
  <2>3. History(active)[l] = PromptOf(k)
    BY <1>7, <2>2
  <2>4. p = child[k].prompt
    BY <1>2, <1>6, <2>3 DEF LastPrompt, PromptOf, Prompt
  <2>5. child'[n] = Spawned(p)
    BY <1>1, <1>4 DEF CoreInv, TurnTypeOK, NewTurn
  <2>6. child'[n].prompt = p
    BY <2>5 DEF Spawned
  <2>7. QED
    BY <2>3, <2>4, <2>6 DEF PromptOf
<1>12. \A x, m : ~ Appends(writes', x, m)
  BY <1>4, QueueShapes DEF Appends
<1>13. PromptWaits'
  <2> SUFFICES ASSUME NEW k \in DOMAIN child', NEW id \in Listed(sessions'),
                      Asks(k, id)'
               PROVE  EndsWith(History(id)', PromptOf(k)')
    BY <1>12 DEF PromptWaits, Appends, EndsWith, PromptOf, History
  <2>1. k = n /\ id = active
    BY <1>1, <1>4, StartAsks
  <2>2. History(id)' = h
    <3>1. active' = active
      BY DEF MessageRegenerate
    <3>2. QED
      BY <1>9, <2>1, <3>1 DEF History
  <2>3. h # <<>> /\ h[Len(h)] = PromptOf(n)'
    BY <1>7, <1>8, <1>11
  <2>4. QED
    BY <2>1, <2>2, <2>3 DEF EndsWith
<1>14. AnswerWaits'
  BY <1>12 DEF AnswerWaits, Appends
<1>15. AskersCreated'
  <2> SUFFICES ASSUME NEW k \in DOMAIN child', NEW id \in SessionId, Asks(k, id)'
               PROVE  id \in created'
    BY DEF AskersCreated
  <2>1. id = active
    BY <1>4, StartAsks
  <2>2. QED
    BY <1>4, <1>5, <2>1
<1>16. QED
  BY <1>10, <1>13, <1>14, <1>15

\* A run that is recorded names a child.
LEMMA AskersAreChildren ==
    ASSUME CoreInv, NEW n, NEW id, Asks(n, id)
    PROVE  n \in DOMAIN child
BY RunsNameChildren DEF Asks

\* A step of the runs alone, that starts none, leaves every prompt in place.
LEMMA RunStepKeepsPrompts ==
    ASSUME StoreInv, CoreInv, failures = 0, PromptInv, PromptsStay,
           UNCHANGED storeVars,
           \A n, id : Asks(n, id)' => Asks(n, id)
    PROVE  PromptInv'
<1>1. /\ writes' = writes /\ sessions' = sessions /\ created' = created
      /\ \A x : History(x)' = History(x)
  BY DEF storeVars, History
<1>2. Listed(sessions') = Listed(sessions) /\ Listed(sessions') \subseteq SessionId
  BY <1>1, ListedAreCreated
<1>3. \A n \in DOMAIN child', id \in SessionId :
         Asks(n, id)' => n \in DOMAIN child /\ Asks(n, id) /\ id \in created'
  BY <1>1, <1>2, AskersAreChildren DEF PromptInv, AskersCreated
<1>4. \A n \in DOMAIN child, id \in Listed(sessions') :
         Asks(n, id)' =>
            /\ id \in Listed(sessions)
            /\ \/ writes' = writes
               \/ \A m \in Message : ~ Appends(writes, id, m)
  BY <1>1, <1>2
<1>5. QED
  BY <1>1, <1>2, <1>3, <1>4, PromptsQuiet

\* Handlers that change the list of sessions queue no message, and a session
\* they add was asked for by no run.
LEMMA ListStepKeepsPrompts ==
    ASSUME StoreInv, CoreInv, failures = 0, PromptInv, PromptsStay,
           NEW s \in SessionId,
           CreateSession(s) \/ DeleteSession(s) \/ RenameSession(s),
           UNCHANGED runVars
    PROVE  PromptInv'
<1> USE DEF StoreInv
<1>1. /\ Idle
      /\ messages' = messages
      /\ \A x, m : ~ Appends(writes', x, m)
  <2>1. \A id, x, m : /\ <<Save, Seed(id)>> # <<AppendTo(x, m), Save>>
                      /\ <<Save, Unlink(id)>> # <<AppendTo(x, m), Save>>
    BY DifferentQueues
  <2>2. QED
    BY <2>1, QueueShapes DEF CreateSession, DeleteSession, RenameSession, Appends
<1>2. \A x : History(x)' = History(x)
  BY <1>1 DEF History
<1>3. \A x, m : ~ Appends(writes, x, m)
  BY <1>1, QueueShapes DEF Idle, Appends
<1>4. \A n, id : Asks(n, id)' => Asks(n, id)
  BY DEF Asks, runVars
<1>5. created \subseteq created'
  BY DEF CreateSession, DeleteSession, RenameSession
<1>6. \A x \in Listed(sessions') : x \in Listed(sessions) \/ (x = s /\ s \notin created)
  <2>1. CASE CreateSession(s)
    <3>1. Listed(sessions') = Listed(sessions) \cup {s}
      BY <2>1, CreateLists
    <3>2. QED
      BY <2>1, <3>1 DEF CreateSession
  <2>2. CASE DeleteSession(s)
    BY <2>2, DeleteUnlists DEF ListsInv
  <2>3. CASE RenameSession(s)
    BY <2>3 DEF RenameSession, Listed
  <2>4. QED
    BY <2>1, <2>2, <2>3
<1>7. Listed(sessions') \subseteq SessionId
  BY <1>6, ListedAreCreated
<1>8. \A n \in DOMAIN child', id \in SessionId :
         Asks(n, id)' => n \in DOMAIN child /\ Asks(n, id) /\ id \in created'
  BY <1>4, <1>5, AskersAreChildren DEF PromptInv, AskersCreated
<1>9. \A n \in DOMAIN child, id \in Listed(sessions') :
         Asks(n, id)' => id \in Listed(sessions)
  BY <1>4, <1>6, <1>7 DEF PromptInv, AskersCreated
<1>10. QED
  BY <1>1, <1>2, <1>3, <1>7, <1>8, <1>9, PromptsQuiet

\* Writing a message puts an answer behind its prompt, or a prompt at the end.
LEMMA WriteKeepsPrompts ==
    ASSUME StoreInv, CoreInv, failures = 0, PromptInv, PromptsStay,
           WriteMessage, UNCHANGED turnVars
    PROVE  PromptInv'
<1> USE DEF PromptInv, StoreInv
<1>1. PICK id \in created, msg \in Message :
         /\ writes = <<AppendTo(id, msg), Save>>
         /\ Head(writes) = AppendTo(id, msg)
         /\ Tail(writes) = <<Save>>
  BY QueueFront, WriteOps DEF WriteMessage, NextIs
<1>2. id \in SessionId
  BY ListedAreCreated
<1>3. Appends(writes, id, msg)
  BY <1>1 DEF Appends
<1>4. PICK h : h = Append(History(id), msg)
  OBVIOUS
<1>5. PICK l : l = Len(History(id))
  OBVIOUS
<1>6. /\ h \in Seq(Message)
      /\ l \in Nat
      /\ DOMAIN History(id) = 1 .. l
      /\ DOMAIN h = 1 .. l + 1
      /\ Len(h) = l + 1
      /\ \A i \in 1 .. l : h[i] = History(id)[i]
      /\ h[l + 1] = msg
  <2>1. History(id) \in Seq(Message)
    BY <1>2, HistoryType DEF StoreTypeOK
  <2>2. QED
    BY <1>4, <1>5, <2>1
<1>7. messages' = [messages EXCEPT ![id] = h]
  <2>1. Head(writes).id = id /\ Head(writes).msg = msg
    BY <1>1, WriteOps
  <2>2. QED
    BY <1>4, <2>1 DEF WriteMessage
<1>8. History(id)' = h /\ \A x \in SessionId \ {id} : History(x)' = History(x)
  <2>1. messages'[id] = h /\ \A x \in SessionId \ {id} : messages'[x] = messages[x]
    BY <1>2, <1>7 DEF StoreTypeOK
  <2>2. QED
    BY <1>6, <2>1, StoreAssumption DEF History
<1>9. /\ sessions' = sessions /\ created' = created /\ child' = child
      /\ writes' = <<Save>>
      /\ \A n, x : Asks(n, x)' <=> Asks(n, x)
      /\ \A n : PromptOf(n)' = PromptOf(n)
  BY <1>1 DEF WriteMessage, turnVars, Asks, PromptOf
<1>10. \A x, m : ~ Appends(writes', x, m)
  BY <1>9, QueueShapes DEF Appends
<1>11. AnswersFollow'
  <2> SUFFICES ASSUME NEW x \in SessionId, NEW i \in DOMAIN History(x)',
                      History(x)'[i].role = "assistant"
               PROVE  /\ History(x)'[i].text.turn \in DOMAIN child
                      /\ i > 1
                      /\ History(x)'[i - 1] = PromptOf(History(x)'[i].text.turn)
    BY <1>9 DEF AnswersFollow, PromptOf
  <2>1. CASE x # id
    BY <1>8, <2>1 DEF AnswersFollow
  <2>2. CASE x = id /\ i # l + 1
    <3>1. i \in 1 .. l /\ History(x)'[i] = History(id)[i]
      BY <1>6, <1>8, <2>2 DEF History
    <3>2. /\ History(id)[i].text.turn \in DOMAIN child
          /\ i > 1
          /\ History(id)[i - 1] = PromptOf(History(id)[i].text.turn)
      BY <1>2, <1>6, <3>1 DEF AnswersFollow
    <3>3. History(x)'[i - 1] = History(id)[i - 1]
      BY <1>6, <1>8, <2>2, <3>1, <3>2 DEF History
    <3>4. QED
      BY <3>1, <3>2, <3>3
  <2>3. CASE x = id /\ i = l + 1
    <3>1. History(x)'[i] = msg /\ msg.role = "assistant"
      BY <1>6, <1>8, <2>3 DEF History
    <3>2. /\ msg.text.turn \in DOMAIN child
          /\ EndsWith(History(id), PromptOf(msg.text.turn))
      BY <1>2, <1>3, <3>1 DEF AnswerWaits
    <3>3. l \in 1 .. l /\ History(id)[l] = PromptOf(msg.text.turn)
      <4>1. l # 0
        BY <1>2, <1>5, <3>2, EmptySeq, HistoryType DEF EndsWith, StoreTypeOK
      <4>2. QED
        BY <1>5, <1>6, <3>2, <4>1 DEF EndsWith
    <3>4. History(x)'[i - 1] = History(id)[l]
      BY <1>6, <1>8, <2>3, <3>3 DEF History
    <3>5. QED
      BY <1>6, <2>3, <3>1, <3>2, <3>3, <3>4
  <2>4. QED
    BY <2>1, <2>2, <2>3
<1>12. PromptWaits'
  <2> SUFFICES ASSUME NEW n \in DOMAIN child, NEW x \in Listed(sessions), Asks(n, x)
               PROVE  EndsWith(History(x)', PromptOf(n))
    BY <1>9, <1>10 DEF PromptWaits, EndsWith, Appends, PromptOf, History
  <2>0. x \in SessionId
    BY ListedAreCreated
  <2>1. CASE x # id
    <3>1. \A m : ~ Appends(writes, x, m)
      BY <1>1, <2>1, DifferentQueues DEF Appends
    <3>2. EndsWith(History(x), PromptOf(n))
      BY <3>1 DEF PromptWaits
    <3>3. QED
      BY <1>8, <2>0, <2>1, <3>2
  <2>2. CASE x = id
    <3>1. Appends(writes, id, PromptOf(n))
      BY <1>3, <2>2 DEF PromptWaits
    <3>2. PromptOf(n) = msg
      BY <1>1, <3>1, DifferentQueues DEF Appends
    <3>3. History(x)' = h
      BY <1>8, <2>2 DEF History
    <3>4. h # <<>> /\ h[Len(h)] = msg
      BY <1>6
    <3>5. QED
      BY <3>2, <3>3, <3>4 DEF EndsWith
  <2>3. QED
    BY <2>1, <2>2
<1>13. AnswerWaits'
  BY <1>10 DEF AnswerWaits, Appends
<1>14. AskersCreated'
  BY <1>9 DEF AskersCreated
<1>15. QED
  BY <1>11, <1>12, <1>13, <1>14

\* The other file operations, and a restart, leave no message in the queue and
\* the listed histories alone.
LEMMA DiskKeepsPrompts ==
    ASSUME StoreInv, CoreInv, failures = 0, PromptInv, PromptsStay,
           \/ (SaveSessions \/ SeedMessages \/ UnlinkMessages) /\ UNCHANGED turnVars
           \/ AppRestart
    PROVE  PromptInv'
<1> USE DEF StoreInv
<1>1. /\ created' = created
      /\ Listed(sessions') \subseteq SessionId
  <2>1. CASE SaveSessions \/ SeedMessages \/ UnlinkMessages
    <3>1. created' = created /\ sessions' = sessions
      BY <2>1 DEF SaveSessions, SeedMessages, UnlinkMessages
    <3>2. QED
      BY <3>1, ListedAreCreated
  <2>2. CASE AppRestart
    <3>1. created' = created /\ sessions' = sessionsFile
      BY <2>2 DEF AppRestart, Restart, Reopen
    <3>2. QED
      BY <3>1, ListedAreCreated
  <2>3. QED
    BY <2>1, <2>2
<1>2. \A n, x : Asks(n, x)' =>
         /\ Asks(n, x)
         /\ sessions' = sessions
         /\ writes # <<>>
         /\ Head(writes).op # "append"
  <2>1. CASE (SaveSessions \/ SeedMessages \/ UnlinkMessages) /\ UNCHANGED turnVars
    <3>1. /\ sessions' = sessions
          /\ writes # <<>>
          /\ Head(writes).op # "append"
      BY <2>1 DEF SaveSessions, SeedMessages, UnlinkMessages, NextIs
    <3>2. \A n, x : Asks(n, x)' => Asks(n, x)
      BY <2>1 DEF turnVars, Asks
    <3>3. QED
      BY <3>1, <3>2
  <2>2. CASE AppRestart
    BY <2>2 DEF AppRestart, Reborn, Asks
  <2>3. QED
    BY <2>1, <2>2
<1>3. \A x, m : Appends(writes, x, m) => Head(writes).op = "append"
  <2>1. \A a, b : Head(<<a, b>>) = a
    OBVIOUS
  <2>2. QED
    BY <2>1, WriteOps DEF Appends
<1>4. \A x, m : ~ Appends(writes', x, m)
  <2>1. CASE SaveSessions \/ SeedMessages \/ UnlinkMessages
    <3>1. /\ writes # <<>> /\ writes' = Tail(writes)
          /\ Head(writes).op # "append"
      BY <2>1 DEF SaveSessions, SeedMessages, UnlinkMessages, NextIs
    <3>2. writes' = <<>> \/ \E w : writes' = <<w>>
      BY <3>1, QueueFront, WriteOps
    <3>3. QED
      BY <3>2, QueueShapes DEF Appends
  <2>2. CASE AppRestart
    BY <2>2, QueueShapes DEF AppRestart, Restart, Reopen, Appends
  <2>3. QED
    BY <2>1, <2>2
<1>5. \A n \in DOMAIN child', id \in SessionId :
         Asks(n, id)' => n \in DOMAIN child /\ Asks(n, id) /\ id \in created'
  BY <1>1, <1>2, AskersAreChildren DEF PromptInv, AskersCreated
<1>6. \A n \in DOMAIN child, id \in Listed(sessions') :
         Asks(n, id)' =>
            /\ id \in Listed(sessions)
            /\ \A m \in Message : ~ Appends(writes, id, m)
  <2>1. sessions' = sessions => Listed(sessions') = Listed(sessions)
    OBVIOUS
  <2>2. QED
    BY <1>2, <1>3, <2>1
<1>7. ASSUME NEW x \in SessionId
      PROVE  \/ History(x)' = History(x)
             \/ /\ x \notin Listed(sessions')
                /\ History(x)' = <<>>
                /\ writes' = <<>>
  <2>1. CASE SaveSessions \/ AppRestart
    BY <2>1 DEF SaveSessions, AppRestart, Restart, Reopen, History
  <2>2. CASE SeedMessages
    <3>1. PICK id \in created : Head(writes) = Seed(id) /\ History(id) = <<>>
      BY <2>2, QueueFront, WriteOps DEF SeedMessages, NextIs
    <3>2. Head(writes).id = id
      BY <3>1, WriteOps
    <3>3. messages' = [messages EXCEPT ![id] = <<>>]
      BY <2>2, <3>2 DEF SeedMessages
    <3>4. QED
      BY <3>1, <3>3 DEF History, StoreTypeOK
  <2>3. CASE UnlinkMessages
    <3>0. writes # <<>> /\ Head(writes).op = "unlink"
      BY <2>3 DEF UnlinkMessages, NextIs
    <3>1. PICK id \in created : /\ Head(writes) = Unlink(id)
                               /\ Tail(writes) = <<>>
                               /\ id \notin Listed(sessions)
      BY <3>0, QueueFront, WriteOps
    <3>2. Head(writes).id = id
      BY <3>1, WriteOps
    <3>3. /\ messages' = [messages EXCEPT ![id] = NoFile]
          /\ writes' = <<>>
          /\ sessions' = sessions
      BY <2>3, <3>1, <3>2 DEF UnlinkMessages
    <3>4. CASE x = id
      <4>1. messages'[x] = NoFile
        BY <3>3, <3>4 DEF StoreTypeOK
      <4>2. History(x)' = <<>>
        BY <4>1 DEF History
      <4>3. x \notin Listed(sessions')
        BY <3>1, <3>3, <3>4
      <4>4. QED
        BY <3>3, <4>2, <4>3
    <3>5. CASE x # id
      BY <3>3, <3>5 DEF History, StoreTypeOK
    <3>6. QED
      BY <3>4, <3>5
  <2>4. QED
    BY <2>1, <2>2, <2>3
<1>8. QED
  BY <1>1, <1>4, <1>5, <1>6, <1>7, PromptsQuiet

\* Every step keeps the prompts where the answers need them.
LEMMA PromptStep ==
    StoreInv /\ CoreInv /\ OneAttendedChild /\ PromptInv /\ [TurnNext]_vars =>
       PromptInv'
<1> SUFFICES ASSUME StoreInv, CoreInv, OneAttendedChild, PromptInv, [TurnNext]_vars,
                    failures' = 0
             PROVE  PromptInv'
  BY DEF PromptInv
<1>0. /\ failures = 0
      /\ PromptsStay
      /\ [StoreNext]_storeVars
      /\ failures \in Nat
  BY StepIsStoreStep, PromptsStayStep, FailuresGrow DEF CoreInv, StoreTypeOK
<1>1. ASSUME NEW id \in SessionId,
             \/ \E force \in BOOLEAN : SessionNew(id, force)
             \/ SessionRename(id) \/ SessionDelete(id)
      PROVE  PromptInv'
  <2>1. /\ CreateSession(id) \/ DeleteSession(id) \/ RenameSession(id)
        /\ UNCHANGED runVars
    BY <1>1 DEF SessionNew, SessionRename, SessionDelete, turnVars, runVars
  <2>2. QED
    BY <1>0, <2>1, ListStepKeepsPrompts
<1>2. CASE MessageSend
  BY <1>0, <1>2, SendKeepsPrompts
<1>3. CASE MessageRegenerate
  BY <1>0, <1>3, RegenerateKeepsPrompts
<1>4. CASE MessageRegenerateFails
  BY <1>0, <1>4 DEF MessageRegenerateFails, RegenerateFails
<1>5. CASE MessageCancel \/ TickCliRead \/ TickCodexRead
  <2>1. UNCHANGED storeVars
    BY <1>5 DEF MessageCancel, TickCliRead, TickCodexRead
  <2>2. /\ cliRun' # NoRun => /\ cliRun # NoRun
                              /\ cliRun'.turn = cliRun.turn
                              /\ cliRun'.session = cliRun.session
        /\ codexRun' # NoRun => codexRun # NoRun /\ codexRun'.turn = codexRun.turn
        /\ codexSession' = codexSession
    <3>1. /\ cliRun # NoRun => cliRun \in CliRun
          /\ codexRun # NoRun => codexRun \in CodexRun
      BY DEF CoreInv, TurnTypeOK
    <3>2. CASE MessageCancel
      BY <3>1, <3>2 DEF MessageCancel, CliRun, CodexRun
    <3>3. CASE TickCliRead
      BY <3>1, <3>3 DEF TickCliRead, CliRun
    <3>4. CASE TickCodexRead
      BY <3>1, <3>4 DEF TickCodexRead, CodexRun
    <3>5. QED
      BY <1>5, <3>2, <3>3, <3>4
  <2>3. \A n, id : Asks(n, id)' => Asks(n, id)
    BY <2>2 DEF Asks
  <2>4. QED
    BY <1>0, <2>1, <2>3, RunStepKeepsPrompts
<1>6. CASE \/ \E id \in SessionId : SessionSelect(id)
           \/ \E kind \in Kind : ProviderSelect(kind)
           \/ CliPollRunning \/ CodexPollRunning
           \/ \E n \in DOMAIN child :
                 \/ ChildWrites(n)
                 \/ \E exit \in {"ok", "fail", "noexec"} : ChildExits(n, exit)
           \/ TimePasses
           \/ UNCHANGED vars
  <2>1. UNCHANGED <<storeVars, cliRun, codexRun, codexSession>>
    BY <1>6 DEF SessionSelect, ProviderSelect, CliPollRunning, CodexPollRunning,
                ChildWrites, ChildExits, TimePasses, vars, turnVars, runVars
  <2>2. \A n, id : Asks(n, id)' => Asks(n, id)
    BY <2>1 DEF Asks
  <2>3. QED
    BY <1>0, <2>1, <2>2, RunStepKeepsPrompts
<1>7. ASSUME NEW n, NEW id, NEW records, NEW stopped,
             Asks(n, id), Persist(id, n, records, stopped),
             cliRun' = NoRun, codexRun' = NoRun
      PROVE  PromptInv'
  <2>1. n \in DOMAIN child
    BY <1>7, AskersAreChildren
  <2>2. \A k \in DOMAIN child', x \in SessionId : ~ Asks(k, x)'
    BY <1>7 DEF Asks
  <2>3. Listed(sessions') \subseteq SessionId
    <3>1. Listed(sessions') = Listed(sessions)
      <4>1. CASE AppendMessage(id, "assistant", Answer(n, records, stopped))
        BY <4>1, CountingListsTheSame DEF AppendMessage, StoreInv
      <4>2. CASE UNCHANGED storeVars
        BY <4>2 DEF storeVars
      <4>3. QED
        BY <1>7, <4>1, <4>2 DEF Persist
    <3>2. QED
      BY <3>1, ListedAreCreated
  <2>4. QED
    BY <1>0, <1>7, <2>1, <2>2, <2>3, PersistKeepsPrompts
<1>8. CASE CliFinish
  <2>1. cliRun # NoRun /\ codexRun = NoRun
    BY <1>8 DEF CliFinish, CoreInv, Links, OneAttendedChild
  <2>2. Asks(cliRun.turn, cliRun.session)
    BY <2>1 DEF Asks
  <2>3. cliRun' = NoRun /\ codexRun' = NoRun
    BY <1>8, <2>1 DEF CliFinish
  <2>4. Persist(cliRun.session, cliRun.turn,
                FinalLines(child[cliRun.turn].written),
                cliRun.cancelled /\ ~ cliRun.timedOut)
    BY <1>8 DEF CliFinish
  <2>5. QED
    BY <1>7, <2>2, <2>3, <2>4
<1>9. CASE CodexFinish
  <2>1. codexRun # NoRun /\ cliRun = NoRun
    BY <1>9 DEF CodexFinish, CoreInv, Links, OneAttendedChild
  <2>2. Asks(codexRun.turn, codexSession)
    BY <2>1 DEF Asks
  <2>3. cliRun' = NoRun /\ codexRun' = NoRun
    BY <1>9, <2>1 DEF CodexFinish
  <2>4. Persist(codexSession, codexRun.turn, FinalLines(codexRun.seen),
                codexRun.cancelled /\ ~ codexTimedOut)
    BY <1>9 DEF CodexFinish
  <2>5. QED
    BY <1>7, <2>2, <2>3, <2>4
<1>10. CASE DiskStep
  <2>1. UNCHANGED turnVars
    BY <1>10 DEF DiskStep
  <2>2. CASE WriteMessage
    BY <1>0, <2>1, <2>2, WriteKeepsPrompts
  <2>3. CASE SaveSessions \/ SeedMessages \/ UnlinkMessages
    BY <1>0, <2>1, <2>3, DiskKeepsPrompts
  <2>4. ~ FailWrite /\ ~ AppendOverUnreadable
    BY <1>0 DEF FailWrite, AppendOverUnreadable
  <2>5. QED
    BY <1>10, <2>2, <2>3, <2>4 DEF DiskStep, Disk
<1>11. CASE AppRestart
  BY <1>0, <1>11, DiskKeepsPrompts
<1>12. CASE AppRestartUnreadable
  BY <1>0, <1>12 DEF AppRestartUnreadable, RestartUnreadable
<1>13. QED
  BY <1>1, <1>2, <1>3, <1>4, <1>5, <1>6, <1>8, <1>9, <1>10, <1>11, <1>12
     DEF TurnNext, Tick

\* The answers of an imported history belong to turns of an earlier process,
\* of which the core knows nothing: the claim is about histories it wrote.
ImportedIsUnanswered == \A h \in Imported : \A i \in DOMAIN h : h[i].role = "user"

\* Whatever is selected, deleted, renamed, regenerated, cancelled or cut short
\* by a crash, and in whatever order children write and end, every answer the
\* core has written stands directly behind the prompt it was given for.
THEOREM AnswersFollowPrompts ==
    ASSUME ImportedIsUnanswered
    PROVE  TurnSpec => []AnswerFollowsPrompt
<1>1. TurnInit => PromptInv
  <2> SUFFICES ASSUME TurnInit PROVE PromptInv
    OBVIOUS
  <2>1. /\ writes = <<>> /\ cliRun = NoRun /\ codexRun = NoRun
    BY DEF TurnInit, StoreInit
  <2>2. PromptWaits /\ AnswerWaits /\ AskersCreated
    BY <2>1, QueueShapes DEF PromptWaits, AnswerWaits, AskersCreated, Asks, Appends
  <2>3. \A id \in SessionId : \A i \in DOMAIN History(id) : History(id)[i].role = "user"
    BY StoreAssumption DEF TurnInit, StoreInit, History, ImportedIsUnanswered
  <2>4. AnswersFollow
    BY <2>3 DEF AnswersFollow
  <2>5. QED
    BY <2>2, <2>4 DEF PromptInv
<1>2. TurnSpec => []StoreInv
  BY CoreUsesStore, InvariantHolds, PTL
<1>3. PromptInv => AnswerFollowsPrompt
  <2> SUFFICES ASSUME PromptInv, failures = 0,
                      NEW id \in SessionId, NEW i \in DOMAIN History(id),
                      History(id)[i].role = "assistant"
               PROVE  LET n == History(id)[i].text.turn
                      IN /\ i > 1
                         /\ History(id)[i - 1].role = "user"
                         /\ History(id)[i - 1].text = Prompt(child[n].prompt)
    BY DEF AnswerFollowsPrompt
  <2>1. i > 1 /\ History(id)[i - 1] = PromptOf(History(id)[i].text.turn)
    BY DEF PromptInv, AnswersFollow
  <2>2. QED
    BY <2>1 DEF PromptOf
<1>4. QED
  BY <1>1, <1>2, <1>3, PromptStep, CoreInvariant, ChildrenAreAttended, PTL
     DEF TurnSpec
=============================================================================
