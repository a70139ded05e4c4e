----------------------------- MODULE NativeTurn -----------------------------
(***************************************************************************)
(* The provider turn of the native application core (core.zag with         *)
(* provider_codex.zag and the process helpers of util.zag), on top of the  *)
(* session store it keeps the conversation in.                             *)
(*                                                                         *)
(* A message_send starts a provider CLI as a child process whose output    *)
(* goes to a file.  The event loop calls core_tick, which reads what the   *)
(* file has gained, then asks whether the child has ended, and, once it    *)
(* has, persists the answer.  The child runs concurrently with all of it:  *)
(* it may write, or end, between the read and the question, and between    *)
(* any two file operations of a handler.                                   *)
(*                                                                         *)
(* One record of output is two steps of the child: its text, and the       *)
(* newline that completes the line.  "written" and "seen" count such       *)
(* halves, so an odd number is a line still waiting for its newline.       *)
(*                                                                         *)
(* Left out: the deterministic test provider (never enabled outside        *)
(* tests), rejected commands (they change nothing), token usage, and which *)
(* of the five non-Codex CLIs runs, for they share one executor ("cli").   *)
(***************************************************************************)
EXTENDS SessionStore

CONSTANTS
    NoSession,  \* active_session_id or codex_session_id is ""
    NoRun,      \* cli_run or codex_run is null
    MaxTurns,   \* bound: turns started
    MaxRecords  \* bound: records a child writes

Kind == {"cli", "codex"}
Turn == 1 .. MaxTurns

Prompt(n) == [turn |-> n, records |-> 0, stopped |-> FALSE]
Answer(n, records, stopped) ==
    [turn |-> n, records |-> records, stopped |-> stopped]

Child == [kind : Kind, prompt : Turn, written : 0 .. 2 * MaxRecords,
          exit : {"none", "ok", "fail", "noexec"},
          state : {"alive", "zombie", "reaped", "orphan"}, signalled : BOOLEAN]

CliRun == [turn : Turn, session : SessionId, seen : 0 .. 2 * MaxRecords,
           cancelled : BOOLEAN, timedOut : BOOLEAN]

CodexRun == [turn : Turn, seen : 0 .. 2 * MaxRecords, cancelled : BOOLEAN]

ASSUME TurnAssumption ==
    /\ MaxTurns \in Nat
    /\ MaxRecords \in Nat
    /\ NoSession \notin SessionId
    /\ NoRun \notin CliRun \cup CodexRun
    /\ \A text \in Text : text.turn \in Turn
    /\ \A n \in Turn : Prompt(n) \in Text
    /\ \A n \in Turn, r \in 1 .. MaxRecords, stopped \in BOOLEAN :
          Answer(n, r, stopped) \in Text

VARIABLES
    active,         \* AppCore.active_session_id
    selected,       \* the executor of AppCore.selected_provider_id
    cliRun,         \* AppCore.cli_run
    codexRun,       \* AppCore.codex_run
    codexSession,   \* AppCore.codex_session_id
    codexTimedOut,  \* AppCore.codex_timed_out
    elapsed,        \* 300 seconds have passed since the running turn started
    pc,             \* where the event loop is inside core_tick
    child,          \* the provider processes, in the order they were started
    verdict         \* what agent_status last reported for each of them, where
                    \* "thinking" stands for any report of progress

runVars == <<cliRun, codexRun, codexSession, codexTimedOut, elapsed>>
turnVars == <<active, selected, cliRun, codexRun, codexSession, codexTimedOut,
              elapsed, pc, child, verdict>>
vars == <<storeVars, turnVars>>

-----------------------------------------------------------------------------
\* "prompt" is the turn in which the prompt was first sent: a regeneration
\* sends an earlier one.
Spawned(prompt) ==
    [kind |-> selected, prompt |-> prompt, written |-> 0, exit |-> "none",
     state |-> "alive", signalled |-> FALSE]

Signal(n) == [child EXCEPT ![n].signalled = TRUE]
Reap(n) == [child EXCEPT ![n].state = "reaped"]

\* Lines at the end of the output, where what is left over counts as a line.
FinalLines(halves) == (halves + 1) \div 2

NewTurn == Len(child) + 1
\* Variant: only the CLI run is looked at.
Busy_CliOnly == cliRun # NoRun

Busy == cliRun # NoRun \/ codexRun # NoRun
FirstOf(list) == IF list = <<>> THEN NoSession ELSE list[1].id

\* The event loop waits for input: no handler and no tick is running.
Waiting == pc = "loop" /\ Idle

TurnInit ==
    /\ StoreInit
    /\ active = FirstOf(sessions)
    /\ selected \in Kind
    /\ cliRun = NoRun
    /\ codexRun = NoRun
    /\ codexSession = NoSession
    /\ codexTimedOut = FALSE
    /\ elapsed = FALSE
    /\ pc = "loop"
    /\ child = <<>>
    /\ verdict = <<>>

-----------------------------------------------------------------------------
(* Commands of the user: core_dispatch *)

\* Unless forced, an active session that counts no message is used again.
SessionNew(id, force) ==
    /\ Waiting
    /\ force \/ ~ \E i \in DOMAIN sessions : Finds(i, active) /\ sessions[i].count = 0
    /\ CreateSession(id)
    /\ active' = id
    /\ UNCHANGED <<selected, runVars, pc, child, verdict>>

SessionSelect(id) ==
    /\ Waiting
    /\ id \in Listed(sessions)
    /\ active' = id
    /\ UNCHANGED <<storeVars, selected, runVars, pc, child, verdict>>

SessionRename(id) ==
    /\ Waiting
    /\ RenameSession(id)
    /\ UNCHANGED turnVars

\* Variant: the active session is not replaced when it is deleted.
SessionDelete_StaysActive(id) ==
    /\ Waiting
    /\ DeleteSession(id)
    /\ UNCHANGED turnVars

SessionDelete(id) ==
    /\ Waiting
    /\ DeleteSession(id)
    /\ active' = IF id = active THEN FirstOf(sessions') ELSE active
    /\ UNCHANGED <<selected, runVars, pc, child, verdict>>

ProviderSelect(kind) ==
    /\ Waiting
    /\ selected' = kind
    /\ UNCHANGED <<storeVars, active, runVars, pc, child, verdict>>

-----------------------------------------------------------------------------
\* The provider starts before anything is written; then the run is recorded.
Spawn(prompt) ==
    /\ Waiting
    /\ active # NoSession
    /\ NewTurn \in Turn
    /\ ~ Busy
    /\ child' = Append(child, Spawned(prompt))

StartRun ==
    /\ elapsed' = FALSE
    /\ verdict' = Append(verdict, "thinking")
    /\ \/ /\ selected = "cli"
          /\ cliRun' = [turn |-> NewTurn, session |-> active, seen |-> 0,
                        cancelled |-> FALSE, timedOut |-> FALSE]
          /\ UNCHANGED <<codexRun, codexSession, codexTimedOut>>
       \/ /\ selected = "codex"
          /\ codexRun' = [turn |-> NewTurn, seen |-> 0, cancelled |-> FALSE]
          /\ codexSession' = active
          /\ codexTimedOut' = FALSE
          /\ UNCHANGED cliRun

MessageSend ==
    /\ Spawn(NewTurn)
    /\ AppendMessage(active, "user", Prompt(NewTurn))
    /\ StartRun
    /\ UNCHANGED <<active, selected, pc>>

LastPrompt(id) == History(id)[Len(History(id)) - 1].text.turn

MessageRegenerate ==
    /\ active # NoSession
    /\ Regenerate(active)
    /\ Spawn(LastPrompt(active))
    /\ StartRun
    /\ UNCHANGED <<active, selected, pc>>

\* The rewritten history cannot be written.  The provider runs already: it is
\* told to stop, and a Codex run stays recorded with no session.
MessageRegenerateFails ==
    /\ active # NoSession
    /\ RegenerateFails(active)
    /\ Waiting
    /\ NewTurn \in Turn
    /\ ~ Busy
    /\ child' = Append(child, [Spawned(LastPrompt(active)) EXCEPT !.signalled = TRUE])
    /\ verdict' = Append(verdict, "none")
    /\ codexRun' = IF selected = "codex"
                   THEN [turn |-> NewTurn, seen |-> 0, cancelled |-> TRUE]
                   ELSE codexRun
    /\ UNCHANGED <<active, selected, cliRun, codexSession, codexTimedOut, elapsed, pc>>

\* Variant: a cancelled run is forgotten at once instead of when it has ended.
MessageCancel_Forgets ==
    /\ Waiting
    /\ \/ /\ codexRun # NoRun
          /\ codexRun' = NoRun
          /\ child' = Signal(codexRun.turn)
          /\ UNCHANGED cliRun
       \/ /\ codexRun = NoRun
          /\ cliRun # NoRun
          /\ cliRun' = NoRun
          /\ child' = Signal(cliRun.turn)
          /\ UNCHANGED codexRun
    /\ UNCHANGED <<storeVars, active, selected, codexSession, codexTimedOut,
                   elapsed, pc, verdict>>

MessageCancel ==
    /\ Waiting
    /\ \/ /\ codexRun # NoRun
          /\ codexRun' = [codexRun EXCEPT !.cancelled = TRUE]
          /\ child' = Signal(codexRun.turn)
          /\ UNCHANGED cliRun
       \/ /\ codexRun = NoRun
          /\ cliRun # NoRun
          /\ cliRun' = [cliRun EXCEPT !.cancelled = TRUE]
          /\ child' = Signal(cliRun.turn)
          /\ UNCHANGED codexRun
    /\ UNCHANGED <<storeVars, active, selected, codexSession, codexTimedOut,
                   elapsed, pc, verdict>>

-----------------------------------------------------------------------------
(* core_tick *)

\* Variant: the answer goes to the session that is active when it comes.
Persist_ToActive(id, n, records, stopped) ==
    IF records > 0 /\ active \in Listed(sessions)
    THEN AppendMessage(active, "assistant", Answer(n, records, stopped))
    ELSE UNCHANGED storeVars

\* The answer goes to the session of the run if that session still exists.
Persist(id, n, records, stopped) ==
    IF records > 0 /\ id \in Listed(sessions)
    THEN AppendMessage(id, "assistant", Answer(n, records, stopped))
    ELSE UNCHANGED storeVars

\* Variant: the offset is set one past what was read.
TickCliRead_PastEnd ==
    /\ Waiting
    /\ cliRun # NoRun
    /\ cliRun' = [cliRun EXCEPT !.seen = child[cliRun.turn].written + 1]
    /\ pc' = "cliPoll"
    /\ UNCHANGED <<storeVars, active, selected, codexRun, codexSession,
                   codexTimedOut, elapsed, child, verdict>>

\* Variant: a CLI run has no time limit.
TickCliRead_NoTimeout ==
    /\ Waiting
    /\ cliRun # NoRun
    /\ cliRun' = [cliRun EXCEPT !.seen = child[cliRun.turn].written]
    /\ pc' = "cliPoll"
    /\ UNCHANGED <<storeVars, active, selected, codexRun, codexSession,
                   codexTimedOut, elapsed, child, verdict>>

TickCliRead ==
    /\ Waiting
    /\ cliRun # NoRun
    /\ LET late == elapsed /\ ~ cliRun.cancelled /\ ~ cliRun.timedOut
       IN /\ cliRun' = [cliRun EXCEPT !.timedOut = @ \/ late,
                                      !.seen = child[cliRun.turn].written]
          /\ child' = IF late THEN Signal(cliRun.turn) ELSE child
    /\ pc' = "cliPoll"
    /\ UNCHANGED <<storeVars, active, selected, codexRun, codexSession,
                   codexTimedOut, elapsed, verdict>>

AfterCli == IF codexRun # NoRun THEN "codex" ELSE "loop"

CliPollRunning ==
    /\ pc = "cliPoll"
    /\ child[cliRun.turn].state = "alive"
    /\ pc' = AfterCli
    /\ UNCHANGED <<storeVars, active, selected, runVars, child, verdict>>

\* Variant: the output is not read again after waitpid.
CliFinish_NoReread ==
    /\ pc = "cliPoll"
    /\ LET n == cliRun.turn
           records == FinalLines(cliRun.seen)
       IN /\ child[n].state = "zombie"
          /\ child' = Reap(n)
          /\ verdict' = [verdict EXCEPT ![n] = "done"]
          /\ Persist(cliRun.session, n, records, cliRun.cancelled /\ ~ cliRun.timedOut)
    /\ cliRun' = NoRun
    /\ elapsed' = FALSE
    /\ pc' = AfterCli
    /\ UNCHANGED <<active, selected, codexRun, codexSession, codexTimedOut>>

\* Variant: only a good end, or one without any output, is reported.
CliFinish_SilentFailure ==
    /\ pc = "cliPoll"
    /\ LET n == cliRun.turn
           records == FinalLines(child[n].written)
       IN /\ child[n].state = "zombie"
          /\ child' = Reap(n)
          /\ verdict' = [verdict EXCEPT ![n] =
                IF cliRun.timedOut THEN "error"
                ELSE IF cliRun.cancelled THEN "cancelled"
                ELSE IF child[n].exit = "ok" THEN "done"
                ELSE IF records = 0 THEN "error"
                ELSE @]
          /\ Persist(cliRun.session, n, records, cliRun.cancelled /\ ~ cliRun.timedOut)
    /\ cliRun' = NoRun
    /\ elapsed' = FALSE
    /\ pc' = AfterCli
    /\ UNCHANGED <<active, selected, codexRun, codexSession, codexTimedOut>>

\* waitpid has returned: the output is read once more, then core_finish_cli.
CliFinish ==
    /\ pc = "cliPoll"
    /\ LET n == cliRun.turn
           records == FinalLines(child[n].written)
       IN /\ child[n].state = "zombie"
          /\ child' = Reap(n)
          /\ verdict' = [verdict EXCEPT ![n] =
                IF cliRun.timedOut THEN "error"
                ELSE IF cliRun.cancelled THEN "cancelled"
                ELSE IF child[n].exit # "ok" /\ records = 0 THEN "error"
                ELSE "done"]
          /\ Persist(cliRun.session, n, records, cliRun.cancelled /\ ~ cliRun.timedOut)
    /\ cliRun' = NoRun
    /\ elapsed' = FALSE
    /\ pc' = AfterCli
    /\ UNCHANGED <<active, selected, codexRun, codexSession, codexTimedOut>>

TickCodexRead ==
    /\ Idle
    /\ pc = "codex" \/ (pc = "loop" /\ cliRun = NoRun)
    /\ codexRun # NoRun
    /\ LET late == elapsed /\ ~ codexRun.cancelled /\ ~ codexTimedOut
       IN /\ codexTimedOut' = (codexTimedOut \/ late)
          /\ codexRun' = [codexRun EXCEPT !.cancelled = @ \/ late,
                                          !.seen = child[codexRun.turn].written]
          /\ child' = IF late THEN Signal(codexRun.turn) ELSE child
    /\ pc' = "codexPoll"
    /\ UNCHANGED <<storeVars, active, selected, cliRun, codexSession, elapsed, verdict>>

CodexPollRunning ==
    /\ pc = "codexPoll"
    /\ child[codexRun.turn].state = "alive"
    /\ pc' = "loop"
    /\ UNCHANGED <<storeVars, active, selected, runVars, child, verdict>>

\* codex_tick parses the line that was left over, and does not read again.
CodexFinish ==
    /\ pc = "codexPoll"
    /\ LET n == codexRun.turn
           records == FinalLines(codexRun.seen)
       IN /\ child[n].state = "zombie"
          /\ child' = Reap(n)
          /\ verdict' = [verdict EXCEPT ![n] =
                IF codexTimedOut THEN "error"
                ELSE IF codexRun.cancelled THEN "cancelled"
                ELSE IF child[n].exit = "ok" THEN "done"
                ELSE IF records = 0 THEN "error"
                ELSE @]
          /\ Persist(codexSession, n, records, codexRun.cancelled /\ ~ codexTimedOut)
    /\ codexRun' = NoRun
    /\ codexSession' = NoSession
    /\ elapsed' = FALSE
    /\ pc' = "loop"
    /\ UNCHANGED <<active, selected, cliRun, codexTimedOut>>

-----------------------------------------------------------------------------
(* The provider processes, the clock, and the disk *)

ChildWrites(n) ==
    /\ child[n].state = "alive"
    /\ child[n].written < 2 * MaxRecords
    /\ child' = [child EXCEPT ![n].written = @ + 1]
    /\ UNCHANGED <<storeVars, active, selected, runVars, pc, verdict>>

\* A child ends well or badly, or its program could not be executed at all.
ChildExits(n, exit) ==
    /\ child[n].state = "alive"
    /\ exit = "noexec" => child[n].written = 0
    /\ child' = [child EXCEPT ![n].state = "zombie", ![n].exit = exit]
    /\ UNCHANGED <<storeVars, active, selected, runVars, pc, verdict>>

TimePasses ==
    /\ Busy
    /\ ~ elapsed
    /\ elapsed' = TRUE
    /\ UNCHANGED <<storeVars, active, selected, cliRun, codexRun, codexSession,
                   codexTimedOut, pc, child, verdict>>

DiskStep == Disk /\ UNCHANGED turnVars

\* The program ends, at any point, and is started again.  Its children belong
\* to nobody from then on.
Reborn ==
    /\ active' = FirstOf(sessions')
    /\ cliRun' = NoRun
    /\ codexRun' = NoRun
    /\ codexSession' = NoSession
    /\ codexTimedOut' = FALSE
    /\ elapsed' = FALSE
    /\ pc' = "loop"
    /\ child' = [n \in DOMAIN child |->
                   IF child[n].state = "reaped" THEN child[n]
                   ELSE [child[n] EXCEPT !.state = "orphan"]]
    /\ UNCHANGED <<selected, verdict>>

AppRestart == Restart /\ Reborn
AppRestartUnreadable == RestartUnreadable /\ Reborn

-----------------------------------------------------------------------------
Tick == \/ TickCliRead \/ CliPollRunning \/ CliFinish
        \/ TickCodexRead \/ CodexPollRunning \/ CodexFinish

TurnNext ==
    \/ \E id \in SessionId :
          \/ \E force \in BOOLEAN : SessionNew(id, force)
          \/ SessionSelect(id)
          \/ SessionRename(id)
          \/ SessionDelete(id)
    \/ \E kind \in Kind : ProviderSelect(kind)
    \/ MessageSend
    \/ MessageRegenerate
    \/ MessageRegenerateFails
    \/ MessageCancel
    \/ Tick
    \/ \E n \in DOMAIN child :
          \/ ChildWrites(n)
          \/ \E exit \in {"ok", "fail", "noexec"} : ChildExits(n, exit)
    \/ TimePasses
    \/ DiskStep
    \/ AppRestart
    \/ AppRestartUnreadable

TurnSpec == TurnInit /\ [][TurnNext]_vars

\* The event loop calls core_tick in every iteration, so a tick is never put
\* off for ever by commands; started file operations, the clock and a child
\* that was told to stop go on.  Nothing forces a user to act, or a child that
\* was not told to stop to write or to end.
EndsWhenTold(n) == /\ n \in DOMAIN child
                   /\ child[n].signalled
                   /\ ChildExits(n, "fail")

Fairness ==
    /\ SF_vars(TickCliRead) /\ SF_vars(TickCodexRead)
    /\ WF_vars(CliPollRunning \/ CliFinish)
    /\ WF_vars(CodexPollRunning \/ CodexFinish)
    /\ WF_vars(DiskStep)
    /\ WF_vars(TimePasses)
    /\ \A n \in Turn : WF_vars(EndsWhenTold(n))

LiveSpec == TurnSpec /\ Fairness

-----------------------------------------------------------------------------
(* Properties *)

\* Type invariant of the core's own state.
TurnTypeOK ==
    /\ active \in SessionId \cup {NoSession}
    /\ selected \in Kind
    /\ cliRun \in CliRun \cup {NoRun}
    /\ codexRun \in CodexRun \cup {NoRun}
    /\ codexSession \in SessionId \cup {NoSession}
    /\ codexTimedOut \in BOOLEAN
    /\ elapsed \in BOOLEAN
    /\ pc \in {"loop", "cliPoll", "codex", "codexPoll"}
    /\ child \in Seq(Child)
    /\ verdict \in Seq({"none", "thinking", "done", "cancelled", "error"})

\* The active session exists, and there is one whenever there are sessions:
\* the spawn of message_send comes before the lookup of the session, so an
\* active id that is not listed would leave a provider running for nobody.
ActiveIsListed ==
    /\ active # NoSession => active \in Listed(sessions)
    /\ active = NoSession => sessions = <<>>

\* At most one run is recorded, and a provider process that has not been
\* waited for has a run that will do it, so no answer is lost to a run that
\* was overwritten and no zombie stays behind.
Attended(n) == \/ cliRun # NoRun /\ cliRun.turn = n
               \/ codexRun # NoRun /\ codexRun.turn = n

OneAttendedChild ==
    /\ cliRun = NoRun \/ codexRun = NoRun
    /\ failures = 0 =>
          \A n \in DOMAIN child : child[n].state \in {"alive", "zombie"} => Attended(n)

\* Whatever is selected, deleted, renamed, regenerated or cut short in the
\* meantime, an answer stands directly behind the prompt it was given for: in
\* the session that asked, and with no other message in between.
AnswerFollowsPrompt ==
    failures = 0 =>
        \A id \in SessionId : \A i \in DOMAIN History(id) :
            LET m == History(id)[i]
            IN m.role = "assistant" =>
                 /\ i > 1
                 /\ History(id)[i - 1].role = "user"
                 /\ History(id)[i - 1].text = Prompt(child[m.text.turn].prompt)

\* When a child of this kind is reaped, all it has written becomes the answer
\* of the session that asked, if that session still exists.
Asker(n) == IF cliRun # NoRun /\ cliRun.turn = n THEN cliRun.session
            ELSE codexSession

ReapsWhole(kind) ==
    \A n \in DOMAIN child :
        LET records == FinalLines(child[n].written)
        IN /\ child[n].kind = kind
           /\ child'[n].state = "reaped"
           /\ child[n].state # "reaped"
           /\ records > 0
           /\ Asker(n) \in Listed(sessions)
           => /\ writes' # <<>>
              /\ Head(writes').op = "append"
              /\ Head(writes').id = Asker(n)
              /\ Head(writes').msg.text.turn = n
              /\ Head(writes').msg.text.records = records

\* The CLI runs read their output once more after waitpid.
CliAnswerIsWhole == [][ReapsWhole("cli")]_vars

\* A Codex answer is made of everything Codex reported.
CodexAnswerIsWhole == [][ReapsWhole("codex")]_vars

\* A turn that has ended has told the user how.
TurnsEndWithVerdict(kind) ==
    \A n \in DOMAIN child :
        child[n].kind = kind /\ child[n].state = "reaped" =>
            verdict[n] \in {"done", "cancelled", "error"}

CliTurnsEndWithVerdict == TurnsEndWithVerdict("cli")
CodexTurnsEndWithVerdict == TurnsEndWithVerdict("codex")

\* A provider that ends badly of its own accord is reported as an error.
FailureIsReported ==
    \A n \in DOMAIN child :
        /\ child[n].kind = "cli"
        /\ child[n].state = "reaped"
        /\ child[n].exit # "ok"
        => verdict[n] \in {"cancelled", "error"}

\* session_new uses the active session again only if it has no messages.
ReuseMeansUntouched ==
    Waiting =>
        \A i \in DOMAIN sessions :
            Finds(i, active) /\ sessions[i].count = 0 => History(active) = <<>>

\* When the program of a regenerating turn could not be executed, the answer
\* it was to replace is still there.
AnswerOutlivesSpawnError ==
    \A n \in DOMAIN child :
        child[n].exit = "noexec" /\ child[n].prompt # n =>
            \A id \in SessionId :
                LET h == History(id)
                IN h # <<>> => ~ /\ h[Len(h)].role = "user"
                                /\ h[Len(h)].text = Prompt(child[n].prompt)

\* Every child process is waited for, even when the history could not be
\* rewritten.
EveryChildIsReaped ==
    \A n \in DOMAIN child : child[n].state \in {"alive", "zombie"} => Attended(n)

\* A turn that was started ends: the provider ends, or is cancelled, or runs
\* out of its 300 seconds, and then the run is cleared.
TurnsEnd == Busy ~> ~ Busy
=============================================================================
