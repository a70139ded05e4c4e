------------------------------ MODULE KoryRuns ------------------------------
(***************************************************************************)
(* The runs of KoryManager (manager.ts) in one chat session, with the      *)
(* services they use: SessionStateService (the question put to the user),  *)
(* WorkerLifecycleService (the registered workers) and                     *)
(* WorkerPipelineService (a delegated task, its worker and its critic).    *)
(*                                                                         *)
(* A run is one call of handleDirectly.  It is started by a message        *)
(* (processTask) or by a background process that has ended (the            *)
(* onLifecycle callback).  Nothing in the manager keeps two runs of one    *)
(* session apart: they share the entry of managerAbortBySession, the       *)
(* pending question and the workflow state.  Every await of the code is a  *)
(* place where another run, a timer, the user, the cleanup service or the  *)
(* end of the process may come in between, so a run is a program counter   *)
(* whose every value is an await.                                          *)
(*                                                                         *)
(* Sessions share none of this state, so one session stands for all.  The  *)
(* length of turns, the text, the worktree of a worker and the collaboration *)
(* tool policy are left out.  So is an agent the user writes to            *)
(* (sendMessageToAgent): its questions would displace others, and be       *)
(* displaced, as those of a second run do.  A worker asks through the      *)
(* session of its run; a critic executes its tools without asking.  A time *)
(* limit may pass whenever its timer is set.  The switches that decide     *)
(* whether a question is asked (autoRunTools, YOLO mode) have any value    *)
(* when they are read.                                                     *)
(***************************************************************************)
EXTENDS Naturals

CONSTANTS
    Run,         \* the calls of handleDirectly that may happen
    NoRun,       \* no entry in a map
    MaxTurns,    \* turns of a run (25 in the code)
    MaxCalls,    \* tool calls of a turn: the model may ask for up to this many
    MaxAttempts, \* attempts of a worker (3 in the code)
    MaxCrashes   \* bound: how often the process dies

ASSUME KoryAssumption ==
    /\ NoRun \notin Run
    /\ MaxTurns \in Nat
    /\ MaxCalls \in Nat
    /\ MaxAttempts \in Nat \ {0}
    /\ MaxCrashes \in Nat

VARIABLES
    up,         \* the process runs
    crashes,    \* how often it has died
    pc,         \* the await each run is at
    controller, \* managerAbortBySession: the run that Stop aborts
    aborted,    \* the runs whose abort signal is set
    timer,      \* the timeout of processTask; a woken run has none
    pending,    \* pendingInputResolver: the run whose question is open
    purpose,    \* what a run asks
    reply,      \* what the promise of its question resolved to
    mustAsk,    \* firstAskForDirectTools, under autoRunTools = false
    turns,      \* turnCount
    calls,      \* tool calls of the turn still to be executed
    attempts,   \* attempts of the delegated task
    registered, \* activeWorkers: the runs whose worker can be cancelled
    task,       \* TaskStore: a run's latest delegated task; settled is done or failed
    workflow    \* workflowState of the session

procVars == <<up, crashes>>
signalVars == <<controller, aborted, timer>>
askVars == <<pending, purpose, reply>>
loopVars == <<mustAsk, turns, calls>>
workVars == <<attempts, registered>>
dbVars == <<task, workflow>>
vars == <<procVars, pc, signalVars, askVars, loopVars, workVars, dbVars>>

Pipeline == {"routing", "working", "reviewing"}
InLoop == {"loop", "streaming", "asking", "tool"} \cup Pipeline
Handling == InLoop \cup {"closing"}     \* inside handleDirectly's try block
Live == Handling \cup {"starting"}

Consent == {"tools", "delegate", "note"}   \* what a manager asks permission for
Purpose == Consent \cup {"question", "worker"}
Refusal == {"decline", "timeout"}

KoryTypeOK ==
    /\ up \in BOOLEAN
    /\ crashes \in 0 .. MaxCrashes
    /\ pc \in [Run -> Live \cup {"new", "done", "lost"}]
    /\ controller \in Run \cup {NoRun}
    /\ aborted \subseteq Run
    /\ timer \in [Run -> {"none", "set", "fired"}]
    /\ pending \in Run \cup {NoRun}
    /\ purpose \in [Run -> Purpose]
    /\ reply \in [Run -> {"none", "accept", "decline", "timeout", "cancelled", "gone"}]
    /\ mustAsk \in [Run -> BOOLEAN]
    /\ turns \in [Run -> 0 .. MaxTurns]
    /\ calls \in [Run -> 0 .. MaxCalls]
    /\ attempts \in [Run -> 0 .. MaxAttempts]
    /\ registered \subseteq Run
    /\ task \in [Run -> {"none", "pending", "active", "settled"}]
    /\ workflow \in {"idle", "analyzing", "executing", "error"}

KoryInit ==
    /\ up = TRUE
    /\ crashes = 0
    /\ pc = [r \in Run |-> "new"]
    /\ controller = NoRun
    /\ aborted = {}
    /\ timer = [r \in Run |-> "none"]
    /\ pending = NoRun
    /\ purpose = [r \in Run |-> "question"]
    /\ reply = [r \in Run |-> "none"]
    /\ mustAsk = [r \in Run |-> FALSE]
    /\ turns = [r \in Run |-> 0]
    /\ calls = [r \in Run |-> 0]
    /\ attempts = [r \in Run |-> 0]
    /\ registered = {}
    /\ task = [r \in Run |-> "none"]
    /\ workflow = "idle"

Goto(r, where) == pc' = [pc EXCEPT ![r] = where]
isSessionRunning == controller # NoRun \/ registered # {}

\* The worker of r works, or waits for the answer to a question of its own.
AtWork(r) == pc[r] = "working" \/ (pc[r] = "asking" /\ purpose[r] = "worker")

-----------------------------------------------------------------------------
(* The question put to the user: SessionStateService *)

\* Variant: an earlier question of the session is forgotten, not cancelled.
RequestUserInput_Forgets(r, what) ==
    /\ Goto(r, "asking")
    /\ purpose' = [purpose EXCEPT ![r] = what]
    /\ pending' = r
    /\ reply' = [reply EXCEPT ![r] = "none"]

\* A second question of the session settles the first one as '__cancelled__'.
RequestUserInput(r, what) ==
    /\ Goto(r, "asking")
    /\ purpose' = [purpose EXCEPT ![r] = what]
    /\ pending' = r
    /\ reply' = [x \in Run |-> IF x = pending THEN "cancelled" ELSE reply[x]]

\* Variant: the settled question stays pending.
Settle_StaysPending(selection) ==
    /\ pending # NoRun
    /\ reply' = [reply EXCEPT ![pending] = selection]
    /\ UNCHANGED <<pending, purpose>>

Settle(selection) ==
    /\ pending # NoRun
    /\ reply' = [reply EXCEPT ![pending] = selection]
    /\ pending' = NoRun
    /\ UNCHANGED purpose

\* handleUserInput: what the user chooses reaches whichever run asked last.
UserAnswers(selection) ==
    /\ Settle(selection)
    /\ UNCHANGED <<procVars, pc, signalVars, loopVars, workVars, dbVars>>

InputTimeout ==
    /\ Settle("timeout")
    /\ UNCHANGED <<procVars, pc, signalVars, loopVars, workVars, dbVars>>

-----------------------------------------------------------------------------
(* The start of a run: processTask and the onLifecycle callback *)

StartTask(r) ==
    /\ pc[r] = "new"
    /\ \/ /\ Goto(r, "starting")
          /\ workflow' = "analyzing"
       \/ /\ Goto(r, "done")        \* no provider is available
          /\ workflow' = "idle"
    /\ UNCHANGED <<procVars, signalVars, askVars, loopVars, workVars, task>>

\* handleDirectly up to its loop: whatever controller was there is replaced.
\* Whether the run has to ask before its first tools is a setting.
Enter(r) ==
    /\ Goto(r, "loop")
    /\ controller' = r
    /\ \E ask \in BOOLEAN : mustAsk' = [mustAsk EXCEPT ![r] = ask]
    /\ UNCHANGED <<procVars, aborted, askVars, turns, calls, workVars, dbVars>>

HandleTask(r) ==
    /\ pc[r] = "starting"
    /\ timer' = [timer EXCEPT ![r] = "set"]
    /\ Enter(r)

\* A background process of the session has ended and no run is registered.
WakeUp(r) ==
    /\ pc[r] = "new"
    /\ ~ isSessionRunning
    /\ Enter(r)
    /\ UNCHANGED timer

-----------------------------------------------------------------------------
(* The loop of handleDirectly *)

\* Variant: an aborted run goes on with the next turn.
BeginTurn_Unheeding(r) ==
    /\ pc[r] = "loop"
    /\ calls[r] = 0
    /\ turns[r] < MaxTurns
    /\ turns' = [turns EXCEPT ![r] = @ + 1]
    /\ Goto(r, "streaming")
    /\ UNCHANGED <<procVars, signalVars, askVars, mustAsk, calls, workVars, dbVars>>

BeginTurn(r) ==
    /\ pc[r] = "loop"
    /\ calls[r] = 0
    /\ r \notin aborted
    /\ turns[r] < MaxTurns
    /\ turns' = [turns EXCEPT ![r] = @ + 1]
    /\ Goto(r, "streaming")
    /\ UNCHANGED <<procVars, signalVars, askVars, mustAsk, calls, workVars, dbVars>>

\* An aborted run leaves the tool calls it has not executed.
LeaveLoop(r) ==
    /\ pc[r] = "loop"
    /\ r \in aborted \/ (calls[r] = 0 /\ turns[r] = MaxTurns)
    /\ Goto(r, "closing")
    /\ UNCHANGED <<procVars, signalVars, askVars, loopVars, workVars, dbVars>>

\* processManagerTurn: the stream ends, or is cut short by Stop, with or
\* without tool calls.  The first tools may have to be confirmed, also after
\* Stop.
TurnEnds(r) ==
    /\ pc[r] = "streaming"
    /\ \/ /\ Goto(r, "closing")
          /\ UNCHANGED <<askVars, mustAsk, calls>>
       \/ \E n \in 1 .. MaxCalls :
            /\ calls' = [calls EXCEPT ![r] = n]
            /\ mustAsk' = [mustAsk EXCEPT ![r] = FALSE]
            /\ IF mustAsk[r]
                 THEN RequestUserInput(r, "tools")
                 ELSE Goto(r, "loop") /\ UNCHANGED askVars
    /\ UNCHANGED <<procVars, signalVars, turns, workVars, dbVars>>

\* What every run does when it leaves handleDirectly: the entry of the session
\* is deleted, whosever it is.  Its local variables are gone.
Leave(r) ==
    /\ Goto(r, "done")
    /\ controller' = NoRun
    /\ timer' = [timer EXCEPT ![r] = "none"]
    /\ aborted' = aborted \ {r}
    /\ mustAsk' = [mustAsk EXCEPT ![r] = FALSE]
    /\ turns' = [turns EXCEPT ![r] = 0]
    /\ calls' = [calls EXCEPT ![r] = 0]
    /\ UNCHANGED <<procVars, askVars, workVars, task>>

\* A stream that fails of its own accord ends the run; processTask reports it.
TurnFails(r) ==
    /\ pc[r] = "streaming"
    /\ r \notin aborted
    /\ workflow' = IF timer[r] = "none" THEN "idle" ELSE "error"
    /\ Leave(r)

\* Variant: the workflow state is left as it is.
Close_KeepsWorkflow(r) ==
    /\ pc[r] = "closing"
    /\ Leave(r)
    /\ UNCHANGED workflow

\* The messages are stored and the finally block has run.
Close(r) ==
    /\ pc[r] = "closing"
    /\ workflow' = "idle"
    /\ Leave(r)

\* The delegation is confirmed or needs no confirmation.
Delegate(r) ==
    /\ Goto(r, "routing")
    /\ workflow' = "executing"
    /\ task' = [task EXCEPT ![r] = "pending"]

\* executeManagerToolCall: ask_user, a note tool that needs approval,
\* delegate_to_worker, or any other tool.
CallTool(r) ==
    /\ pc[r] = "loop"
    /\ calls[r] > 0
    /\ r \notin aborted
    /\ calls' = [calls EXCEPT ![r] = @ - 1]
    /\ \/ /\ \E what \in {"question", "note", "delegate"} : RequestUserInput(r, what)
          /\ UNCHANGED dbVars
       \/ /\ Goto(r, "tool")
          /\ UNCHANGED <<askVars, dbVars>>
       \/ /\ Delegate(r)
          /\ UNCHANGED askVars
    /\ UNCHANGED <<procVars, signalVars, mustAsk, turns, workVars>>

ToolEnds(r) ==
    /\ pc[r] = "tool"
    /\ Goto(r, "loop")
    /\ UNCHANGED <<procVars, signalVars, askVars, loopVars, workVars, dbVars>>

\* The awaited answer arrives.  Only '__timeout__' and a choice that says
\* Cancel or Deny refuse: '__cancelled__' is taken for consent.
Resume(r) ==
    /\ pc[r] = "asking"
    /\ reply[r] \notin {"none", "gone"}
    /\ \/ /\ purpose[r] = "tools"
          /\ Goto(r, IF reply[r] \in Refusal THEN "closing" ELSE "loop")
          /\ UNCHANGED dbVars
       \/ /\ purpose[r] = "delegate"
          /\ reply[r] \notin Refusal
          /\ Delegate(r)
       \/ /\ purpose[r] = "note"
          /\ reply[r] \notin Refusal
          /\ Goto(r, "tool")
          /\ UNCHANGED dbVars
       \/ /\ purpose[r] = "worker"      \* the tool runs or is refused
          /\ Goto(r, "working")
          /\ UNCHANGED dbVars
       \/ /\ \/ purpose[r] = "question"
             \/ purpose[r] \in {"delegate", "note"} /\ reply[r] \in Refusal
          /\ Goto(r, "loop")
          /\ UNCHANGED dbVars
    /\ reply' = [reply EXCEPT ![r] = "none"]
    /\ purpose' = [purpose EXCEPT ![r] = "question"]
    /\ UNCHANGED <<procVars, signalVars, pending, loopVars, workVars>>

-----------------------------------------------------------------------------
(* A delegated task: WorkerPipelineService *)

\* The pipeline returns to the tool loop.
FinishTask(r) ==
    /\ Goto(r, "loop")
    /\ task' = [task EXCEPT ![r] = "settled"]
    /\ workflow' = "idle"
    /\ attempts' = [attempts EXCEPT ![r] = 0]
    /\ registered' = registered \ {r}

\* Variant: one attempt too many.
Attempt_OneMore(r) ==
    /\ attempts[r] <= MaxAttempts
    /\ Goto(r, "working")
    /\ attempts' = [attempts EXCEPT ![r] = @ + 1]
    /\ registered' = registered \cup {r}
    /\ task' = [task EXCEPT ![r] = "active"]
    /\ UNCHANGED workflow

\* A worker is registered and its thread runs.
Attempt(r) ==
    /\ attempts[r] < MaxAttempts
    /\ Goto(r, "working")
    /\ attempts' = [attempts EXCEPT ![r] = @ + 1]
    /\ registered' = registered \cup {r}
    /\ task' = [task EXCEPT ![r] = "active"]
    /\ UNCHANGED workflow

\* The instruction for the worker is written, which Stop does not interrupt.
RouteTask(r) ==
    /\ pc[r] = "routing"
    /\ \/ Attempt(r)
       \/ FinishTask(r)       \* no provider
    /\ UNCHANGED <<procVars, signalVars, askVars, loopVars>>

\* The worker's note tools need approval, also when it was cancelled: its loop
\* looks at no abort signal.
WorkerAsks(r) ==
    /\ pc[r] = "working"
    /\ RequestUserInput(r, "worker")
    /\ UNCHANGED <<procVars, signalVars, loopVars, workVars, dbVars>>

\* Variant: the worker of a thread that ended well stays registered.
WorkerEnds_StaysRegistered(r) ==
    /\ pc[r] = "working"
    /\ \/ /\ Goto(r, "reviewing")
          /\ UNCHANGED <<workVars, dbVars>>
       \/ FinishTask(r)
       \/ Attempt(r)
    /\ UNCHANGED <<procVars, signalVars, askVars, loopVars>>

\* Variant: a worker that cannot be retried leaves its task open.
WorkerEnds_TaskLeftOpen(r) ==
    /\ pc[r] = "working"
    /\ \/ Goto(r, "reviewing") /\ UNCHANGED workflow
       \/ Goto(r, "loop") /\ workflow' = "idle"
    /\ registered' = registered \ {r}
    /\ UNCHANGED <<procVars, signalVars, askVars, loopVars, attempts, task>>

\* runAgentThread returns or throws, aborted or not, and the worker is removed.
\* An error that names a quota is tried again.
WorkerEnds(r) ==
    /\ pc[r] = "working"
    /\ \/ /\ Goto(r, "reviewing")
          /\ registered' = registered \ {r}
          /\ UNCHANGED <<attempts, dbVars>>
       \/ FinishTask(r)
       \/ Attempt(r)
    /\ UNCHANGED <<procVars, signalVars, askVars, loopVars>>

\* runCriticGate.  Work that passes is merged, which may fail; work that does
\* not is tried again only by a worker on an alternative provider.
CriticEnds(r) ==
    /\ pc[r] = "reviewing"
    /\ \/ FinishTask(r)
       \/ Attempt(r)
    /\ UNCHANGED <<procVars, signalVars, askVars, loopVars>>

-----------------------------------------------------------------------------
(* Stop, timeouts, cleanup and restart *)

\* POST /:id/cancel: cancelSessionWorkers and abortManagerRun.  A question
\* stays open.
Stop ==
    /\ isSessionRunning
    /\ aborted' = aborted \cup ({controller} \ {NoRun})
    /\ controller' = NoRun
    /\ registered' = {}
    /\ UNCHANGED <<procVars, pc, timer, askVars, loopVars, attempts, dbVars>>

\* POST /:agentId/cancel: the worker is no longer registered, but works on.
CancelWorker(r) ==
    /\ r \in registered
    /\ registered' = registered \ {r}
    /\ UNCHANGED <<procVars, pc, signalVars, askVars, loopVars, attempts, dbVars>>

\* The timeout of processTask: it aborts the run registered now and settles
\* the question open now, whichever runs they belong to.
TaskTimeout(r) ==
    /\ timer[r] = "set"
    /\ timer' = [timer EXCEPT ![r] = "fired"]
    /\ aborted' = aborted \cup ({controller} \ {NoRun})
    /\ Settle("timeout") \/ (pending = NoRun /\ UNCHANGED askVars)
    /\ UNCHANGED <<procVars, pc, controller, loopVars, workVars, dbVars>>

\* cleanupAbandonedResources: a session without a registered worker loses its
\* state, the open question and its timer included.  (Without a question it
\* loses nothing that is modelled.)
CleanupAbandoned ==
    /\ registered = {}
    /\ Settle("gone")
    /\ UNCHANGED <<procVars, pc, signalVars, loopVars, workVars, dbVars>>

\* The process dies: the maps are empty, what is in the database stays.  (A
\* death while nothing runs loses nothing that is modelled, and is left out.)
Crash ==
    /\ up
    /\ crashes < MaxCrashes
    /\ \E r \in Run : pc[r] \in Live
    /\ up' = FALSE
    /\ crashes' = crashes + 1
    /\ pc' = [r \in Run |-> IF pc[r] \in Live THEN "lost" ELSE pc[r]]
    /\ controller' = NoRun
    /\ aborted' = {}
    /\ timer' = [r \in Run |-> "none"]
    /\ pending' = NoRun
    /\ purpose' = [r \in Run |-> "question"]
    /\ reply' = [r \in Run |-> "none"]
    /\ mustAsk' = [r \in Run |-> FALSE]
    /\ turns' = [r \in Run |-> 0]
    /\ calls' = [r \in Run |-> 0]
    /\ attempts' = [r \in Run |-> 0]
    /\ registered' = {}
    /\ UNCHANGED dbVars

\* Variant: the active tasks are not looked for.
Restart_NoRecovery ==
    /\ ~ up
    /\ up' = TRUE
    /\ UNCHANGED <<crashes, pc, signalVars, askVars, loopVars, workVars, dbVars>>

\* recoverState: what was active is marked as failed.
Restart ==
    /\ ~ up
    /\ up' = TRUE
    /\ task' = [r \in Run |-> IF task[r] = "active" THEN "settled" ELSE task[r]]
    /\ UNCHANGED <<crashes, pc, signalVars, askVars, loopVars, workVars, workflow>>

-----------------------------------------------------------------------------
\* What a run does of its own accord.
RunStep(r) ==
    \/ HandleTask(r) \/ BeginTurn(r) \/ LeaveLoop(r) \/ TurnEnds(r)
    \/ TurnFails(r) \/ CallTool(r) \/ ToolEnds(r) \/ Resume(r) \/ RouteTask(r)
    \/ WorkerAsks(r) \/ WorkerEnds(r) \/ CriticEnds(r) \/ Close(r)

KoryNext ==
    \/ /\ up
       /\ \/ \E r \in Run :
               \/ StartTask(r) \/ WakeUp(r) \/ RunStep(r)
               \/ TaskTimeout(r) \/ CancelWorker(r)
          \/ \E selection \in {"accept", "decline"} : UserAnswers(selection)
          \/ InputTimeout
          \/ Stop
          \/ CleanupAbandoned
    \/ Crash
    \/ Restart

KorySpec == KoryInit /\ [][KoryNext]_vars

\* Streams, tools and critics have time limits of their own, timers fire, and
\* a server that died is started again.  A worker, which has a limit of turns,
\* does not ask for ever.  Users need not answer.
KoryFairness ==
    /\ \A r \in Run : WF_vars(up /\ RunStep(r)) /\ SF_vars(up /\ WorkerEnds(r))
    /\ WF_vars(up /\ InputTimeout)
    /\ WF_vars(Restart)

KoryLiveSpec == KorySpec /\ KoryFairness

-----------------------------------------------------------------------------
(* Properties *)

\* The open question of the session is one that its asker still waits for,
\* with no answer yet: a displaced, answered or timed-out question is never
\* the one the next answer goes to (requestUserInput, settle).
OpenQuestionIsAwaited ==
    pending # NoRun => pc[pending] = "asking" /\ reply[pending] = "none"

\* Only a run inside handleDirectly is registered for Stop, and only the
\* worker of a run that waits for it (in a question of its own at most) can be
\* cancelled, so that a session that
\* runs nothing is never taken for a running one, which would keep background
\* processes from waking it (isSessionRunning).
RegistryIsLive ==
    /\ controller # NoRun => pc[controller] \in Handling
    /\ \A r \in registered : AtWork(r)

\* While the server runs, a task that the store calls active has a run that
\* works on it: recoverState leaves none of an earlier process behind.
ActiveTaskHasARun ==
    \A r \in Run : up /\ task[r] = "active" => AtWork(r) \/ pc[r] = "reviewing"

\* A session whose runs have all ended is idle or failed, however they
\* overlapped, as long as no run was lost with the process.
QuietIsIdle ==
    (\A r \in Run : pc[r] \in {"new", "done"}) => workflow \in {"idle", "error"}

\* After a run was stopped it begins no turn and runs no further tool, except
\* one whose approval it was waiting for.
StoppedRunsWindDown ==
    [][\A r \in aborted :
         /\ pc[r] # "streaming" => pc'[r] # "streaming"
         /\ pc[r] \notin {"tool", "asking"} => pc'[r] # "tool"]_vars

\* Every run ends, also one that waits for an answer that never comes: from
\* any state the session comes to a rest with no run under way, except those
\* whose question, or whose worker's, the cleanup service took away.
RunsEnd == []<>(\A r \in Run : pc[r] \in Live => reply[r] = "gone")

\* A task that was created is settled, unless the process died before it was
\* active (recoverState looks at active tasks only) or its worker, cancelled,
\* lost its question to the cleanup service.
TasksSettle ==
    []<>(\A r \in Run :
            task[r] \in {"pending", "active"} => pc[r] = "lost" \/ reply[r] = "gone")

\* Every question is settled: "Auto-resolve after timeout to prevent
\* indefinite hangs".
NoIndefiniteHang == \A r \in Run : pc[r] = "asking" ~> pc[r] # "asking"

\* A run that asked for permission goes on only with it.
ConsentIsGiven ==
    [][\A r \in Run :
         /\ pc[r] = "asking"
         /\ purpose[r] \in Consent
         /\ pc'[r] = (CASE purpose[r] = "tools" -> "loop"
                        [] purpose[r] = "delegate" -> "routing"
                        [] purpose[r] = "note" -> "tool")
         => reply[r] = "accept"]_vars

\* Stop reaches every run that is not yet stopped.
StopReachesRuns ==
    \A r \in Run : pc[r] \in InLoop /\ r \notin aborted => controller = r
=============================================================================
