--------------------------- MODULE KoryRunsProofs ---------------------------
(***************************************************************************)
(* Theorems about KoryRuns, for every set of runs and every bound.         *)
(***************************************************************************)
EXTENDS KoryRuns, TLAPS

-----------------------------------------------------------------------------
(* Every step keeps the types *)

\* No step of a run, of the user, of a timer or of the process leaves the types.
LEMMA KoryTypeStep ==
    ASSUME KoryTypeOK, [KoryNext]_vars
    PROVE  KoryTypeOK'
<1> USE KoryAssumption DEF KoryTypeOK, Live, Handling, InLoop, Pipeline,
        Consent, Purpose, isSessionRunning, procVars, signalVars, askVars, loopVars,
        workVars, dbVars
<1>1. ASSUME NEW r \in Run, up, StartTask(r) PROVE KoryTypeOK'
  BY <1>1 DEF StartTask, Goto
<1>2. ASSUME NEW r \in Run, up, HandleTask(r) PROVE KoryTypeOK'
  BY <1>2 DEF HandleTask, Enter, Goto
<1>3. ASSUME NEW r \in Run, up, WakeUp(r) PROVE KoryTypeOK'
  BY <1>3 DEF WakeUp, Enter, Goto
<1>4. ASSUME NEW r \in Run, up, BeginTurn(r) PROVE KoryTypeOK'
  BY <1>4 DEF BeginTurn, Goto
<1>5. ASSUME NEW r \in Run, up, LeaveLoop(r) PROVE KoryTypeOK'
  BY <1>5 DEF LeaveLoop, Goto
<1>6. ASSUME NEW r \in Run, up, TurnEnds(r) PROVE KoryTypeOK'
  <2>1. CASE Goto(r, "closing") /\ UNCHANGED <<askVars, mustAsk, calls>>
    BY <1>6, <2>1 DEF TurnEnds, Goto
  <2>2. ASSUME NEW n \in 1 .. MaxCalls, calls' = [calls EXCEPT ![r] = n],
               mustAsk' = [mustAsk EXCEPT ![r] = FALSE],
               RequestUserInput(r, "tools") \/ (Goto(r, "loop") /\ UNCHANGED askVars)
        PROVE  KoryTypeOK'
    <3>1. calls' \in [Run -> 0 .. MaxCalls] /\ mustAsk' \in [Run -> BOOLEAN]
      BY <2>2
    <3>2. /\ UNCHANGED <<procVars, signalVars, turns, workVars, dbVars>>
          /\ pc' \in [Run -> Live \cup {"new", "done", "lost"}]
          /\ pending' \in Run \cup {NoRun}
      BY <1>6, <2>2 DEF TurnEnds, Goto, RequestUserInput
    <3>3. /\ purpose' \in [Run -> Purpose]
          /\ reply' \in [Run -> {"none", "accept", "decline", "timeout", "cancelled", "gone"}]
      BY <2>2 DEF RequestUserInput
    <3>4. QED
      BY <3>1, <3>2, <3>3
  <2>3. QED
    BY <1>6, <2>1, <2>2 DEF TurnEnds
<1>7. ASSUME NEW r \in Run, up, TurnFails(r) PROVE KoryTypeOK'
  BY <1>7 DEF TurnFails, Leave, Goto
<1>8. ASSUME NEW r \in Run, up, CallTool(r) PROVE KoryTypeOK'
  BY <1>8 DEF CallTool, Goto, RequestUserInput, Delegate
<1>9. ASSUME NEW r \in Run, up, ToolEnds(r) PROVE KoryTypeOK'
  BY <1>9 DEF ToolEnds, Goto
<1>10. ASSUME NEW r \in Run, up, Resume(r) PROVE KoryTypeOK'
  BY <1>10 DEF Resume, Goto, Delegate, Refusal
<1>11. ASSUME NEW r \in Run, up, RouteTask(r) PROVE KoryTypeOK'
  BY <1>11 DEF RouteTask, Attempt, FinishTask, Goto
<1>12. ASSUME NEW r \in Run, up, WorkerEnds(r) PROVE KoryTypeOK'
  BY <1>12 DEF WorkerEnds, Attempt, FinishTask, Goto
<1>13. ASSUME NEW r \in Run, up, CriticEnds(r) PROVE KoryTypeOK'
  BY <1>13 DEF CriticEnds, Attempt, FinishTask, Goto
<1>14. ASSUME NEW r \in Run, up, Close(r) PROVE KoryTypeOK'
  BY <1>14 DEF Close, Leave, Goto
<1>15. ASSUME NEW r \in Run, up, TaskTimeout(r) PROVE KoryTypeOK'
  BY <1>15 DEF TaskTimeout, Settle
<1>16. ASSUME NEW x \in {"accept", "decline"}, up, UserAnswers(x) PROVE KoryTypeOK'
  BY <1>16 DEF UserAnswers, Settle
<1>17. ASSUME up, InputTimeout PROVE KoryTypeOK'
  BY <1>17 DEF InputTimeout, Settle
<1>18. ASSUME up, Stop PROVE KoryTypeOK'
  BY <1>18 DEF Stop
<1>19. ASSUME up, CleanupAbandoned PROVE KoryTypeOK'
  BY <1>19 DEF CleanupAbandoned, Settle
<1>20. ASSUME Crash PROVE KoryTypeOK'
  <2>1. pc' \in [Run -> Live \cup {"new", "done", "lost"}]
    BY <1>20 DEF Crash
  <2>2. crashes' \in 0 .. MaxCrashes
    <3>1. crashes \in Nat /\ crashes < MaxCrashes /\ crashes' = crashes + 1
      BY <1>20 DEF Crash
    <3>2. QED
      BY <3>1
  <2>3. /\ turns' \in [Run -> 0 .. MaxTurns]
        /\ calls' \in [Run -> 0 .. MaxCalls]
        /\ attempts' \in [Run -> 0 .. MaxAttempts]
    BY <1>20 DEF Crash
  <2>4. /\ timer' \in [Run -> {"none", "set", "fired"}]
        /\ purpose' \in [Run -> Purpose]
        /\ mustAsk' \in [Run -> BOOLEAN]
        /\ reply' \in [Run -> {"none", "accept", "decline", "timeout", "cancelled", "gone"}]
    BY <1>20 DEF Crash
  <2>5. /\ controller' \in Run \cup {NoRun} /\ pending' \in Run \cup {NoRun}
        /\ aborted' \subseteq Run /\ registered' \subseteq Run
        /\ up' = FALSE
        /\ UNCHANGED dbVars
    BY <1>20 DEF Crash
  <2>6. QED
    BY <2>1, <2>2, <2>3, <2>4, <2>5
<1>21. ASSUME Restart PROVE KoryTypeOK'
  BY <1>21 DEF Restart
<1>22. ASSUME NEW r \in Run, up, WorkerAsks(r) PROVE KoryTypeOK'
  BY <1>22 DEF WorkerAsks, Goto, RequestUserInput
<1>23. ASSUME NEW r \in Run, up, CancelWorker(r) PROVE KoryTypeOK'
  BY <1>23 DEF CancelWorker
<1>24. CASE UNCHANGED vars
  BY <1>24 DEF vars
<1>25. QED
  BY <1>1, <1>2, <1>3, <1>4, <1>5, <1>6, <1>7, <1>8, <1>9, <1>10, <1>11,
     <1>12, <1>13, <1>14, <1>15, <1>16, <1>17, <1>18, <1>19, <1>20, <1>21,
     <1>22, <1>23, <1>24 DEF KoryNext, RunStep

-----------------------------------------------------------------------------
(* Questions *)

\* Only a run that waits for an answer has one; with it the open question is
\* an inductive invariant.
AnswersAreAwaited == \A r \in Run : pc[r] # "asking" => reply[r] = "none"

QuestionInv == AnswersAreAwaited /\ OpenQuestionIsAwaited

\* Neither a second question nor an answer, a time limit or a crash breaks it.
LEMMA QuestionStep ==
    ASSUME KoryTypeOK, QuestionInv, [KoryNext]_vars
    PROVE  QuestionInv'
<1> USE KoryAssumption DEF KoryTypeOK, QuestionInv, AnswersAreAwaited,
        OpenQuestionIsAwaited, Live, Handling, InLoop, Pipeline, procVars,
        signalVars, askVars, loopVars, workVars, dbVars
<1>1. ASSUME NEW r \in Run, up, StartTask(r) PROVE QuestionInv'
  BY <1>1 DEF StartTask, Goto
<1>2. ASSUME NEW r \in Run, up, HandleTask(r) PROVE QuestionInv'
  BY <1>2 DEF HandleTask, Enter, Goto
<1>3. ASSUME NEW r \in Run, up, WakeUp(r) PROVE QuestionInv'
  BY <1>3 DEF WakeUp, Enter, Goto
<1>4. ASSUME NEW r \in Run, up, BeginTurn(r) PROVE QuestionInv'
  BY <1>4 DEF BeginTurn, Goto
<1>5. ASSUME NEW r \in Run, up, LeaveLoop(r) PROVE QuestionInv'
  BY <1>5 DEF LeaveLoop, Goto
<1>6. ASSUME NEW r \in Run, up, TurnEnds(r) PROVE QuestionInv'
  BY <1>6 DEF TurnEnds, Goto, RequestUserInput
<1>7. ASSUME NEW r \in Run, up, TurnFails(r) PROVE QuestionInv'
  BY <1>7 DEF TurnFails, Leave, Goto
<1>8. ASSUME NEW r \in Run, up, CallTool(r) PROVE QuestionInv'
  BY <1>8 DEF CallTool, Goto, RequestUserInput, Delegate
<1>9. ASSUME NEW r \in Run, up, ToolEnds(r) PROVE QuestionInv'
  BY <1>9 DEF ToolEnds, Goto
<1>10. ASSUME NEW r \in Run, up, Resume(r) PROVE QuestionInv'
  BY <1>10 DEF Resume, Goto, Delegate, Refusal
<1>11. ASSUME NEW r \in Run, up, RouteTask(r) PROVE QuestionInv'
  BY <1>11 DEF RouteTask, Attempt, FinishTask, Goto
<1>12. ASSUME NEW r \in Run, up, WorkerEnds(r) PROVE QuestionInv'
  BY <1>12 DEF WorkerEnds, Attempt, FinishTask, Goto
<1>13. ASSUME NEW r \in Run, up, CriticEnds(r) PROVE QuestionInv'
  BY <1>13 DEF CriticEnds, Attempt, FinishTask, Goto
<1>14. ASSUME NEW r \in Run, up, Close(r) PROVE QuestionInv'
  BY <1>14 DEF Close, Leave, Goto
<1>15. ASSUME NEW r \in Run, up, TaskTimeout(r) PROVE QuestionInv'
  BY <1>15 DEF TaskTimeout, Settle
<1>16. ASSUME NEW x \in {"accept", "decline"}, up, UserAnswers(x) PROVE QuestionInv'
  BY <1>16 DEF UserAnswers, Settle
<1>17. ASSUME up, InputTimeout PROVE QuestionInv'
  BY <1>17 DEF InputTimeout, Settle
<1>18. ASSUME up, Stop PROVE QuestionInv'
  BY <1>18 DEF Stop
<1>19. ASSUME up, CleanupAbandoned PROVE QuestionInv'
  BY <1>19 DEF CleanupAbandoned, Settle
<1>20. ASSUME Crash PROVE QuestionInv'
  BY <1>20 DEF Crash
<1>21. ASSUME Restart PROVE QuestionInv'
  BY <1>21 DEF Restart
<1>22. ASSUME NEW r \in Run, up, WorkerAsks(r) PROVE QuestionInv'
  BY <1>22 DEF WorkerAsks, Goto, RequestUserInput
<1>23. ASSUME NEW r \in Run, up, CancelWorker(r) PROVE QuestionInv'
  BY <1>23 DEF CancelWorker
<1>24. CASE UNCHANGED vars
  BY <1>24 DEF vars
<1>25. QED
  BY <1>1, <1>2, <1>3, <1>4, <1>5, <1>6, <1>7, <1>8, <1>9, <1>10, <1>11,
     <1>12, <1>13, <1>14, <1>15, <1>16, <1>17, <1>18, <1>19, <1>20, <1>21,
     <1>22, <1>23, <1>24 DEF KoryNext, RunStep

-----------------------------------------------------------------------------
(* The registry of what can be stopped *)

\* Who leaves handleDirectly, or a worker, is no longer registered.
LEMMA RegistryStep ==
    ASSUME KoryTypeOK, RegistryIsLive, [KoryNext]_vars
    PROVE  RegistryIsLive'
<1> USE KoryAssumption DEF KoryTypeOK, RegistryIsLive, AtWork, Live, Handling, InLoop,
        Pipeline, procVars, signalVars, askVars, loopVars, workVars, dbVars
<1>1. ASSUME NEW r \in Run, up, StartTask(r) PROVE RegistryIsLive'
  BY <1>1 DEF StartTask, Goto
<1>2. ASSUME NEW r \in Run, up, HandleTask(r) PROVE RegistryIsLive'
  BY <1>2 DEF HandleTask, Enter, Goto
<1>3. ASSUME NEW r \in Run, up, WakeUp(r) PROVE RegistryIsLive'
  BY <1>3 DEF WakeUp, Enter, Goto
<1>4. ASSUME NEW r \in Run, up, BeginTurn(r) PROVE RegistryIsLive'
  BY <1>4 DEF BeginTurn, Goto
<1>5. ASSUME NEW r \in Run, up, LeaveLoop(r) PROVE RegistryIsLive'
  BY <1>5 DEF LeaveLoop, Goto
<1>6. ASSUME NEW r \in Run, up, TurnEnds(r) PROVE RegistryIsLive'
  BY <1>6 DEF TurnEnds, Goto, RequestUserInput
<1>7. ASSUME NEW r \in Run, up, TurnFails(r) PROVE RegistryIsLive'
  BY <1>7 DEF TurnFails, Leave, Goto
<1>8. ASSUME NEW r \in Run, up, CallTool(r) PROVE RegistryIsLive'
  BY <1>8 DEF CallTool, Goto, RequestUserInput, Delegate
<1>9. ASSUME NEW r \in Run, up, ToolEnds(r) PROVE RegistryIsLive'
  BY <1>9 DEF ToolEnds, Goto
<1>10. ASSUME NEW r \in Run, up, Resume(r) PROVE RegistryIsLive'
  BY <1>10 DEF Resume, Goto, Delegate, Refusal
<1>11. ASSUME NEW r \in Run, up, RouteTask(r) PROVE RegistryIsLive'
  BY <1>11 DEF RouteTask, Attempt, FinishTask, Goto
<1>12. ASSUME NEW r \in Run, up, WorkerEnds(r) PROVE RegistryIsLive'
  BY <1>12 DEF WorkerEnds, Attempt, FinishTask, Goto
<1>13. ASSUME NEW r \in Run, up, CriticEnds(r) PROVE RegistryIsLive'
  BY <1>13 DEF CriticEnds, Attempt, FinishTask, Goto
<1>14. ASSUME NEW r \in Run, up, Close(r) PROVE RegistryIsLive'
  BY <1>14 DEF Close, Leave, Goto
<1>15. ASSUME NEW r \in Run, up, TaskTimeout(r) PROVE RegistryIsLive'
  BY <1>15 DEF TaskTimeout, Settle
<1>16. ASSUME NEW x \in {"accept", "decline"}, up, UserAnswers(x) PROVE RegistryIsLive'
  BY <1>16 DEF UserAnswers, Settle
<1>17. ASSUME up, InputTimeout PROVE RegistryIsLive'
  BY <1>17 DEF InputTimeout, Settle
<1>18. ASSUME up, Stop PROVE RegistryIsLive'
  BY <1>18 DEF Stop
<1>19. ASSUME up, CleanupAbandoned PROVE RegistryIsLive'
  BY <1>19 DEF CleanupAbandoned, Settle
<1>20. ASSUME Crash PROVE RegistryIsLive'
  BY <1>20 DEF Crash
<1>21. ASSUME Restart PROVE RegistryIsLive'
  BY <1>21 DEF Restart
<1>22. ASSUME NEW r \in Run, up, WorkerAsks(r) PROVE RegistryIsLive'
  BY <1>22 DEF WorkerAsks, Goto, RequestUserInput
<1>23. ASSUME NEW r \in Run, up, CancelWorker(r) PROVE RegistryIsLive'
  BY <1>23 DEF CancelWorker
<1>24. CASE UNCHANGED vars
  BY <1>24 DEF vars
<1>25. QED
  BY <1>1, <1>2, <1>3, <1>4, <1>5, <1>6, <1>7, <1>8, <1>9, <1>10, <1>11,
     <1>12, <1>13, <1>14, <1>15, <1>16, <1>17, <1>18, <1>19, <1>20, <1>21,
     <1>22, <1>23, <1>24 DEF KoryNext, RunStep

-----------------------------------------------------------------------------
(* Tasks and the workflow state *)

\* A task is active only from its worker's start to the end of its review.
LEMMA ActiveTaskStep ==
    ASSUME KoryTypeOK, ActiveTaskHasARun, [KoryNext]_vars
    PROVE  ActiveTaskHasARun'
<1> USE KoryAssumption DEF KoryTypeOK, ActiveTaskHasARun, AtWork, Live, Handling,
        InLoop, Pipeline, procVars, signalVars, askVars, loopVars, workVars,
        dbVars
<1>1. ASSUME NEW r \in Run, up, StartTask(r) PROVE ActiveTaskHasARun'
  BY <1>1 DEF StartTask, Goto
<1>2. ASSUME NEW r \in Run, up, HandleTask(r) PROVE ActiveTaskHasARun'
  BY <1>2 DEF HandleTask, Enter, Goto
<1>3. ASSUME NEW r \in Run, up, WakeUp(r) PROVE ActiveTaskHasARun'
  BY <1>3 DEF WakeUp, Enter, Goto
<1>4. ASSUME NEW r \in Run, up, BeginTurn(r) PROVE ActiveTaskHasARun'
  BY <1>4 DEF BeginTurn, Goto
<1>5. ASSUME NEW r \in Run, up, LeaveLoop(r) PROVE ActiveTaskHasARun'
  BY <1>5 DEF LeaveLoop, Goto
<1>6. ASSUME NEW r \in Run, up, TurnEnds(r) PROVE ActiveTaskHasARun'
  BY <1>6 DEF TurnEnds, Goto, RequestUserInput
<1>7. ASSUME NEW r \in Run, up, TurnFails(r) PROVE ActiveTaskHasARun'
  BY <1>7 DEF TurnFails, Leave, Goto
<1>8. ASSUME NEW r \in Run, up, CallTool(r) PROVE ActiveTaskHasARun'
  BY <1>8 DEF CallTool, Goto, RequestUserInput, Delegate
<1>9. ASSUME NEW r \in Run, up, ToolEnds(r) PROVE ActiveTaskHasARun'
  BY <1>9 DEF ToolEnds, Goto
<1>10. ASSUME NEW r \in Run, up, Resume(r) PROVE ActiveTaskHasARun'
  BY <1>10 DEF Resume, Goto, Delegate, Refusal
<1>11. ASSUME NEW r \in Run, up, RouteTask(r) PROVE ActiveTaskHasARun'
  BY <1>11 DEF RouteTask, Attempt, FinishTask, Goto
<1>12. ASSUME NEW r \in Run, up, WorkerEnds(r) PROVE ActiveTaskHasARun'
  BY <1>12 DEF WorkerEnds, Attempt, FinishTask, Goto
<1>13. ASSUME NEW r \in Run, up, CriticEnds(r) PROVE ActiveTaskHasARun'
  BY <1>13 DEF CriticEnds, Attempt, FinishTask, Goto
<1>14. ASSUME NEW r \in Run, up, Close(r) PROVE ActiveTaskHasARun'
  BY <1>14 DEF Close, Leave, Goto
<1>15. ASSUME NEW r \in Run, up, TaskTimeout(r) PROVE ActiveTaskHasARun'
  BY <1>15 DEF TaskTimeout, Settle
<1>16. ASSUME NEW x \in {"accept", "decline"}, up, UserAnswers(x) PROVE ActiveTaskHasARun'
  BY <1>16 DEF UserAnswers, Settle
<1>17. ASSUME up, InputTimeout PROVE ActiveTaskHasARun'
  BY <1>17 DEF InputTimeout, Settle
<1>18. ASSUME up, Stop PROVE ActiveTaskHasARun'
  BY <1>18 DEF Stop
<1>19. ASSUME up, CleanupAbandoned PROVE ActiveTaskHasARun'
  BY <1>19 DEF CleanupAbandoned, Settle
<1>20. ASSUME Crash PROVE ActiveTaskHasARun'
  BY <1>20 DEF Crash
<1>21. ASSUME Restart PROVE ActiveTaskHasARun'
  BY <1>21 DEF Restart
<1>22. ASSUME NEW r \in Run, up, WorkerAsks(r) PROVE ActiveTaskHasARun'
  BY <1>22 DEF WorkerAsks, Goto, RequestUserInput
<1>23. ASSUME NEW r \in Run, up, CancelWorker(r) PROVE ActiveTaskHasARun'
  BY <1>23 DEF CancelWorker
<1>24. CASE UNCHANGED vars
  BY <1>24 DEF vars
<1>25. QED
  BY <1>1, <1>2, <1>3, <1>4, <1>5, <1>6, <1>7, <1>8, <1>9, <1>10, <1>11,
     <1>12, <1>13, <1>14, <1>15, <1>16, <1>17, <1>18, <1>19, <1>20, <1>21,
     <1>22, <1>23, <1>24 DEF KoryNext, RunStep

\* The last run to leave makes the session idle, or marks it as failed.
LEMMA QuietStep ==
    ASSUME KoryTypeOK, QuietIsIdle, [KoryNext]_vars
    PROVE  QuietIsIdle'
<1> USE KoryAssumption DEF KoryTypeOK, QuietIsIdle, Live, Handling, InLoop,
        Pipeline, procVars, signalVars, askVars, loopVars, workVars, dbVars
<1>1. ASSUME NEW r \in Run, up, StartTask(r) PROVE QuietIsIdle'
  BY <1>1 DEF StartTask, Goto
<1>2. ASSUME NEW r \in Run, up, HandleTask(r) PROVE QuietIsIdle'
  BY <1>2 DEF HandleTask, Enter, Goto
<1>3. ASSUME NEW r \in Run, up, WakeUp(r) PROVE QuietIsIdle'
  BY <1>3 DEF WakeUp, Enter, Goto
<1>4. ASSUME NEW r \in Run, up, BeginTurn(r) PROVE QuietIsIdle'
  BY <1>4 DEF BeginTurn, Goto
<1>5. ASSUME NEW r \in Run, up, LeaveLoop(r) PROVE QuietIsIdle'
  BY <1>5 DEF LeaveLoop, Goto
<1>6. ASSUME NEW r \in Run, up, TurnEnds(r) PROVE QuietIsIdle'
  BY <1>6 DEF TurnEnds, Goto, RequestUserInput
<1>7. ASSUME NEW r \in Run, up, TurnFails(r) PROVE QuietIsIdle'
  BY <1>7 DEF TurnFails, Leave, Goto
<1>8. ASSUME NEW r \in Run, up, CallTool(r) PROVE QuietIsIdle'
  BY <1>8 DEF CallTool, Goto, RequestUserInput, Delegate
<1>9. ASSUME NEW r \in Run, up, ToolEnds(r) PROVE QuietIsIdle'
  BY <1>9 DEF ToolEnds, Goto
<1>10. ASSUME NEW r \in Run, up, Resume(r) PROVE QuietIsIdle'
  BY <1>10 DEF Resume, Goto, Delegate, Refusal
<1>11. ASSUME NEW r \in Run, up, RouteTask(r) PROVE QuietIsIdle'
  BY <1>11 DEF RouteTask, Attempt, FinishTask, Goto
<1>12. ASSUME NEW r \in Run, up, WorkerEnds(r) PROVE QuietIsIdle'
  BY <1>12 DEF WorkerEnds, Attempt, FinishTask, Goto
<1>13. ASSUME NEW r \in Run, up, CriticEnds(r) PROVE QuietIsIdle'
  BY <1>13 DEF CriticEnds, Attempt, FinishTask, Goto
<1>14. ASSUME NEW r \in Run, up, Close(r) PROVE QuietIsIdle'
  BY <1>14 DEF Close, Leave, Goto
<1>15. ASSUME NEW r \in Run, up, TaskTimeout(r) PROVE QuietIsIdle'
  BY <1>15 DEF TaskTimeout, Settle
<1>16. ASSUME NEW x \in {"accept", "decline"}, up, UserAnswers(x) PROVE QuietIsIdle'
  BY <1>16 DEF UserAnswers, Settle
<1>17. ASSUME up, InputTimeout PROVE QuietIsIdle'
  BY <1>17 DEF InputTimeout, Settle
<1>18. ASSUME up, Stop PROVE QuietIsIdle'
  BY <1>18 DEF Stop
<1>19. ASSUME up, CleanupAbandoned PROVE QuietIsIdle'
  BY <1>19 DEF CleanupAbandoned, Settle
<1>20. ASSUME Crash PROVE QuietIsIdle'
  BY <1>20 DEF Crash
<1>21. ASSUME Restart PROVE QuietIsIdle'
  BY <1>21 DEF Restart
<1>22. ASSUME NEW r \in Run, up, WorkerAsks(r) PROVE QuietIsIdle'
  BY <1>22 DEF WorkerAsks, Goto, RequestUserInput
<1>23. ASSUME NEW r \in Run, up, CancelWorker(r) PROVE QuietIsIdle'
  BY <1>23 DEF CancelWorker
<1>24. CASE UNCHANGED vars
  BY <1>24 DEF vars
<1>25. QED
  BY <1>1, <1>2, <1>3, <1>4, <1>5, <1>6, <1>7, <1>8, <1>9, <1>10, <1>11,
     <1>12, <1>13, <1>14, <1>15, <1>16, <1>17, <1>18, <1>19, <1>20, <1>21,
     <1>22, <1>23, <1>24 DEF KoryNext, RunStep

-----------------------------------------------------------------------------
(* Stopped runs *)

\* What a run that was stopped may still do in a step.
WindsDown ==
    \A r \in aborted :
         /\ pc[r] # "streaming" => pc'[r] # "streaming"
         /\ pc[r] \notin {"tool", "asking"} => pc'[r] # "tool"

\* No step begins a turn or a tool of a stopped run, but an approved tool.
LEMMA WindDownStep ==
    ASSUME KoryTypeOK, [KoryNext]_vars
    PROVE  WindsDown
<1> USE KoryAssumption DEF KoryTypeOK, WindsDown, Live, Handling, InLoop,
        Pipeline, procVars, signalVars, askVars, loopVars, workVars, dbVars
<1>1. ASSUME NEW r \in Run, up, StartTask(r) PROVE WindsDown
  BY <1>1 DEF StartTask, Goto
<1>2. ASSUME NEW r \in Run, up, HandleTask(r) PROVE WindsDown
  BY <1>2 DEF HandleTask, Enter, Goto
<1>3. ASSUME NEW r \in Run, up, WakeUp(r) PROVE WindsDown
  BY <1>3 DEF WakeUp, Enter, Goto
<1>4. ASSUME NEW r \in Run, up, BeginTurn(r) PROVE WindsDown
  BY <1>4 DEF BeginTurn, Goto
<1>5. ASSUME NEW r \in Run, up, LeaveLoop(r) PROVE WindsDown
  BY <1>5 DEF LeaveLoop, Goto
<1>6. ASSUME NEW r \in Run, up, TurnEnds(r) PROVE WindsDown
  BY <1>6 DEF TurnEnds, Goto, RequestUserInput
<1>7. ASSUME NEW r \in Run, up, TurnFails(r) PROVE WindsDown
  BY <1>7 DEF TurnFails, Leave, Goto
<1>8. ASSUME NEW r \in Run, up, CallTool(r) PROVE WindsDown
  BY <1>8 DEF CallTool, Goto, RequestUserInput, Delegate
<1>9. ASSUME NEW r \in Run, up, ToolEnds(r) PROVE WindsDown
  BY <1>9 DEF ToolEnds, Goto
<1>10. ASSUME NEW r \in Run, up, Resume(r) PROVE WindsDown
  BY <1>10 DEF Resume, Goto, Delegate, Refusal
<1>11. ASSUME NEW r \in Run, up, RouteTask(r) PROVE WindsDown
  BY <1>11 DEF RouteTask, Attempt, FinishTask, Goto
<1>12. ASSUME NEW r \in Run, up, WorkerEnds(r) PROVE WindsDown
  BY <1>12 DEF WorkerEnds, Attempt, FinishTask, Goto
<1>13. ASSUME NEW r \in Run, up, CriticEnds(r) PROVE WindsDown
  BY <1>13 DEF CriticEnds, Attempt, FinishTask, Goto
<1>14. ASSUME NEW r \in Run, up, Close(r) PROVE WindsDown
  BY <1>14 DEF Close, Leave, Goto
<1>15. ASSUME NEW r \in Run, up, TaskTimeout(r) PROVE WindsDown
  BY <1>15 DEF TaskTimeout, Settle
<1>16. ASSUME NEW x \in {"accept", "decline"}, up, UserAnswers(x) PROVE WindsDown
  BY <1>16 DEF UserAnswers, Settle
<1>17. ASSUME up, InputTimeout PROVE WindsDown
  BY <1>17 DEF InputTimeout, Settle
<1>18. ASSUME up, Stop PROVE WindsDown
  BY <1>18 DEF Stop
<1>19. ASSUME up, CleanupAbandoned PROVE WindsDown
  BY <1>19 DEF CleanupAbandoned, Settle
<1>20. ASSUME Crash PROVE WindsDown
  BY <1>20 DEF Crash
<1>21. ASSUME Restart PROVE WindsDown
  BY <1>21 DEF Restart
<1>22. ASSUME NEW r \in Run, up, WorkerAsks(r) PROVE WindsDown
  BY <1>22 DEF WorkerAsks, Goto, RequestUserInput
<1>23. ASSUME NEW r \in Run, up, CancelWorker(r) PROVE WindsDown
  BY <1>23 DEF CancelWorker
<1>24. CASE UNCHANGED vars
  BY <1>24 DEF vars
<1>25. QED
  BY <1>1, <1>2, <1>3, <1>4, <1>5, <1>6, <1>7, <1>8, <1>9, <1>10, <1>11,
     <1>12, <1>13, <1>14, <1>15, <1>16, <1>17, <1>18, <1>19, <1>20, <1>21,
     <1>22, <1>23, <1>24 DEF KoryNext, RunStep

-----------------------------------------------------------------------------
(* The theorems *)

KoryInv ==
    KoryTypeOK /\ QuestionInv /\ RegistryIsLive /\ ActiveTaskHasARun /\ QuietIsIdle

LEMMA KoryInvInit == KoryInit => KoryInv
BY KoryAssumption
   DEF KoryInit, KoryInv, KoryTypeOK, QuestionInv, AnswersAreAwaited,
       OpenQuestionIsAwaited, RegistryIsLive, ActiveTaskHasARun, QuietIsIdle, Consent,
       Purpose, AtWork

LEMMA KoryInvariant == KorySpec => []KoryInv
<1>1. KoryInv /\ [KoryNext]_vars => KoryInv'
  BY KoryTypeStep, QuestionStep, RegistryStep, ActiveTaskStep, QuietStep DEF KoryInv
<1>2. QED
  BY KoryInvInit, <1>1, PTL DEF KorySpec

\* The variables have their types, and the turns, calls and attempts of a run
\* stay within their limits (handleDirectly, runWorkerPipeline).
THEOREM KoryTypeCorrect == KorySpec => []KoryTypeOK
BY KoryInvariant, PTL DEF KoryInv

\* The open question is one that its asker awaits, however questions, answers,
\* time limits, cleanups and crashes overlap.
THEOREM OpenQuestionTheorem == KorySpec => []OpenQuestionIsAwaited
BY KoryInvariant, PTL DEF KoryInv, QuestionInv

\* What is registered for Stop is running.
THEOREM RegistryTheorem == KorySpec => []RegistryIsLive
BY KoryInvariant, PTL DEF KoryInv

\* An active task has a run that works on it, also after a restart.
THEOREM ActiveTaskTheorem == KorySpec => []ActiveTaskHasARun
BY KoryInvariant, PTL DEF KoryInv

\* A session whose runs have ended is idle or failed.
THEOREM QuietTheorem == KorySpec => []QuietIsIdle
BY KoryInvariant, PTL DEF KoryInv

\* A stopped run begins no turn and no tool, except an approved one.
THEOREM WindDownTheorem == KorySpec => StoppedRunsWindDown
<1>1. KoryInv /\ [KoryNext]_vars => [WindsDown]_vars
  BY WindDownStep DEF KoryInv
<1>2. QED
  BY KoryInvariant, <1>1, PTL DEF KorySpec, StoppedRunsWindDown, WindsDown
=============================================================================
