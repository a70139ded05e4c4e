---------------------------- MODULE AgentThreads ----------------------------
(***************************************************************************)
(* The thread of one agent, a worker or a critic, in KoryManager           *)
(* (manager.ts): its conversation with a model, which the pipeline begins  *)
(* and the user may go on with by direct messages, and the loops           *)
(* (runAgentThread) that work on it.                                       *)
(*                                                                         *)
(* A loop is at an await of its stream or of a tool.  All loops of a       *)
(* thread share its list of messages.  A message is reduced to its role,   *)
(* the loop that pushed it and the number of its tool calls; the messages  *)
(* that carry an image are left out.  So is the abort signal: it makes     *)
(* streams fail and tools return sooner than they do anyway, and no loop   *)
(* looks at it.  A tool that fails returns a result that says so; left out *)
(* is the call of ask_manager whose arguments are the JSON null, which     *)
(* throws.  The history of the session, which a worker's list begins with, *)
(* is left out.  resolveProvider is awaited but answers at once, before    *)
(* another request is handled.  The status of a thread that was forgotten  *)
(* is not looked at.                                                       *)
(***************************************************************************)
EXTENDS Naturals, Sequences, FiniteSets

CONSTANTS
    Loop,           \* the calls of runAgentThread that may happen
    MaxThreadTurns, \* maxTurns of the thread (25, for a critic 5)
    MaxThreadCalls  \* bound: tool calls of a turn

ASSUME ThreadAssumption ==
    /\ MaxThreadTurns \in Nat \ {0}
    /\ MaxThreadCalls \in Nat

VARIABLES
    known,      \* agentThreads has the thread
    busy,
    shown,      \* status
    at,         \* the await each loop is at
    turnCount,
    callsLeft,  \* completedToolCalls still to be executed
    dialogue,   \* messages
    cutLoose    \* cancelWorker has freed the thread of a loop that goes on

threadVars == <<known, busy, shown, at, turnCount, callsLeft, dialogue, cutLoose>>

User == [role |-> "user"]
Assistant(l, n) == [role |-> "assistant", by |-> l, calls |-> n]
ToolResult(l) == [role |-> "tool", by |-> l]

Utterance ==
    {User} \cup [role : {"assistant"}, by : Loop, calls : 0 .. MaxThreadCalls]
           \cup [role : {"tool"}, by : Loop]

ThreadTypeOK ==
    /\ known \in BOOLEAN
    /\ busy \in BOOLEAN
    /\ shown \in {"none", "working", "done", "error"}
    /\ at \in [Loop -> {"new", "streaming", "tool", "ended"}]
    /\ turnCount \in [Loop -> 0 .. MaxThreadTurns]
    /\ callsLeft \in [Loop -> 0 .. MaxThreadCalls]
    /\ dialogue \in Seq(Utterance)
    /\ cutLoose \in BOOLEAN

ThreadInit ==
    /\ known = FALSE
    /\ busy = FALSE
    /\ shown = "none"
    /\ at = [l \in Loop |-> "new"]
    /\ turnCount = [l \in Loop |-> 0]
    /\ callsLeft = [l \in Loop |-> 0]
    /\ dialogue = <<>>
    /\ cutLoose = FALSE

AtWork == {l \in Loop : at[l] \in {"streaming", "tool"}}

-----------------------------------------------------------------------------
\* runAgentThread up to the request of its first turn.
BeginLoop(l) ==
    /\ busy' = TRUE
    /\ shown' = "working"
    /\ at' = [at EXCEPT ![l] = "streaming"]
    /\ turnCount' = [turnCount EXCEPT ![l] = 1]

\* executeWithProvider or runCriticGate: the thread and its first loop.
SpawnThread(l) ==
    /\ shown = "none"
    /\ known' = TRUE
    /\ dialogue' = <<User>>
    /\ BeginLoop(l)
    /\ UNCHANGED <<callsLeft, cutLoose>>

\* Variant: whether the agent is already working is not asked.
SendMessageToAgent_Busy(l) ==
    /\ known
    /\ at[l] = "new"
    /\ dialogue' = Append(dialogue, User)
    /\ BeginLoop(l)
    /\ UNCHANGED <<known, callsLeft, cutLoose>>

\* A message of the user is refused while the agent works.  Without a provider
\* it stays in the list, and that is all.
SendMessageToAgent(l) ==
    /\ known
    /\ ~ busy
    /\ at[l] = "new"
    /\ dialogue' = Append(dialogue, User)
    /\ \/ BeginLoop(l)
       \/ /\ at' = [at EXCEPT ![l] = "ended"]
          /\ UNCHANGED <<busy, shown, turnCount>>
    /\ UNCHANGED <<known, callsLeft, cutLoose>>

\* The finally block, after the status was set.
EndLoop(l, status) ==
    /\ busy' = FALSE
    /\ shown' = status
    /\ at' = [at EXCEPT ![l] = "ended"]
    /\ UNCHANGED turnCount

\* processAgentThreadTurn: the stream has ended, with or without tool calls.
\* What it has streamed has set the status of a thread cancelled meanwhile.
StreamEnds(l) ==
    /\ at[l] = "streaming"
    /\ \E n \in 0 .. MaxThreadCalls :
         /\ dialogue' = Append(dialogue, Assistant(l, n))
         /\ callsLeft' = [callsLeft EXCEPT ![l] = n]
         /\ IF n = 0
              THEN EndLoop(l, "done")
              ELSE /\ at' = [at EXCEPT ![l] = "tool"]
                   /\ shown' = "working"
                   /\ UNCHANGED <<busy, turnCount>>
    /\ UNCHANGED <<known, cutLoose>>

\* Variant: the thread of a stream that failed stays busy.
StreamFails_StaysBusy(l) ==
    /\ at[l] = "streaming"
    /\ at' = [at EXCEPT ![l] = "ended"]
    /\ shown' = "error"
    /\ UNCHANGED <<known, busy, turnCount, callsLeft, dialogue, cutLoose>>

StreamFails(l) ==
    /\ at[l] = "streaming"
    /\ EndLoop(l, "error")
    /\ UNCHANGED <<known, callsLeft, dialogue, cutLoose>>

\* The result of a tool call.  After the last one the next turn begins, if
\* there is one left.
ToolReturns(l) ==
    /\ at[l] = "tool"
    /\ dialogue' = Append(dialogue, ToolResult(l))
    /\ callsLeft' = [callsLeft EXCEPT ![l] = @ - 1]
    /\ \/ /\ callsLeft[l] > 1
          /\ UNCHANGED <<busy, shown, at, turnCount>>
       \/ /\ callsLeft[l] = 1
          /\ turnCount[l] < MaxThreadTurns
          /\ at' = [at EXCEPT ![l] = "streaming"]
          /\ turnCount' = [turnCount EXCEPT ![l] = @ + 1]
          /\ UNCHANGED <<busy, shown>>
       \/ /\ callsLeft[l] = 1
          /\ turnCount[l] = MaxThreadTurns
          /\ EndLoop(l, "done")
    /\ UNCHANGED <<known, cutLoose>>

\* cancelWorker: the thread is free at once, its loop goes on until its stream
\* or its tools are over.
CancelAgent ==
    /\ known
    /\ busy
    /\ busy' = FALSE
    /\ shown' = "done"
    /\ cutLoose' = TRUE
    /\ UNCHANGED <<known, at, turnCount, callsLeft, dialogue>>

\* cleanupSession, when the session is deleted: the loops keep the messages.
ForgetThread ==
    /\ known
    /\ known' = FALSE
    /\ UNCHANGED <<busy, shown, at, turnCount, callsLeft, dialogue, cutLoose>>

ThreadNext ==
    \/ \E l \in Loop : \/ SpawnThread(l) \/ SendMessageToAgent(l)
                       \/ StreamEnds(l) \/ StreamFails(l) \/ ToolReturns(l)
    \/ CancelAgent
    \/ ForgetThread

ThreadSpec == ThreadInit /\ [][ThreadNext]_threadVars

-----------------------------------------------------------------------------
(* Properties *)

\* An agent on whose thread no loop works takes messages and shows how its last
\* loop has ended, however its loops overlapped, failed or were cancelled.
QuietThreadIsFree ==
    AtWork = {} => ~ busy /\ shown \in {"none", "done", "error"}

\* The results of the calls of message i, before the model speaks again.
ResultsOf(i) ==
    {j \in i + 1 .. Len(dialogue) :
        /\ dialogue[j].role = "tool" /\ dialogue[j].by = dialogue[i].by
        /\ \A k \in i + 1 .. j : dialogue[k].role # "assistant"}

CallsAnswered ==
    \A i \in 1 .. Len(dialogue) :
        dialogue[i].role = "assistant" => Cardinality(ResultsOf(i)) = dialogue[i].calls

\* While a request is under way every tool call in the list it was made from
\* has its one result before the model's next message ("so APIs accept tool
\* results"), also when the user goes on with a thread of the pipeline, unless
\* a busy agent was cancelled.
RequestsAreWhole ==
    (\E l \in Loop : at[l] = "streaming") /\ ~ cutLoose => CallsAnswered

\* "Agent is already working": one loop at a time.
OneLoopAtATime == Cardinality(AtWork) <= 1
=============================================================================
