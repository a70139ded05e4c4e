------------------------- MODULE AgentThreadsProofs -------------------------
(***************************************************************************)
(* Theorems about AgentThreads, for every set of loops and every number of *)
(* turns and tool calls.                                                   *)
(***************************************************************************)
EXTENDS AgentThreads, FiniteSetTheorems, SequenceTheorems, TLAPS

-----------------------------------------------------------------------------
(* Types *)

\* What a loop pushes is an utterance.
LEMMA PushedUtterance ==
    ASSUME ThreadTypeOK, NEW l \in Loop, NEW n \in 0 .. MaxThreadCalls
    PROVE  /\ User \in Utterance /\ User.role = "user"
           /\ Assistant(l, n) \in Utterance
           /\ ToolResult(l) \in Utterance
           /\ Append(dialogue, User) \in Seq(Utterance)
           /\ Append(dialogue, Assistant(l, n)) \in Seq(Utterance)
           /\ Append(dialogue, ToolResult(l)) \in Seq(Utterance)
<1>1. /\ User \in Utterance /\ Assistant(l, n) \in Utterance
      /\ ToolResult(l) \in Utterance /\ User.role = "user"
  BY DEF User, Assistant, ToolResult, Utterance
<1>2. dialogue \in Seq(Utterance)
  BY DEF ThreadTypeOK
<1>3. QED
  BY <1>1, <1>2, AppendProperties

\* No loop and no message of the user leaves the types.
LEMMA ThreadTypeStep ==
    ASSUME ThreadTypeOK, [ThreadNext]_threadVars
    PROVE  ThreadTypeOK'
<1> USE ThreadAssumption DEF ThreadTypeOK
<1>0. 0 \in 0 .. MaxThreadCalls /\ 1 \in 0 .. MaxThreadTurns
  OBVIOUS
<1>1. ASSUME NEW l \in Loop, SpawnThread(l) PROVE ThreadTypeOK'
  <2>1. <<User>> \in Seq(Utterance)
    <3>1. 1 \in Nat /\ <<User>> \in [1 .. 1 -> Utterance]
      BY <1>0, PushedUtterance
    <3>2. QED
      BY <3>1, SeqDef
  <2>2. QED
    BY <1>0, <1>1, <2>1 DEF SpawnThread, BeginLoop
<1>2. ASSUME NEW l \in Loop, SendMessageToAgent(l) PROVE ThreadTypeOK'
  <2>1. dialogue' \in Seq(Utterance)
    BY <1>0, <1>2, PushedUtterance DEF SendMessageToAgent
  <2>2. QED
    BY <1>0, <1>2, <2>1 DEF SendMessageToAgent, BeginLoop
<1>3. ASSUME NEW l \in Loop, StreamEnds(l) PROVE ThreadTypeOK'
  <2>1. PICK n \in 0 .. MaxThreadCalls :
          /\ dialogue' = Append(dialogue, Assistant(l, n))
          /\ callsLeft' = [callsLeft EXCEPT ![l] = n]
          /\ IF n = 0
               THEN EndLoop(l, "done")
               ELSE /\ at' = [at EXCEPT ![l] = "tool"]
                    /\ shown' = "working"
                    /\ UNCHANGED <<busy, turnCount>>
    BY <1>3 DEF StreamEnds
  <2>2. dialogue' \in Seq(Utterance)
    BY <2>1, PushedUtterance
  <2>3. QED
    BY <1>3, <2>1, <2>2 DEF StreamEnds, EndLoop
<1>4. ASSUME NEW l \in Loop, StreamFails(l) PROVE ThreadTypeOK'
  BY <1>4 DEF StreamFails, EndLoop
<1>5. ASSUME NEW l \in Loop, ToolReturns(l) PROVE ThreadTypeOK'
  <2>1. dialogue' \in Seq(Utterance)
    BY <1>0, <1>5, PushedUtterance DEF ToolReturns
  <2>2. callsLeft' \in [Loop -> 0 .. MaxThreadCalls]
    BY <1>5 DEF ToolReturns
  <2>3. /\ busy' \in BOOLEAN /\ shown' \in {"none", "working", "done", "error"}
        /\ at' \in [Loop -> {"new", "streaming", "tool", "ended"}]
    BY <1>5 DEF ToolReturns, EndLoop
  <2>4. turnCount' \in [Loop -> 0 .. MaxThreadTurns]
    BY <1>5 DEF ToolReturns, EndLoop
  <2>5. QED
    BY <1>5, <2>1, <2>2, <2>3, <2>4 DEF ToolReturns
<1>6. CASE CancelAgent
  BY <1>6 DEF CancelAgent
<1>7. CASE ForgetThread
  BY <1>7 DEF ForgetThread
<1>8. CASE UNCHANGED threadVars
  BY <1>8 DEF threadVars
<1>9. QED
  BY <1>1, <1>2, <1>3, <1>4, <1>5, <1>6, <1>7, <1>8 DEF ThreadNext

-----------------------------------------------------------------------------
(* A quiet thread *)

\* Only a loop that begins makes the thread busy, and its end frees it.
LEMMA QuietStep ==
    ASSUME ThreadTypeOK, QuietThreadIsFree, [ThreadNext]_threadVars
    PROVE  QuietThreadIsFree'
<1> USE DEF ThreadTypeOK, QuietThreadIsFree, AtWork
<1>1. ASSUME NEW l \in Loop, SpawnThread(l) PROVE QuietThreadIsFree'
  BY <1>1 DEF SpawnThread, BeginLoop
<1>2. ASSUME NEW l \in Loop, SendMessageToAgent(l) PROVE QuietThreadIsFree'
  BY <1>2 DEF SendMessageToAgent, BeginLoop
<1>3. ASSUME NEW l \in Loop, StreamEnds(l) PROVE QuietThreadIsFree'
  BY <1>3 DEF StreamEnds, EndLoop
<1>4. ASSUME NEW l \in Loop, StreamFails(l) PROVE QuietThreadIsFree'
  BY <1>4 DEF StreamFails, EndLoop
<1>5. ASSUME NEW l \in Loop, ToolReturns(l) PROVE QuietThreadIsFree'
  BY <1>5 DEF ToolReturns, EndLoop
<1>6. CASE CancelAgent
  BY <1>6 DEF CancelAgent
<1>7. CASE ForgetThread
  BY <1>7 DEF ForgetThread
<1>8. CASE UNCHANGED threadVars
  BY <1>8 DEF threadVars
<1>9. QED
  BY <1>1, <1>2, <1>3, <1>4, <1>5, <1>6, <1>7, <1>8 DEF ThreadNext

-----------------------------------------------------------------------------
(* What a push does to the results of a message *)

\* A message is pushed: those before it stay, and it has no results yet.
LEMMA PushedMessage ==
    ASSUME ThreadTypeOK, NEW x \in Utterance, dialogue' = Append(dialogue, x)
    PROVE  /\ Len(dialogue) \in Nat /\ Len(dialogue') = Len(dialogue) + 1
           /\ \A i \in 1 .. Len(dialogue) : dialogue'[i] = dialogue[i]
           /\ dialogue'[Len(dialogue) + 1] = x
           /\ \A k : k = Len(dialogue) + 1 => ResultsOf(k)' = {}
<1>1. dialogue \in Seq(Utterance)
  BY DEF ThreadTypeOK
<1>2. /\ Len(dialogue) \in Nat /\ Len(dialogue') = Len(dialogue) + 1
      /\ \A i \in 1 .. Len(dialogue) : dialogue'[i] = dialogue[i]
      /\ dialogue'[Len(dialogue) + 1] = x
  BY <1>1, AppendProperties, LenProperties
<1>3. ASSUME NEW k, k = Len(dialogue) + 1 PROVE ResultsOf(k)' = {}
  <2>1. k + 1 .. Len(dialogue') = {}
    BY <1>2, <1>3
  <2>2. QED
    BY <2>1 DEF ResultsOf
<1>4. QED
  BY <1>2, <1>3

\* Its results are not those of a message before unless it is one itself, and
\* the model has not spoken since.
LEMMA ResultsKept ==
    ASSUME ThreadTypeOK, NEW x \in Utterance, dialogue' = Append(dialogue, x),
           NEW i \in 1 .. Len(dialogue),
           x.role = "tool" =>
               \E k \in i + 1 .. Len(dialogue) : dialogue[k].role = "assistant"
    PROVE  ResultsOf(i)' = ResultsOf(i)
<1>1. /\ Len(dialogue) \in Nat /\ Len(dialogue') = Len(dialogue) + 1
      /\ \A j \in 1 .. Len(dialogue) : dialogue'[j] = dialogue[j]
      /\ dialogue'[Len(dialogue) + 1] = x
  BY PushedMessage
<1>2. Len(dialogue) + 1 \notin ResultsOf(i)'
  BY <1>1 DEF ResultsOf
<1>3. \A j \in i + 1 .. Len(dialogue) : j \in ResultsOf(i)' <=> j \in ResultsOf(i)
  BY <1>1 DEF ResultsOf
<1>4. ResultsOf(i) \subseteq i + 1 .. Len(dialogue)
  BY DEF ResultsOf
<1>5. ResultsOf(i)' \subseteq i + 1 .. Len(dialogue) + 1
  BY <1>1 DEF ResultsOf
<1>6. \A j \in i + 1 .. Len(dialogue) + 1 : j # Len(dialogue) + 1 => j \in i + 1 .. Len(dialogue)
  BY <1>1
<1>7. \A j : j \in ResultsOf(i)' <=> j \in ResultsOf(i)
  BY <1>2, <1>3, <1>4, <1>5, <1>6, Zenon
<1>8. QED
  BY <1>7, Zenon

\* A result that is pushed for the message the model spoke last is one more.
LEMMA ResultAdded ==
    ASSUME ThreadTypeOK, NEW l \in Loop, dialogue' = Append(dialogue, ToolResult(l)),
           NEW i \in 1 .. Len(dialogue), dialogue[i].by = l,
           \A k \in i + 1 .. Len(dialogue) : dialogue[k].role # "assistant"
    PROVE  /\ Cardinality(ResultsOf(i)) \in Nat
           /\ Cardinality(ResultsOf(i)') = Cardinality(ResultsOf(i)) + 1
<1>0. /\ ToolResult(l) \in Utterance
      /\ ToolResult(l).role = "tool" /\ ToolResult(l).by = l
  BY DEF ToolResult, Utterance
<1>1. /\ Len(dialogue) \in Nat /\ Len(dialogue') = Len(dialogue) + 1
      /\ \A j \in 1 .. Len(dialogue) : dialogue'[j] = dialogue[j]
      /\ dialogue'[Len(dialogue) + 1] = ToolResult(l)
  BY <1>0, PushedMessage
<1>2. Len(dialogue) + 1 \in ResultsOf(i)'
  BY <1>0, <1>1 DEF ResultsOf
<1>3. \A j \in i + 1 .. Len(dialogue) : j \in ResultsOf(i)' <=> j \in ResultsOf(i)
  BY <1>1 DEF ResultsOf
<1>4. ResultsOf(i) \subseteq i + 1 .. Len(dialogue)
  BY DEF ResultsOf
<1>5. ResultsOf(i)' \subseteq i + 1 .. Len(dialogue) + 1
  BY <1>1 DEF ResultsOf
<1>6. /\ ResultsOf(i)' = ResultsOf(i) \cup {Len(dialogue) + 1}
      /\ Len(dialogue) + 1 \notin ResultsOf(i)
  <2>1. \A j \in i + 1 .. Len(dialogue) + 1 :
          j # Len(dialogue) + 1 <=> j \in i + 1 .. Len(dialogue)
    BY <1>1
  <2>2. Len(dialogue) + 1 \notin ResultsOf(i)
    BY <1>1, <1>4
  <2>3. \A j : j \in ResultsOf(i)' <=> j \in ResultsOf(i) \cup {Len(dialogue) + 1}
    BY <1>2, <1>3, <1>4, <1>5, <2>1, Zenon
  <2>4. QED
    BY <2>2, <2>3, Zenon
<1>7. IsFiniteSet(ResultsOf(i))
  <2>1. IsFiniteSet(i + 1 .. Len(dialogue))
    BY <1>1, FS_Interval
  <2>2. QED
    BY <1>4, <2>1, FS_Subset
<1>8. QED
  BY <1>6, <1>7, FS_AddElement, FS_CardinalityType

-----------------------------------------------------------------------------
(* Requests *)

\* The calls of the model's last message are being executed by loop l, which has
\* pushed the results of all but callsLeft of them.
UnderExecution(l) ==
    \E k \in 1 .. Len(dialogue) :
        /\ dialogue[k].role = "assistant" /\ dialogue[k].by = l
        /\ \A i \in k + 1 .. Len(dialogue) : dialogue[i].role # "assistant"
        /\ Cardinality(ResultsOf(k)) + callsLeft[l] = dialogue[k].calls
        /\ \A i \in 1 .. Len(dialogue) :
              i # k /\ dialogue[i].role = "assistant" =>
                  Cardinality(ResultsOf(i)) = dialogue[i].calls

\* Until a busy agent is cancelled, one loop is at work and has the thread busy.
Alone == (AtWork # {} => busy) /\ \A l, m \in AtWork : l = m

DialogueInv ==
    ~ cutLoose =>
        /\ Alone
        /\ (\A l \in Loop : at[l] # "tool") => CallsAnswered
        /\ \A l \in Loop : at[l] = "tool" => UnderExecution(l)

\* A message of the user leaves the calls before it answered.
LEMMA UserPushed ==
    ASSUME ThreadTypeOK, CallsAnswered, dialogue' = Append(dialogue, User)
    PROVE  CallsAnswered'
<1>1. User \in Utterance /\ User.role = "user"
  BY DEF User, Utterance
<1>2. /\ Len(dialogue) \in Nat /\ Len(dialogue') = Len(dialogue) + 1
      /\ \A i \in 1 .. Len(dialogue) : dialogue'[i] = dialogue[i]
      /\ dialogue'[Len(dialogue) + 1] = User
  BY <1>1, PushedMessage
<1>3. \A i \in 1 .. Len(dialogue) : ResultsOf(i)' = ResultsOf(i)
  BY <1>1, ResultsKept
<1>4. QED
  BY <1>1, <1>2, <1>3 DEF CallsAnswered

\* The model speaks: only its own calls are open.
LEMMA AssistantPushed ==
    ASSUME ThreadTypeOK, CallsAnswered, NEW l \in Loop, NEW n \in 0 .. MaxThreadCalls,
           dialogue' = Append(dialogue, Assistant(l, n)), callsLeft'[l] = n
    PROVE  UnderExecution(l)' /\ (n = 0 => CallsAnswered')
<1>0. PICK k : k = Len(dialogue) + 1
  OBVIOUS
<1>1. /\ Assistant(l, n) \in Utterance
      /\ Assistant(l, n).role = "assistant"
      /\ Assistant(l, n).by = l /\ Assistant(l, n).calls = n
  BY DEF Assistant, Utterance
<1>2. /\ Len(dialogue) \in Nat /\ Len(dialogue') = k
      /\ \A i \in 1 .. Len(dialogue) : dialogue'[i] = dialogue[i]
      /\ dialogue'[k] = Assistant(l, n)
      /\ ResultsOf(k)' = {}
  BY <1>0, <1>1, PushedMessage
<1>3. \A i \in 1 .. Len(dialogue) : ResultsOf(i)' = ResultsOf(i)
  BY <1>1, ResultsKept
<1>4. Cardinality(ResultsOf(k)') = 0
  BY <1>2, FS_EmptySet
<1>5. \A i \in 1 .. Len(dialogue') :
        i # k /\ dialogue'[i].role = "assistant" =>
            Cardinality(ResultsOf(i)') = dialogue'[i].calls
  <2>1. \A i \in 1 .. Len(dialogue') : i # k => i \in 1 .. Len(dialogue)
    BY <1>2
  <2>2. QED
    BY <1>2, <1>3, <2>1 DEF CallsAnswered
<1>6. k \in 1 .. Len(dialogue') /\ k + 1 .. Len(dialogue') = {}
  BY <1>0, <1>2
<1>7. Cardinality(ResultsOf(k)') + callsLeft'[l] = dialogue'[k].calls
  BY <1>1, <1>2, <1>4, ThreadAssumption
<1>8. UnderExecution(l)'
  <2>1. /\ k \in 1 .. Len(dialogue') /\ dialogue'[k].role = "assistant" /\ dialogue'[k].by = l
        /\ \A i \in k + 1 .. Len(dialogue') : dialogue'[i].role # "assistant"
    BY <1>1, <1>2, <1>6
  <2>2. QED
    BY <1>5, <1>7, <2>1, Zenon DEF UnderExecution
<1>9. n = 0 => CallsAnswered'
  <2>1. n = 0 => Cardinality(ResultsOf(k)') = dialogue'[k].calls
    BY <1>1, <1>2, <1>4
  <2>2. QED
    BY <1>5, <2>1, Zenon DEF CallsAnswered
<1>10. QED
  BY <1>8, <1>9

\* A result closes one call.
LEMMA ResultPushed ==
    ASSUME ThreadTypeOK, NEW l \in Loop, UnderExecution(l), callsLeft[l] > 0,
           dialogue' = Append(dialogue, ToolResult(l)), callsLeft'[l] = callsLeft[l] - 1
    PROVE  UnderExecution(l)' /\ (callsLeft[l] = 1 => CallsAnswered')
<1>1. PICK k \in 1 .. Len(dialogue) :
        /\ dialogue[k].role = "assistant" /\ dialogue[k].by = l
        /\ \A i \in k + 1 .. Len(dialogue) : dialogue[i].role # "assistant"
        /\ Cardinality(ResultsOf(k)) + callsLeft[l] = dialogue[k].calls
        /\ \A i \in 1 .. Len(dialogue) :
              i # k /\ dialogue[i].role = "assistant" =>
                  Cardinality(ResultsOf(i)) = dialogue[i].calls
  BY DEF UnderExecution
<1>2. ToolResult(l) \in Utterance /\ ToolResult(l).role = "tool"
  BY DEF ToolResult, Utterance
<1>3. /\ Len(dialogue) \in Nat /\ Len(dialogue') = Len(dialogue) + 1
      /\ \A i \in 1 .. Len(dialogue) : dialogue'[i] = dialogue[i]
      /\ dialogue'[Len(dialogue) + 1] = ToolResult(l)
  BY <1>2, PushedMessage
<1>4. /\ Cardinality(ResultsOf(k)) \in Nat
      /\ Cardinality(ResultsOf(k)') = Cardinality(ResultsOf(k)) + 1
  BY <1>1, ResultAdded
<1>5. callsLeft[l] \in Nat
  BY ThreadAssumption DEF ThreadTypeOK
<1>6. Cardinality(ResultsOf(k)') + callsLeft'[l] = dialogue'[k].calls
  <2>1. Cardinality(ResultsOf(k)') + callsLeft'[l] = Cardinality(ResultsOf(k)) + callsLeft[l]
    <3>1. \A a, b \in Nat : (a + 1) + (b - 1) = a + b
      OBVIOUS
    <3>2. callsLeft'[l] = callsLeft[l] - 1
      OBVIOUS
    <3>3. QED
      BY <1>4, <1>5, <3>1, <3>2, Zenon
  <2>2. dialogue'[k] = dialogue[k]
    BY <1>3
  <2>3. QED
    BY <1>1, <2>1, <2>2
<1>7. ASSUME NEW i \in 1 .. Len(dialogue'), i # k, dialogue'[i].role = "assistant"
      PROVE  Cardinality(ResultsOf(i)') = dialogue'[i].calls
  <2>1. i \in 1 .. Len(dialogue) /\ dialogue[i].role = "assistant"
    BY <1>2, <1>3, <1>7
  <2>2. k \in i + 1 .. Len(dialogue)
    BY <1>1, <1>3, <1>7, <2>1
  <2>3. ResultsOf(i)' = ResultsOf(i)
    BY <1>1, <1>2, <2>1, <2>2, ResultsKept
  <2>4. QED
    BY <1>1, <1>3, <1>7, <2>1, <2>3
<1>8. \A i \in k + 1 .. Len(dialogue') : dialogue'[i].role # "assistant"
  BY <1>1, <1>2, <1>3
<1>9. UnderExecution(l)'
  <2>1. k \in 1 .. Len(dialogue') /\ dialogue'[k].role = "assistant" /\ dialogue'[k].by = l
    BY <1>1, <1>3
  <2>2. \A i \in 1 .. Len(dialogue') :
          i # k /\ dialogue'[i].role = "assistant" =>
              Cardinality(ResultsOf(i)') = dialogue'[i].calls
    BY <1>7
  <2>3. QED
    BY <1>6, <1>8, <2>1, <2>2 DEF UnderExecution
<1>10. callsLeft[l] = 1 => CallsAnswered'
  <2>1. SUFFICES ASSUME callsLeft[l] = 1,
                        NEW i \in 1 .. Len(dialogue'), dialogue'[i].role = "assistant"
                 PROVE  Cardinality(ResultsOf(i)') = dialogue'[i].calls
    BY DEF CallsAnswered
  <2>2. CASE i = k
    BY <1>1, <1>3, <1>4, <2>1, <2>2
  <2>3. CASE i # k
    BY <1>7, <2>1, <2>3
  <2>4. QED
    BY <2>2, <2>3
<1>11. QED
  BY <1>9, <1>10

\* A thread that is not spoken in keeps its calls as they are.
LEMMA NothingPushed ==
    ASSUME UNCHANGED dialogue
    PROVE  /\ CallsAnswered => CallsAnswered'
           /\ \A l \in Loop : UnderExecution(l) /\ callsLeft'[l] = callsLeft[l] => UnderExecution(l)'
<1>1. \A i : ResultsOf(i)' = ResultsOf(i)
  BY DEF ResultsOf
<1>2. CallsAnswered => CallsAnswered'
  BY <1>1 DEF CallsAnswered
<1>3. \A l \in Loop : UnderExecution(l) /\ callsLeft'[l] = callsLeft[l] => UnderExecution(l)'
  BY <1>1 DEF UnderExecution
<1>4. QED
  BY <1>2, <1>3

\* A thread that never had a loop has none at work.
Unused == shown = "none" => AtWork = {}

\* While no busy agent was cancelled the loops take turns.
LEMMA DialogueStep ==
    ASSUME ThreadTypeOK, DialogueInv, Unused, [ThreadNext]_threadVars
    PROVE  DialogueInv' /\ Unused'
<1> DEFINE Goal == DialogueInv' /\ Unused'
<1> HIDE DEF Goal
<1>0. at \in [Loop -> {"new", "streaming", "tool", "ended"}]
  BY DEF ThreadTypeOK
<1>1. ASSUME NEW l \in Loop, SpawnThread(l) PROVE Goal
  <2>1. AtWork = {}
    BY <1>1 DEF SpawnThread, Unused
  <2>2. /\ at' = [at EXCEPT ![l] = "streaming"]
        /\ busy' /\ shown' = "working" /\ dialogue' = <<User>>
    BY <1>1 DEF SpawnThread, BeginLoop
  <2>3. AtWork' = {l} /\ \A m \in Loop : at'[m] # "tool"
    BY <1>0, <2>1, <2>2 DEF AtWork
  <2>4. CallsAnswered'
    BY <2>2 DEF CallsAnswered, User
  <2>5. QED
    BY <2>2, <2>3, <2>4 DEF Goal, DialogueInv, Alone, Unused
<1>2. ASSUME NEW l \in Loop, SendMessageToAgent(l) PROVE Goal
  <2>1. /\ ~ busy /\ dialogue' = Append(dialogue, User) /\ cutLoose' = cutLoose
        /\ \/ /\ at' = [at EXCEPT ![l] = "streaming"] /\ busy' /\ shown' = "working"
           \/ /\ at' = [at EXCEPT ![l] = "ended"] /\ UNCHANGED <<busy, shown>>
    BY <1>2 DEF SendMessageToAgent, BeginLoop
  <2>2. Unused'
    BY <1>0, <2>1 DEF Unused, AtWork
  <2>3. ASSUME ~ cutLoose'
        PROVE  Alone' /\ CallsAnswered' /\ \A m \in Loop : at'[m] # "tool"
    <3>1. AtWork = {} /\ CallsAnswered
      BY <2>1, <2>3 DEF DialogueInv, Alone, AtWork
    <3>2. CallsAnswered'
      BY <2>1, <3>1, UserPushed
    <3>3. Alone' /\ \A m \in Loop : at'[m] # "tool"
      BY <1>0, <2>1, <3>1 DEF Alone, AtWork
    <3>4. QED
      BY <3>2, <3>3
  <2>4. QED
    BY <2>2, <2>3 DEF Goal, DialogueInv
<1>3. ASSUME NEW l \in Loop, StreamEnds(l) PROVE Goal
  <2>1. PICK n \in 0 .. MaxThreadCalls :
          /\ dialogue' = Append(dialogue, Assistant(l, n))
          /\ callsLeft' = [callsLeft EXCEPT ![l] = n]
          /\ IF n = 0
               THEN EndLoop(l, "done")
               ELSE /\ at' = [at EXCEPT ![l] = "tool"]
                    /\ shown' = "working"
                    /\ UNCHANGED <<busy, turnCount>>
    BY <1>3 DEF StreamEnds
  <2>2. at[l] = "streaming" /\ cutLoose' = cutLoose
    BY <1>3 DEF StreamEnds
  <2>3. Unused'
    BY <2>1 DEF Unused, EndLoop
  <2>4. ASSUME ~ cutLoose'
        PROVE  DialogueInv'
    <3>1. busy /\ AtWork = {l} /\ CallsAnswered
      BY <2>2, <2>4 DEF DialogueInv, Alone, AtWork
    <3>2. callsLeft'[l] = n
      BY <2>1 DEF ThreadTypeOK
    <3>3. UnderExecution(l)' /\ (n = 0 => CallsAnswered')
      BY <2>1, <3>1, <3>2, AssistantPushed
    <3>4. CASE n = 0
      <4>1. AtWork' = {} /\ \A m \in Loop : at'[m] # "tool"
        BY <1>0, <2>1, <3>1, <3>4 DEF EndLoop, AtWork
      <4>2. QED
        BY <3>3, <3>4, <4>1 DEF DialogueInv, Alone
    <3>5. CASE n # 0
      <4>1. /\ AtWork' = {l} /\ busy' /\ at'[l] = "tool"
            /\ \A m \in Loop : at'[m] = "tool" => m = l
        BY <1>0, <2>1, <3>1, <3>5 DEF AtWork
      <4>2. QED
        BY <3>3, <4>1 DEF DialogueInv, Alone
    <3>6. QED
      BY <3>4, <3>5
  <2>5. QED
    BY <2>3, <2>4 DEF Goal, DialogueInv
<1>4. ASSUME NEW l \in Loop, StreamFails(l) PROVE Goal
  <2>1. /\ at[l] = "streaming" /\ at' = [at EXCEPT ![l] = "ended"]
        /\ ~ busy' /\ shown' = "error" /\ cutLoose' = cutLoose /\ UNCHANGED dialogue
    BY <1>4 DEF StreamFails, EndLoop
  <2>2. ASSUME ~ cutLoose'
        PROVE  CallsAnswered' /\ AtWork' = {} /\ \A m \in Loop : at'[m] # "tool"
    <3>1. AtWork = {l} /\ CallsAnswered
      BY <2>1, <2>2 DEF DialogueInv, Alone, AtWork
    <3>2. AtWork' = {} /\ \A m \in Loop : at'[m] # "tool"
      BY <1>0, <2>1, <3>1 DEF AtWork
    <3>3. QED
      BY <2>1, <3>1, <3>2, NothingPushed
  <2>3. QED
    BY <2>1, <2>2 DEF Goal, DialogueInv, Alone, Unused
<1>5. ASSUME NEW l \in Loop, ToolReturns(l) PROVE Goal
  <2>1. /\ at[l] = "tool" /\ cutLoose' = cutLoose
        /\ dialogue' = Append(dialogue, ToolResult(l))
        /\ callsLeft' = [callsLeft EXCEPT ![l] = @ - 1]
        /\ \/ callsLeft[l] > 1 /\ at' = at /\ busy' = busy /\ shown' = shown
           \/ /\ callsLeft[l] = 1 /\ at' = [at EXCEPT ![l] = "streaming"]
              /\ busy' = busy /\ shown' = shown
           \/ /\ callsLeft[l] = 1 /\ at' = [at EXCEPT ![l] = "ended"]
              /\ busy' = FALSE /\ shown' = "done"
    BY <1>5 DEF ToolReturns, EndLoop
  <2>2. Unused'
    BY <1>0, <2>1 DEF Unused, AtWork
  <2>3. ASSUME ~ cutLoose' PROVE DialogueInv'
    <3>1. busy /\ AtWork = {l} /\ UnderExecution(l)
      BY <2>1, <2>3 DEF DialogueInv, Alone, AtWork
    <3>2. callsLeft[l] > 0 /\ callsLeft'[l] = callsLeft[l] - 1
      BY <2>1, ThreadAssumption DEF ThreadTypeOK
    <3>3. UnderExecution(l)' /\ (callsLeft[l] = 1 => CallsAnswered')
      BY <2>1, <3>1, <3>2, ResultPushed
    <3>4. CASE callsLeft[l] > 1
      <4>1. at' = at /\ busy' = busy
        BY <2>1, <3>4
      <4>2. AtWork' = {l} /\ busy' /\ at'[l] = "tool"
        BY <2>1, <3>1, <4>1 DEF AtWork
      <4>3. \A m \in Loop : at'[m] = "tool" => m = l
        BY <4>2 DEF AtWork
      <4>4. QED
        BY <3>3, <4>2, <4>3 DEF DialogueInv, Alone
    <3>5. CASE callsLeft[l] = 1
      <4>1. /\ AtWork' \subseteq {l} /\ (AtWork' # {} => busy')
            /\ \A m \in Loop : at'[m] # "tool"
        <5>1. CASE /\ at' = [at EXCEPT ![l] = "streaming"] /\ busy' = busy
          BY <1>0, <2>1, <3>1, <5>1 DEF AtWork
        <5>2. CASE at' = [at EXCEPT ![l] = "ended"]
          BY <1>0, <2>1, <3>1, <5>2 DEF AtWork
        <5>3. QED
          BY <2>1, <3>5, <5>1, <5>2
      <4>2. QED
        BY <3>3, <3>5, <4>1 DEF DialogueInv, Alone
    <3>6. QED
      BY <2>1, <3>4, <3>5
  <2>4. QED
    BY <2>2, <2>3 DEF Goal, DialogueInv
<1>6. CASE CancelAgent
  BY <1>6 DEF CancelAgent, Goal, DialogueInv, Unused
<1>7. ASSUME UNCHANGED <<busy, shown, at, callsLeft, dialogue, cutLoose>> PROVE Goal
  <2>1. AtWork' = AtWork /\ Alone' = Alone /\ Unused'
    BY <1>7 DEF AtWork, Alone, Unused
  <2>2. /\ CallsAnswered => CallsAnswered'
        /\ \A l \in Loop : UnderExecution(l) => UnderExecution(l)'
    BY <1>7, NothingPushed
  <2>3. QED
    BY <1>7, <2>1, <2>2 DEF Goal, DialogueInv
<1>8. CASE ForgetThread
  <2>1. UNCHANGED <<busy, shown, at, callsLeft, dialogue, cutLoose>>
    BY <1>8 DEF ForgetThread
  <2>2. QED
    BY <1>7, <2>1 DEF Goal
<1>9. CASE UNCHANGED threadVars
  <2>1. UNCHANGED <<busy, shown, at, callsLeft, dialogue, cutLoose>>
    BY <1>9 DEF threadVars
  <2>2. QED
    BY <1>7, <2>1 DEF Goal
<1>10. QED
  BY <1>1, <1>2, <1>3, <1>4, <1>5, <1>6, <1>8, <1>9 DEF ThreadNext, Goal

-----------------------------------------------------------------------------
(* Theorems *)

ThreadInv == ThreadTypeOK /\ QuietThreadIsFree /\ DialogueInv /\ Unused

LEMMA ThreadInvInit == ThreadInit => ThreadInv
<1> SUFFICES ASSUME ThreadInit PROVE ThreadInv
  OBVIOUS
<1>1. AtWork = {} /\ ~ busy /\ shown = "none" /\ \A l \in Loop : at[l] # "tool"
  BY DEF ThreadInit, AtWork
<1>2. ThreadTypeOK
  <2>1. dialogue \in Seq(Utterance)
    BY DEF ThreadInit
  <2>2. /\ turnCount \in [Loop -> 0 .. MaxThreadTurns]
        /\ callsLeft \in [Loop -> 0 .. MaxThreadCalls]
    <3>1. 0 \in 0 .. MaxThreadTurns /\ 0 \in 0 .. MaxThreadCalls
      BY ThreadAssumption
    <3>2. QED
      BY <3>1 DEF ThreadInit
  <2>3. at \in [Loop -> {"new", "streaming", "tool", "ended"}]
    BY DEF ThreadInit
  <2>4. QED
    BY <2>1, <2>2, <2>3 DEF ThreadInit, ThreadTypeOK
<1>3. CallsAnswered
  BY DEF ThreadInit, CallsAnswered
<1>4. QED
  BY <1>1, <1>2, <1>3 DEF ThreadInv, QuietThreadIsFree, DialogueInv, Alone, Unused

LEMMA ThreadInvariant == ThreadSpec => []ThreadInv
<1>1. ThreadInv /\ [ThreadNext]_threadVars => ThreadInv'
  BY ThreadTypeStep, QuietStep, DialogueStep DEF ThreadInv
<1>2. QED
  BY ThreadInvInit, <1>1, PTL DEF ThreadSpec

\* The variables of a thread have their types.
THEOREM ThreadTypeCorrect == ThreadSpec => []ThreadTypeOK
<1>1. ThreadInv => ThreadTypeOK
  BY DEF ThreadInv
<1>2. QED
  BY ThreadInvariant, <1>1, PTL

\* An agent no loop works for takes messages and shows how its last loop ended.
THEOREM QuietThreadTheorem == ThreadSpec => []QuietThreadIsFree
<1>1. ThreadInv => QuietThreadIsFree
  BY DEF ThreadInv
<1>2. QED
  BY ThreadInvariant, <1>1, PTL

\* A request is made from a list in which every tool call has its one result,
\* unless a busy agent was cancelled.
THEOREM RequestsTheorem == ThreadSpec => []RequestsAreWhole
<1>1. ThreadInv => RequestsAreWhole
  BY DEF ThreadInv, DialogueInv, Alone, AtWork, RequestsAreWhole
<1>2. QED
  BY ThreadInvariant, <1>1, PTL
=============================================================================
