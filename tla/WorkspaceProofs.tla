---------------------------- MODULE WorkspaceProofs ----------------------------
(***************************************************************************)
(* Theorems about the two modules of the server's workspace:               *)
(* ProcSupervisor, for every set of entries and any number of deaths of    *)
(* the server, and Worktrees, for every set of tasks and every bound.      *)
(***************************************************************************)
EXTENDS ProcSupervisor, Worktrees, FiniteSetTheorems, SequenceTheorems, TLAPS

(***************************************************************************)
(* ProcSupervisor                                                          *)
(***************************************************************************)
-----------------------------------------------------------------------------
(* Every step keeps the types *)

\* No handler, timer or death of the server leaves the types.
LEMMA SupTypeStep ==
    ASSUME SupTypeOK, [SupNext]_supVars
    PROVE  SupTypeOK'
<1> USE ProcAssumption DEF SupTypeOK, Policy, Active, procState
<1>1. ASSUME NEW p \in Proc, NEW restarts \in Policy, Start(p, restarts) PROVE SupTypeOK'
  BY <1>1 DEF Start, PersistStart, Idle
<1>2. ASSUME NEW p \in Proc, Spawn(p) PROVE SupTypeOK'
  BY <1>2 DEF Spawn
<1>3. ASSUME NEW p \in Proc, SpawnFails(p) PROVE SupTypeOK'
  BY <1>3 DEF SpawnFails
<1>4. ASSUME NEW p \in Proc, RegisterExternal(p) PROVE SupTypeOK'
  BY <1>4 DEF RegisterExternal, Idle
<1>5. ASSUME NEW p \in Proc, QuietExit(p) PROVE SupTypeOK'
  BY <1>5 DEF QuietExit, Idle
<1>6. ASSUME NEW p \in Proc, ChildEnds(p) PROVE SupTypeOK'
  BY <1>6 DEF ChildEnds
<1>7. ASSUME NEW p \in Proc, HandleExit(p) PROVE SupTypeOK'
  BY <1>7 DEF HandleExit, Idle
<1>8. ASSUME NEW p \in Proc, Kill(p) PROVE SupTypeOK'
  BY <1>8 DEF Kill, Idle
<1>9. ASSUME NEW p \in Proc, NEW q \in Proc, RestartProcess(p, q) PROVE SupTypeOK'
  BY <1>9 DEF RestartProcess, PersistStart, Idle
<1>10. ASSUME NEW p \in Proc, NEW q \in Proc, RestartFires(p, q) PROVE SupTypeOK'
  BY <1>10 DEF RestartFires, PersistStart, Idle
<1>11. ASSUME ServerDies PROVE SupTypeOK'
  <2>1. serverDeaths' \in 0 .. MaxServerDeaths
    <3>1. /\ serverDeaths \in Nat /\ serverDeaths < MaxServerDeaths
          /\ serverDeaths' = serverDeaths + 1
      BY <1>11 DEF ServerDies
    <3>2. QED
      BY <3>1
  <2>2. child' \in [Proc -> {"none", "alive", "ended", "handled", "external"}]
    BY <1>11 DEF ServerDies
  <2>3. /\ spawning' = NoProc /\ table' = {} /\ restartDue' = {} /\ serverUp' = FALSE
        /\ UNCHANGED <<row, policy, told, groupHit>>
    BY <1>11 DEF ServerDies
  <2>4. QED
    BY <2>1, <2>2, <2>3
<1>12. ASSUME Initialize PROVE SupTypeOK'
  BY <1>12 DEF Initialize
<1>13. CASE UNCHANGED supVars
  BY <1>13 DEF supVars
<1>14. QED
  BY <1>1, <1>2, <1>3, <1>4, <1>5, <1>6, <1>7, <1>8, <1>9, <1>10, <1>11, <1>12,
     <1>13 DEF SupNext

-----------------------------------------------------------------------------
(* The rows of running processes *)

\* The table of a server that died is empty, so that the one started in its
\* place supervises no entry that it does not know.
TableOfTheServer == ~ serverUp => table = {}

RowInv == TableOfTheServer /\ RunningRowsAreSupervised

\* A row and the table change together, and a server starts with no active row.
LEMMA RowStep ==
    ASSUME SupTypeOK, RowInv, [SupNext]_supVars
    PROVE  RowInv'
<1> USE ProcAssumption DEF SupTypeOK, RowInv, TableOfTheServer,
        RunningRowsAreSupervised, Active, procState
<1>1. ASSUME NEW p \in Proc, NEW restarts \in Policy, Start(p, restarts) PROVE RowInv'
  BY <1>1 DEF Start, PersistStart, Idle
<1>2. ASSUME NEW p \in Proc, Spawn(p) PROVE RowInv'
  BY <1>2 DEF Spawn
<1>3. ASSUME NEW p \in Proc, SpawnFails(p) PROVE RowInv'
  BY <1>3 DEF SpawnFails
<1>4. ASSUME NEW p \in Proc, RegisterExternal(p) PROVE RowInv'
  BY <1>4 DEF RegisterExternal, Idle
<1>5. ASSUME NEW p \in Proc, QuietExit(p) PROVE RowInv'
  BY <1>5 DEF QuietExit, Idle
<1>6. ASSUME NEW p \in Proc, ChildEnds(p) PROVE RowInv'
  BY <1>6 DEF ChildEnds
<1>7. ASSUME NEW p \in Proc, HandleExit(p) PROVE RowInv'
  BY <1>7 DEF HandleExit, Idle
<1>8. ASSUME NEW p \in Proc, Kill(p) PROVE RowInv'
  BY <1>8 DEF Kill, Idle
<1>9. ASSUME NEW p \in Proc, NEW q \in Proc, RestartProcess(p, q) PROVE RowInv'
  BY <1>9 DEF RestartProcess, PersistStart, Idle
<1>10. ASSUME NEW p \in Proc, NEW q \in Proc, RestartFires(p, q) PROVE RowInv'
  BY <1>10 DEF RestartFires, PersistStart, Idle
<1>11. ASSUME ServerDies PROVE RowInv'
  BY <1>11 DEF ServerDies
<1>12. ASSUME Initialize PROVE RowInv'
  BY <1>12 DEF Initialize
<1>13. CASE UNCHANGED supVars
  BY <1>13 DEF supVars
<1>14. QED
  BY <1>1, <1>2, <1>3, <1>4, <1>5, <1>6, <1>7, <1>8, <1>9, <1>10, <1>11, <1>12,
     <1>13 DEF SupNext

-----------------------------------------------------------------------------
(* Restarts *)

\* A child whose exit is still to be handled is called running or killed.
ChildrenAreNamed ==
    \A p \in Proc : child[p] \in {"alive", "ended"} => row[p] \in {"running", "killed"}

\* Only the child itself, a kill and its exit change the row of a child.
LEMMA NamedStep ==
    ASSUME SupTypeOK, ChildrenAreNamed, [SupNext]_supVars
    PROVE  ChildrenAreNamed'
<1> USE ProcAssumption DEF SupTypeOK, ChildrenAreNamed, Active, procState
<1>1. ASSUME NEW p \in Proc, NEW restarts \in Policy, Start(p, restarts) PROVE ChildrenAreNamed'
  BY <1>1 DEF Start, PersistStart, Idle
<1>2. ASSUME NEW p \in Proc, Spawn(p) PROVE ChildrenAreNamed'
  BY <1>2 DEF Spawn
<1>3. ASSUME NEW p \in Proc, SpawnFails(p) PROVE ChildrenAreNamed'
  BY <1>3 DEF SpawnFails
<1>4. ASSUME NEW p \in Proc, RegisterExternal(p) PROVE ChildrenAreNamed'
  BY <1>4 DEF RegisterExternal, Idle
<1>5. ASSUME NEW p \in Proc, QuietExit(p) PROVE ChildrenAreNamed'
  BY <1>5 DEF QuietExit, Idle
<1>6. ASSUME NEW p \in Proc, ChildEnds(p) PROVE ChildrenAreNamed'
  BY <1>6 DEF ChildEnds
<1>7. ASSUME NEW p \in Proc, HandleExit(p) PROVE ChildrenAreNamed'
  BY <1>7 DEF HandleExit, Idle
<1>8. ASSUME NEW p \in Proc, Kill(p) PROVE ChildrenAreNamed'
  BY <1>8 DEF Kill, Idle
<1>9. ASSUME NEW p \in Proc, NEW q \in Proc, RestartProcess(p, q) PROVE ChildrenAreNamed'
  BY <1>9 DEF RestartProcess, PersistStart, Idle
<1>10. ASSUME NEW p \in Proc, NEW q \in Proc, RestartFires(p, q) PROVE ChildrenAreNamed'
  BY <1>10 DEF RestartFires, PersistStart, Idle
<1>11. ASSUME ServerDies PROVE ChildrenAreNamed'
  BY <1>11 DEF ServerDies
<1>12. ASSUME Initialize PROVE ChildrenAreNamed'
  BY <1>12 DEF Initialize
<1>13. CASE UNCHANGED supVars
  BY <1>13 DEF supVars
<1>14. QED
  BY <1>1, <1>2, <1>3, <1>4, <1>5, <1>6, <1>7, <1>8, <1>9, <1>10, <1>11, <1>12,
     <1>13 DEF SupNext

\* The entries that a step schedules for a restart were running.
RestartsTheRunning == \A p \in Proc : p \in restartDue' \ restartDue => row[p] = "running"

\* Only the exit of a child that was not killed schedules a restart.
LEMMA RestartStep ==
    ASSUME SupTypeOK, ChildrenAreNamed, [SupNext]_supVars
    PROVE  RestartsTheRunning
<1> USE ProcAssumption DEF SupTypeOK, ChildrenAreNamed, RestartsTheRunning,
        Active, procState
<1>1. ASSUME NEW p \in Proc, NEW restarts \in Policy, Start(p, restarts) PROVE RestartsTheRunning
  BY <1>1 DEF Start, PersistStart, Idle
<1>2. ASSUME NEW p \in Proc, Spawn(p) PROVE RestartsTheRunning
  BY <1>2 DEF Spawn
<1>3. ASSUME NEW p \in Proc, SpawnFails(p) PROVE RestartsTheRunning
  BY <1>3 DEF SpawnFails
<1>4. ASSUME NEW p \in Proc, RegisterExternal(p) PROVE RestartsTheRunning
  BY <1>4 DEF RegisterExternal, Idle
<1>5. ASSUME NEW p \in Proc, QuietExit(p) PROVE RestartsTheRunning
  BY <1>5 DEF QuietExit, Idle
<1>6. ASSUME NEW p \in Proc, ChildEnds(p) PROVE RestartsTheRunning
  BY <1>6 DEF ChildEnds
<1>7. ASSUME NEW p \in Proc, HandleExit(p) PROVE RestartsTheRunning
  BY <1>7 DEF HandleExit, Idle
<1>8. ASSUME NEW p \in Proc, Kill(p) PROVE RestartsTheRunning
  BY <1>8 DEF Kill, Idle
<1>9. ASSUME NEW p \in Proc, NEW q \in Proc, RestartProcess(p, q) PROVE RestartsTheRunning
  BY <1>9 DEF RestartProcess, PersistStart, Idle
<1>10. ASSUME NEW p \in Proc, NEW q \in Proc, RestartFires(p, q) PROVE RestartsTheRunning
  BY <1>10 DEF RestartFires, PersistStart, Idle
<1>11. ASSUME ServerDies PROVE RestartsTheRunning
  BY <1>11 DEF ServerDies
<1>12. ASSUME Initialize PROVE RestartsTheRunning
  BY <1>12 DEF Initialize
<1>13. CASE UNCHANGED supVars
  BY <1>13 DEF supVars
<1>14. QED
  BY <1>1, <1>2, <1>3, <1>4, <1>5, <1>6, <1>7, <1>8, <1>9, <1>10, <1>11, <1>12,
     <1>13 DEF SupNext

-----------------------------------------------------------------------------
(* The theorems *)

SupInv == SupTypeOK /\ RowInv /\ ChildrenAreNamed

LEMMA SupInvInit == SupInit => SupInv
<1> SUFFICES ASSUME SupInit PROVE SupInv
  OBVIOUS
<1>1. SupTypeOK
  <2>1. serverDeaths \in 0 .. MaxServerDeaths
    BY ProcAssumption DEF SupInit
  <2>2. /\ row \in [Proc -> Active \cup {"none", "killed", "crashed", "exited"}]
        /\ policy \in [Proc -> Policy]
        /\ child \in [Proc -> {"none", "alive", "ended", "handled", "external"}]
        /\ told \in [Proc -> {"nothing", "started", "exited"}]
    BY DEF SupInit, Policy
  <2>3. QED
    BY <2>1, <2>2 DEF SupInit, SupTypeOK
<1>2. /\ row = [p \in Proc |-> "none"] /\ child = [p \in Proc |-> "none"]
      /\ table = {} /\ serverUp = TRUE
  BY DEF SupInit
<1>3. RowInv /\ ChildrenAreNamed
  BY <1>2 DEF RowInv, TableOfTheServer, RunningRowsAreSupervised, ChildrenAreNamed
<1>4. QED
  BY <1>1, <1>3 DEF SupInv

LEMMA SupInvariant == SupSpec => []SupInv
<1>1. SupInv /\ [SupNext]_supVars => SupInv'
  BY SupTypeStep, RowStep, NamedStep DEF SupInv
<1>2. QED
  BY SupInvInit, <1>1, PTL DEF SupSpec

\* The variables have their types.
THEOREM SupTypeCorrect == SupSpec => []SupTypeOK
BY SupInvariant, PTL DEF SupInv

\* A row says "running" exactly of the entries that are supervised and whose
\* end was not announced (updateProcessStatus, processes.delete).
THEOREM RowsTheorem == SupSpec => []RunningRowsAreSupervised
BY SupInvariant, PTL DEF SupInv, RowInv

\* The exit that a kill causes restarts nothing (wasKilled).
THEOREM RestartTheorem == SupSpec => KilledIsNotRestarted
<1>1. SupInv /\ [SupNext]_supVars => [RestartsTheRunning]_supVars
  BY RestartStep DEF SupInv
<1>2. QED
  BY SupInvariant, <1>1, PTL DEF SupSpec, KilledIsNotRestarted, RestartsTheRunning

(***************************************************************************)
(* Worktrees                                                               *)
(***************************************************************************)
-----------------------------------------------------------------------------
(* The stash *)

\* An entry that is pushed is the last, and the others stay.
LEMMA PushedEntry ==
    ASSUME stash \in Seq(Entry), NEW e \in Entry
    PROVE  /\ Append(stash, e) \in Seq(Entry)
           /\ Len(Append(stash, e)) = Len(stash) + 1
           /\ \A i \in 1 .. Len(stash) : Append(stash, e)[i] = stash[i]
           /\ Append(stash, e)[Len(stash) + 1] = e
BY AppendProperties

\* An entry that is popped was the last, and the others stay.
LEMMA PoppedEntry ==
    ASSUME stash \in Seq(Entry), Len(stash) > 0
    PROVE  LET s == SubSeq(stash, 1, Len(stash) - 1) IN
           /\ s \in Seq(Entry)
           /\ Len(s) = Len(stash) - 1
           /\ \A i \in 1 .. Len(s) : s[i] = stash[i]
           /\ stash[Len(stash)] \in Entry
<1>1. Len(stash) \in Nat /\ \A i \in 1 .. Len(stash) : stash[i] \in Entry
  BY LenProperties, ElementOfSeq
<1>2. \A i \in 1 .. Len(stash) - 1 : stash[i] \in Entry
  BY <1>1
<1> DEFINE s == SubSeq(stash, 1, Len(stash) - 1)
<1>3. /\ s \in Seq(Entry)
      /\ Len(s) = IF 1 <= Len(stash) - 1 THEN (Len(stash) - 1) - 1 + 1 ELSE 0
      /\ \A i \in 1 .. (Len(stash) - 1) - 1 + 1 : s[i] = stash[1 + i - 1]
  <2>1. 1 \in Int /\ Len(stash) - 1 \in Int
    BY <1>1
  <2>2. QED
    BY <1>2, <2>1, SubSeqProperties
<1> HIDE DEF s
<1>4. Len(s) = Len(stash) - 1
  <2>1. CASE 1 <= Len(stash) - 1
    <3>1. Len(s) = Len(stash) - 1 - 1 + 1
      BY <1>3, <2>1
    <3>2. QED
      BY <1>1, <3>1
  <2>2. CASE ~ (1 <= Len(stash) - 1)
    <3>1. Len(s) = 0
      BY <1>3, <2>2
    <3>2. \A n \in Nat : n > 0 /\ ~ (1 <= n - 1) => n - 1 = 0
      OBVIOUS
    <3>3. QED
      BY <1>1, <2>2, <3>1, <3>2
  <2>3. QED
    BY <2>1, <2>2
<1>5. ASSUME NEW i \in 1 .. Len(s) PROVE s[i] = stash[i]
  <2>1. i \in 1 .. (Len(stash) - 1) - 1 + 1 /\ 1 + i - 1 = i
    BY <1>1, <1>4
  <2>2. QED
    BY <1>3, <2>1
<1>6. stash[Len(stash)] \in Entry
  BY <1>1
<1>7. QED
  BY <1>3, <1>4, <1>5, <1>6 DEF s

-----------------------------------------------------------------------------
(* Every step keeps the types *)

\* No git command, no step of the user and no death leaves the types.
LEMMA TreeTypeStep ==
    ASSUME TreeTypeOK, [TreeNext]_treeVars
    PROVE  TreeTypeOK'
<1> USE WorktreeAssumption DEF TreeTypeOK, checkout, progress, user
<1>1. ASSUME NEW t \in Task, SpawnWorktree(t) PROVE TreeTypeOK'
  BY <1>1 DEF SpawnWorktree, At
<1>2. ASSUME NEW t \in Task, WorkerEdits(t) PROVE TreeTypeOK'
  BY <1>2 DEF WorkerEdits, At
<1>3. ASSUME NEW t \in Task, DropWorktree(t) PROVE TreeTypeOK'
  BY <1>3 DEF DropWorktree, At, RemoveWorktree
<1>4. ASSUME NEW t \in Task, Reconcile(t) PROVE TreeTypeOK'
  BY <1>4 DEF Reconcile, At
<1>5. ASSUME StashCheckout PROVE TreeTypeOK'
  <2>1. CASE ~ unmerged /\ (edits # {} \/ staged # NoTask)
    <3>1. [by |-> "server", edits |-> edits, staged |-> staged] \in Entry
      BY DEF Entry
    <3>2. stash' \in Seq(Entry) /\ edits' = {} /\ staged' = NoTask
      BY <1>5, <2>1, <3>1, PushedEntry DEF StashCheckout
    <3>3. QED
      BY <1>5, <3>2 DEF StashCheckout, At
  <2>2. CASE ~ (~ unmerged /\ (edits # {} \/ staged # NoTask))
    BY <1>5, <2>2 DEF StashCheckout, At
  <2>3. QED
    BY <2>1, <2>2
<1>6. ASSUME CheckoutMain PROVE TreeTypeOK'
  BY <1>6 DEF CheckoutMain, At, Goto
<1>7. ASSUME MergeSquash PROVE TreeTypeOK'
  BY <1>7 DEF MergeSquash, At, Goto
<1>8. ASSUME CommitSquashed PROVE TreeTypeOK'
  BY <1>8 DEF CommitSquashed, At, Goto
<1>9. ASSUME CleanupReconciled PROVE TreeTypeOK'
  BY <1>9 DEF CleanupReconciled, At, Goto, RemoveWorktree
<1>10. ASSUME PopStash PROVE TreeTypeOK'
  <2>1. Len(stash) \in Nat
    BY LenProperties
  <2>2. CASE UNCHANGED <<stash, edits, staged>>
    BY <1>10, <2>2 DEF PopStash, At
  <2>3. CASE ~ UNCHANGED <<stash, edits, staged>>
    <3>1. /\ Len(stash) > 0
          /\ stash' = SubSeq(stash, 1, Len(stash) - 1)
          /\ edits' = edits \cup stash[Len(stash)].edits
          /\ staged' = IF stash[Len(stash)].staged # NoTask
                         THEN stash[Len(stash)].staged ELSE staged
          /\ UNCHANGED unmerged
      BY <1>10, <2>3 DEF PopStash
    <3>2. stash' \in Seq(Entry) /\ stash[Len(stash)] \in Entry
      BY <3>1, PoppedEntry
    <3>3. edits' \subseteq Change /\ staged' \in Task \cup {NoTask}
      BY <3>1, <3>2 DEF Entry
    <3>4. QED
      BY <1>10, <3>1, <3>2, <3>3 DEF PopStash, At
  <2>4. QED
    BY <2>2, <2>3
<1>11. ASSUME ServerDiesInGit PROVE TreeTypeOK'
  <2>1. deaths' \in 0 .. MaxDeaths
    <3>1. deaths \in Nat /\ deaths < MaxDeaths /\ deaths' = deaths + 1
      BY <1>11 DEF ServerDiesInGit
    <3>2. QED
      BY <3>1
  <2>2. work' \in [Task -> {"new", "none", "edited", "committed", "empty", "over"}]
    BY <1>11 DEF ServerDiesInGit
  <2>3. /\ running' = FALSE /\ worktrees' = {} /\ step' = "none"
        /\ reconciling' = NoTask /\ stashed' = FALSE
        /\ UNCHANGED <<onDisk, merged, checkout, user, overlooked>>
    BY <1>11 DEF ServerDiesInGit
  <2>4. QED
    BY <2>1, <2>2, <2>3
<1>12. ASSUME RecoverWorktrees PROVE TreeTypeOK'
  BY <1>12 DEF RecoverWorktrees, listAllWorktrees
<1>13. ASSUME UserWorks PROVE TreeTypeOK'
  <2>1. userSteps' \in 0 .. MaxUserSteps /\ userSteps + 1 \in Change
    <3>1. /\ userSteps \in Nat /\ userSteps < MaxUserSteps
          /\ userSteps' = userSteps + 1
      BY <1>13 DEF UserWorks
    <3>2. QED
      BY <3>1 DEF Change
  <2>2. /\ edits' \subseteq Change /\ userHas' \subseteq Change
        /\ {onMain', untracked', unmerged'} \subseteq BOOLEAN
        /\ staged' \in Task \cup {NoTask}
    BY <1>13, <2>1 DEF UserWorks
  <2>3. stash' \in Seq(Entry)
    <3>1. [by |-> "user", edits |-> edits, staged |-> staged] \in Entry
      BY DEF Entry
    <3>2. QED
      BY <1>13, <3>1, PushedEntry DEF UserWorks
  <2>4. UNCHANGED <<running, worktrees, onDisk, work, merged, progress, deaths, overlooked>>
    BY <1>13 DEF UserWorks
  <2>5. QED
    BY <2>1, <2>2, <2>3, <2>4
<1>14. CASE UNCHANGED treeVars
  BY <1>14 DEF treeVars
<1>15. QED
  BY <1>1, <1>2, <1>3, <1>4, <1>5, <1>6, <1>7, <1>8, <1>9, <1>10, <1>11, <1>12,
     <1>13, <1>14 DEF TreeNext

-----------------------------------------------------------------------------
(* The limit on worktrees *)

LimitInv == IsFiniteSet(onDisk) /\ LimitCountsWhatExists

\* A worktree that is removed, or not, keeps to the limit.
LEMMA RemovalKeepsLimit ==
    ASSUME LimitInv, running, UNCHANGED <<running, overlooked>>, NEW t, RemoveWorktree(t)
    PROVE  LimitInv'
<1> DEFINE counted == onDisk \ overlooked
<1>1. /\ onDisk' \subseteq onDisk /\ IsFiniteSet(onDisk)
      /\ worktrees' \subseteq onDisk' /\ onDisk' \subseteq worktrees' \cup overlooked'
      /\ counted' \subseteq counted /\ counted \subseteq onDisk
  BY DEF LimitInv, LimitCountsWhatExists, RemoveWorktree
<1>2. Cardinality(counted) <= MaxConcurrent
  BY DEF LimitInv, LimitCountsWhatExists
<1> HIDE DEF counted
<1>3. IsFiniteSet(onDisk') /\ IsFiniteSet(counted)
  BY <1>1, FS_Subset
<1>4. /\ IsFiniteSet(counted') /\ Cardinality(counted') <= Cardinality(counted)
      /\ Cardinality(counted) \in Nat /\ Cardinality(counted') \in Nat
  BY <1>1, <1>3, FS_Subset, FS_CardinalityType
<1>5. Cardinality(counted') <= MaxConcurrent
  BY <1>2, <1>4, WorktreeAssumption
<1>6. QED
  BY <1>1, <1>3, <1>5 DEF LimitInv, LimitCountsWhatExists, counted

\* What is counted holds all that was not overlooked, so a worktree more is
\* within the limit.
LEMMA LimitStep ==
    ASSUME TreeTypeOK, LimitInv, [TreeNext]_treeVars
    PROVE  LimitInv'
<1> USE WorktreeAssumption DEF LimitInv, LimitCountsWhatExists, checkout,
        progress, user
<1>1. ASSUME NEW t \in Task, SpawnWorktree(t) PROVE LimitInv'
  <2>1. CASE UNCHANGED <<worktrees, onDisk>>
    BY <1>1, <2>1 DEF SpawnWorktree
  <2>2. CASE ~ UNCHANGED <<worktrees, onDisk>>
    <3>1. /\ running /\ UNCHANGED <<running, overlooked>>
          /\ worktrees \subseteq onDisk /\ onDisk \subseteq worktrees \cup overlooked
          /\ Cardinality(worktrees) < MaxConcurrent
          /\ worktrees' = worktrees \cup {t} /\ onDisk' = onDisk \cup {t}
      BY <1>1, <2>2 DEF SpawnWorktree, At
    <3>2. /\ IsFiniteSet(worktrees) /\ IsFiniteSet(onDisk')
          /\ onDisk' \ overlooked' \subseteq worktrees \cup {t}
      BY <3>1, FS_Subset, FS_AddElement
    <3>3. /\ Cardinality(worktrees) \in Nat /\ IsFiniteSet(worktrees \cup {t})
          /\ Cardinality(worktrees \cup {t}) \in {Cardinality(worktrees), Cardinality(worktrees) + 1}
      BY <3>2, FS_AddElement, FS_CardinalityType
    <3>4. /\ Cardinality(worktrees \cup {t}) \in Nat
          /\ Cardinality(onDisk' \ overlooked') \in Nat
          /\ Cardinality(onDisk' \ overlooked') <= Cardinality(worktrees \cup {t})
      BY <3>2, <3>3, FS_Subset, FS_CardinalityType
    <3>5. Cardinality(onDisk' \ overlooked') <= MaxConcurrent
      BY <3>1, <3>3, <3>4
    <3>6. QED
      BY <3>1, <3>2, <3>5
  <2>3. QED
    BY <2>1, <2>2
<1>2. ASSUME NEW t \in Task, WorkerEdits(t) PROVE LimitInv'
  BY <1>2 DEF WorkerEdits, At
<1>3. ASSUME NEW t \in Task, DropWorktree(t) PROVE LimitInv'
  <2>1. RemoveWorktree(t) /\ running /\ UNCHANGED <<running, overlooked>>
    BY <1>3 DEF DropWorktree, At
  <2>2. QED
    BY <2>1, RemovalKeepsLimit DEF LimitInv
<1>4. ASSUME NEW t \in Task, Reconcile(t) PROVE LimitInv'
  BY <1>4 DEF Reconcile, At
<1>5. ASSUME StashCheckout PROVE LimitInv'
  BY <1>5 DEF StashCheckout, At
<1>6. ASSUME CheckoutMain PROVE LimitInv'
  BY <1>6 DEF CheckoutMain, At, Goto
<1>7. ASSUME MergeSquash PROVE LimitInv'
  BY <1>7 DEF MergeSquash, At, Goto
<1>8. ASSUME CommitSquashed PROVE LimitInv'
  BY <1>8 DEF CommitSquashed, At, Goto
<1>9. ASSUME CleanupReconciled PROVE LimitInv'
  <2>1. RemoveWorktree(reconciling) /\ running /\ UNCHANGED <<running, overlooked>>
    BY <1>9 DEF CleanupReconciled, At
  <2>2. QED
    BY <2>1, RemovalKeepsLimit DEF LimitInv
<1>10. ASSUME PopStash PROVE LimitInv'
  BY <1>10 DEF PopStash, At
<1>11. ASSUME ServerDiesInGit PROVE LimitInv'
  BY <1>11 DEF ServerDiesInGit
<1>12. ASSUME RecoverWorktrees PROVE LimitInv'
  <2>1. PICK listed \in listAllWorktrees :
            /\ worktrees' = listed /\ overlooked' = overlooked \cup (onDisk \ listed)
    BY <1>12 DEF RecoverWorktrees
  <2>2. /\ listed \subseteq onDisk /\ UNCHANGED onDisk
        /\ onDisk' \ overlooked' \subseteq onDisk \ overlooked
    BY <1>12, <2>1 DEF RecoverWorktrees, listAllWorktrees
  <2>3. /\ IsFiniteSet(onDisk \ overlooked)
        /\ Cardinality(onDisk \ overlooked) \in Nat
        /\ Cardinality(onDisk' \ overlooked') \in Nat
        /\ Cardinality(onDisk' \ overlooked') <= Cardinality(onDisk \ overlooked)
    <3>1. IsFiniteSet(onDisk \ overlooked)
      BY FS_Subset
    <3>2. QED
      BY <2>2, <3>1, FS_Subset, FS_CardinalityType
  <2>4. Cardinality(onDisk' \ overlooked') <= MaxConcurrent
    BY <2>3
  <2>5. QED
    BY <2>1, <2>2, <2>4
<1>13. ASSUME UserWorks PROVE LimitInv'
  BY <1>13 DEF UserWorks
<1>14. CASE UNCHANGED treeVars
  BY <1>14 DEF treeVars
<1>15. QED
  BY <1>1, <1>2, <1>3, <1>4, <1>5, <1>6, <1>7, <1>8, <1>9, <1>10, <1>11, <1>12,
     <1>13, <1>14 DEF TreeNext

-----------------------------------------------------------------------------
(* The work of a worker that succeeded *)

\* Before the worktree is removed its changes were staged, then committed.
RemovedIsMerged ==
    /\ step # "none" => running /\ reconciling \in Task
    /\ step \in {"stash", "checkout", "merge", "commit"} => reconciling \in onDisk
    /\ step = "commit" /\ work[reconciling] = "committed" => staged = reconciling
    /\ step = "remove" /\ work[reconciling] = "committed" => reconciling \in merged

WorkInv == RemovedIsMerged /\ ReconciledWorkSurvives

\* Committed work leaves the disk only after it was merged.
LEMMA WorkStep ==
    ASSUME TreeTypeOK, LimitInv, WorkInv, [TreeNext]_treeVars
    PROVE  WorkInv'
<1> USE WorktreeAssumption DEF TreeTypeOK, LimitInv, LimitCountsWhatExists,
        WorkInv, RemovedIsMerged, ReconciledWorkSurvives, checkout, progress,
        user
<1>1. ASSUME NEW t \in Task, SpawnWorktree(t) PROVE WorkInv'
  BY <1>1 DEF SpawnWorktree, At
<1>2. ASSUME NEW t \in Task, WorkerEdits(t) PROVE WorkInv'
  BY <1>2 DEF WorkerEdits, At
<1>3. ASSUME NEW t \in Task, DropWorktree(t) PROVE WorkInv'
  BY <1>3 DEF DropWorktree, At, RemoveWorktree
<1>4. ASSUME NEW t \in Task, Reconcile(t) PROVE WorkInv'
  BY <1>4 DEF Reconcile, At
<1>5. ASSUME StashCheckout PROVE WorkInv'
  BY <1>5 DEF StashCheckout, At
<1>6. ASSUME CheckoutMain PROVE WorkInv'
  BY <1>6 DEF CheckoutMain, At, Goto
<1>7. ASSUME MergeSquash PROVE WorkInv'
  BY <1>7 DEF MergeSquash, At, Goto
<1>8. ASSUME CommitSquashed PROVE WorkInv'
  BY <1>8 DEF CommitSquashed, At, Goto
<1>9. ASSUME CleanupReconciled PROVE WorkInv'
  BY <1>9 DEF CleanupReconciled, At, Goto, RemoveWorktree
<1>10. ASSUME PopStash PROVE WorkInv'
  BY <1>10 DEF PopStash, At
<1>11. ASSUME ServerDiesInGit PROVE WorkInv'
  BY <1>11 DEF ServerDiesInGit
<1>12. ASSUME RecoverWorktrees PROVE WorkInv'
  BY <1>12 DEF RecoverWorktrees, listAllWorktrees
<1>13. ASSUME UserWorks PROVE WorkInv'
  BY <1>13 DEF UserWorks
<1>14. CASE UNCHANGED treeVars
  BY <1>14 DEF treeVars
<1>15. QED
  BY <1>1, <1>2, <1>3, <1>4, <1>5, <1>6, <1>7, <1>8, <1>9, <1>10, <1>11, <1>12,
     <1>13, <1>14 DEF TreeNext

-----------------------------------------------------------------------------
(* The changes of the user *)

\* A change leaves the checkout for the stash, and the stash for the checkout.
LEMMA ChangesStep ==
    ASSUME TreeTypeOK, UserChangesSurvive, [TreeNext]_treeVars
    PROVE  UserChangesSurvive'
<1> USE WorktreeAssumption DEF TreeTypeOK, UserChangesSurvive, checkout,
        progress, user
<1>1. ASSUME NEW t \in Task, SpawnWorktree(t) PROVE UserChangesSurvive'
  BY <1>1 DEF SpawnWorktree, At
<1>2. ASSUME NEW t \in Task, WorkerEdits(t) PROVE UserChangesSurvive'
  BY <1>2 DEF WorkerEdits, At
<1>3. ASSUME NEW t \in Task, DropWorktree(t) PROVE UserChangesSurvive'
  BY <1>3 DEF DropWorktree, At, RemoveWorktree
<1>4. ASSUME NEW t \in Task, Reconcile(t) PROVE UserChangesSurvive'
  BY <1>4 DEF Reconcile, At
<1>5. ASSUME StashCheckout PROVE UserChangesSurvive'
  BY <1>5 DEF StashCheckout, At
<1>6. ASSUME CheckoutMain PROVE UserChangesSurvive'
  BY <1>6 DEF CheckoutMain, At, Goto
<1>7. ASSUME MergeSquash PROVE UserChangesSurvive'
  BY <1>7 DEF MergeSquash, At, Goto
<1>8. ASSUME CommitSquashed PROVE UserChangesSurvive'
  BY <1>8 DEF CommitSquashed, At, Goto
<1>9. ASSUME CleanupReconciled PROVE UserChangesSurvive'
  BY <1>9 DEF CleanupReconciled, At, Goto, RemoveWorktree
<1>10. ASSUME PopStash PROVE UserChangesSurvive'
  BY <1>10 DEF PopStash, At
<1>11. ASSUME ServerDiesInGit PROVE UserChangesSurvive'
  BY <1>11 DEF ServerDiesInGit
<1>12. ASSUME RecoverWorktrees PROVE UserChangesSurvive'
  BY <1>12 DEF RecoverWorktrees, listAllWorktrees
<1>13. ASSUME UserWorks PROVE UserChangesSurvive'
  BY <1>13 DEF UserWorks
<1>14. CASE UNCHANGED treeVars
  BY <1>14 DEF treeVars
<1>15. QED
  BY <1>1, <1>2, <1>3, <1>4, <1>5, <1>6, <1>7, <1>8, <1>9, <1>10, <1>11, <1>12,
     <1>13, <1>14 DEF TreeNext

-----------------------------------------------------------------------------
(* The theorems *)

TreeInv == TreeTypeOK /\ LimitInv /\ WorkInv /\ UserChangesSurvive

LEMMA TreeInvInit == TreeInit => TreeInv
<1> SUFFICES ASSUME TreeInit PROVE TreeInv
  OBVIOUS
<1>1. TreeTypeOK
  <2>1. work \in [Task -> {"new", "none", "edited", "committed", "empty", "over"}]
    BY DEF TreeInit
  <2>2. userSteps \in 0 .. MaxUserSteps /\ deaths \in 0 .. MaxDeaths
    BY WorktreeAssumption DEF TreeInit
  <2>3. stash \in Seq(Entry)
    BY EmptySeq DEF TreeInit
  <2>4. QED
    BY <2>1, <2>2, <2>3 DEF TreeInit, TreeTypeOK
<1>2. LimitInv
  <2>1. onDisk = {} /\ worktrees = {} /\ onDisk \ overlooked = {}
    BY DEF TreeInit
  <2>2. QED
    BY <2>1, WorktreeAssumption, FS_EmptySet DEF LimitInv, LimitCountsWhatExists
<1>3. WorkInv /\ UserChangesSurvive
  BY DEF TreeInit, WorkInv, RemovedIsMerged, ReconciledWorkSurvives, UserChangesSurvive
<1>4. QED
  BY <1>1, <1>2, <1>3 DEF TreeInv

LEMMA TreeInvariant == TreeSpec => []TreeInv
<1>1. TreeInv /\ [TreeNext]_treeVars => TreeInv'
  BY TreeTypeStep, LimitStep, WorkStep, ChangesStep DEF TreeInv
<1>2. QED
  BY TreeInvInit, <1>1, PTL DEF TreeSpec

\* The variables have their types.
THEOREM TreeTypeCorrect == TreeSpec => []TreeTypeOK
BY TreeInvariant, PTL DEF TreeInv

\* The limit holds for what is on disk, also after a restart, but for what a
\* start got no listing of (recover, listAllWorktrees).
THEOREM LimitTheorem == TreeSpec => []LimitCountsWhatExists
BY TreeInvariant, PTL DEF TreeInv, LimitInv

\* What a worker has committed is merged or still in its worktree, whichever
\* git command fails or is the last before the server dies (reconcile).
THEOREM WorkTheorem == TreeSpec => []ReconciledWorkSurvives
BY TreeInvariant, PTL DEF TreeInv, WorkInv

\* No change of the user is lost by a reconcile.
THEOREM ChangesTheorem == TreeSpec => []UserChangesSurvive
BY TreeInvariant, PTL DEF TreeInv
================================================================================
