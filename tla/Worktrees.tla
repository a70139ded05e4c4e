----------------------------- MODULE Worktrees -----------------------------
(***************************************************************************)
(* The git worktrees of delegated tasks (kory/workspace-manager.ts), as    *)
(* the worker pipeline uses them: a task gets a worktree with a branch,    *)
(* and what a successful worker did there is merged into the main branch   *)
(* of the user's checkout, whose own changes are stashed meanwhile.        *)
(*                                                                         *)
(* Git is run synchronously, so that the server does nothing else during a *)
(* reconcile, but it may die after every command.  The user works in the   *)
(* checkout between reconciles.  A git command may fail for reasons that   *)
(* are not modelled wherever its failure is handled.  The contents of the  *)
(* files, the .gitignore entry and the copied .env files are left out.     *)
(***************************************************************************)
EXTENDS Naturals, Sequences, FiniteSets

CONSTANTS
    Task,
    NoTask,
    MaxConcurrent,  \* worktreeLimit
    MaxUserSteps,   \* bound: what the user does in the checkout
    MaxDeaths       \* bound: how often the server dies

ASSUME WorktreeAssumption ==
    /\ NoTask \notin Task
    /\ MaxConcurrent \in Nat \ {0}
    /\ MaxUserSteps \in Nat
    /\ MaxDeaths \in Nat

VARIABLES
    running,    \* the server runs
    worktrees,  \* the Map of the manager
    onDisk,     \* the worktrees that exist, each with its branch
    work,       \* what the worker has done in its worktree
    merged,     \* the tasks whose changes are committed on the main branch
    onMain,     \* the checkout is on the main branch
    edits,      \* the uncommitted changes of the user in the checkout
    untracked,  \* it has untracked files
    staged,     \* the task whose squashed changes are staged
    unmerged,   \* it has conflicts
    stash,      \* git's stash: who made an entry, and what it has
    reconciling, step, stashed,  \* the reconcile under way, and its locals
    userHas,    \* the changes that the user has neither committed nor dropped
    userSteps, deaths,
    overlooked  \* history: the worktrees of which a start got no listing

checkout == <<onMain, edits, untracked, staged, unmerged, stash>>
progress == <<reconciling, step, stashed>>
user == <<userHas, userSteps>>
treeVars == <<running, worktrees, onDisk, work, merged, checkout, progress, user, deaths,
             overlooked>>

Change == 1 .. MaxUserSteps      \* a change of the user is the step that made it
Entry == [by : {"user", "server"}, edits : SUBSET Change, staged : Task \cup {NoTask}]

TreeTypeOK ==
    /\ running \in BOOLEAN
    /\ worktrees \subseteq Task
    /\ onDisk \subseteq Task
    /\ work \in [Task -> {"new", "none", "edited", "committed", "empty", "over"}]
    /\ merged \subseteq Task
    /\ {onMain, untracked, unmerged, stashed} \subseteq BOOLEAN
    /\ edits \subseteq Change
    /\ userHas \subseteq Change
    /\ staged \in Task \cup {NoTask}
    /\ stash \in Seq(Entry)
    /\ reconciling \in Task \cup {NoTask}
    /\ step \in {"none", "stash", "checkout", "merge", "commit", "remove", "pop"}
    /\ userSteps \in 0 .. MaxUserSteps
    /\ deaths \in 0 .. MaxDeaths
    /\ overlooked \subseteq Task

TreeInit ==
    /\ running = TRUE
    /\ worktrees = {}
    /\ onDisk = {}
    /\ work = [t \in Task |-> "new"]
    /\ merged = {}
    /\ onMain \in BOOLEAN
    /\ edits = {}
    /\ untracked = FALSE
    /\ staged = NoTask
    /\ unmerged = FALSE
    /\ stash = <<>>
    /\ reconciling = NoTask
    /\ step = "none"
    /\ stashed = FALSE
    /\ userHas = {}
    /\ userSteps = 0
    /\ deaths = 0
    /\ overlooked = {}

At(s) == running /\ step = s
Goto(s) == step' = s /\ UNCHANGED <<reconciling, stashed>>

-----------------------------------------------------------------------------
\* spawn: at the limit, or if git fails, the worker has no worktree.
SpawnWorktree(t) ==
    /\ At("none")
    /\ work[t] = "new"
    /\ \/ /\ Cardinality(worktrees) < MaxConcurrent       \* canSpawn
          /\ worktrees' = worktrees \cup {t}
          /\ onDisk' = onDisk \cup {t}
          /\ work' = [work EXCEPT ![t] = "none"]
       \/ /\ work' = [work EXCEPT ![t] = "over"]
          /\ UNCHANGED <<worktrees, onDisk>>
    /\ UNCHANGED <<running, merged, checkout, progress, user, deaths, overlooked>>

WorkerEdits(t) ==
    /\ At("none")
    /\ t \in worktrees
    /\ work[t] = "none"
    /\ work' = [work EXCEPT ![t] = "edited"]
    /\ UNCHANGED <<running, worktrees, onDisk, merged, checkout, progress, user, deaths,
                   overlooked>>

\* cleanup: the worktree and its branch are removed, or git fails to.
RemoveWorktree(t) ==
    \/ /\ worktrees' = worktrees \ {t}
       /\ onDisk' = onDisk \ {t}
    \/ UNCHANGED <<worktrees, onDisk>>

\* The worker has failed: cleanup without a merge.
DropWorktree(t) ==
    /\ At("none")
    /\ t \in worktrees
    /\ work[t] \in {"none", "edited"}
    /\ work' = [work EXCEPT ![t] = "over"]
    /\ RemoveWorktree(t)
    /\ UNCHANGED <<running, merged, checkout, progress, user, deaths, overlooked>>

-----------------------------------------------------------------------------
\* The worker has succeeded: reconcile, which first commits in the worktree.
Reconcile(t) ==
    /\ At("none")
    /\ t \in worktrees
    /\ work[t] \in {"none", "edited"}
    /\ \/ /\ work' = [work EXCEPT ![t] = IF @ = "edited" THEN "committed" ELSE "empty"]
          /\ reconciling' = t /\ step' = "stash" /\ stashed' = FALSE
       \/ /\ work[t] = "edited"         \* the commit fails
          /\ work' = [work EXCEPT ![t] = "over"]
          /\ UNCHANGED progress
    /\ UNCHANGED <<running, worktrees, onDisk, merged, checkout, user, deaths, overlooked>>

\* stash push: only if status shows something, which untracked files also do,
\* and whatever became of it.
StashCheckout ==
    /\ At("stash")
    /\ step' = "checkout"
    /\ stashed' = (edits # {} \/ untracked \/ staged # NoTask \/ unmerged)
    /\ IF ~ unmerged /\ (edits # {} \/ staged # NoTask)
         THEN /\ stash' = Append(stash, [by |-> "server", edits |-> edits, staged |-> staged])
              /\ edits' = {}
              /\ staged' = NoTask
         ELSE UNCHANGED <<stash, edits, staged>>
    /\ UNCHANGED <<running, worktrees, onDisk, work, merged, onMain, untracked, unmerged,
                   reconciling, user, deaths, overlooked>>

\* Variant: conflicts are removed to get to the main branch.
CheckoutMain_Forced ==
    /\ At("checkout")
    /\ onMain' = TRUE
    /\ edits' = {}
    /\ unmerged' = FALSE
    /\ Goto("merge")
    /\ UNCHANGED <<running, worktrees, onDisk, work, merged, untracked, staged, stash, user,
                   deaths, overlooked>>

CheckoutMain ==
    /\ At("checkout")
    /\ \/ ~ unmerged /\ onMain' = TRUE /\ Goto("merge")
       \/ UNCHANGED onMain /\ Goto("pop")
    /\ UNCHANGED <<running, worktrees, onDisk, work, merged, edits, untracked, staged,
                   unmerged, stash, user, deaths, overlooked>>

\* merge --squash: the changes are staged, or there are conflicts.
MergeSquash ==
    /\ At("merge")
    /\ \/ /\ staged' = IF work[reconciling] = "committed" THEN reconciling ELSE NoTask
          /\ Goto("commit")
          /\ UNCHANGED unmerged
       \/ /\ work[reconciling] = "committed"
          /\ unmerged' \in BOOLEAN
          /\ Goto("pop")
          /\ UNCHANGED staged
    /\ UNCHANGED <<running, worktrees, onDisk, work, merged, onMain, edits, untracked, stash,
                   user, deaths, overlooked>>

\* Variant: a commit that fails is taken for one that had nothing to commit.
CommitSquashed_Lenient ==
    /\ At("commit")
    /\ \/ staged # NoTask /\ merged' = merged \cup {staged} /\ staged' = NoTask
       \/ UNCHANGED <<merged, staged>>
    /\ Goto("remove")
    /\ UNCHANGED <<running, worktrees, onDisk, work, onMain, edits, untracked, unmerged, stash,
                   user, deaths, overlooked>>

\* The commit fails also when there is nothing to commit.
CommitSquashed ==
    /\ At("commit")
    /\ \/ /\ staged # NoTask
          /\ merged' = merged \cup {staged}
          /\ staged' = NoTask
          /\ Goto("remove")
       \/ UNCHANGED <<merged, staged>> /\ Goto("pop")
    /\ UNCHANGED <<running, worktrees, onDisk, work, onMain, edits, untracked, unmerged, stash,
                   user, deaths, overlooked>>

CleanupReconciled ==
    /\ At("remove")
    /\ RemoveWorktree(reconciling)
    /\ Goto("pop")
    /\ UNCHANGED <<running, work, merged, checkout, user, deaths, overlooked>>

\* The finally block: stash pop, whose failure is not looked at.  It takes the
\* last entry, ends in conflicts and keeps it, or does nothing.
PopStash ==
    /\ At("pop")
    /\ step' = "none" /\ reconciling' = NoTask /\ stashed' = FALSE
    /\ LET n == Len(stash) IN
       \/ /\ stashed /\ n > 0 /\ ~ unmerged
          /\ stash' = SubSeq(stash, 1, n - 1)
          /\ edits' = edits \cup stash[n].edits
          /\ staged' = IF stash[n].staged # NoTask THEN stash[n].staged ELSE staged
          /\ UNCHANGED unmerged
       \/ /\ stashed /\ n > 0 /\ ~ unmerged
          /\ unmerged' = TRUE
          /\ UNCHANGED <<stash, edits, staged>>
       \/ UNCHANGED <<stash, edits, staged, unmerged>>
    /\ UNCHANGED <<running, worktrees, onDisk, work, merged, onMain, untracked, user, deaths,
                   overlooked>>

-----------------------------------------------------------------------------
ServerDiesInGit ==
    /\ running
    /\ deaths < MaxDeaths
    /\ deaths' = deaths + 1
    /\ running' = FALSE
    /\ worktrees' = {}
    /\ step' = "none" /\ reconciling' = NoTask /\ stashed' = FALSE
    /\ work' = [t \in Task |-> IF work[t] \in {"none", "edited"} THEN "over" ELSE work[t]]
    /\ UNCHANGED <<onDisk, merged, checkout, user, overlooked>>

\* git worktree list; nothing, if it fails.
listAllWorktrees == {onDisk, {}}

\* Variant: the manager starts with no worktrees, though git would list them.
RecoverWorktrees_None ==
    /\ ~ running
    /\ running' = TRUE
    /\ UNCHANGED <<worktrees, onDisk, work, merged, checkout, progress, user, deaths,
                   overlooked>>

\* recover: what is listed is tracked again, though no task has it.
RecoverWorktrees ==
    /\ ~ running
    /\ running' = TRUE
    /\ \E listed \in listAllWorktrees :
         /\ worktrees' = listed
         /\ overlooked' = overlooked \cup (onDisk \ listed)
    /\ UNCHANGED <<onDisk, work, merged, checkout, progress, user, deaths>>

\* The user edits, adds a file, stashes, changes branches, or resolves conflicts
\* and commits what is there.
UserWorks ==
    /\ step = "none"
    /\ userSteps < MaxUserSteps
    /\ userSteps' = userSteps + 1
    /\ \/ /\ edits' = edits \cup {userSteps + 1}
          /\ userHas' = userHas \cup {userSteps + 1}
          /\ UNCHANGED <<onMain, untracked, staged, unmerged, stash>>
       \/ /\ untracked' = TRUE
          /\ UNCHANGED <<onMain, edits, staged, unmerged, stash, userHas>>
       \/ /\ edits # {} /\ ~ unmerged
          /\ stash' = Append(stash, [by |-> "user", edits |-> edits, staged |-> staged])
          /\ edits' = {} /\ staged' = NoTask
          /\ UNCHANGED <<onMain, untracked, unmerged, userHas>>
       \/ /\ edits = {} /\ ~ unmerged /\ staged = NoTask
          /\ onMain' = ~ onMain
          /\ UNCHANGED <<edits, untracked, staged, unmerged, stash, userHas>>
       \/ /\ edits # {} \/ unmerged \/ staged # NoTask
          /\ edits' = {} /\ staged' = NoTask /\ unmerged' = FALSE
          /\ userHas' = userHas \ edits
          /\ UNCHANGED <<onMain, untracked, stash>>
    /\ UNCHANGED <<running, worktrees, onDisk, work, merged, progress, deaths, overlooked>>

TreeNext ==
    \/ \E t \in Task : \/ SpawnWorktree(t) \/ WorkerEdits(t) \/ DropWorktree(t)
                       \/ Reconcile(t)
    \/ StashCheckout \/ CheckoutMain \/ MergeSquash \/ CommitSquashed
    \/ CleanupReconciled \/ PopStash
    \/ ServerDiesInGit \/ RecoverWorktrees
    \/ UserWorks

TreeSpec == TreeInit /\ [][TreeNext]_treeVars

-----------------------------------------------------------------------------
(* Properties *)

\* The limit counts every worktree there is and no other, also after a
\* restart, except those that were there when a start got no listing from git:
\* without them there are never more on disk than the limit ("Resource Guard",
\* recover).
LimitCountsWhatExists ==
    /\ running => worktrees \subseteq onDisk /\ onDisk \subseteq worktrees \cup overlooked
    /\ Cardinality(onDisk \ overlooked) <= MaxConcurrent

\* The committed changes of a worker that succeeded are on the main branch or
\* still in its worktree, whichever git command failed or was the last one
\* before the server died.
ReconciledWorkSurvives ==
    \A t \in Task : work[t] = "committed" => t \in merged \cup onDisk

\* The changes of the user that a reconcile moves out of its way are in the
\* checkout or in the stash, whatever fails and whenever the server dies.
UserChangesSurvive ==
    \A e \in userHas : e \in edits \/ \E i \in 1 .. Len(stash) : e \in stash[i].edits

\* "Always try to restore stashed changes": what it takes from the stash is
\* what it put there.
OwnStashOnly ==
    [][\A i \in 1 .. Len(stash) :
         stash[i].by = "user" => i <= Len(stash') /\ stash'[i] = stash[i]]_treeVars
=============================================================================
