--------------------------- MODULE ProcSupervisor ---------------------------
(***************************************************************************)
(* The supervised background processes (process-supervisor/supervisor.ts)  *)
(* and their rows in the database (process-supervisor/database.ts).        *)
(*                                                                         *)
(* The database is synchronous, so that no timer, request or exit of a     *)
(* child is handled inside a handler: a handler is one step, except        *)
(* startProcess, which the process may not survive between its row and the *)
(* child.  The status of a process in memory and the one in its row are    *)
(* written together and are one variable.                                  *)
(*                                                                         *)
(* Every start makes a new entry with restartCount 0, a restart too, so    *)
(* that maxRestarts (greater than 0) never refuses one: the count is left  *)
(* out.  The logs, the health row and the removal of old rows are left     *)
(* out, and so is checkHealth, which sees an ended child only after its    *)
(* exit was handled.                                                       *)
(***************************************************************************)
EXTENDS Naturals

CONSTANTS
    Proc,            \* the entries that may be made
    NoProc,          \* no entry
    MaxServerDeaths  \* bound: how often the server dies

ASSUME ProcAssumption ==
    /\ NoProc \notin Proc
    /\ MaxServerDeaths \in Nat

VARIABLES
    serverUp,     \* the server runs
    serverDeaths, \* how often it has died
    spawning,     \* startProcess is between the row and the child
    row,          \* status of an entry, in memory and in its row
    policy,       \* restartPolicy
    child,        \* the process itself; an external one is not ours
    table,        \* processes: the entries in memory
    restartDue,   \* the entries with a restart timer
    told,         \* lifecycle event last emitted
    groupHit      \* signal 9 was sent to pid 0

procState == <<spawning, row, policy, child, table, restartDue, told>>
supVars == <<serverUp, serverDeaths, procState, groupHit>>

Policy == {"never", "on-failure", "always"}
Active == {"starting", "running"}           \* getActiveProcesses

SupTypeOK ==
    /\ serverUp \in BOOLEAN
    /\ serverDeaths \in 0 .. MaxServerDeaths
    /\ spawning \in Proc \cup {NoProc}
    /\ row \in [Proc -> Active \cup {"none", "killed", "crashed", "exited"}]
    /\ policy \in [Proc -> Policy]
    /\ child \in [Proc -> {"none", "alive", "ended", "handled", "external"}]
    /\ table \subseteq Proc
    /\ restartDue \subseteq Proc
    /\ told \in [Proc -> {"nothing", "started", "exited"}]
    /\ groupHit \in BOOLEAN

SupInit ==
    /\ serverUp = TRUE
    /\ serverDeaths = 0
    /\ spawning = NoProc
    /\ row = [p \in Proc |-> "none"]
    /\ policy = [p \in Proc |-> "never"]
    /\ child = [p \in Proc |-> "none"]
    /\ table = {}
    /\ restartDue = {}
    /\ told = [p \in Proc |-> "nothing"]
    /\ groupHit = FALSE

Idle == serverUp /\ spawning = NoProc       \* the next event can be handled

-----------------------------------------------------------------------------
\* startProcess up to the spawn, for an entry not used before.
PersistStart(p, restarts) ==
    /\ row[p] = "none"
    /\ spawning' = p
    /\ policy' = [policy EXCEPT ![p] = restarts]

Start(p, restarts) ==
    /\ Idle
    /\ PersistStart(p, restarts)
    /\ row' = [row EXCEPT ![p] = "starting"]
    /\ UNCHANGED <<serverUp, serverDeaths, child, table, restartDue, told, groupHit>>

\* The child runs, its row says so, and the entry is in memory.
Spawn(p) ==
    /\ serverUp
    /\ spawning = p
    /\ spawning' = NoProc
    /\ row' = [row EXCEPT ![p] = "running"]
    /\ child' = [child EXCEPT ![p] = "alive"]
    /\ table' = table \cup {p}
    /\ told' = [told EXCEPT ![p] = "started"]
    /\ UNCHANGED <<serverUp, serverDeaths, policy, restartDue, groupHit>>

\* The spawn throws, and the row stays.
SpawnFails(p) ==
    /\ serverUp
    /\ spawning = p
    /\ spawning' = NoProc
    /\ UNCHANGED <<serverUp, serverDeaths, row, policy, child, table, restartDue, told,
                   groupHit>>

RegisterExternal(p) ==
    /\ Idle
    /\ row[p] = "none"
    /\ row' = [row EXCEPT ![p] = "running"]
    /\ child' = [child EXCEPT ![p] = "external"]
    /\ table' = table \cup {p}
    /\ told' = [told EXCEPT ![p] = "started"]
    /\ UNCHANGED <<serverUp, serverDeaths, spawning, policy, restartDue, groupHit>>

\* The output of an external process has been quiet for long enough.
QuietExit(p) ==
    /\ Idle
    /\ p \in table
    /\ child[p] = "external"
    /\ row' = [row EXCEPT ![p] = "exited"]
    /\ table' = table \ {p}
    /\ told' = [told EXCEPT ![p] = "exited"]
    /\ UNCHANGED <<serverUp, serverDeaths, spawning, policy, child, restartDue, groupHit>>

-----------------------------------------------------------------------------
\* A child ends, of itself or by a signal.
ChildEnds(p) ==
    /\ child[p] = "alive"
    /\ child' = [child EXCEPT ![p] = "ended"]
    /\ UNCHANGED <<serverUp, serverDeaths, spawning, row, policy, table, restartDue, told,
                   groupHit>>

\* Variant: the exit of a killed process is not announced.
HandleExit_SilentKill(p) ==
    /\ Idle
    /\ child[p] = "ended"
    /\ child' = [child EXCEPT ![p] = "handled"]
    /\ IF row[p] = "killed"
         THEN UNCHANGED <<row, table, restartDue, told>>
         ELSE /\ row' = [row EXCEPT ![p] = "exited"]
              /\ table' = table \ {p}
              /\ told' = [told EXCEPT ![p] = "exited"]
              /\ UNCHANGED restartDue
    /\ UNCHANGED <<serverUp, serverDeaths, spawning, policy, groupHit>>

\* Variant: whether the process was killed is not asked.
HandleExit_ForgetsKill(p) ==
    /\ Idle
    /\ child[p] = "ended"
    /\ child' = [child EXCEPT ![p] = "handled"]
    /\ told' = [told EXCEPT ![p] = "exited"]
    /\ row' = [row EXCEPT ![p] = "crashed"]
    /\ IF policy[p] = "never"
         THEN table' = table \ {p} /\ UNCHANGED restartDue
         ELSE restartDue' = restartDue \cup {p} /\ UNCHANGED table
    /\ UNCHANGED <<serverUp, serverDeaths, spawning, policy, groupHit>>

\* handleProcessExit: only a process that was not killed is restarted, always
\* or after a nonzero exit code.  One that waits for its restart stays in
\* memory.
HandleExit(p) ==
    /\ Idle
    /\ child[p] = "ended"
    /\ child' = [child EXCEPT ![p] = "handled"]
    /\ told' = [told EXCEPT ![p] = "exited"]
    /\ \E status \in IF row[p] = "killed" THEN {"killed"} ELSE {"exited", "crashed"} :
         /\ row' = [row EXCEPT ![p] = status]
         /\ IF \/ status # "killed" /\ policy[p] = "always"
               \/ status = "crashed" /\ policy[p] = "on-failure"
              THEN restartDue' = restartDue \cup {p} /\ UNCHANGED table
              ELSE table' = table \ {p} /\ UNCHANGED restartDue
    /\ UNCHANGED <<serverUp, serverDeaths, spawning, policy, groupHit>>

\* Variant: the row of a killed process is left as it is.
Kill_KeepsRow(p) ==
    /\ Idle
    /\ p \in table
    /\ table' = table \ {p}
    /\ UNCHANGED <<serverUp, serverDeaths, spawning, row, policy, child, restartDue, told,
                   groupHit>>

\* killProcess sends SIGTERM, which the child may ignore; an external entry is
\* dismissed without a signal.  A restart timer keeps running.
Kill(p) ==
    /\ Idle
    /\ p \in table
    /\ row' = [row EXCEPT ![p] = "killed"]
    /\ table' = table \ {p}
    /\ UNCHANGED <<serverUp, serverDeaths, spawning, policy, child, restartDue, told,
                   groupHit>>

\* restartProcess kills the entry if it is still there and starts another.
RestartProcess(p, q) ==
    /\ Idle
    /\ row[p] # "none"
    /\ PersistStart(q, policy[p])
    /\ row' = [row EXCEPT ![p] = IF p \in table THEN "killed" ELSE @, ![q] = "starting"]
    /\ table' = table \ {p}
    /\ UNCHANGED <<serverUp, serverDeaths, child, restartDue, told, groupHit>>

\* The timer of scheduleRestart fires, whatever happened to the entry since.
RestartFires(p, q) ==
    /\ Idle
    /\ p \in restartDue
    /\ restartDue' = restartDue \ {p}
    /\ PersistStart(q, policy[p])
    /\ row' = [row EXCEPT ![q] = "starting"]
    /\ UNCHANGED <<serverUp, serverDeaths, child, table, told, groupHit>>

-----------------------------------------------------------------------------
\* The server dies; its children live on and end without a handler.
ServerDies ==
    /\ serverUp
    /\ serverDeaths < MaxServerDeaths
    /\ serverUp' = FALSE
    /\ serverDeaths' = serverDeaths + 1
    /\ spawning' = NoProc
    /\ child' = [p \in Proc |-> IF child[p] = "none" THEN "none" ELSE "handled"]
    /\ table' = {}
    /\ restartDue' = {}
    /\ UNCHANGED <<row, policy, told, groupHit>>

\* initialize.  The pid of a row is the 0 it was inserted with, since the
\* update of persistProcess does not write it, so that cleanupOrphans signals
\* process group 0, its own, and is killed before it updates the row.
Initialize ==
    /\ ~ serverUp
    /\ IF \E p \in Proc : row[p] \in Active
         THEN groupHit' = TRUE /\ UNCHANGED serverUp
         ELSE serverUp' = TRUE /\ UNCHANGED groupHit
    /\ UNCHANGED <<serverDeaths, procState>>

SupNext ==
    \/ \E p \in Proc :
         \/ \E restarts \in Policy : Start(p, restarts)
         \/ Spawn(p) \/ SpawnFails(p) \/ RegisterExternal(p) \/ QuietExit(p)
         \/ ChildEnds(p) \/ HandleExit(p) \/ Kill(p)
         \/ \E q \in Proc : RestartProcess(p, q) \/ RestartFires(p, q)
    \/ ServerDies
    \/ Initialize

SupSpec == SupInit /\ [][SupNext]_supVars

\* What the event loop delivers.
SupFairness ==
    \A p \in Proc : WF_supVars(HandleExit(p)) /\ WF_supVars(Spawn(p) \/ SpawnFails(p))

-----------------------------------------------------------------------------
(* Properties *)

\* While the server runs, exactly the entries whose row says "running" are
\* supervised and have been announced as started but not as ended: neither
\* kills, restarts, exits nor the death of the server leave a row that claims
\* a process nobody watches (updateProcessStatus, processes.delete).
RunningRowsAreSupervised ==
    serverUp => \A p \in Proc :
        row[p] = "running" <=> p \in table /\ told[p] = "started"

\* A restart is scheduled only for a process that ended by itself: the exit
\* that a kill causes, whenever it comes, restarts nothing (wasKilled).
KilledIsNotRestarted ==
    [][\A p \in Proc : p \in restartDue' \ restartDue => row[p] = "running"]_supVars

\* The end of a child that the server has started is announced, also after a
\* kill, unless the server dies first: the session that waits for it is woken.
EndsAreAnnounced ==
    \A p \in Proc : child[p] = "ended" ~> told[p] = "exited" \/ ~ serverUp

\* "never signal pid 0 (that would hit our whole process group)".
NeverSignalsOwnGroup == ~ groupHit
=============================================================================
