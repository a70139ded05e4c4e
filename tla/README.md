# Koryphaios: TLA+ models, checks and proofs

Koryphaios is a workplace for coding assistants. The repository holds it twice:

* the native program, written in Zag, in which a user talks to assistants
  ("providers") that run as command line programs: `src/src/native/core.zag`
  holds its logic behind a command/event interface, `main.zag` is the window on
  top of it, and `src/src/backend/store.zag` keeps sessions and messages in JSON
  files. An older HTTP daemon (`chat.zag`, `routes_*.zag`, the runtime in
  `src/src/zrt`) is still in the tree;
* the application it re-implements, written in TypeScript, complete under
  `src/reference/Koryphaios`: a server (`backend`) whose manager delegates work to
  workers and critics, a page (`frontend`), and a relay (`relay`) through which a
  session is shared with guests.

Both are modelled. Paths of the native program are relative to `src/src`, those
of the TypeScript application to `src/reference/Koryphaios`, unless they say more.

Everything a module of this directory defines is taken from those sources. Where
a document or a comment says something else, the difference is shown by a run of
its own, or listed, under *Findings*.

## 1. Inventory

### The native program

| Component | State it keeps | Operations | Talks to | Hard behaviour | What makes it correct |
|---|---|---|---|---|---|
| Session store (`store.zag`) | list in memory, `sessions.json`, `messages/<id>.json` | create, delete, rename, append, regenerate, open | core and daemon call it; it calls the file helpers | several file writes per operation, results ignored, crash between them | ids unique, counts match histories, nothing listed without history, a deletion is final once its history is gone |
| File and process helpers (`util.zag`) | none | atomic replace, unlink, read-or-empty, spawn, poll, kill | kernel | every call can fail | callers survive each failure |
| Application core (`core.zag`) | active session, selected provider, the running turn, settings, knowledge | `core_dispatch` (one case per command), `core_tick` | store, providers, files | child process runs concurrently, cancel/timeout/exit race | one turn at a time, answers whole and in place, each turn ends and says how |
| Codex adapter (`provider_codex.zag`) | run record, offsets, pending line | spawn, tick, cancel, auth check | child process through files | output after the last read | no output lost, errors reported |
| Startup, settings, recovery (`core.zag`) | schema file, settings file, `ready` | open, retry | files | invalid or half-written files | never ready with invalid settings; retry equals a start |
| Provider registry (`core.zag`) | catalogue, availability, authentication | refresh, select, open | PATH, auth files, auth child | asynchronous login status | only an authenticated provider is selected |
| Migration (`migration.zag`) | legacy root, backup, marker | validate, build, backup, apply | files | crash between steps | restartable; originals never lost |
| Window (`main.zag`) | composer text, modes, focus | key, pointer | core commands | modes share one text buffer | text goes where it was typed for |
| Scene and renderers (`scene*.zag`, `fb.zag`, `gpu_*.zag`) | frame | draw | X11, DRM | none | pixels |
| X11 client (`x11.zag`) | connection | pump, put frame | X server | partial reads | wire format |
| Accessibility, secret service (`atspi.zag`, `secret_service.zag`) | bus state | open, call | D-Bus | peer absent | fail closed |
| Vault (`encrypted_vault.zag`) | sealed file | seal, open | files | crash while sealing | a secret is readable or reported |
| Chat orchestration (`chat.zag`, `app.zag`) | agents, pending tools, questions | stream, tool call, answer, resume, finalise | HTTP, store, tools | callbacks during callbacks | each turn finalised once |
| Workers, critics (`worker.zag`) | parent/child agents | spawn, resolve, finish | chat | lost or late children | the manager always resumes |
| Tools, processes (`tools.zag`, `routes_proc.zag`) | process table | start, kill, poll | kernel | kill racing exit | table matches kernel |
| HTTP routes (`routes_*.zag`) | files | one per route | store, git | none of its own | per route |
| HTTP/WebSocket runtime (`http.zag`, `ws.zag`, `net.zag`) | connection table, buffers | poll, parse, send, upgrade | kernel | descriptors reused, fragments | frames go to the right parser |
| JSON, strings, encodings (`json.zag`, ...) | none | pure | all | boundaries | inverse functions |
| TLS (`tls*.zag`, `x509*.zag`) | handshake | connect, read, write | net | record order | handshake order |
| `zagstd/`, `probe/` | - | - | - | - | vendored code |

The native application is single-threaded: `run_x11` pumps events, calls
`core_tick`, and hands keys and pointer to the core, one handler at a time. What
makes it hard is outside that thread: a provider process that writes and ends
whenever it likes, a disk that takes one file operation at a time and may refuse
any, and the end of the process between two of them.

### The TypeScript application

| Component | State it keeps | Operations | Talks to | Hard behaviour | What makes it correct |
|---|---|---|---|---|---|
| Manager (`backend/src/kory/manager.ts`, `services/SessionStateService.ts`, `services/WorkerLifecycleService.ts`) | per session: abort controller, open question, workflow state, registered workers; task rows | process a message, wake up after a process, turn loop, ask, Stop, timeout, periodic cleanup, recover | providers, tools, workers, database, page | two runs of one session share its registers; an await almost everywhere | questions reach their asker, Stop stops, runs and tasks end, an idle session looks idle |
| Worker pipeline (`services/WorkerPipelineService.ts`) | one delegated task | route, attempt, critic gate, settle | manager, worktrees | retries, Stop in the middle | each task is settled, each worker unregistered |
| Worktrees (`kory/workspace-manager.ts`) | map of worktrees; git's own state | spawn, reconcile, clean up, recover | git, the user's checkout | seven git commands, each may fail; the user's changes are in the way | no committed work and no change of the user is lost |
| Process supervisor (`backend/src/process-supervisor`) | table in memory, rows in the database, restart timers | start, register, exit, kill, restart, initialize | kernel, manager | an exit after a kill, a restart 5 s later, a server that died | rows say "running" only of watched processes; ends are announced |
| Live events (`backend/src/pubsub.ts`, `ws/broker.ts`, `ws/stream-coalescer.ts`) | queue of the broker, text held back, timers | publish, enqueue, flush, dispose | manager, sockets | merged text against later events | once, in order, not for ever held |
| Page socket (`ws/ws-manager.ts`, `server/websocket-handler.ts`, `frontend/src/lib/stores/websocket.svelte.ts`) | clients and subscriptions; candidate address, retry timer | connect, subscribe, heartbeat, close, retry | page, server | a connection lost at any point | what is viewed is subscribed, also after a reconnect |
| Feed (`stores/feed.svelte.ts`, `hooks/useSessionSync.svelte.ts`) | entries shown, loads under way | go to a session, load, live entry | server | requests overtaken by the user and by each other | the feed is that of the active session |
| Collaboration (`backend/src/collaboration`, `relay/server.ts`) | host, guests, history, peer channels | join, decide, broadcast, reconnect | relay, guests | two routes per event, connections replaced | guests see what they may, once |
| Agent threads (`manager.ts`: `runAgentThread`, `sendMessageToAgent`) | threads and their messages | message, cancel | providers, the worker pipeline | loops share one list; a cancelled thread is still in its loop | every request holds each tool call with its result; a quiet agent takes messages |
| Providers (`backend/src/providers`) | registry, accounts | choose, stream, retry | remote services | broken streams | a stream is ended or fails |
| Time travel, shadow log (`backend/src/services/timetravel.ts`, `kory/shadow-logger.ts`) | git refs | checkpoint, rewind | git | none of its own | per command |
| Tools, sandbox (`backend/src/tools`) | none | one per tool | files, shell, git, web | outside world | paths stay inside |
| MCP and LSP clients (`backend/src/mcp`, `lsp`) | request tables | call, answer | child processes | answers that never come | an answer goes to its call |
| Routes, auth, queue, limits, settings | database | one per route | all of the above | none of their own | per request |
| Pages and settings stores (`frontend`) | forms | show, edit | server | none of their own | layout |
| `mcp-server`, `desktop`, `scripts` | none | classify text, package | - | - | text |

The server is one JavaScript thread: a handler runs until it awaits, and every
await is a place for any other handler, timer, request or end of a child. So the
modules have one value of a program counter per await, or, where the database and
git are called synchronously, one step per handler.

The hazards of both programs, each at its line, are in `PROJECT.json`; one that no
property covers says why.

## 2. What is modelled

### `SessionStore.tla` - `store.zag` with the file helpers of `util.zag`

| Model | Code |
|---|---|
| `sessions` | `Store.sessions`, each entry reduced to id and `message_count` |
| `sessionsFile` | `sessions.json` |
| `messages[id]` | `messages/<id>.json`, `NoFile` when absent |
| `writes` | the file operations the running handler has still to issue, in program order |
| `created` | ids `util_nanoid` has handed out; the model never hands one out twice |
| `failures`, `torn` | counters for the bounds: failed file operations, handlers cut short |

An operation changes the memory and queues its file operations in one step;
`SaveSessions`, `SeedMessages`, `WriteMessage` and `UnlinkMessages` take them to
the disk one at a time, in the order the code issues them: `store_create_session`
saves and then seeds, `store_delete_session` saves and then unlinks, an append
writes the message and then `store_touch` saves. The in-memory change of an
append comes after its first write in the code; as nothing reads the memory in
between and a crash discards it, doing both in the first step shows the same
states of the files. `util_write_atomic` writes a temporary file and renames it, so a
single operation is atomic; `FailWrite` lets any of them fail, which the code
ignores everywhere except in `store_commit_regeneration` (`RegenerateFails`).
`AppendOverUnreadable` is the read half of an append failing: `util_read_or_empty`
returns `""`, and the new message replaces the history. `Restart` is the end of
the process at any point followed by `store_open`; `RestartUnreadable` the same
with an unreadable `sessions.json`.

Rejected calls (unknown id, empty or long title) have no effect and are absent.
Titles, times, versions and costs are left out because no control depends on them.

### `Conversations.tla` - the promise

Each conversation is born empty (or imported), grows by one message, loses only
the answer of a trailing prompt/answer pair, goes as a whole and never returns.
`SessionStore!KeepsConversations` maps it to what a program started *now*
would show: `phase` from `sessions.json`, `log` from the message files.

### `NativeTurn.tla` - `core.zag` and `provider_codex.zag` on top of the store

| Model | Code |
|---|---|
| `active`, `selected` | `active_session_id`; the executor of `selected_provider_id` ("cli" for the five providers that share `CliRun`, or "codex") |
| `cliRun`, `codexRun`, `codexSession`, `codexTimedOut` | the fields of the same names in `AppCore` |
| `elapsed` | more than 300 000 ms since the turn started |
| `pc` | where the loop is inside `core_tick`: before it, between a read and its `waitpid`, between the CLI part and the Codex part |
| `child[n]` | the process of turn n: halves of records written, exit status, alive / zombie / reaped / orphan, SIGTERM sent |
| `verdict[n]` | the last `agent_status` of turn n |

`SessionNew` ... `MessageCancel` are the cases of `core_dispatch`; `TickCliRead`,
`CliPollRunning`, `CliFinish` and their Codex counterparts split `core_tick` where
the child can interfere: between the read of its output and `waitpid`.
`CliFinish` reads again, as `core_tick` does for a CLI run; `CodexFinish` uses
what was read before, as `codex_tick` does. `ChildExits` with "noexec" is
`execve` failing after `fork` succeeded (exit status 127). `Reborn` ends the
application; its children become orphans.

A record takes two steps, text and newline, so a read can see half a line; the
line left over when the child has ended counts as a line, as in the code. A
record is one that carries assistant text; other records only move offsets.

Left out: the deterministic test provider (off outside tests); token usage; which
CLI runs; `available`/`authenticated`, which only decide rejections; the branch
`E_SESSION_NOT_FOUND` after a spawn, which `ActiveIsListed` shows unreachable;
records cut by a child that dies in the middle of one; startup failures and
recovery.

### `KoryRuns.tla` - the manager and its worker pipeline

One session of `KoryManager`; sessions share none of this state. A run is one call
of `handleDirectly`.

| Model | Code |
|---|---|
| `pc[r]` | the await the run is at: `starting` (classification in `processTask`), `loop`, `streaming` (`processManagerTurn`), `asking` (`requestUserInput`), `tool`, `routing`, `working` (`runAgentThread` of a worker), `reviewing` (`runCriticGate`), `closing` |
| `controller`, `aborted` | the session's entry of `managerAbortBySession`; the runs whose signal is aborted |
| `timer[r]` | the timeout of `processTask`; a run started by a process has none |
| `pending`, `purpose`, `reply` | `pendingInputResolver` of `SessionStateService`; what was asked; what its promise resolved to |
| `mustAsk` | `firstAskForDirectTools` |
| `turns`, `calls`, `attempts` | turn counter, tool calls of the turn still to execute, attempts of the pipeline |
| `registered` | `activeWorkers` |
| `task`, `workflow` | the task's row in `TaskStore`; `workflowState` |

`Stop` is `POST /:id/cancel`; `TaskTimeout` the callback of the timeout, which
aborts the run registered *now* and settles the question open *now*;
`CleanupAbandoned` the periodic service, which looks at registered workers only.
`Leave` is the `finally` block, which deletes the entry of the session
whosever it is. `Crash` empties the maps and keeps the rows; `Restart` is
`recoverState`. A second question settles the first with `'__cancelled__'`.

A worker's note tools need the user's approval as the manager's do, so a worker at
`working` may put a question of its own (`WorkerAsks`, purpose `worker`); `AtWork` is
"working, or in such a question". It asks also after `Stop` or `CancelWorker`
(`POST /:agentId/cancel`) took it out of the registry, since its loop looks at no abort
signal; the cleanup may then take its question away, and the run that awaits the worker
hangs like a manager (below, `hang`).

Left out: text, tokens, context pruning, auto-commit and checkpoints; what else
happens while a worker is at `working` or a critic, which asks nothing, at `reviewing`
(`AgentThreads` has the loops); the questions of an agent the user writes to directly
(`sendMessageToAgent`), which displace and are displaced as those of a second run are;
`delegate_to_jules`, which asks like a note tool and then runs like a tool; a death of
the server while nothing runs, which changes nothing here.

### `AgentThreads.tla` - the thread of a worker or critic

A loop is a call of `runAgentThread`: the pipeline makes the first one
(`SpawnThread`: `executeWithProvider` or `runCriticGate`), a direct message of the user
may make further ones (`SendMessageToAgent`). `at[l]` is the await a loop is at, its
stream or a tool; `busy`, `shown` and `dialogue` are the thread's `busy`, `status` and
`messages`, which all loops share; `callsLeft[l]` the tool calls of the turn still to
execute. `StreamEnds` pushes the model's message, `ToolReturns` a result, and
after the last result begins the next turn or ends the loop. `CancelAgent` is
`cancelWorker`: it frees the thread but no loop looks at the abort signal, which only makes
streams fail and tools return sooner. `ForgetThread` is `cleanupSession`; a loop
keeps its list. Between the question whether the agent is busy and the mark that it is
there is one await, of `resolveProvider`, which is synchronous; no other request is
handled meanwhile, so `SendMessageToAgent` is one step. Left out: the history a worker's
list begins with, the images of `view_image`, the entries shown on the page, and a call of
`ask_manager` whose arguments are the JSON `null`, which throws.

### `Worktrees.tla` - `workspace-manager.ts`

`worktrees` is the manager's map and `onDisk` what git has; `overlooked` a history
variable, the worktrees of which a start got no listing; `work[t]` what the worker did; `edits`, `untracked`, `staged`, `unmerged`, `stash`, `onMain` the user's
checkout. `reconcile` is one step per git command (`Reconcile` commits in the
worktree, then `StashCheckout`, `CheckoutMain`, `MergeSquash`, `CommitSquashed`,
`CleanupReconciled`, and `PopStash` as the `finally` block), each of which may fail
where the code handles a failure. Git runs synchronously, so nothing else in the
server moves meanwhile, but the server may die between two commands. `listAllWorktrees` is
what the next start gets from `git worktree list`, nothing if that fails:
`recover` then counts no worktree, and none that exist are ever counted before another
start lists them. The user is taken not to work in the checkout during a reconcile.

### `ProcSupervisor.tla` - `process-supervisor/`

`row` is a process' status in memory and in its row, which are written together;
`table` the map `processes`; `child` the process itself; `restartDue` the timers of
`scheduleRestart`; `told` the last lifecycle event. The database is synchronous, so
a handler is one step, except `startProcess`, whose row is there before the child
(`Start`, then `Spawn` or `SpawnFails`). `Initialize` signals the pid found in
each active row, which is always 0 (see *Findings*).

### `StreamCoalescer.tla` - `pubsub.ts`, `ws/broker.ts`, `ws/stream-coalescer.ts`

An event is the place of its publication and has a key: session, type and agent of
a text chunk, `Plain` for any other event, `Direct` for one that a route sends
past the broker. `stream` is the queue of the broker's subscriber, `held` and
`heldOrder` the map `pending` and its order of insertion, `armed` its timers,
`sent` what has gone to the sockets. `Flushed` is what `flushAll` publishes, key by
key in that order.

### `LiveSocket.tla` - the connection of one page

`link[c]` is a connection as the network has it; `page`, `candidate`, `retryDue`,
`viewed`, `active` are the page's `wsConnection`, `wsCandidateIndex`, retry timers,
`subscribedSessions`, `activeSessionId`; `clients`, `subscribed`, `isAlive` the
server's; `wire[c]` the subscriptions under way. Both ends notice the end of a
connection in their own time (`PageCloses`, `ServerCloses`). `refused` are the
candidates for which `new WebSocket` throws, any of them and always the same:
`ConnectThrows` is the `catch` of `connect`, which schedules a retry of the same
candidate, where `onclose` goes on to the next. `Heartbeat` is the 30 s timer; nothing marks a client as alive, since `handlePong` has no caller.

### `FeedLoading.tla` - the history of the chat that is shown

A load is a request with its place in the code: `asked` (the request is under way),
`answered`, `awaiting` (inside `loadSessionMessages`, with the length of the feed
it noted in `start`; `had`, how many messages the chat had then, is there for
`LoadKeepsLiveEntries` only). `useSessionSync` drops a load that is not the latest
(`loadGeneration`); one started by the end of a turn is never dropped.

### `RelaySession.tla` - host, relay and guests

`toHost` and `toRelay` are the two directions of the host's connection;
`hostBroken` and `unclosed` a break that the host, or the relay, has not handled
yet; `channel` and `inChannel` the peer channels; `history` what the relay sends to
a guest that is admitted; `view[g]` what the guest's page has been shown;
`entitled` and `lost` record who was admitted by whom and what was in a channel
that failed. An event is one that every tier may see.

### `MCKoryServices.tla`

The seven services share no state. The module runs them in one configuration, each
on its own: `part` says which one moves, the others stay initial. The sum of
their state spaces is explored, not the product.

## 3. Runs

Deadlock is checked in the store's and the native program's runs, where an idle
program can always be restarted. It is not checked in `kory_runs`, `kory_services`
and the runs of *Findings* that say so: there a system whose bounded inputs are
used up has really stopped. That nothing waits for ever is what the liveness
properties say.

| Run | Question | Bounds |
|---|---|---|
| `store` | Do ids stay unique, counts accurate, files durable, histories listed; does a deleted session come back only if its deletion was cut? | 2 sessions, 1 text, histories up to 3, 1 failing operation, 2 crashes inside handlers; started empty or from an imported directory |
| `store_refines` | Do the files behave as whole conversations? | 3 sessions, 1 text, histories up to 2, no failure, 1 crash |
| `turns` | One run at a time; each answer behind its prompt? | 1 session, 2 turns (so one can regenerate), 1 record, 1 failing operation |
| `turn_sessions` | Is the active session listed, the answer in the session that asked, the CLI answer whole and its end reported; does the turn end? | 2 sessions, 1 turn, 2 records, 1 crash inside a handler |
| `kory_runs` | Do two runs of a session keep its registers consistent; do stopped runs wind down, runs and tasks end? | 2 runs, 1 turn of 1 tool call each, 2 attempts of a worker, 1 crash |
| `kory_services` | Does each of the seven services keep its promises? | see below |
| six `Found_*` runs | see *Findings* | smallest that shows the disagreement |

Why these are enough to be interesting: two crashes inside handlers let drifts
add up, so the bound `torn` of `CountAccuracy` is reached and a count can even
become negative; histories of length 3 hold a prompt, its answer and another prompt;
one failed save followed by a restart is what brings a deleted session back to
the list (and `UniqueIds` must survive that); `DeletionIsFinal` tells deaths in the middle of a
deletion from all others; two turns are
what overwriting a run, answering the wrong prompt and regeneration need; one
record is two halves, so a read can fall between them. Session ids are symmetric in the
two store runs, where no liveness is checked (`SYMMETRY`). With the bound `MaxMessages` at twice
`MaxTurns` an answer is never held back by the bound.

In `kory_runs` two runs are what overlaps; one turn with one tool call reaches every
place of the loop, since a run that has used its turns and one that goes on differ
only in where `loop` leads; two attempts are a retry and the end of retrying; and
the crash may come in any state. Timers, the user, Stop and the cleanup are not
bounded.

In `kory_services`:

| Part | Bounds | Why they suffice |
|---|---|---|
| supervisor | 3 entries, 1 death of the server | a process, its restart, and the restart's; a death in between |
| channel | 2 text keys, 4 events | two chunks of one key with a chunk of another and a plain event, in every order |
| socket | 2 connection names, 2 chats, 2 addresses, 2 cuts, 2 views | a failed first and last address, every choice of addresses of which the browser makes no WebSocket, an old connection the server still has, two subscriptions |
| feed | 2 chats, 2 loads under way, 1 message each, 3 moves | away and back, with a load of the old and one of the new visit |
| relay | 1 guest, 2 host connections, 2 events, a history of 1, 1 break | an event that came by the channel and is in the history, one that fell out of it, a connection replaced before its close is handled |
| worktrees | 2 tasks, limit 1, 3 steps of the user, 1 death | a task at the limit, a change, a stash and a branch of the user, a death in the middle of a reconcile, a start with and without a listing |
| threads | 2 loops, 2 turns of up to 2 tool calls, a list of 8 messages | a loop that uses its turns and a message after it; a second loop at any place of the first after a cancel; turns with none, one and two calls |

`failures = 0` in some properties is not a convenience: with a failed save the code
gives no promise (a count is not saved, a deletion is undone at restart), and the
properties without that condition are the ones that hold regardless.

Each property has a mutant in `PROJECT.json`: a variant operator (named
`<Operator>_<Change>`, next to the operator it varies) with which TLC finds the
property violated.

### Fairness

`LiveSpec` (native program, `TurnsEnd`) assumes: strong fairness of the two reads of `core_tick`, since
`run_x11` calls it in every iteration of its loop, so commands in between disable
the read only for the length of a handler; weak fairness of the rest of the tick
and of issued file operations, which are straight-line code; the clock advances;
and a child that got SIGTERM ends. The last is an assumption on the providers:
the code sends SIGTERM once and never SIGKILL, so with a provider that ignores it the
turn does not end. Nothing is assumed of users, nor of children not signalled.

`KoryFairness` (`RunsEnd`, `TasksSettle`): weak fairness of each run's own steps, as
streams, tools and critics have time limits of their own; of the timer of a
question; of the restart of a server that died; and strong fairness of `WorkerEnds`,
which a worker's questions interrupt: its loop has 25 turns, so it does not ask for
ever. Users need not answer, press Stop or come back, and the timeout of a task is not
needed. Both properties say "again and again, nothing is open": the runs of an instance
are finitely many and a run does not start twice, so this is that each run ends and
each task is settled.

`SupFairness` (`EndsAreAnnounced`): the event loop delivers the exit of a child and
gets past the spawn. `ChanFairness` (`StreamIsSent`): the loop of the broker reads
on and timers fire. `SockFairness` (`PageReconnects`): handlers and timers
run, and, as strong fairness of `PageOpens`, a connection that the heartbeat or the network
keeps cutting short opens at some time; heartbeats are 30 s apart and an
opening takes less. `PageReconnects` ends where the page comes to a candidate in `refused`:
it does not get past that one. The mutants of these properties break the code, not
the fairness.

## 4. Findings

| Run | The code does | The repository says |
|---|---|---|
| `codex_answer` | `codex_tick` reads, then `waitpid`; a record written in between is never read | `docs/NATIVE_CODEX_PROVIDER.md:31`; the CLI path re-reads for this reason (`core.zag:553`) |
| `hang` | the cleanup service takes the open question of a session without a registered worker, resolver and timer with it; its asker waits for ever, as does a cancelled worker with a question of its own, its run and its task | "Auto-resolve after timeout to prevent indefinite hangs" (`SessionStateService.ts:123`) |
| `own_group` | rows are inserted with pid 0 and the update does not write the pid, so that a server started after a crash sends SIGKILL to pid 0, for a row "starting" as for one "running" | "never signal pid 0 (that would hit our whole process group)" (`supervisor.ts:266`) |
| `feed_loss` | a load cuts the feed at the length it noted when it began to await; if another load of the chat, under way at the same time, has put the history there meanwhile, a live entry that came while both awaited is dropped | "Anything pushed onto the feed while we awaited ... belongs after history" (`feed.svelte.ts:479`) |
| `relay_waiting` | the list of waiting guests that the relay sends to a host that connects fills `connectedGuests` only, never `pendingJoins` | "Send pending guest list to host" (`relay/server.ts:585`) |
| `user_stash` | with untracked files only, nothing is stashed, and the reconcile pops an entry of the user | "Always try to restore stashed changes" (`workspace-manager.ts:285`) |

Further statements the code does not keep. Each is a definition of its module; named
as an `INVARIANT` or `PROPERTY` in the configuration of that module, TLC
shows a behaviour that violates it.

| Definition | The code does | Said in |
|---|---|---|
| `CodexTurnsEndWithVerdict` (NativeTurn) | a Codex turn with nonzero status after some text emits no final status | `docs/NATIVE_CODEX_PROVIDER.md:33` |
| `FailureIsReported` (NativeTurn) | a CLI that fails after some text is "done", status and stderr dropped | `docs/NATIVE_PROVIDER_BOUNDARY.md:34` |
| `ReuseMeansUntouched` (NativeTurn) | after a crash between message and count, `session_new` reuses a session that has a message | `docs/NATIVE_SESSION_LIFECYCLE.md:8` |
| `AnswerOutlivesSpawnError` (NativeTurn) | `fork` succeeds, the answer is removed, `execve` fails | comment at `store.zag:282-284` |
| `EveryChildIsReaped` (NativeTurn) | if the rewrite fails the CLI child is signalled and forgotten | `docs/NATIVE_PROVIDER_BOUNDARY.md:33` |
| `ConsentIsGiven` (KoryRuns) | a question displaced by a later one resolves to `'__cancelled__'`, which is not among the refusals (`manager.ts:1189`, `WorkerPipelineService.ts:114`) | what asking for permission is for |
| `StopReachesRuns` (KoryRuns) | a second run replaces the controller of the first, and the first to leave deletes the entry (`manager.ts:1046`, `1358`) | what Stop is for |
| `HealthyClientsStay` (LiveSocket) | `handlePong` has no caller, so the second heartbeat closes a client that works | "Check for stale connections" (`ws-manager.ts`) |
| `WorkingCandidateIsFound` (LiveSocket) | a candidate whose `new WebSocket` throws is tried again for ever, since the `catch` does not move to the next as `onclose` does (`websocket.svelte.ts:858`) | what several candidates are for |
| `OneLoopAtATime` (AgentThreads) | `cancelWorker` frees the thread at once while its loop goes on, so a message starts a second loop on the same list (`manager.ts:2168`) | "Agent is already working" (`manager.ts:2284`) |

Also seen while translating, and kept in the models as the code has it: a kill or a
manual restart does not stop a restart timer that already runs; `restartCount` is 0
in every new entry, so `maxRestarts` never limits; a spawn that throws leaves a row
"starting", which the next start of the server takes for a live process; a killed
external entry is never announced as ended; each chunk starts its flush timer anew;
events that routes send directly overtake text held back; a session viewed while
disconnected is subscribed only if it is still active at the reconnect; a failed
request shows an empty chat; a live entry that comes between the request for a history
and its answer, and is not in the history yet, is cut off also by a single load; worktrees
that exist when `git worktree list` fails at a start are not counted; decisions of the host are lost while it is
disconnected; a worktree of a worker that changed nothing is never removed and keeps
its place under the limit until it is cleaned by hand; a reconcile leaves the checkout on the main
branch, and one that ends in conflicts leaves them in it; a direct message for which there
is no provider stays in the agent's list, and the user is told "processing"; the loop of a
direct message is not registered as a worker, so Stop does not reach it; after a cancel and a
new message the cancelled loop goes on under the new abort signal, which it reads anew in
each turn.

## 5. Proofs

`SessionStoreProofs.tla` proves, for every set of ids, texts and imported
histories and all bounds, under `StoreAssumption` only:

* `TypeCorrect`: `StoreTypeOK`, inductive as it stands;
* `IdsStayUnique`: `UniqueIds`, strengthened by "every listed id has been handed
  out" (`ListsInv`), since uniqueness survives a creation only if the new id is
  known to neither list;
* `DeletedStaysDeleted`: `DeletionIsFinal`, from `StoreInv` and `ListingInv` (below): only a
  restart lists an id that memory has dropped, and of those ids `sessions.json` names at most the
  one whose deletion is being cut, with the unlink of its history still queued;
* `InvariantHolds`: `StoreInv`, the inductive invariant for the rest. `QueueInv`
  lists the shapes the queue can have (a suffix of what some handler queued);
  `FreshInv` says ids not handed out have no history; `SavedInv` says that when no
  save is queued and nothing failed, file and memory agree; `FileAccuracy` bounds
  the drift of the *saved* counts by `torn`, plus one while a handler is between
  its writes. The last is what `CountAccuracy` needs across a restart: the list
  is reloaded from the file exactly when the handler's cut has been counted;
* `CountsStayAccurate`, `IdleStoreIsDurable`, `ListedHistoriesSurvive`:
  `CountAccuracy`, `IdleIsDurable`, `HistoryOutlivesListing`, from `StoreInv`;
* `StoreKeepsConversations`: the refinement `KeepsConversations`, in every behaviour in
  which no file operation fails (`[](failures = 0)`; with a failed save a deleted
  session is back after a restart, which `Conversations` forbids). Besides
  `StoreInv` it needs `ListingInv`, which says by how much memory and file differ for
  each shape of the queue. The write of a message
  maps to `Say`, the rewrite of a regeneration to `Retract`, the save to `Begin` or
  `Remove`, seeding and unlinking to stutters; `RestartGivesUp` is the interesting case: a
  crash between the creation in memory and its save maps to a removal, because the id is
  spent. `UnfailingStoreKeepsConversations` is the same for `MaxFailures = 0`, the value
  the run `store_refines` has.

`NativeTurnProofs.tla` proves about the core, under `StoreAssumption` and
`TurnAssumption`:

* `CoreInvariant`: `CoreInv` is `StoreTypeOK`, `TurnTypeOK` and `Links`. `Links`
  says that each child has one verdict, that a recorded run names one of the
  children, and that the tick stands behind a read only while the run it has read
  for is recorded. Without the last part `CliFinish` would take fields of a run
  that is not there, so the types alone are not inductive;
* `CoreTypeCorrect`: `TurnTypeOK`;
* `ActiveStaysListed`: `ActiveIsListed`, from what each store step does to the
  listed ids (the `ListedAfter...` lemmas): only a deletion takes an id away, and
  `SessionDelete` then chooses the first of what is left;
* `ChildrenAreAttended`: `OneAttendedChild`, inductive given `CoreInv` and that
  failures are only added. `Busy` is what keeps a second run from being recorded;
* `CliTurnsEnd` and `CliAnswersAreWhole`: `CliTurnsEndWithVerdict` and
  `CliAnswerIsWhole`, strengthened by `Kinds` (a recorded run names a child of
  its own executor): then a CLI child is reaped by `CliFinish` alone, never on
  the Codex path, which gives neither promise;
* `CoreKeepsConversations`: the whole core implements `Conversations`, from
  `StoreKeepsConversations`. That theorem, like every one of `SessionStoreProofs`, holds of the
  application, because each action of the core conjoins an action of the store or leaves
  it alone (the lemma `CoreUsesStore`);
* `AnswersFollowPrompts`: `AnswerFollowsPrompt`. That each answer stands behind its prompt
  is not inductive: what is needed is that the prompt is *still last* when the answer
  comes, possibly many handlers later. `PromptInv` says so for the run that is
  recorded (`PromptWaits`: its prompt ends the history of the session that
  asked, or is being written), for an answer already queued (`AnswerWaits`), and that
  the asking session's id is spent, so that no new session can take it over while the run
  goes on (`AskersCreated`). It rests on `OneAttendedChild`: a second run could put a
  prompt behind the first. `ImportedIsUnanswered`, its hypothesis, says that an imported
  history holds prompts only: the property identifies an answer by the number of
  its turn, which turns of an earlier process do not have. The runs of the core import
  nothing.

The TypeScript application, each under the assumption of its module only
(`KoryAssumption`, `ProcAssumption`, `WorktreeAssumption`, `FeedAssumption`,
`SocketAssumption`, `RelayAssumption`, `ThreadAssumption`: the "none" values are not elements, the bounds
are natural numbers):

* `KoryRunsProofs.tla`: `KoryInv`, with one lemma per conjunct and in it one step per
  action. `KoryTypeCorrect`; `OpenQuestionTheorem`, strengthened by
  `AnswersAreAwaited` (only a run that asks has a reply, or a run that asks anew could
  find an old one); `RegistryTheorem`; `ActiveTaskTheorem`; `QuietTheorem`;
  and the action property `WindDownTheorem`, from the types and one lemma on steps;
* `WorkspaceProofs.tla`, about `ProcSupervisor` and `Worktrees`: `SupTypeCorrect`;
  `RowsTheorem`, strengthened by `TableOfTheServer` (a dead server's table is empty);
  `RestartTheorem`, which needs `ChildrenAreNamed`: a child whose exit is still to come is
  called running or killed; `TreeTypeCorrect`; `LimitTheorem`, with the finiteness of
  what is on disk; it speaks of all worktrees but those of which some start got no
  listing; `WorkTheorem`, strengthened by `RemovedIsMerged`, which says how far
  the changes have come at each git command; `ChangesTheorem`, from two
  lemmas about pushing and popping a stash;
* `PageProofs.tla`, about `FeedLoading`, `LiveSocket` and `StreamCoalescer`: `FeedTypeCorrect`;
  `SettledFeedTheorem`, strengthened by `LatestIsForActive`: unless its history is
  shown, the active session has the latest load; `SockTypeCorrect`;
  `SubscriptionsTheorem`, strengthened by `PageIsBeyondOpening`, without which a
  connection's name could be used again while the page still holds it; `ChanTypeCorrect`;
  `SentOnceTheorem`, from `ChanInv`: text held for a key is the key's, in order and unsent
  (`HeldIsOfKey`), the keys with text are those listed and those with timers
  (`HeldIsListed`), the stream is later than all that was read (`StreamIsLater`), and what
  was read and what is to be read leave no gap, even behind a broker that is shut down
  (`NoGaps`). That a flush sends all that is held, in order (`FlushedInOrder`), is an
  induction over the keys; it is carried out on the *set* of the numbers for which the
  claim holds (`AllNumbers`, from the well-foundedness of `<`), and so is the existence
  of the recursive function `FlushedTo` (`JoinsExist`);
* `RelaySessionProofs.tla`: `RelayTypeCorrect`; `EntitledTheorem`, strengthened by
  `SeesByRight` (who is admitted, has a channel or events under way is entitled) and
  `ApprovedByHost` (an approval under way was the host's); `SeenOnceTheorem`:
  `GuestsSeeEachEventOnce`, from `SeenInv`. Its heart is `ExceptedHaveIt`: an event on its
  way to the relay excepts exactly the guests that have it from the host already, or lost
  it. Around it: an event under way is not in the history yet (`EventsAreNew`), what a
  guest has been shown and what is in its channel do not overlap (`InHandOnce`), an
  admitted guest misses nothing of the history (`NothingMissed`), and a
  request to join is decided at most once, so that no guest is admitted, and given the
  history, a second time (`AsksOnce`, `WaitsEmptyHanded`);
* `AgentThreadsProofs.tla`: `ThreadTypeCorrect`; `QuietThreadTheorem`, inductive as it
  stands; `RequestsTheorem`. That a list is whole at each request is not inductive, as it
  is not whole while tools run: `DialogueInv` adds that then one message, the last the
  model spoke (`UnderExecution`), lacks as many results as its loop has calls left,
  and that the loop is alone. What a push does to the results of a message is in
  lemmas about the operator `ResultsOf` (`ResultsKept`, `ResultAdded`).

`ServicesProofs.tla`, about the composition the run `kory_services` explores:
`ServicesTypeCorrect`: `ServicesTypeOK`, from the services' own type theorems. A step
of the composition is one of one service while the others rest, by its definition, so the
theorems about the services apply to it. The model values of `MCKoryServices` play no
part.

So every invariant, every safety property of steps and the refinement that a passing run
checks are proved. Only model-checked are the liveness properties `TurnsEnd`, `RunsEnd`,
`TasksSettle`, `EndsAreAnnounced`, `StreamIsSent` and `PageReconnects`, which depend on
fairness. The proof of `KeepsConversations` and that of `AnswerFollowsPrompt` speak of behaviours,
or states, in which no file operation has failed, as the properties themselves do or the
bound of the run says.

## 6. Not modelled

* Native program: startup, settings, knowledge and recovery (straight-line reads and
  writes behind one flag); the provider registry (probes and one login child); the
  migration (whole-file steps, its crash window is a hazard in the list); the window's
  key dispatch; drawing; X11, D-Bus, TLS and HTTP encodings; the vault around its
  ciphers. The chat, worker and process parts of the Zag daemon re-implement the
  TypeScript services that are modelled, and are not modelled a second time.
* TypeScript application: provider adapters, one per remote interface; tools, each a
  call on the outside world; time travel and the shadow log, single git commands; the
  request tables of the MCP and LSP clients, whose requests have no time limit; routes,
  settings and forms, which share no state between requests beyond the services
  above; guest prompts, tiers and remote inference of the collaboration; packaging.
* Text: prompts, titles, tokens, costs and layout, which no control depends on.

Most of the TypeScript lines are such forms, adapters, routes and tool bodies, so
the modules cover a small share of the lines and most of the places where two
handlers can come in each other's way.
