# TLA+ models and proofs of Tang Agent Dashboard

The dashboard's daemon runs coding agents (Pi, Codex, Claude, OpenCode) as child
processes and lets WebSocket clients create, resume, prompt, interrupt and close
their sessions. What is hard in it is not any single handler but their
interleavings: every handler is cut at its `await`s, requests are dispatched as
they arrive, agents answer and report on channels of their own, and processes
die. This directory models those interleavings, checks them with TLC and proves
the main invariants with TLAPS.

## 1. The system

| Part | State it keeps | Operations | Interacts with |
|---|---|---|---|
| Session orchestrator, `daemon/src/agent-manager.ts` | `sessions` (id -> live session), `running` (ids with a turn), provider clients | create, resume, prompt, interrupt, permission, setModel, setThinkingOption, close, deleteProject, history, shutdown | calls provider clients and sessions (awaits), reads and writes the store, broadcasts session events |
| Session store, `session-store.ts` | SQLite rows: cwd, model, mode, thinking option, handle; the legacy `sessions.json` | get, put, putMany, touch, remove, removeByCwd, migration | called by the orchestrator and the history import |
| WebSocket server, `ws-server.ts` | connected sockets | one dispatch per message, not queued; broadcast; close | orchestrator; UI clients |
| Entry point, `index.ts` | `shuttingDown` | start, shutdown sequence | all of the daemon |
| Turn orchestration, `provider-runner.ts` | per run: turn id, kept events, settled, final text | `runProviderTurn` | a provider session's `startTurn` and event stream |
| Codex, `providers/codex/*` | `activeTurnId`, `closed`, pending requests, timers, streamed text | startTurn, interrupt, close, notifications, approvals, exit | app-server over stdio |
| Pi, `providers/pi/*`, `jsonl-rpc-process.ts`, `tree-kill.ts` | the same, pending requests rejected on close | prompt, abort, close, events, exit | pi process over stdio |
| Claude, `providers/claude/agent.ts` | `activeTurnId`, one query per turn, session id made up until the first init | startTurn, interrupt, close, consumeQuery, permissions | agent SDK |
| OpenCode, `providers/opencode/agent.ts` | `activeTurnId`, event stream, pending permissions | startTurn, interrupt, close, events | opencode server over HTTP and SSE |
| OpenCode server manager, `opencode/server-manager.ts` | current server, start under way | acquire, release, start, readiness, shutdown | opencode process |
| History import, `history-import.ts` | none | scan, import | agents' files, store |
| UI client, `ui/src/ws.ts`, `state.ts`, `App.tsx` | socket, pending calls, sessions, selection, running marks, lists of the threads | connect, rpc, push handlers, applyEvent | daemon |
| Desktop shell, `desktop/src/*` | daemon child, quit state | start, wait for ready, stop | daemon process |

The daemon is a single JavaScript thread, and so is the window. An action of a
model is therefore the code between two awaits; what interleaves is the segments
of different requests, the events of the agents and the timers.

Behaviours that are hard to get right and hard to test, and what correctness
means for each part:

- *Orchestrator*: a value read before an `await` is used after it
  (`resumeSession` writes back a row it read earlier, `deleteProject` loops over
  keys it copied, `shutdown` closes a copy of the map). Correct: the map holds
  open sessions under their own ids; an id has at most one turn; no agent process
  is without an owner that will close it; the row agrees with the session in
  force and suffices to resume it.
- *Turns*: the response of a request, the notifications of the agent, a timeout,
  an interrupt, a close and the death of the process settle the same promise.
  Correct: a run always has something left that will settle it; it is settled
  once, by its own turn; an interrupt or a close settles it, as canceled.
- *The shared OpenCode server*: it starts, fails, dies and is shut down while
  callers wait for it. Correct: one server runs, none outlives the daemon, every
  caller is answered.
- *The library*: a migration cut by a crash, an import that scans the disk while
  rows are written. Correct: one row per conversation, what was deleted stays
  deleted, an import only adds, and the scan finds what is there.
- *The window*: pushes cross replies, a connection breaks, the agent's words are
  streamed, sent again whole and interrupted. Correct: list and running marks
  agree with the daemon, a completed turn is shown as it was said, what the agent
  asks can be answered.
- *The shell*: a quit while the daemon boots or stops. Correct: no daemon is left
  behind untold.

## 2. The modules

| Module | Models | Composed with |
|---|---|---|
| `AgentManager` | `agent-manager.ts`, the rows of `session-store.ts`, request dispatch of `ws-server.ts`, shutdown of `index.ts` | |
| `ProviderRunner` | `runProviderTurn` | extended by every module of turns and by `Timeline` |
| `TurnContract` | the abstract promise of a run | implemented by `PiTurn`, `ClaudeTurn`, `Opencode` |
| `CodexTurn` | turns of `codex/agent.ts` over `codex/app-server-transport.ts` | extends `ProviderRunner` |
| `PiTurn` | turns of `pi/agent.ts` over `pi/runtime.ts` and `jsonl-rpc-process.ts` | extends `ProviderRunner` |
| `ClaudeTurn` | turns of `claude/agent.ts` | extends `ProviderRunner` |
| `OpencodeServer` | `opencode/server-manager.ts` | |
| `OpencodeTurn` | turns of `opencode/agent.ts` | extends `ProviderRunner` |
| `Opencode` | a session on the shared server | `OpencodeServer`, `OpencodeTurn` |
| `Library` | rows, migration and import: `session-store.ts`, `importHistory`, and the writes of the orchestrator | |
| `HistoryScan` | the scan of `history-import.ts` | |
| `Timeline` | from the agents' streams to the list on the screen: the event handlers of the four `agent.ts`, `finalText`, `state.ts` | extends `ProviderRunner` |
| `Desktop` | `desktop/src/main.ts`, `daemon-manager.ts` | |
| `Dashboard` | `App.tsx`, `ws.ts` and the order of the daemon's replies and pushes | extends `Desktop` |
| `MC*` | instances for TLC | the module they name |
| `*Proofs` | theorems | the module they name |

**AgentManager.** `sessions`, `running` and `store` are the maps of the code.
`instance` is the life cycle of each `AgentSession` object (opening, open,
closing, closed, leaked), which the code keeps implicitly in promises and child
processes. `calls` holds the requests in flight: at which `await` each is
suspended and what it captured (id, session, row, argument, remaining keys of
`deleteProject`). A request is two or more actions: `ResumeSession` up to
`client.resumeSession`, then `ResumeReturns` (which includes the `put` and
`register`) or `OpenFails`. `setModel` is three: the request, the agent's change of
its model (`SetModelApplies`), and the write of the row when its answer arrives
(`SetModelReturns`); Pi's request can time out before or after the change
(`SetModelTimesOut`, `SetModelUnanswered`), and a change that was given up may still
come (`LateModelChange`). `deleteProject` is a loop of `DeleteCloses` and a
final `DeleteEnds`; the keys the loop passes over without waiting are skipped in
the same action, as in the code. A request that fails before its first `await`
changes nothing and has no action. `displaced` and the field `drifted` are history:
the instances a second `register` of their id has put out of the map, and those
whose model changed after the request had failed. Rows keep cwd, model, thinking option and the
presence of a handle; mode, system prompt and title are written exactly like the
model of a resumed row and are left out.

**ProviderRunner, CodexTurn.** `run` is the one `runProviderTurn` in progress and
`outcome` what each prompt's promise settled with. `active` is `activeTurnId`;
it records the turn it was set for, which the code cannot know, and the code's
decisions only test it for null. `pending` is the transport's map of pending
requests, `micro` the promises that are settled but whose continuation has not
run. Lines of one stdout chunk are handled before those continuations, so lines
may be read while `micro` is not empty; requests of clients, timers and the exit
event may not come between (guard `Idle`). The app-server is external; it is
assumed serial: it begins a turn when the previous one has ended, and ends a turn
only after it has answered `turn/start` and announced `turn/started`, in either
order.

**PiTurn.** As `CodexTurn`, with the differences that matter: requests carry the
transport's ids and stay in `inbox` until Pi answers them, so an answer can come
after its timeout; `active` is set by the continuation of the acknowledgement
(`StartReturns`), so whatever Pi says before it finds no active turn; the end of a
turn names no turn; `interrupt` always sends an abort; `close` rejects what is
pending and keeps the subscribers. `micro` is a set: how many awaits lie between
a promise and its continuation differs between requests, so any order of
continuations is allowed. Pi is external: it is assumed to take a prompt only
when it is idle and has answered what was sent before, and to confirm an abort
only when it is idle. It may handle a prompt without its agent
(`agentInvoked: false`), refuse anything, and never answer.

**ClaudeTurn.** Every turn is a query with a stream of its own; `streams` are
those `consumeQuery` still reads, which may belong to earlier turns. The session
id is made up until the first `init` arrives (`session`), and each query is told
which conversation to resume (`resumed`) from what was known when it began.
The stream of an earlier query may send its init, its result or its error at any
time, also while a later turn runs. `interrupt` awaits `query.interrupt`, and
`close` awaits `query.return` and the last stream, but no interrupt.

**OpencodeServer, OpencodeTurn, Opencode.** Prompts and aborts are HTTP requests,
the end of a turn is an event of another channel without order against them, and
events and aborts of an earlier turn may be under way when the next one begins:
`crowded` (history) are the turns of which that is so.
`ready` is the promise every caller of a start waits for; a caller that joined a
running start reads `current` again when its wait is over. `Opencode` puts a
session on the server its `acquire` was given, next to another caller (the model
list), with a server process that can die at any step, and a daemon that shuts
down while sessions are being opened.

**TurnContract.** What `run()` promises its caller, whatever the provider: turns
are settled one at a time and once each, a verdict is about the turn it is given
for, only a turn that was asked to stop is canceled, such a turn can be neither
completed nor failed, and it is settled. `PiTurn`, `ClaudeTurn` and `OpencodeTurn`
instantiate it with a refinement mapping (`current` is the run's turn, `asked` the
turns with a stop under way or behind them, `verdict` the type of the outcome) and
the runs check it as the property `ImplementsContract`. Pi keeps all of it. Claude and OpenCode keep less, and
their mappings say what: a Claude turn may be told the failure of an earlier query
(`Told`), and of a `crowded` OpenCode turn nothing is claimed but that it is settled
once and in turn. Their liveness excepts what a close cuts off: Claude's is the
second half of its `ImplementsContract`, OpenCode's is `StopSettlesRun`, which a
daemon that exits ends, too. Codex does not keep it: the violation runs show both ways in which it fails.

**Library.** A row is its handle and whether its settings were chosen here. There
are two kinds of agents, because they differ in what an import must recognise:
those whose session id is the conversation's own name (Codex), and those that
name a conversation in its first turn, under an id made by this software
(Claude). The migration is `Start` (up to COMMIT), `Archive` (the rename, which may
fail) and a crash between or after them; an import is three steps (known ids, scan,
putMany), between which every other writer of rows may run. History variables name
what is lost by that: `unarchived` (the migrated file stayed in place),
`import.racing` (the conversations whose rows are written or removed after the
import has read what is known) and `crossed` (chats it took for new although a
session had begun them).

**HistoryScan.** One conversation and its files. A line is its kind and its place.
The scan lists the directories in the code's order, then stats and reads each file,
while the agent writes on, copies the file, archives and unarchives it. The tail that
is read is that of the file as it was at the stat, or, of a small file, as it is now.

**Timeline.** A text is the sequence of the pieces it was sent in. Sessions
accumulate pieces (`text`, `thinking`), send messages whole at their end, skip a
message they think was shown (`Repeats`), attribute events to the active turn and
turn tool statuses into the protocol's; `AppendItem` and `Without` (what removes a card)
are `state.ts`. `pieces` counts what was sent, to bound it. Which agent it is, is chosen
in `Init`.

**Desktop, Dashboard.** `requests` and `inbox` are the two directions of the one
socket; a break drops both. The daemon's side is reduced to what it keeps of a
session (`rows`, `open`, `run`) and what it pushes and replies, in order, with its
awaits: a resume is looked up (`DoResume`) and registers later (`ResumeEnds`),
whatever is open by then; a close takes the session out of the map (`DoClose`) and
tells its end only when the agent is gone (`CloseEnds`); a deletion awaits the close
of each session before it removes the rows (`DoDelete`, `DeleteGoesOn`). What a turn
does is taken from the modules of turns: an agent that is closed tells the end of its
turn at once, later or never (`LetGo`, `LeftSettles`). `create` is one step, because
nobody can name its session before. `Dashboard` extends `Desktop`: the daemon is a
child of the shell, and the window lives while the shell does. The shell's poll looks
for its child, then awaits a probe of the port (`PollProbes`, `PortAnswers`,
`ProbeFails`), during which the child may die and the user may quit.

Some modules define variants (`CloseSessionKeepsKey`, `StartTimesOutEarly`, ...)
next to the definition they vary. They are plausible mistakes; substituting one
for its definition makes the property named beside it in `PROJECT.json` fail,
which shows that the property depends on that piece of code.

## 3. Assumptions, and the exceptions the properties name

Where the code does not enforce what a property would need, the model does what the
code does, and the property names the exception as a predicate on states. So every
exception is a behaviour of the model, and everything else is claimed. They are:

- *A session resumed twice* (`displaced`): `resumeSession` never looks at `sessions`,
  `register` overwrites the entry, and the UI has no guard against a second click
  (`App.tsx:364`). The first agent process is in no map afterwards (`NoOrphan`), its
  turn cannot be interrupted (`TurnReachable`), and two sessions share a row
  (`ModelPersisted`).
- *A change of the model that timed out* (`drifted`): Pi may apply it after `setModel`
  has thrown (`jsonl-rpc-process.ts:122`), and the row keeps the old one
  (`ModelPersisted`). While a change is under way, row and agent differ anyhow.
- *A late failure of an earlier Claude query* (`Told`): the `catch` of `consumeQuery`
  fails whatever turn is active (`claude/agent.ts:371`). `SameTurn` says that session
  and run agree all the same.
- *A late init of an earlier Claude query*: the session goes over to that query's
  conversation (`claude/agent.ts:391`). `OneConversation` says that it can only be one of
  a turn that was stopped or failed before the completed one.
- *A close during an interrupt* (`closing = "done"`): Claude's and OpenCode's `close`
  wait for their streams and drop the subscribers, whether `query.interrupt()` or the
  abort has been answered or not (`claude/agent.ts:326`, `opencode/agent.ts:316`); the
  `turn_canceled` of the interrupt then reaches nobody (`SameTurn`, `StopSettlesRun`,
  `ImplementsContract`).
- *An OpenCode turn that begins while something of an earlier one is under way*
  (`crowded`): `session.idle` and `session.error` name no turn and end the next one.
- *A sessions.json that stayed in place* (`unarchived`): after a crash or an error
  between COMMIT and the rename, a start with an empty library migrates its rows again
  (`NoResurrection`).
- *An import that overlaps other writers* (`import.racing`, `crossed`): it overwrites a
  row registered after it has read the known ids (`ImportOnlyAdds`), and gives a second
  row to a chat that it finds on disk before the chat's own row names it
  (`OneRowPerConversation`).
- *The window*: a deleted row is shown as active until the next list when a list or a
  resume crosses the deletion, and one whose session is being closed is not sure
  (`MayShow`, `Sure`); the end of an agent that was closed slowly is told during the
  turn of the next one, and unmarks it (`unmarked`, `agent-manager.ts:186`); pushes lost
  in a break are never repeated, so running marks are claimed for turns that began over
  the present connection (`fresh`).

One parameter is left: `Obliging` (`CodexTurn`), TRUE when the app-server answers
`turn/start` within the 90 s of `TURN_START_TIMEOUT_MS` and refuses no interrupt. Only
`UninterruptedIsOwn` needs it; the other proofs do not. `TitlePeriod`
(`HistoryScan`) is how often Claude writes its titles again, which is Claude's.

## 4. The runs

| Run | Instance | Shows |
|---|---|---|
| `sessions` | 2 ids, 2 instances, 2 requests in flight, 2 directories, 1 model beside none | `TypeOK`, `LoadedIsOpen`, `SingleTurn`, `HandlePersisted`, `NoOrphan`, `TurnReachable`, `ModelPersisted` |
| `sessions_exit` | 2 ids, 3 instances, 2 requests | `ShutdownLeavesNoAgent` fails |
| `codex_turn` | 3 prompts, `Obliging` | `TypeOK`, `NoLostSettle`, `UninterruptedIsOwn`, and `InterruptSettles` under fairness |
| `codex_foreign` | 3 prompts | `CompletedIsOwn` fails |
| `codex_close` | 1 prompt | `CloseSettles` fails under fairness |
| `pi_turn` | 3 prompts, 5 requests | `TypeOK`, `SameTurn`, `OwnOutcome`, and `EndSettles`, `ImplementsContract` under fairness |
| `claude_turn` | 3 turns | `TypeOK`, `SameTurn`, `OneConversation`, and `ImplementsContract` under fairness |
| `opencode` | 2 turns, 2 servers, 2 callers | `TypeOK`, `OnlyCurrentRuns`, `SameTurn`, `ImplementsContract`, and `AcquireAnswered`, `StopSettlesRun` under fairness |
| `library` | 2 conversations of each kind, 2 own ids, 2 legacy rows | `TypeOK`, `OneRowPerConversation`, `NoResurrection`, `ImportOnlyAdds` |
| `history` | 2 files, 5 lines, windows of 1 and 3 lines | `TypeOK`, `ConversationFound`, `TitleIsLatest` |
| `dashboard` | 1 session, 2 directories, 1 message each way, 1 break, 1 resume and 1 close or deletion awaited | `TypeOK`, `DaemonTold`, `ViewTracks`, and `Reconnects` under fairness |
| `timeline` | the 4 agents, 2 turns, 2 messages, 3 pieces and 2 requests for permission | `TypeOK`, `TurnShown`, `Answerable` |

*Bounds.* `Requests` bounds the requests in flight: two suffice for every pair of
overlapping segments, and every hazard listed for the orchestrator is between two
requests, or a request and an event or the shutdown. `Instances` bounds how many
sessions are ever opened. `MaxTurns` bounds the prompts: with three, something left
over from one turn meets the next, and meets the one after it; `Opencode` has two,
so what is left over from a turn meets the next one (a third exceeds the run's time;
the theorems are about any number). In `PiTurn` an abort
needs no turn, and `MaxRequests` bounds the requests: five are three prompts and
two aborts, one early and one late. `MaxServers`: two servers allow a failed or
dead one to be replaced. `HeadSize`, `TailSize` and `MaxLines` let the windows
overlap, touch and leave a gap; `Huge` equals `MaxLines`, so a file grows past the
limit during a scan. `MaxQueue` bounds both directions of the socket: one message
in each direction is enough for a request to cross a push; several requests are
under way in turn. `Opening` and `Shutting` bound the resumes, and the closes and
deletions, that the daemon awaits at once: one of each cross each other, and a second
resume begins when the first has registered. The run has one session, over its whole
life and any number of times created, closed, resumed and deleted; what is claimed is
claimed of each session, instances with two exceed what TLC can do in the time, and the
theorems are about any number of sessions, resumes and closes. One import at a time is
a bound of `Library` itself. `MaxDrops`: one break, before, during and after every exchange,
and a reconnect. `MaxMessages`, `MaxPieces` and `MaxAsks` bound what an agent says
in all its turns: a reasoning, a text and a second piece to accumulate.
`sessions` uses symmetry over ids, instances and requests, which no definition
distinguishes; it checks no liveness.

*Deadlock* is not checked in any run: the daemon exits, instances, prompts, pieces
and servers run out, a closed session or an exited shell has nothing left to do.

*Fairness.* Node runs queued continuations and expired timers, so those are fair
everywhere; nobody has to prompt, interrupt, close or quit, no agent has to end a
turn, and no process has to die. Beyond that:
`CodexTurn!Fairness` asks that the app-server answer what it is asked (it may
refuse); `CloseSettles` fails even so. `PiTurn!Fairness` asks nothing of Pi: its
requests all have a timeout of 30 s. `ClaudeTurn!Fairness` asks that the SDK answer
`interrupt()` and `return()`, and end an aborted stream: the code waits for them
without a timeout. `Opencode!Fairness` asks that the HTTP client answer or give up
and that an aborted stream, or that of a dead process, end; the start of a server
has its own timers. `Dashboard!Fairness` asks that a socket opens or fails, that
messages arrive, and that the daemon dispatches.

## 5. Findings

1. *Shutdown during open* (`sessions_exit`). `shutdown` closes the sessions of
   its snapshot; one still being opened survives the daemon, which has just
   logged that every child process is closed (`index.ts:68`).
2. *Foreign end* (`codex_foreign`). Terminal events are not matched with the turn
   that waits. After an interrupt, the end of the old turn can settle the new
   run as completed, what `agent-manager.ts:113` means to exclude.
3. *Close during interrupt* (`codex_close`). `interrupt` has cleared
   `activeTurnId`, so `close` emits nothing, drops the subscribers and rejects no
   pending request: `run()` never settles, against `codex/agent.ts:397`. The id
   then stays in `AgentManager.running` and later prompts of the resumed session
   are refused.

What the models also show, without a run of its own:

- A session registered while `deleteProject` awaits a close stays loaded without a
  row (`agent-manager.ts:192`); a Pi client whose `getState` fails leaves its
  process behind (`pi/agent.ts:84`); the consequences of a double resume, of a
  timed-out change of the model, of late messages, of an import that overlaps and of a
  crash between COMMIT and rename are in section 3. The comment at
  `history-import.ts:695` calls the import idempotent, sessions created here included,
  and that at `session-store.ts:165` the migration one-time, which holds but for those
  exceptions.
- *Claude and OpenCode* have the defect of `codex_close`, too: a close while an
  interrupt is unanswered leaves `run()` pending, against the comments at
  `claude/agent.ts:304` and `opencode/agent.ts:301`. `SameTurn` and `StopSettlesRun`
  name it as their exception.
- *Pi*: an abort sent before the acknowledgement stops the turn, whose `agent_end`
  is then reported as completed, what `pi/agent.ts:311` means to avoid (with the
  abort of an active turn it is not: theorem `InterruptedNotCompletedAlways`). An
  `agent_end` in the same chunk as the acknowledgement is dropped, and a prompt that
  Pi handles without its agent never ends; `SameTurn` shows what is left: the turn
  stays active, so an interrupt, a close or the exit of the process settles it.
- *OpenCode*: the exit code of a server ended by a signal stays null, so
  `getCurrent` hands out the dead server; an event stream that ends silently settles
  nothing; when `promptAsync` throws, `activeTurnId` stays set; an error without a
  session id fails the active turn of every session; an interrupt without an active
  turn only aborts on the server.
- *Screen* (the exceptions written into `TurnShown`): of Codex's reasoning only the
  last delta stays (`codex/agent.ts:561`; compare the comment at `pi/agent.ts:375`);
  Pi's `message_end` sends reasoning and text again after they were streamed, and
  text accumulated over earlier messages stays beside it (`pi/agent.ts:381`).
  What an interrupted turn still says carries no turn and is shown apart; a card in
  the middle of a text splits it; an aborted Claude turn leaves a dead card, and
  what an interrupted Codex, Pi or OpenCode turn asked stays pending.
- *Shell*: the poll counts any listener on the port as the daemon; a daemon that is
  not ready in time is left behind (`gaveUp`); a second quit while `stop` waits is
  not deferred (`DaemonTold` holds: it has been told by then); a quit while the
  daemon boots makes the poll find no child, and the shell exits with code 1.

## 6. Proofs

Each theorem holds for every value of the constants that satisfies the named
assumptions of its module, and, where it says so, under `Obliging` or a bound on
`TitlePeriod`; none rests on what clients, agents or servers are hoped to do beyond
what the module states of them.

**`AgentManagerProofs`** proves `TypeOK`, `LoadedIsOpen`, `SingleTurn`,
`HandlePersisted` and `LoadedRowHasCwd` for any client. `LoadedIsOpen` is not
inductive: `ResumeReturns` registers the instance its request holds, so one must
know that it is still opening, and that no other request opens the same instance.
`IInv` adds what each suspended request holds (`CallsOK`), that two requests open
different instances (`OpenersApart`), that what the shutdown drains is no longer
open (`DrainingClosed`) and that an open instance has an id (`OpenHasId`). The
other invariants are proved inductive relative to `IInv`.

It also proves `NoOrphan`, `TurnReachable` and `ModelPersisted`, for any client. The
step that could break the first is `Register`, which may overwrite a loaded key: then
the instance that was there is displaced (`HoldersKept`), and nothing else is lost, also
during the shutdown (`DrainsInShutdown`). The other two are about the agreement of map,
instances and rows (`KInv`): an agent is started with the settings its request goes on to
store (`StartsFromRow`), every open instance is the one in the map or displaced
(`OpenIsLoaded`), a request works on the instance of its own id (`OnOwnId`), so that
`setModel` stores in the row of the session it told, and what is to be stored is what the
agent runs with, unless a late change came between (`ChangeStands`).

**`CodexTurnProofs`** proves `TypeOK`, `ActiveHasProcess` and `NoLostSettle` for any
number of prompts and any app-server (`Obliging` or not). The idea: call a run
*dependent* when nothing has been kept for it and no interrupt is under way; then
only the end of its own turn can settle it. `DependentHeads` says that once
`turn/start` is acknowledged that turn is the one the app-server works on, and
`DependentActive` that its end will not be ignored. To keep these the proof
follows the single `turn/start` request of a run through `pending` and `micro`
(`StartsAreTheRuns`), knows that the app-server has not answered it while it is
pending (`PendingIsUnanswered`), and that what the app-server still has are the
run's turn and settled ones (`TodoIsUsed`). `AckedOnLiveProcess` is what makes
`ActiveHasProcess` inductive: an acknowledgement is seen before the process can
be seen to die. Under `Obliging` it proves `UninterruptedIsOwn`: as long as no turn was
reported canceled, what the app-server still has to do is nothing, or the turn of the
run under way, and nothing once that was refused or has ended (`Ahead`), so no end of
a turn that is on its way can be another's.

**`PiTurnProofs`** proves `TypeOK`, `SameTurn`, `OwnOutcome`,
`InterruptedNotCompleted` and the refinement of `TurnContract` without its fairness,
for any number of prompts and requests. A request
*decides* the run when it is its prompt, or the abort of an interrupt that found
it active. `DecidersAreTheRuns`: whatever decides is about the run under way, and
there is at most one, so no run is settled twice or by a left-over. `AckedIsAlone`:
once the run's prompt is acknowledged Pi has no other prompt to take and works on
nothing else, so an `agent_end` that finds an active turn is that turn's; it rests
on prompts being taken in the order of their ids (`PendingPromptIsLast`,
`IdsAreFresh`) and holds in spite of timeouts and late answers. The steps fall
into three kinds, each proved once: `StillStep` (the run is left alone),
`SettlingStep` (it ends and nothing is left that decides), and the steps that
start a request.

**`ClaudeTurnProofs`** proves, for any number of turns and however late the messages of
their queries are, `TypeOK`, `SameTurn`, `OneConversation` and `KeepsContract`: the
refinement of `TurnContract` without its fairness. `IInv` says that the last query is the
run's (`QueryIsLast`), that an awaited interrupt is about the run under way
(`InterruptsAreTheRuns`), that a closed session has nothing active (`ClosedIsIdle`),
that outcomes are about their own turns or failures (`OwnOutcome`), and that the session
goes on with the conversation of what completed, or with one whose init came late
(`SessionFollows`, `TurnsFollow`). The contract follows from
`IInv` and `IInv'`: each action is lemma by lemma a step of the contract (`Begin`,
`AskToStop`, `Settle`, `StopAtOnce`) or a stutter.

**`LibraryProofs`** proves `TypeOK`, `NoResurrection`, `OneRowPerConversation` and
`ImportOnlyAdds` for any overlap, any crash and any error of the rename.
`NoResurrection` follows from `MigratedOnce` (while a legacy file is there that was not
left in place, nothing has been deleted). Two rows are the same conversation only if
something wrote the second without knowing the first, so `IInv` relates the rows, the
open sessions that have not stored their handle yet, and the known ids of the import
under way with what races it (`RowNamed`, `SessionHasRow`, `SessionAlone`,
`ImportKnows`, `DownIsEmpty`).

The same module proves of `HistoryScan`, which feeds the library, `ScanTypeOK` and
`ConversationFound` for any number of files, any windows and any length. `Tracked` says
where an owed file is while the scan goes on: in `paths` under the place it has now, or
in the archive while that is still to be listed, or in what was found, or huge.
`OwedKept` says that an owed file shows no less activity than when the scan began: the
window over the tail moves on with every line, but what leaves it is older than what it
holds (`LaterActive`). `ScannedIs` says that the file of a conversation has a candidate,
as recent as the file shows; for Codex and Pi it rests on `Wellformed`, that the header
is the first line and is read in the head whatever its size. `TitleIsLatest` is proved
under `TitlePeriod < TailSize`, which is what the comment at `history-import.ts:277`
counts on: claude writes its titles again and again, so the last one is near the end
(`TitlesNear`), also when the last line is half written.

**`OpencodeProofs`** proves `OnlyCurrentRuns` without any assumption: the invariant it
needs is that while a server is being started the last one does not run
(`StartsAlone`). It proves `TypeOK`, `SameTurn` and `ImplementsContract` whatever is left
over from earlier turns: from what a turn that is being started and a closed session look
like (`Starting`, `ClosedIsIdle`), that what is aborted or stopped is the run's or settled
(`Ran`), that an abort comes first for a turn that was stopped (`StopsFirst`), and that a
turn that is not crowded has the server and the stream for itself (`ServedAlone`), so its
end is its own (`OwnOutcome`). This is for the session composed with the server: the steps
of the server stutter, also when its death takes the event stream along.

**`DashboardProofs`** proves `DaemonTold` for the shell under the whole window of
`Dashboard`: a child that was let go of has been told or has ended (`LetGoOf`), and
no step of the window touches it. It proves `TypeOK` and `ViewTracks` for any sessions
and any number of messages, resumes, closes and deletions on the way. `ViewTracks`
speaks of an empty `inbox`; the invariant says of any `inbox` what the window will show
when all of it has arrived (`WillShow`, `WillMark`): the last message about a session
decides (`Lasts`), and what the window has now if there is none (`Free`). With that, a
step of the daemon appends to the queue and a step of the window takes its head without
changing what will be shown (`Shown`, `Marked`). `OfProject` says that a deletion closes
sessions of its own project, and `LinkInv` that nobody connects before the window is open.

**`TimelineProofs`** proves the three invariants of `Timeline`, for any of the four
agents and any number of turns, messages, pieces and requests. It reduces
`appendTimelineItem` to one relation first (`Puts`: an item comes to the end or takes
the place of one it replaces) and removing a card to another (`Drops`), and shows what
each keeps of a list. `Answerable` needs that every request the session still has has
one card, also one nobody waits for any more, and that no card has a number yet to come
(`CardsOnce`). `TurnShown` speaks of completed turns; its invariant (`ShownInv`) says of
a turn under way how far it is shown. `Control`: the run listens to the turn the agent
works on, unless it was interrupted, and what the agent says is attributed to that turn.
`WholeShown`: what was said whole is on the list and no text may replace it any more,
because something that is not a card stands behind it (`HasFixed`), or else the agent
says nothing before the next user message or tool call. `ThoughtFixed`, `ThoughtLast`,
`TextLast`: what is streamed is the last item, where the next piece or the message sent
whole replaces it; Claude's is all of the message so far, Codex's perhaps only what came
after the answer to the prompt. `ToolsShown`, `AnswerIsLast` and `NothingElse` are the
other promises of `TurnShown` with the open message left out. The case that makes it
hard is the answer to the prompt that overtakes the first words: what accumulated is
dropped, and the message sent whole restores it (Pi, Codex) while Claude and OpenCode
never drop it within a turn.

**Only model-checked**: all liveness (`InterruptSettles`, `EndSettles`,
`AcquireAnswered`, `StopSettlesRun`, `Reconnects`, the fairness of the contract), which
is out of the prover's reach, as is ENABLED. Every invariant and every action property of
the passing runs is proved. No module uses RECURSIVE operators; what the proofs need of a
least or a greatest line or message is found by well-founded induction over the naturals
(`LeastExists`, `LastExists`).

## 7. What is not modelled, and simplifications

Not modelled: process-tree termination (`tree-kill.ts`: a fixed sequence of two signals
and two timeouts, whose effect is the operating system's), configuration and executable
look-ups, `spawn.ts`, the CLI test client, rendering and layout, window and protocol
handling of Electron, authorisation of sockets, parsing and schema checks.

Simplifications a reader should know of:

- *Orchestrator*: interrupt and respondToPermission change no state of it; a process
  leaked by a failed open is not followed further.
- *OpenCode*: the failure of a reply to a permission, after which the request is
  forgotten though the agent waits (`opencode/agent.ts:234`), is left out.
- *History*: a file that vanishes between stat and read fails the whole scan, in the
  code (against the comment at `history-import.ts:39`) and in the model (`failed`), and
  `ConversationFound` speaks of the scans that end; a file unarchived or moved before its directory is
  listed is missed, and `owed` excepts it; files over 64 MB are skipped (`Skipped`);
  the byte windows are assumed to hold the lines that are kept of them; a second
  `session_meta` within the head, which would change the id, is assumed away; Claude's
  `createdAt` falls back to the file's times when its head has no stamped line, so the
  order of the two times is not claimed for Claude.
- *Dashboard*: which of two sessions comes first in the list is a constant (`Rank`);
  adding a directory and a `sessions.list` that fails on an open socket are left out;
  the exceptions of `ViewTracks` are in section 3; prompts and answers go to
  `activeSessionId` though `effectiveSessionId` is what is shown (`App.tsx:417`).
- *Timeline*: the socket is reliable here; what the ring of the last 200 characters
  cuts from a reasoning is ignored; ids Codex makes from `Date.now()` are assumed
  distinct; a turn begins when the agent has done with the one before.
- *Codex* turns are not stated to implement `TurnContract`, because they do not.
