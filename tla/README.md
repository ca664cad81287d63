# A model of many-ai-cli in TLA+

`many-ai-cli` runs AI command-line tools (the *CLIs*) and shows them in a browser.
Three kinds of processes take part:

- the **Hub** (`src/internal/hub`), one server process per user: a registry of
  sessions, a WebSocket to each browser and one to each wrapper, request handlers
  for files, git, settings and spawning;
- a **wrapper** per session (`src/internal/wrapper`), which runs the CLI on a
  pseudo terminal (PTY), sends its output to the Hub and writes the Hub's input
  to it;
- the **page** in a browser (`src/web`), by far the largest part: cards, terminals,
  a composer, approval bars, panes for files and git, the spawn form.

What is hard is what happens *between* steps. On the Hub's side goroutines share a
mutex that is released around every send, connections are replaced while handlers
still serve the old ones, and timers fire after they were stopped. In the page every
handler runs alone, but between two `await`s anything may happen: another session is
opened, a dialog is replaced, an older answer arrives after a newer one. Most of the
modules below are about one question: is state that was read before a wait still true
when it is used?

## 1. Inventory

For each part: its state and operations, what is hard and what has to hold. "Model"
names the module, or says why there is none (more in section 6).

### Hub

| Part | State and operations | Hard behaviour; what must hold | Model |
|---|---|---|---|
| Input gate (`input_gate.go`, `orchestration.go` 1446-1596) | `pendingInput`, per-session `inputMu`, the initial-prompt gate; submit, inject, flush, put back | several senders, a 50 ms pause inside a paste, send errors, reattachment, gate expiry; nothing twice, nothing lost, in order, no half pastes | `InputGate`, `OrderedInput` |
| Wrapper connections and registry (`wrapper_loop.go`, `server.go`, `lifecycle.go`) | `sessions`, `wrappers`, `nextID`; register, reattach, acknowledge, announce, clean up, dismiss, kill all, shut down | several critical sections per handshake, late cleanup of old connections, restart with old numbers; an entry is only removed by its owner, both ends agree on the number | `WrapperLink` |
| Browser connections and idle timeout (`ui_broadcast.go`, `idle_state.go`, `settings_handlers.go`) | `uis`, `idleTimer`, `idleGen`; connect, disconnect, start, stop, fire, change the setting | a stopped timer whose callback runs already, several goroutines removing one browser; no kill without a whole idle period | `IdleTimer` |
| Snapshot, replay and broadcasts to a browser (`ui_broadcast.go`, `server.go`) | UI connections, a replay buffer per session | a connection is added while sessions begin, print and end; nothing is missing after it | `HubTab` |
| Handlers of files and git (`files_save.go`, `git_log.go`, `git_commit_ai.go`, ...) | no state of their own, except pending asks | conflict check in whole seconds; asks that end only with output | the ones a pane waits for: `FilesPane`, `GitPane` |
| Session activity, idle evaluation | `Activity`, `State`, `lastOutputAt` | broadcasts after the lock is released | not modelled |
| Orchestration (`orchestration.go`, `orchestrate/`) | boards, children, notices, timers | limits, late "done", notices queued until idle | not modelled, but for the prompt injection in `InputGate` |
| Spawn handler | waiters for a registering child | a child that registers late | environment of `SpawnForm` |
| Approvals (`approval_*.go`, `auto_approval.go`) | pending prompt, one-tap tokens | four ways to answer one prompt | environment of `Approvals` |
| Session store | a bounded queue of events, one consumer | drops when full | not modelled |
| Logs, terminal state, usage, push, speech, PIN, caches, settings, start and maintenance | buffers, counters, files, child processes | mostly data and I/O | not modelled |

### Wrapper

| Part | State and operations | Hard behaviour; what must hold | Model |
|---|---|---|---|
| Connection and reconnect supervisor (`wrapper.go` 95-240, 611-870) | `currentConn`, `currentSID`, `intentionalShutdown`, `reconnectCh` (one slot); receive loop, probe, grace, reattach | the receive loop and the supervisor race; no disconnection unnoticed, no kill of a connected CLI, a cut-off CLI is reattached or ended | `WrapperLink` |
| End of the session (`wrapper.go` 749-760) | PTY, exit | the card settles | `WrapperLink` |
| Output batching, resize, attachments, platform code, stale guard | buffers, processes, files | operating system | not modelled |

### Page

| Part | State and operations | Hard behaviour; what must hold | Model |
|---|---|---|---|
| Connection and session cards (`ws-client.ts`, `state.ts`, `session-list.ts`, `app.ts`) | socket, watchdog, retry timer, cards, terminals, active session; snapshot, update, end, removal, purge | half-open and replaced sockets, a restarted Hub that reuses numbers; comes back by itself, shows nothing of another Hub, misses nothing | `HubTab` |
| Composer (`app.ts`, `attachments.ts`, `deferred-enter.ts`, `residue-sweep.ts`) | drafts per session, chips, files, IME state, reserved Enters; type, paste, attach, send, switch | `doSend` awaits uploads and a question; drafts stay home, no stray Enter, no message unasked | `Compose` |
| Approvals (`approval.ts`, `state.ts`, `approval-parser.ts`, `multi-question.ts`) | half a dozen caches per session, one shared action bar, debounces, a queue of sessions to switch to | detected by the tab and by the Hub, in front and behind; caches agree, a prompt surfaces, a mark ends, the screen is not taken away | `Approvals` |
| Files pane (`files-view.ts`) | preview, edit mode, tree, selection, requests | answers in any order, other programs write the file; an edit has a base, a save replaces only what was shown | `FilesPane` |
| Git and review panes (`git-view.ts`, `review-view.ts`) | log, status, commit form, an ask of the agent | late suggestions and generated drafts; what is committed was reviewed, the form becomes free | `GitPane` |
| Terminals, grid, detached windows (`terminal.ts`, `multi-pane.ts`, `detached-grid.ts`) | queued output, a flush in flight, batches, following, layout | superseded flushes, frames and timers against a reader; output once and in order, readers stay, queues drain | `Output` |
| Spawn form and launcher of grids (`spawn-panel.ts`, `detached-grid-launcher.ts`) | form, checks, pickers, dialogs, launches | a launch reads the form after each wait, dialogs share an overlay; the button comes back, risk is confirmed | `SpawnForm` |
| Tab bar and modes (`files-view.ts`, `settings.ts`, `session-list.ts`) | a mode per session, tabs bound to sessions | a tab is handed on when its session ends; the tab on screen acts for the session on screen | `Tabs` |
| Settings panel, voice, chat history, mobile views, dashboard, search, tour | requests, rendering | see section 6 | in part in `SpawnForm` and `Tabs` |

### Interaction

Browsers call the Hub by messages (`pty_input`, `session_dismiss`, ...) and HTTP
requests. The Hub and a wrapper exchange `register`/`registered`,
`reattach`/`reattach_ack`/`reattach_reject`, `pty_input`, `hub_shutdown` and
`session_end` over one socket, and the wrapper probes the Hub's HTTP port. Inside the
Hub everything meets in `sessionsMu`, held for single critical sections and released
around every send; `inputMu`, one per session object, is held across sends. The Hub
sends a browser `session_list`, `session_update`, `pty_data`, `session_end`,
`session_removed` and the outcome of its own detection of approvals. Inside the page
the parts share the active session and call each other directly: the connection
activates and removes sessions, which the composer, the approvals, the terminals and
the tabs each follow with a handler of their own. Each page module therefore has its
own action for "a session is activated", "removed" and "the socket was lost", translated
from the lines of that part.

## 2. The modules

| Module | Models | Used by |
|---|---|---|
| `OrderedInput` | what the input of a session promises: a queue with a limit, written in order, pastes unbroken | refined by `InputGate` |
| `InputGate` | `input_gate.go` and the prompt injector for one session | `MC_InputGate`, `InputProofs` |
| `WrapperLink` | both ends of the wrapper connection, the registry, several Hub processes in a row | `MC_WrapperLink`, `ConnectionProofs` |
| `IdleTimer` | the idle timeout and its callers | `MC_IdleTimer`, `ConnectionProofs` |
| `HubTab` | a tab and the browser side of the Hub, composed over a socket | `MC_HubTab`, `HubTabProofs` |
| `Compose` | the composer | `MC_Compose`, `InputProofs` |
| `Approvals` | prompts in the page | `MC_Approvals`, `ApprovalsProofs` |
| `FilesPane` | the files pane and the Hub's save | `MC_FilesPane`, `MainAreaProofs` |
| `GitPane` | the git pane, the commit form and the review | `MC_GitPane`, `GitPaneProofs` |
| `Output` | terminals on the page | `MC_Output`, `OutputProofs` |
| `SpawnForm` | the spawn form, its dialogs and its launches | `MC_SpawnForm`, `SpawnFormProofs` |
| `Tabs` | the main area | `MC_Tabs`, `MainAreaProofs` |

An operator whose comment says *mutant* is a plausible mistake in the code; it is used
only to see that a property notices it.

**How a page handler is written.** JavaScript handlers do not interleave: what runs
between two awaits is one action. Handlers call helpers that change much state, so a
handler is a function on a record of the variables (`Work` in `Compose`, `w` in
`Approvals`, `p` in `HubTab`, `v` in `SpawnForm` and `Tabs`), helpers are composed as in
the source, and one operator (`Become`) makes the result the next state. An `await` ends
the action; what the code kept in local variables is in the record of the request, and
what it reads again afterwards is read again. An HTTP request has two steps of its own
(`Serve`, `Answer`), in any order against all others, unless the code aborts or
compares something first. Timers are flags or small records and may fire at any time
after they were set.

### InputGate

An action is one critical section of `sessionsMu`. `ses`, `reg` and `link` are the
session object, the registered connection and the state of each socket; every
(re)registration makes all three anew, with an *epoch* number, so that a goroutine may
hold objects of different epochs, as it may in the code (`handleInput` reads
`wrappers[id]`, `submitInputWithGate` later reads `sessions[id]`). `pending` is
`pendingInput[id]`; `batch[t]` is what goroutine `t` has in its hands. An input is a
paste (body, pause, carriage return: two sends) or a line (one send); this is all that
`splitBracketedPasteSubmit` tells apart.

| Action | Code |
|---|---|
| `Capture`, `LookUp`, `SessionGone` | `handleInput`, `injectRaw...`; the first lines of `submitInputWithGate` |
| `Defer`, `Admit` | the decision under `inputMu` |
| `SendOk`, `SendFails`, `GiveBack` | `trySendInput`, one `wrapperConn.send` at a time, and what is done with the rest |
| `TakePending`, `NothingToFlush` | `flushPendingInput` |
| `EchoSeen`, `EchoMissing`, `ClearGate` | `injectInitialPrompt` and `clearInitialInjectGate` |
| `GateExpires`, `PeerVanishes`, `Unregister`, `Reattach`, `Dismiss` | what happens to the session meanwhile |

`Defer` is one step although the code takes `inputMu` and then `sessionsMu`: nothing
else is done between the two. `written` records what a *successful send* handed to a
socket; that the wrapper reads it is `WrapperLink`'s subject.

### WrapperLink

A connection has a number; `hpc[c]` is where the Hub's goroutine for it is, one step
per critical section of `wrapperLoop`/`reattachLoop`/`wrapperMessageLoop`: *request →
numbered → installed → acked → serving → gone*. `card`, `owner`, `wrapperOf`, `pend`
and `nextID` are the registry. `net[c]` says who ended a socket, `box[c]` holds what
the wrapper has not yet read, `bye[c]` an unread `session_end`. On the wrapper's side
`sup[w]` is the main goroutine and then the supervisor (*watch → grace → await → reset
→ watch*), `notice[w]` the token in `reconnectCh`, `readers[w]` the running receive
loops. `hub` and `era` describe a sequence of Hub processes; the registry dies with each.

Abstractions: submit and flush are one step each (their detail is `InputGate`); the
broadcast of `hub_shutdown` is one step; the end of the Hub's process closes its
listener and its sockets in one step; a wrapper may lose data that it has not read when
the peer resets a socket; the probe may time out at a live Hub (`"slow"`). Only
messages that matter for the handshake and the input are modelled.

### IdleTimer

`timer` is `idleTimer` (its generation, 0 for nil). `armed`, `fired` and `killing` are
the generations of timers that run, of callbacks before their check and of callbacks
after it. `removeUI` is two steps, because it reads the setting before it takes
`sessionsMu`; the settings request is two steps, because it uses two mutexes. The length
of a period is abstract: a running timer may fire at any time, so every lateness of the
callback is included.

### HubTab

The Hub's half: `live` and `buf` are the sessions and their replay buffers; a wrapper's
loop changes them first and broadcasts later (`outbox`, `ending`, `removing`), so a
connection may be added between the two. `srv[k]` is where `handleWS` and `addUI` are for
socket `k`: *added → captured → snapshot sent → replayed → reading*. `chan` and `req` are
the bytes on the way; a cut socket may lose them or hang until the watchdog. The tab's
half: `cur`, `retry`, `st` are `ws`, its retry timer and each socket's `readyState`;
`cards`, `active`, `inst`, `local`, `text`, `timers` are what the page keeps. `HubStops`
and `HubStarts` begin another Hub with the same numbers. `Open`, `OnClose`, `Watchdog`,
`RetryFires`, `OnSnapshot`, `OnUpdate`, `OnPty`, `OnEnd`, `OnRemoved`, `TimerFires` are the
handlers of `ws-client.ts`.

### Compose

A piece of input is a token with the session it was made for, so that a wrong draft can
be recognised. `inp` is the field with chips and files, `saved` the drafts put aside, `up`
a `doSend` past its lock, `dialog` the question before an AI CLI is started from a shell,
`deferred` and `sweep` the reservations per session, `line` what the CLI holds unconfirmed.
`Press`, `CompositionEnd`, `EndTimerFires`, `AnswerDialog` are the ways to `DoSend`;
`Upload` ends one upload and, after the last, runs `Submit`; `Fire` is
`maybeFireDeferredEnter` and its longest wait. `due` counts presses minus messages, `owed`
pasted bodies minus Enters; both are history only.

### Approvals

`asked` and `screen` are the truth at the CLI: its open prompt and the one still drawn;
the page sees them only through chunks (`TrackApprovalHintFromChunk`), a debounced look at
the active terminal (`DetectApproval`) and the Hub (`HandleGoApprovalDetected`,
`...Cleared`). `s[i]` is the record of caches, latches and timers of a session (`Fresh`
lists them), `bar` the one action bar, `queue` the automatic switch. Answers are clicks,
cards, swipes with a grace period, batches, multiple choices, free text and messages typed
past the bar. A prompt is a name with a kind, since the kind decides how it is recognised.

### FilesPane

`pv` is the preview with its edit mode and base time, `listing`, `area`, `sel`, `drag` the
tree, `req` all requests. `Saved`, `Loaded`, `Moved`, `Listed`, ... are the continuations,
one for each `then`; `Effect` is what `files_save.go` and its neighbours do. Modification
times are whole seconds, as `files_save.go` compares them; other programs write at any
time.

### GitPane

`pane` is the log with its pages, selection, detail and working tree, `form` the commit
form, `timer` its wait for the agent, `hub` the `commitMsgAwait` of each session,
`waits` the handlers that await a reload before they go on. `Served` reads or changes `repo`,
`Answer` runs the continuation. `SuggestionKeepsReview` and `CommitForgetsBusy` are mutants.

### Output

A terminal is a record: `pending`, the flush in `flight`, `frames` it has left to the next
animation frame, the `batch` of a resize, the `place` of its container, and whether it
reads or follows. A chunk is a number. `FlushPending` ends what is in flight, as a new
sequence number does (`terminal.ts` 646-671). `RenderMulti` and `DetachedSlots` place
terminals in the grid; `StickFrame`, `Snap`, `ForcedPass` are the passes that stick to the
bottom. `view` is the page in one of its modes or a detached window.

### SpawnForm

`u` is the page: the fields, pending checks (`checks`, `infos`, `subs`), what the overlay
shows and the folder browser. `run[i]` is a launch: where it waits and what it has read.
Two may run, because a path check that ends enables the button during a launch. `waits`
and `grids` are windows that wait for sessions of theirs to register.

### Tabs

`bar` holds the tabs of `FilesTabManager`, the active one and the mode per session of
`setActiveTab`, with `shows` for the classes on the area: the two managers call each other,
and the flag that stops the second round is part of `Open` and `SetActiveTab`. `HandOver`
and `OnSessionRemoved` keep the order in which the source walks its list while it splices
it. A session may have no directory (`NoDir`): the wrapper reports an empty one when
`os.Getwd` fails. `handleLazyTabOpen` then returns without opening a tab, so the files or
git mode of such a session leaves the tab before it in front, another session's perhaps;
`PaneActsForActive` says nothing of it.

## 3. What is checked

### 3.1 Runs

Each `.cfg` has the name of its run.

| Run | Question | Bounds | States |
|---|---|---|---|
| `InputGate_gate` | Is no piece written twice, no input lost, does the code implement `OrderedInput`, does deferred input drain, does nothing overtake the initial prompt? | a sender, the injector, a flusher; one input of each kind, queue of 2, 2 epochs; loss, reattachment, dismissal, expiry; no stall past a dial (3.3) | 257 thousand |
| `WrapperLink_registry` | Is every disconnection noticed, do numbers agree, who may take the entry of a served connection, has waiting input a sender? | 2 wrappers (symmetric), 1 input, 3 connections, 2 Hubs, crash and dismissal | 1.9 million |
| `WrapperLink_settle` | Is only a cut-off CLI killed, is it reattached or ended, does the registry forget broken connections, does the card of an exited wrapper settle? | 1 wrapper, no input, 2 connections, 2 Hubs, every end of a Hub, slow probes, fair | 36 thousand |
| `IdleTimer_timer` | Is there at most one timer that counts, is a whole period needed, is an abandoned Hub cleared? | 2 browser connections, 2 goroutines that may remove each, one change of the setting, fair | 65 thousand |
| `HubTab_tab` | Does a tab show nothing of another Hub, miss nothing and come back? | 1 session number, 2 events (restarts, losses, output, acts), fair | 156 thousand |
| `Compose_drafts` | Do drafts stay home, is an Enter owed, is each message asked for? | 2 sessions, one a shell; 5 events | 3.7 million |
| `Approvals_prompts` | Do the caches agree, does the screen stay, does a prompt surface, does a mark end? | 2 sessions with all six ways to ask between them, 2 events, fair | 277 thousand |
| `FilesPane_pane` | Is an edit backed by a text, does a save replace only what was shown, does loading end? | 2 folders, 2 names (one a medium), 4 events, 2 seconds; every request answered | 609 thousand |
| `GitPane_form` | Is only a reviewed message committed, was a draft asked for, is the form free again? | 2 sessions in one repository, 2 requests at a time, 2 forms, 2 events, fair | 784 thousand |
| `Output_terminals` | Is output written once, is a reader left alone, does a queue drain? | 2 sessions (one Codex), grid of 2, queue and batch of 1, 2 chunks (one a redraw), 3 acts, fair; every saved order and layout | 509 thousand |
| `SpawnForm_launch` | Does the button come back, is risk confirmed, do the subfolders belong to the directory? | 1 CLI and the shell, 2 models, a directory that exists and one that does not, 2 launches, 4 acts | 1.6 million |
| `Tabs_area` | Does the tab on screen act for the session on screen, is the area in its session's mode? | 2 sessions, one with a board, the other in the same directory, below it or in none known; all modes, 2 widths, 2 tabs | 2.0 million |

**Why the bounds are enough.** They are the least at which the case each property is about
happens; every property has been seen to fail on a plausible mistake of the code within
the same bounds. Two epochs are what a stale object needs; a queue of two overflows; two
connections make an old and a new one and two Hubs a restart; two wrappers with three
connections let one come back with a number the other one is given (a permutation of the
wrappers changes nothing, and that run has no liveness property). Two sessions make a switch,
a removal with an heir and a shared bar. In the page the number of *acts* is bounded, not
what follows from them: requests, timers, frames and chunks run to their end in every
order. `FilesPane` lets an act on the tree cost two events and on the preview one, since
the preview is where the long sequences matter (open, edit, save, conflict, overwrite).
`MissLimit` in `Approvals` is 2 instead of 3 and 8. The runs of the page but `Tabs_area`
turn the check for deadlock off, because a used-up bound is an end; `WrapperLink_registry`
does so because the Hub really can hang (3.4).

### 3.2 Properties

- `AtMostOnce`, `NothingLost`: an input is at one place, and accounted for. `InOrder`:
  `InputGate` implements `OrderedInput`. `BacklogDrains`, `InjectionUndisturbed`: the gate
  opens and nobody's input gets into the initial prompt.
- `NoLostWakeup`, `KillsOnlyCutOff`, `NumbersAgree`, `EntryIsKept` (a served
  connection loses its entry only to a dismissal, the end of its Hub, or another wrapper's
  handshake that had chosen the number), `BacklogHasFlusher`; `CutOffEnds`, `RegistryForgets`, `CardsSettle`.
- `IdleTimer!Inv`, `FullPeriodAlone`; `AbandonedEnds`.
- `NoForeignState`: after a snapshot no output and no terminal of another Hub is left.
  `NothingMissing`: when everything is delivered, every session has a card and every chunk
  is shown, but for numbers dismissed before the Hub gave them out (section 4). `Reconnects`.
- `DraftsStayHome`, `OneEnterPerBody` (a stray Enter would confirm what the CLI asks
  next), `NoUnaskedSend`.
- `Bookkeeping`: what the Hub said of an older prompt never decides about a newer one, and
  the queue holds only sessions that wait. `FocusStays`, `NativeSurfaces`, `HintsEnd`.
- `EditModeSound`: no edit without the time of a text, one bar. `SavesAreInformed`: a save
  replaces a file only as of a second the user was shown. `LoadingEnds`.
- `CommitReviewed`, `DraftsWereAsked`, `FormFree`.
- `WrittenOnce`: a chunk is at one place. `ReadersStay`: a user who has scrolled up (the
  code's `autoScroll` is off) is neither scrolled down nor followed again but by what the
  property names. `PageDrains`.
- `LaunchNotStuck`, `RiskIsConfirmed`, `SubdirsMatch`.
- `PaneActsForActive`, `ModeIsActives`.

### 3.3 Fairness

- `InputGate`: the goroutines' steps are strongly fair, because a goroutine waits for
  `inputMu` and `sync.Mutex` does not starve a waiter; the injector is weakly fair.
  Nothing is assumed of users, sockets, wrappers and timers. `BacklogDrains` is stated
  for behaviours in which a connection is in the end up with an open gate.
  `StallsPastDial = FALSE` says that no goroutine holds an input for as long as the wrapper
  needs to dial again (2 s, against a pause of 50 ms); with stalls the order of an old and
  a new connection is not defined. Of the theorems only
  `KeptInOrder` needs this bound.
- `WrapperLink`: goroutines of both processes run, a stopping Hub exits, the grace
  period passes. No fairness for registering, crashing, dismissing, restarting a Hub,
  nor for the end of a CLI.
- `IdleTimer`: timers elapse, and callbacks, requests and removals that have begun go on;
  nobody has to connect or leave.
- `HubTab`: the Hub's loops run, messages arrive or their socket is found lost, the retry
  timer and the watchdog fire, and a stopped Hub is started again. The last is the user's
  doing; without it a tab has nothing to come back to.
- `Approvals`: timers fire, the Hub detects and takes back, an answer reaches the CLI, and
  a CLI whose prompt is gone prints on. The conditions are written as recurrences
  (`[]<>`) of the state without the pending event, which is weak fairness with the guard
  written out.
- `FilesPane`: every request is answered, one way or the other: `fetch` settles.
- `GitPane`: requests are answered (`gitCommandTimeout` ends the Hub's side) and the form's
  timer fires. An agent need not print anything.
- `Output`: xterm calls back, animation frames and timers come. The code has a watchdog
  for the first.

`Compose`, `SpawnForm` and `Tabs` have safety properties only.

### 3.4 Known disagreements

The code does these things although a comment or another part of it says or needs
otherwise. All were met while modelling; the models contain them, and the properties above
are stated so that they hold beside them.

Hub and wrapper:

- `wrapper_loop.go` 452: a session dismissed between the check at 433 and the announcement
  is nil there; the goroutine's panic is contained, `sessionsMu` stays locked and the Hub
  stops answering (`AnnounceNil`, the deadlock of `WrapperLink_registry`).
- `wrapper_loop.go` 434 and `server.go` 404-405: input that waits under a number is
  written to whichever wrapper is installed under that number next.
- `wrapper_loop.go` 434 and 432: the flush may send input before `reattach_ack`; the
  wrapper takes it for a bad answer and hangs up, and the input is gone
  (`ReattachRefused`).
- `wrapper.go` 235 and 721: a `hub_shutdown` handled before the supervisor resets its flag
  is forgotten, and the CLI may be killed although it was to wait.
- `wrapper.go` 179: a Hub that has been restarted before the probe makes its own crash
  look like an intentional disconnection.
- `wrapper.go` 795: the reply to `register` may be `hub_shutdown`.
- `input_gate.go` 151 and `orchestration.go` 1511: the next attempt of the initial prompt
  waits behind a line typed while the gate was closed.
- `input_gate.go` 150-156: nobody flushes what waits when the gate expires (105-107), and
  a non-empty queue defers all later input.
- `input_gate.go` 152: a submit that waits for `inputMu` may queue for a session that has
  been deleted meanwhile.
- `wrapper_loop.go` 339-348 and 427: a number is chosen in one critical section and entered in
  another. After a restart a new wrapper may be given the number an old one asks for; the
  later of the two takes the entry of the other, which is served on without one
  (`EntryIsKept` names this case), and input that waits under the number of an outrun
  registration has nobody to send it (`Outrun`).
- `wrapper_loop.go` 343: a renumbered wrapper's waiting input stays under the old number;
  390: the session object of a reattachment has no gate.
- `idle_state.go` 157-165: a browser that connects after the idle callback's check is
  too late. `ui_broadcast.go` 71: the timer may start with a setting that has been
  replaced; 80: no timer starts at a Hub no browser has visited, nor after it has fired.
- `git_commit_ai.go` 88-95: the ask's time-out is only looked at when output comes.

Connection and composer:

- `ws-client.ts` 582: the five-second timer dismisses a session whose wrapper has
  reattached (`docs/v0.1.x-any-ai-cli-design.md` 273 expects it to live).
- `ui_broadcast.go` 23-26: a chunk may be in the replay and in the stream.
- Terminals from a Hub whose snapshot never arrived are not purged.
- `app.ts` 400-402: a pending Enter is cancelled before the send may be refused; a quick
  command drops a pending body; the clear button leaves a pending Enter.
- `doSend` reads the draft after uploads and the question, so it sends what is in the
  field of the session opened meanwhile; re-opening restores a draft already sent; failed
  uploads and a closed socket lose content; a lost socket forgets the active draft.

Approvals:

- `approval.ts` 855-859: switching to a shell or a suppressed session leaves the bar of
  the other one, and Enter answers that one; hiding the bar of a session behind clears the
  one in front.
- A second swipe within the grace period drops the first; a high-risk confirmation, the
  batch confirmation and a multiple choice send what the cache holds by then.
- A sequential prompt may show again after its answer; a question form behind never loses
  its mark; an identical marker question is not shown a second time.

Panes:

- `files-view.ts`: loads and saves are not compared with what is open (2729-2806): an edit
  begun during a reload has a newer base than its text, a late save ends the edit of
  another file, a renamed file keeps its old path in the preview.
- `git-view.ts`: answers have no order: pages may double after a refresh, a commit's
  answer closes the form open by then, a failed old ask stops a newer form's timer, the
  push dialog counts old commits.
- `terminal.ts` 671: a superseded flush loses the callback of an attachment;
  `multi-pane.ts` 717: of two renders in a frame the terminal of one is never opened;
  `settings.ts` 2539-2557: the orchestration tab takes terminals down and does not put them
  back; detached windows keep unfocused panes still and do not stop a forced follow.
- `spawn-panel.ts`: a path check that ends during a launch allows a second one; a
  confirmation counts for picks changed after it; dialogs replace each other in one
  overlay, whose promise then never settles; 656-657 says `prevMax` is read before the
  request, the code reads it after the answer; a cached path check is never repeated.
- `files-view.ts` 854-898: `onSessionRemoved` walks a list it splices, and the tab after a
  closed one keeps the removed session; 1012-1013 and `session-list.ts` 884-896: the board
  is not shown, because switching to the files mode opens the session's own tab;
  `settings.ts` 2523: one way out of the orchestration mode leaves its class.
- `settings.ts` 103-111: preferences are read, changed and written back; two switches in a
  row lose one.
- Voice results land in the draft of whichever session is open by then.

## 4. What is proved

All theorems are of the specification, for every value of its constants, from the
`ASSUME`s of the module (names are distinct, bounds are natural numbers). None assumes
fairness. One has a hypothesis on how long a goroutine stalls, `KeptInOrder`
(`~StallsPastDial`); the others hold with and without stalls.

**InputProofs, InputGate.** `TypeCorrect` is proved with `BatchesOwned` (a goroutine has
something in its hands exactly between capturing it and giving it up). `Inv` is the
inductive invariant behind the rest: `AtMostOnce` alone is not inductive, since a
second copy of an input, not yet written, would break it one step later. So `OnePlace`
says that an input occurs at one position of one place (the queue or one batch), and
`HeldUnwritten` says that what a place holds agrees with what is written: an unwritten
input has no written piece, a carriage return has a written body. The proof sees the
places as one function from `Threads \cup {Nobody}` to sequences, and the steps as few
movements: two places merge into one (`Merge`, for `Defer`, `TakePending`, `GiveBack`),
a place is emptied (`Shrink`), a queue moves (`Move`), the head of a batch advances
(`SendStep`), a fresh input appears (`CaptureStep`). `WrittenAtMostOnce`,
`EnterAfterBody` and `InductiveInvariant` follow. `NoInputLost` accounts for each input
from `Inv`: what leaves one place is found in another, written, dropped or discarded.
`PromptFirst` needs another invariant: while the injection lasts the gate stands, everybody
but the injector is before it (`BehindGate`), and what the injector holds or has written
are prompts (`OnlyPrompts`).
`KeptInOrder` is the refinement: `InputGate` implements `OrderedInput`, if no goroutine
stalls for as long as a wrapper needs to dial again. Its invariant, `OneLock`, says that
then one session object at a time is in use, so its `inputMu` keeps everybody else from
the queue; that while somebody sends nothing waits; and that the rest of a failed batch
fits back. `OrderStep` maps each action to `Accept`, `Emit`, `Discard` or a stutter.
With stalls the refinement does not hold: a goroutine that still writes to the replaced
object does not hold the lock of the new one.

**ConnectionProofs, WrapperLink.** `WakeupNeverLost`: with one slot in `reconnectCh` and a send
that never blocks, the supervisor never sleeps through the loss of its connection and
never finds a token of a connection it has replaced. The invariant `WakeupInv` adds
what a wrapper looks like before it is registered (`Unstarted`) and while it waits for
an answer (`Waiting`). Every action of the Hub leaves the wrapper's variables alone
(`Elsewhere`), so the proof looks at the wrapper's steps only. `KillOnlyCutOff` follows
from the same invariant: in each of the three states in which the supervisor ends the
CLI, `currentConn` is nil.

**ConnectionProofs, IdleTimer.** `TimerInvariant`: a timer that is set runs or has just fired, has
the latest generation, nobody is connected and nobody was since it started; every other
callback is older. `KillNeedsFullPeriod`: hence a callback that passes its check has
seen a whole period without a browser.

**InputProofs, Compose.** Handlers are functions on a record, so the lemmas are about the
helpers: each keeps `due` and the reservations, but for `Begin`, which uses one request,
and a reservation is made only by `ScheduleDeferredEnter`, for the body it has just
pasted. `NoUnaskedSend` (`due >= 0`) is not inductive: a composition, its timer and the
question for shells each hold a request that has not been used yet, and two of them could
use the same one up. So `Backed` says that there are at least as many unused presses as
places that hold a request, and that nothing waits in a composition that has ended.
`Booked` says that every reserved Enter is owed; `Numbered` that the sessions an action
names exist. `NothingUnasked` and `NoStrayEnter` follow, for any sessions, shells and
number of events. `DraftsAtHome` rests on `Home`, which adds to `DraftsStayHome` that
every draft is three rows, two of them of pieces: what a row holds is looked at as a set,
and a handler either loses pieces of it (`Less`: sending, a chip taken away), or gains
one made for the active session (`GrowHome`), or moves whole drafts (`ActivateHome`,
`RemoveHome`). The files of a draft are not in it: their bytes are awaited, and they land
in the input of whichever session is active by then. The long chips that become files are
picked by their places in the row (`Picked`); `PickedOf` shows by a counting argument
that what is picked are chips of the row, which the library's `SelectSeq` would have
needed an induction for.

**GitPaneProofs.** The steps fall in two: those that keep the form's message, its review
and its number (`Mild`), and the few that fill, empty or send it. `DraftsWereAsked` is
not inductive: a generated message on its way could fill a form opened since. So `Drafts`
says that a generation under way was started in this form or an earlier one, and if in
this form, that a draft was asked for; `Form` that a suggestion in the form was asked for
and that what was reviewed is what is in it. `DraftsAsked` and `CommitsReviewed` follow,
for any repository, sessions and bounds.

**MainAreaProofs, FilesPane.** Preview and requests are looked at apart (`View`, `Good`); both
depend on the times the user was shown, which only grow. `View`: edit mode and its bar go
together, an edit has a base, base and conflict were shown. `Good`: a load that succeeded
and a conflict have a time, a save under way names one that was shown, and no two
requests have the same number (`FreshIdFree`, by counting), since the Hub's answer is
recognised by it. `EditSound` follows at once. For `SavesInformed` no step of the page
takes a request back but its own answer (`ActsKeep`, `AnswerKeeps`), and the Hub writes
for a save only when the time it names is the file's (`ServedInformed`).

**MainAreaProofs, Tabs.** The functions that build the next bar are looked at one by one.
`AreaOf(v, a)` says that bar `v` is well formed and belongs to `a`: in `a`'s mode or one
of no session, and a tab on screen is `a`'s, at its directory. `SetActiveTab` and
`Activated` establish it whatever the bar was before; `Open`, `CloseMainTab`, a note of
another session's mode and a round of `HandOver` for another session carry it over. The
loop of `OnSessionRemoved` needs an induction. `Inducted` proves the principle for sets
by counting (adding one would map the members below the first gap into themselves
without reaching 0), and with it `SteppedThrough` that the loop's recursive function
exists and `AllHandedOver` that every round keeps the area. The
condition of `PaneActsForActive` that the active session has a directory came from this
proof: without it the case of `ActiveTabSet` in which `handleLazyTabOpen` returns early
fails, as TLC shows once a layout has such a session, and the run now has one.

**OutputProofs.** What an operator does is said of one terminal: it loses and adds no chunk
and keeps its order (`Leads`), and it leaves a reader alone (`Stays`). A step of the page
is then a step of all terminals with the set of those whose reader it may disturb (`Keeps`),
and these compose as the handlers are composed. `WrittenOnce` is not inductive, since a
chunk may still be given a number that was used: `Ledger` adds that every chunk at a
terminal was sent. The arithmetic of sequences is in two lemmas: the next chunk before or
behind what waits (`BooksAdded`), and the oldest ones dropped (`BooksTrimmed`).
`ReadersAreLeft` needs two more facts in the invariant (`Sound`): the forced passes of
`_stickToBottomSoon` belong to Codex sessions, and a reader is followed only in a detached
window. The proof changed the property: it used to speak of the viewport
only, and opening the terminal tab turns `autoScroll` on for a terminal whose viewport is
still up, so that the next chunk takes it down, though no act of the user is near; that
takes five acts, more than the run has. `ReadersStay` now follows `autoScroll`, and lists
the acts that may turn it on instead of excusing them all.

**ApprovalsProofs.** A handler of `Approvals` is a dozen helpers deep, and `maybeAutoSwitch`
may run in the middle of it and bring another session to the front, in which the rest of the
handler then works. So the proof carries one claim through all helpers, `Good(c, w)`: the
record is sound, and the session that was in front when the handler began is still there or
waits for nothing. A session begins to wait only if it is in front or nothing has switched
yet (`Marks`), which is what the callers of `setApprovalVisible` have to show. `Sound` is
inductive with two facts that the properties do not state: a session is in the queue at
most once (otherwise taking it out once would leave it there), and the source of a session
is, during one handler, none or the one it had at the start (`given`): the prompt that is
shown after a switch must be the one that source names. `BookkeepingHolds` follows from
`CachesAreSound`, `FocusKept` from the second half of `Good`; a switch that the user asks
for (`ActivateSession`) and the removal of the session in front are handlers that begin in
front of nothing.
## 5. Only model-checked

- Liveness (`BacklogDrains`, `CutOffEnds`, `RegistryForgets`, `CardsSettle`,
  `AbandonedEnds`, `Reconnects`, `NativeSurfaces`, `HintsEnd`, `LoadingEnds`, `FormFree`,
  `PageDrains`): the prover does not handle fairness or ENABLED. Of the rest the runs check, every
  invariant, action property and the refinement has a theorem.
- What most folds of sequences compute for every input: the library's induction theorems
  take an operator as a parameter, which the installed provers cannot instantiate. Where
  a proof needs an induction it rests on `Inducted` of `MainAreaProofs`.

## 6. Not modelled

- *Orchestration, session activity, the spawn handler, the Hub's approvals*: systems of
  their own on the Hub's side. They enter as the environment of the page: what the Hub
  detects, spawns and announces may come at any time. The injection of the initial prompt
  is in `InputGate`.
- *The session store, logs, transcripts, usage, push, caches, settings files, PIN*: files,
  SQL and external services behind a mutex or a queue; the store's bounded queue and the
  lost updates of preferences are known hazards.
- *Terminal state, the approval parser, auto-approval policy, chat history, markdown*:
  functions on text. The modules that use them keep their outcome, a kind of prompt or a
  number of a chunk.
- *Voice, mobile views, dashboard, search palette, templates, status bar, tour*: rendering
  and single requests without state that outlives them; where a late voice result lands is
  in 3.4.
- *Launcher, command line, doctor, setup, packaging*: sequential steps around other
  programs.

What the models abstract from in the parts they do cover: text, labels, colours and
layout; the length of times (a timer may fire at any moment after it was set, so nothing
rests on one time being shorter than another, but for `StallsPastDial`); the number of
panes, files, commits and messages beyond the bounds; and a second browser window, which
appears only as an answer given elsewhere or a session opened elsewhere.
