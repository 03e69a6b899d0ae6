# codex-threads: TLA+ models and proofs

`codex-threads` is a command line and a terminal UI (TUI) for the threads of one
or more Codex app-servers. This directory holds TLA+ models of its concurrent
parts, the TLC configurations that check them on small instances, and TLAPS
proofs of what matters most. Line numbers refer to the files under `src/`;
`PROJECT.json` maps every definition to the lines it stands for.

## 1. The system

| Part | State it keeps | What it does | What is hard |
|---|---|---|---|
| TUI live-stream session (`tui/mod.rs`, `tui/state.rs`) | mode, selected row, open detail, draft, `stream`, `stream_control`, `next_stream_id` | one UI task takes terminal events, fetch results and app events one at a time and spawns tasks | events of old and new tasks interleave in one FIFO; what was read when a dialog opened is used when it closes; tasks left behind must end |
| Turn protocol (`turns.rs`) | one connection per task, the control channel | start, attach, wait for a turn, queue another, detach | answers that are lost, notifications dropped during a request, a turn that never ends |
| Detail paging (`tui/state.rs`, `tui/mod.rs`) | the open transcript, its epoch, cursors, a pending jump | replace, extend to older or newer, refresh, jump | late pages; a stream that owns the transcript; a full queue; epochs that restart |
| Browser fetch and preview workers (`tui/mod.rs`) | rows, selection, view and page, fetch queue (32), preview queue (8), client cache | lists one server or several merged, loads previews, archives, deletes and renames | full queues, late pages, rows of a thread that is gone, a cached client in an unknown state |
| Usage and rate-limit reset (`tui/mod.rs`, `rate_limit_reset.rs`) | the usage modal, its retry key, the selected credit | reads usage, redeems a banked credit after a confirmation | answers to older requests, lost outcomes, retries |
| RPC client (`rpc.rs`) | next request id, the websocket | request and response, notifications, rejection of server requests | deadlines, late answers on a reused connection, ids that both sides use |
| Thread session (`session.rs`) | none | list, search, resume with retry, `--since` scan | paging that stops too early or never; an action repeated after a resume |
| CLI (`app.rs`, `cli.rs`) | none | one command per process | partial failure of compound commands; exit codes that say what happened |
| Annotation store (`annotations.rs`) | one JSON file under a file lock | read-modify-write, atomic rename | two processes, a crash or a loss of power between write and rename |
| Preferences (`tui/prefs.rs`) | one file under a file lock | read at the start, saved whole after a key press and at the end | two TUIs overwrite each other |
| Configuration, rendering, keymap, completion, time filter, debug log | none that outlives a call | conversions | - |

How they meet. `run_tui` selects between terminal input, ticks, and one
unbounded app-event channel. Stream tasks (send, attach, follow, new session)
each own a websocket, write to the app-event channel, and read a control channel
whose only sender is `state.stream_control`. One-shot tasks (steer, interrupt,
send without waiting, queue, archive, delete, rename) write one app event and end. The
fetch worker and the preview worker read bounded channels, one request at a time, and
also answer through the app-event channel. Nothing else is shared inside the TUI: the UI
task owns `TuiState`. Every task and every command talks to its server through `RpcClient`;
processes share only the annotation file.

What makes each part correct. The session: a stream is shown on the thread its task
works on; a message is given to one turn, once, on the thread it was written for; a
steer or an interrupt names a turn of its own thread; a stream is never shown as
waiting for a task that is gone; tasks that were left end. Turn protocol: what is
shown is a prefix of what the server sent, without repetition. Detail and
browser: a late answer never overwrites newer content, no turn or row is lost between
pages, and nothing waits for an answer nobody will give. Usage: one redemption per
confirmation, retried under one key. RPC: an answer reaches its own request only, and an
action happens at most once and as its caller is told. Scan: no thread is passed over or listed
twice. CLI: the exit
code is true. Annotations: no write is lost and a crash leaves the old or the new file.

## 2. Modules

| Module | What it is |
|---|---|
| `StreamSession`, `MCStreamSession` | the UI task, stream tasks, one-shot tasks, channels, and the servers as far as they matter |
| `StreamSession_proofs` | type correctness of each group of steps; the inductive invariants `SessionInv`, `WaitInv` and `OnceInv`, and the theorems |
| `AssistantStream`, `MCAssistantStream`, `AssistantStream_proofs` | the wait for one turn: what is shown of the agent's messages; its inductive invariant |
| `DetailPages`, `MCDetailPages`, `DetailPages_proofs` | the transcript of the open thread: pages, epochs, jumps, a stream that owns it; its inductive invariant |
| `BrowserPane`, `MCBrowserPane`, `BrowserPane_proofs` | the list of threads, the preview, both workers, and the tasks that change threads; its inductive invariant |
| `RateLimitReset`, `MCRateLimitReset`, `RateLimitReset_proofs` | the usage modal, the fetch worker serving it, the retry key; its inductive invariant |
| `RemoteAction` | what the caller of an operation on a server may conclude: the abstract specification |
| `RpcCalls`, `MCRpcCalls`, `RpcCalls_proofs` | the RPC client, the kept connection and the retry after a resume; proved to implement `RemoteAction` |
| `AnnotationMap` | an atomic map: the abstract specification |
| `AnnotationStore`, `MCAnnotationStore`, `AnnotationStore_proofs` | the annotation file with its lock, temporary file, crashes; proved to implement `AnnotationMap` |
| `ThreadScan`, `MCThreadScan` | listing and searching threads page by page |
| `CliCommands`, `MCCliCommands` | one process of the command line, from its configuration to its exit code |
| `CommandsAndScan_proofs` | the inductive invariants of `CliCommands` and of `ThreadScan`, and their theorems |

How they compose. Each module holds one group of state that the code updates in one task; where two
groups meet, one module has the other's steps as an environment, with every order the code allows.
`DetailPages` has streams as steps that start, deliver and end at any moment (what they may be is
`StreamSession`); `StreamSession` has detail and browser loads as replies of any thread (what they may be is
`DetailPages` and `BrowserPane`); `RateLimitReset` has `Overtaken` for every step that takes the screen away from
it; `CliCommands` has a request as one step that succeeds, is refused or is lost (how that comes about is
`RpcCalls`), and `ThreadScan` a page as one step. What happens inside a request in all of them rests on
what `RpcCalls` implements: done, refused or unknown, and never twice.

### StreamSession

State. `mode`, `selected`, `detail`, `draft`, `stream`, `control` and `nextId` are the
fields of `TuiState` of those names (`control` holds the id of the task whose
channel `stream_control` sends to; 0 is None). `task[i]` is the program counter of
the spawned task with stream id `i`, `ctl[i]` its control channel, `jobs` the
one-shot tasks in flight, `app` the app-event channel. `turns` and `alive` are the
servers' turns and threads. `unsent`, `aim`, `ran` and `refused` record what became of each
message; no action of the program reads them.

Actions, and the code they stand for:

- *Key presses* (`handle_terminal_event`, followed by
  `detach_stream_if_browser_selection_changed`): `MoveSelection`, `OpenDetail`,
  `CloseDetail`, `LeaveByHelp`, `OpenCompose`, `OpenNewSession`, `ToggleCompose`,
  `CancelCompose`, `SubmitSend`, `SubmitNoWait`, `SubmitNewSession`, `SubmitSteer`,
  `AskInterrupt` (the dialog that `i` and Ctrl-C open, with the turn read then), `Interrupt` (its
  confirmation, any number of events later), `LaunchCodex`. A submission takes all of `submit_compose` at once: the
  choice between queueing on the control channel, queueing with a one-shot task, and
  detaching to spawn a new stream task.
- *Fetch results*: `BrowserLoaded` (rows, selection, automatic attach on the first
  load) and `DetailLoaded` (`replace_detail`, then automatic attach).
- *Stream tasks* (`spawn_send_task`, `spawn_attach_task`,
  `spawn_browser_attach_task`, `spawn_follow_thread_stream_task`,
  `spawn_create_session_task` over `turns.rs`): `CreateThread`, `CreateFails`, `StartTurn`,
  `FindTurn`, `ProbeGivesUp`, `Attach`, `ReadSubmit`, `ReadDetach`, `Progress`, `TurnEnds`,
  `Report`, `TaskFails`. The program counter runs
  `create -> start -> wait -> over -> done`, or `resolve`/`probe -> attach -> wait`, with
  `leaving` between a detach and the last message.
- *One-shot tasks*: `JobSends`, `JobSteers`, `JobFails`.
- *App events*, in FIFO order: `HandleCreated`, `HandleCreateFailed`, `HandleStreamEvent`,
  `HandleFailed`, `HandleFinished`, `HandleIdle`, `HandleNotice`. `HandleFinished` contains what
  `run_tui` does around the handler: the detail refresh it decided on before, and
  the follow-up stream.
- *Servers* (external): `TurnOver`, `OtherClient`; `turn/start` either opens a turn or gives
  the input to the active one, and a request that fails may still have taken effect.

Abstractions. A thread is a (server, thread id) key. A turn is its position in the order
the servers started turns. Transcript content, row statuses and pages are left out; where a
row's status decides (may this thread be steered?) the model chooses freely, and where
the auto-attach preference is read it may be on or off, and where the thread of the preview counts
(`stream_is_visible_in_browser`) it is any thread or none. A resume snapshot may be empty, and then changes
nothing. Detail replies: any thread with any
turn it has had, because `replace_detail` asks only for the epoch and epochs restart when
a detail is reopened.

### RateLimitReset

`modal` is `UsageModalState` with the mode it is shown in; `made` counts the idempotency keys
made; `fetch`, `work` and `app` are the fetch channel, the request the worker is on
and the app-event channel; `bank` is the servers' credits; `sent` records every
redemption requested. `OpenUsage`, `Refresh`, `CloseUsage`, `AskRedeem`, `Decline` and
`ConfirmRedeem` are the keys of `Mode::Usage` and `Mode::ConfirmRateLimitReset`, each with both
outcomes of `try_send`. `Take`, `LoadUsage`, `Consume`, `ConsumeFails` and `Reload` are
`fetch_worker`; `HandleLoaded`, `HandleLoadFailed`, `HandleConsumedOnly` and `HandleConsumeFailed`
the app events. `Overtaken` is any step of the session that shows the detail
whatever the mode was (`schedule_detail_page_with_limit`, `replace_detail`, an attach
snapshot), which is how the two modules' parts meet. `MostUrgent` is
`select_best_rate_limit_reset_credit`. Keys are taken to be distinct (they carry the clock's
milliseconds and the process id). The command line's `usage redeem` is, here, one more
client that spends credits.

### AssistantStream

`shown` is `AssistantResponses.items`, an entry per message with the names it is known by and the
replay cursor; what has been emitted to the UI is always equal to it. `phase` says which request the
wait is on (`attaching`, `starting`, `polling`, `queueing`) or that it is in its select (`waiting`);
`buffer` is what `RpcClient::request` hands to its callback before the answer; `net` is the
websocket, in order. `turn` and `link` are the server's: the turn, the subscription, the request being
served and the snapshot taken for it. The client's actions are the branches of the select
(`Receive`, `Poll`, `Submit`, `Leave`, `TimeOut`), the reading of frames during a request
(`SetAside`), the four answers, and failure. `AttachAnswered` is all of `attach_turn` after the resume:
seed, `ReconcileReplayedDeltas`, and the loop over what was set aside, which awaits nothing.
The server takes its snapshot at some moment after the request and sends it at a later one, and
notifications may fall before, between and after; the turn may be missing from a poll's list, which holds the
newest turns only (`poll_limit`). That is the only assumption about it the code's
comments leave open, and what the joining of names is for. A started turn may be one that the
prompt was added to, with messages the client never heard of.

`hist` records, for the properties, what the program cannot know: `gap` (notifications were dropped
in a queued start, or the turn had messages before it was joined), `straddled` (a message began
between the subscription and the snapshot of the resume), `late` (something was said between the
snapshot of a poll and its answer).

The quiet time before a fallback poll is real time, so a poll is allowed at any time; a poll on
request (`PollNow`) is the same step. Left out: deltas without an item id, notifications of other
turns, completions that correct the text that was streamed, and the fields of the output.

### DetailPages

`detail` is `DetailState` as far as paging goes: `shown` is the turns of the transcript in order, `local` those a
stream put there, `next` and `back` the cursors to older and newer turns. `requests` is the
fetch channel, `replies` the detail answers on the app-event channel, `hist` the servers' turns.
`User` holds the keys (`open_detail`, Esc, `r`, overlays, scrolling past either end, `gg`, `G`), each taking all of
`schedule_detail_page_with_limit` with both outcomes of `try_send`; `Tick` is the refresh timer; `Serve` is
`fetch_worker` reading one page; `Answer` is `replace_detail`, `extend_detail_older`, `extend_detail_newer` or
`set_detail_error`, then the automatic attach, then `schedule_pending_detail_jump`. `Snapshot`, `LiveTurn` and
`StreamEnds` are a stream of the thread, `TurnElsewhere` other clients. Three fields of `detail` are not the
code's: `seen` (how much history the page knew), `gap` (a page was dropped under a stream or
asked for by an earlier view), and `unsent` (a request found the queue full).

### BrowserPane

`rows`, `selected`, `view`, `epoch`, `loading`, `error`, `cursors` are `BrowserState`; `preview` is `BrowserPreviewState`; `fetchQ` and
`job`, `previewQ` and `glance` are the two channels and what each worker is at; `tasks` are the
spawned archive, delete and rename tasks, `events` the app-event channel. `ReadServer` reads one server's page,
so that changes by other clients fall between two servers of one merged page. `HandleEvent` is
`set_browser_rows`, `set_browser_error`, the preview handlers and `remove_thread_from_ui` with the refresh
that follows it. `source` records which view, cursor and changes the rows were read from; `told` and `gone`
what the UI was told.

### RpcCalls and RemoteAction

`op` is the operation under way as a script of requests: a fetch with the worker's kept connection, the fetch of a
detail (its turns, then a status whose failure is swallowed), a load
(resume, unsubscribe, then the read), an action of a task (with the retry of
`request_with_resume_retry`), and direct input (with the check of the thread first). `up` and `down` are the two
directions of every connection as sets, so messages are reordered at will; `cache` is the worker's
kept connection, which `Keeps` decides on as `keep_client_after_error` does. `Send`, `SendFails`, `TimeOut`, `ReadFails`,
`Reject`, `RejectFails`, `Skip` and `TakeAnswer` are the branches of `request_with_timeout`; `Begin`, `Connect`, `ConnectFails`
those of its callers. The server (external) serves requests in any order, also those of a dropped
connection, makes requests of its own under any id, closes and drains connections, and
unloads the thread. Notifications are left out here: `request` hands them to a callback and they
touch nothing else. An error of the server may come before or after the action
was done, so `failed` means that the outcome is not known.

### AnnotationStore and AnnotationMap

A task is one use of the store: an annotate command, each a process of its own, or a task of a TUI. Its `pc`
runs through `update_state` (`lock`, `load`, `create`, `write`, `sync`, `rename`, then the release) or `read_state`
(`share`, `look`), with the reads of a prune (`check`) and the deletion on the server (`delete`) around them. A file is
its contents (a map, `NoFile` or `Torn`) and whether it was synced; `temp` is named after the process, as in the
code, so two tasks of a TUI share one. `Die` ends a process at any step: its locks are released,
its temporary file stays. `PowerLoss` ends all of them, and leaves of each file what was synced. A failing
write removes the temporary file; a lock that cannot be had, a load or a rename that fails gives the command up. The failure
of a lock is no step that fairness counts on.

### ThreadScan and CliCommands

`ThreadScan` is `list`, `search_threads` and `scan_since_filtered` in `session.rs`, and
`search_threads_with_local_filters` in `tui/mod.rs`, which calls them batch by batch. The server may return short
or empty pages, a cursor after the last row, or the cursor it was asked for: a page is said by what its rows are, the
first ones behind its cursor, in order (`FirstRows`), and not by how they are sorted. `start` is the cursor the user gave, of an
earlier answer, or none. `Taken` is the loop over the rows of a page,
which counts the newer ones and stops at the first older one where the order allows it. The names `ScanInit`, `ScanNext`,
`ScanSpec` keep the module apart from `CliCommands`, next to which it is proved. `CliCommands` has, per command, the
steps it takes in order (`Script`, `Steps`), where each may fail and how; `CodeOf` is `classify_error` with
`ExitError`. The options stand for what they change in that order. `outcome` is what the server made of a redemption:
the command ends with 0 after each of them, and prints which it was. A `probe` is one reading of `annotate prune`, which
reads as many threads as there are notes; a turn may end with a status the program does not know, which ends the wait.

## 3. What is checked

| Run | Bounds | What it shows |
|---|---|---|
| `Session` | 2 threads (1 exists at the start), 2 messages, 2 stream tasks; sends, new sessions, one-shot sends and steers, moving the selection | `TypeOK`; a stream is on its task's thread (`StreamMatchesTask`); a message is handed over once (`PromptOnce`) |
| `Detail` | 2 threads, details, automatic attach, other clients, steer and interrupt | `CommandsOnOwnTurn` from a detail, rows or a stream that replies and events may replace before it is used; the inductive invariant `SessionInv` |
| `Follow` | 1 thread, 2 messages, 2 stream tasks, 2 turns, automatic attach, fairness | `WaitingIsBacked`, `TerminalIsLast`, `FollowingEnds`, `SpawnedPromptSettles`, `DetachedTaskEnds` |
| `Stream` | 2 messages, 2 tokens of text in all, 1 queued start, fairness | `OneEntryPerMessage`, `FinalIsSaid`, `ShownIsPrefix`, `NothingTakenBack`, `WaitEnds` |
| `Pages` | 2 threads (3 and 1 turns at first, up to 4), pages of 1, jumps of 2, a queue of 2, 6 events, fairness | nobody waits for nothing (`PagesInv`); no turn is lost between the cursors (`CursorsCover`); what a stream shows is kept, never doubled and left as it is by answers (`StreamOwnsContent`); a jump ends (`JumpEnds`) |
| `Browser` | 3 threads on 2 servers, pages of 1 row, queues of 1, 3 events with one server and 2 with two | `BrowserInv`; rows are of the page and view asked for and as new as the last change (`RowsAreCurrent`); a deleted thread stays away (`GoneStaysGone`) |
| `Reset` | 2 servers, 2 credits, 2 keys, 2 queued requests, fairness | `KeyNamesOneCredit`, `ModalWaitIsBacked`, `RedeemSettles`, `ResetInv` |
| `Calls` | 2 operations of any of five kinds on up to 2 connections, server requests under id 2 | the inductive invariant `RpcInv`; `FailsOnce`; `AsksRejected`; and `ActsAsSaid`: `RemoteAction` is implemented |
| `Notes` | 3 tasks in 2 processes, 2 threads, 1 text, fairness | the inductive invariant `StoreInv`; `LiveNotesKept`; `AtomicMap`: `AnnotationMap` is implemented; `CommandsEnd` |
| `Scan` | 4 threads in any order of change, from the start or any cursor, limits up to 2, 1 change meanwhile, fairness | no thread that stayed as it was is passed over (`ScanSkipsNothing`) or listed twice (`ScanListsOnce`), `ScanEnds` |
| `Cli` | every command with every option modelled, 2 servers | `ExitSays`, `RefusalsTouchNothing` |
| `WrongThread` | as small as shows it | a disagreement of section 5 |

Bounds. `MaxStream`, `MaxTurn`, `MaxApp` cap the stream ids, the turns, and the app events
queued; the last only delays tasks. `Features` says what the user and other clients do in a
run, because all of it at once is out of TLC's reach; every action fires in some run. `Targets` names the bound that
goes with it: the user opens the composer only for a command among them and
while a message is left to submit. One interrupt is under way at a time.
The runs take from 1 second (`Cli`, 20 thousand states) to 2 minutes (`Notes`); the largest is
`Detail` (2.2 million). Two
stream tasks are what the session's hazards need: an old one that was left and a new one.
Two threads are what a mix-up needs, two messages what an overtaking needs. `Reset` needs
two requests queued behind the one being served (a reload, then the redemption), two keys
(one that failed, one made after a refresh), and two credits that expire together, so that
the second criterion of the order decides. `MaxKey`, `MaxFetch` and `MaxApp` name its bounds. `Stream` needs two messages (one
to be taken for the other) and two tokens, which may be equal, so that a message can repeat itself
and be heard in two deltas or one; `MaxNet` only holds the server back. Its invariants
were also checked with three tokens and two frames under way.
`Pages` needs a thread with at least two pages beyond the one shown, so that a cursor can be followed, dropped under
a stream, and followed again; a second thread for an answer of an earlier view; and a queue that two
requests fill. `MaxOps` bounds keys, ticks and stream events. `Browser` needs a page boundary inside a
server's rows, a thread on another server, and queues that one request fills; `MaxDeeds` bounds
the events, fewer where two servers are configured. `Calls` needs a second operation that inherits a connection with a late
answer on it and one with a new connection; the id 2 is one the client uses, too. `Notes` needs two tasks of one process
(they share the temporary file) and one of another. `Scan` needs more threads than two limits. `Cli` bounds only
the number of servers a ping visits. The theorems of section 4 hold for all bounds.

Symmetry. `PromptSymmetry` and `ThreadSymmetry` are used in runs that check invariants only and
where no thread or message is singled out; runs with liveness use none.

Deadlock is checked in the runs of the session and the modal: the user can always do something. A wait
for a turn, a scan and a command end, and the events of the other runs are bounded: their cfgs do not check it.

When the properties of `AssistantStream` hold. `OneEntryPerMessage` holds whenever the wait was neither
`straddled` nor has a `gap`, however polls and notifications are ordered and whatever the texts are.
`FinalIsSaid` also needs that no poll was answered `late`: an old snapshot read after the completion of a
message cuts its text, and nothing corrects it before the turn ends. `ShownIsPrefix` and
`NothingTakenBack` need besides that a message does not repeat a token: `replayed_prefix_len` and the
replay cursor compare texts, and take new text that looks like old text for a replay until the
message is completed. These conditions are the limits of the code, found by
TLC, and the first one contradicts a comment (section 5). `WaitEnds` excepts a turn that polls go on to miss: when more
turns than `poll_limit` were started after it, and its notification was dropped, nothing but the one-hour limit
ends the wait.

When `FailsOnce` holds. A status that is asked for with a detail and not answered in time fails nothing, and its connection
is kept (`tui/mod.rs:1363`): the operation after it is then the first and only one to fail on it.

When those of `DetailPages` hold. `CursorsCover` excludes a view with a `gap`: while a stream owns the
thread an older or newer page is dropped but its cursor is taken, so the turns between are never asked for
again; and an answer asked for by an earlier view of the same epoch replaces this one. `JumpEnds` excludes a
request that found the queue full: it leaves the jump pending until another answer comes. `ScanSkipsNothing` and
`ScanListsOnce` speak of threads that stayed as they were, and `CursorMovesOn` and `ScanEnds` of scans without local
filters: the loop around those has no check for a repeated cursor.

Fairness. In `StreamSession`, weak fairness of the UI loop handling app events: `run_tui` polls the channel
in its select for ever. For each stream task, strong fairness of its own progress and of
reading its control channel: the tokio tasks are scheduled and their requests have
deadlines, and weak fairness would do in the program, whose channel is unbounded;
strong fairness makes up for `MaxApp`, which can disable a post again and again. The same for
one-shot tasks. Nothing is assumed of the user, of the servers (a turn may run for ever), or of
the one-hour limit of a turn wait. In `RateLimitReset` and `DetailPages` the worker and the UI loop are weakly
fair. In `AssistantStream` some step of answering, reading or polling is taken again and again until the
wait is over (requests have deadlines, the select has a one-second tick); the turn may run for ever. In
`AnnotationStore` each task that has begun a command goes on, unless it dies: the operating system
schedules processes and gives a lock that is free to some waiter. `CommandsEnd` needs no more, because a
command is short and each task has one. In `ThreadScan` the page that was asked for comes or its request fails at its
deadline. `RpcCalls`, `BrowserPane` and `CliCommands` assume none and check safety only.

What each property says is in the comment above it. The mutants of `PROJECT.json` give, for each
property of each passing run, a plausible slip in the code that breaks it: an id not
taken, a start sent again, a turn read from the wrong stream, a snapshot applied to another
detail, a terminal event refused, a task that goes on after its last word or ends without one,
a dropped sender that goes unnoticed, a retry key kept over a refresh, a file that is renamed before it is
synced, a lock that excludes nobody, any error taken for "not found", a page joined twice, an
epoch that is not compared, a draining connection that is kept, a repeated cursor that is followed, a page put before those it
comes after.

## 4. What is proved

By TLAPS, for every value of the constants, from `SessionAssumption`, `ResetAssumption`, `StoreAssumption`, `RpcAssumption`,
`ServerAssumption`, `ScanAssumption`, `BrowserAssumption`, `PagesAssumption` and `StreamAssumption` alone. They give the constants' types, put `NoThread`,
`NoId`, `NoSnap` and the like outside the sets they extend, and ask for no size: queues, pages, jumps and limits are any positive numbers, threads, servers
and messages any sets. Three sets are taken to be finite: the configured servers of a ping (`ServerAssumption`), the threads of
the servers in the browser (`BrowserAssumption`), which a list of rows has to enumerate, and those of the server that is scanned
(`ScanAssumption`), of which there are some when the scan begins.

`StreamSession_proofs`:

- `SessionInvariant`: `Spec => []SessionInv`. `SessionInv` is `TypeOK` (with `FreshIds`: ids above
  `nextId` belong to nobody), `TurnsStarted` (a task that attaches, waits or is over has a
  turn the servers started, over only when it ended), `EventsMatchTask` (what bears a stream id, in
  `stream` or in a queued event, names the thread of that id's task) and `TurnsOwned` (a turn is
  only stored next to its own thread: in the detail, the draft, the stream, tasks, jobs
  and events).
- `TypeCorrect`, `StreamOnItsThread`, `CommandsAddressOwnTurn`: `TypeOK`, `StreamMatchesTask`,
  `CommandsOnOwnTurn`.

Why the strengthening is needed. `CommandsOnOwnTurn` speaks of jobs only, but a job's turn is copied
from a draft or a detail, those from a stream or a reply, the stream from an event, and the
event from a task; `TurnsOwned` says it of every link. `StreamAfter` keeps the stream's
thread and takes the event's turn, which is right only because an event with the stream's id
names the stream's thread: `EventsMatchTask`. That in turn needs `FreshIds`, for a new stream
and its task must not inherit old events. `TypeOK` needs `TurnsStarted`, because a task reports
its turn's outcome as a status, and an open turn has none. The type part is proved group by group
of actions; then, one step per action and one per conjunct the action can disturb, that threads and
turns stay together.

- `ClosingMessageIsLast`: `Spec => []TerminalIsLast`. It is inductive next to `SessionInv`: a task that has said its last word is
  `done`, and `TaskSays` (what a step of a task may put on the channel, proved action by action) has only tasks that are not.
- `WaitIsBacked`: `Spec => []WaitingIsBacked`. The strengthening `WaitInv` adds `WaitsForTask` (a waiting stream names a task, and
  no turn yet, so the task's closing message will be taken for it) and `QueueBacked` (no queued event makes a stream wait but
  that of a new session, and behind that one is the closing message of its task, if the task is over). Without the second,
  `HandleCreated` could bring up a stream whose task has ended and whose last word was already handled.
- `MessageOnce`: `Spec => []PromptOnce`. `PromptOnce` counts places in one set; `OnceInv` says of each message that it is at most once
  in each kind of place (`OneOfEach`) and in no two kinds (`OneKind`), in the order it travels. Each step then moves a
  message along that order or leaves it.

`RateLimitReset_proofs`:

- `MostUrgentUnique`: the order of expiry, grant and id picks at most one credit.
- `ResetInvariant`: `Spec => []ResetInv`, and from it `KeyReuse`: `Spec => []KeyNamesOneCredit`.
  `KeyNamesOneCredit` is not inductive: that a retry asks for the same credit follows from
  `KeyFitsOffer` (requests under the key at hand asked for the most urgent credit of the snapshot at
  hand, on its server), which every change of the snapshot keeps by clearing the key, and
  from the uniqueness of the most urgent credit.
- `TypeCorrect`: `Spec => []TypeOK`. `ModalWaits`: `Spec => []ModalWaitIsBacked`, with `OnlyShownWaits` (a modal that is not on the
  screen waits for nothing): the confirmation takes no answers, so one that waited could miss the one that ends its wait.

`DetailPages_proofs`, for any number of threads and turns, any page and jump size and any queue:

- `ViewInvariant`: `Spec => []ViewInv`, and from it `PagesHold`: `Spec => []PagesInv`, and `CursorsHold`: `Spec => []CursorsCover`. What the
  cursors cover depends on every page that may still come: `PageFits` says that a page spans consecutive turns of its
  thread and its cursors are its ends, `Adjoins` that an older page asked for by this view begins where the view ends, `Timely`
  that nothing on its way is of a later epoch than the view, and `Apart` that no two answers are of one
  epoch of one view. Then an answer that bears the view's epoch is the one it asked for last, and joining it to what
  is shown leaves no turn out. Pages that the server repeats (`Stuck`) add nothing and keep the cursor.
- `ContentIsOwned`: `Spec => StreamOwnsContent`, step by step: on a thread that a stream owns an answer leaves what is shown as it is, and a
  snapshot or a live turn adds to it without repeating a turn.
- The lemmas on `Only` (the elements of a sequence that are in a set, in their order) are what merging a snapshot with the
  transcript rests on: it keeps order, loses nothing of the set and adds nothing.

`BrowserPane_proofs`, for any threads, servers, limits and capacities:

- `BrowserHolds`: `Spec => []BrowserInv`, `RowsHold`: `Spec => []RowsAreCurrent`, `DeletedHold`: `Spec => []GoneStaysGone`, from one inductive
  invariant, `PaneInv`. `Typed` has the types in full; `QueueCurrent`, `JobCurrent` and `EventsCurrent` say that a request, the job and an answer
  with the current number are of the view and page now shown, and that what the job has read of a server so far is as
  new as the last change the UI was told of, because every change takes a new number; `RowsWait` and `PreviewWait` say who is
  waited for. `GoneStaysGone` needs them: rows with a deleted thread bear an old number, or were read after the
  deletion and do not have it.

`CommandsAndScan_proofs`, for any set of servers, any threads and any limits:

- `ExitCodesHold`: `Spec => []ExitSays`, `RefusalsHold`: `Spec => []RefusalsTouchNothing`. `ProcessInv` relates the steps that are left to what was
  done: all that was asked for, a redemption apart, is done or to come (`Covered`), and of a redemption the outcome says
  whether a credit went (`OutcomeKept`); nothing is changed before the options and the permission are looked
  at (`OptionsAhead`, `PermitAhead`), and after a redemption only a reading is left (`AfterConsume`). That the scripts are
  so ordered (`Ordered`) is proved for each command once, with its options free.
- `NoThreadIsSkipped`: `ScanSpec => []ScanSkipsNothing`, `NoThreadIsListedTwice`: `ScanSpec => []ScanListsOnce`, from `ScanInv`. Both
  speak of the end of a scan; the invariant says of every page on the way, for the threads that stayed as they were, that
  what the cursor went over and the request asks for is kept (`NothingPassedOver`), and that what is kept is asked for
  (`KeptWanted`), in order and behind the cursor (`KeptInOrder`). Of the changed threads nothing is said: a change adds
  its thread to them, so it keeps the invariant.
  `PageIs` derives from what the server promises of a page that it begins behind the cursor asked with, ends at
  its own cursor and leaves out nothing between; `TakenIs` that the rows taken are all the newer ones, also where
  the scan stops at an older row, because only rows that are older still come after it (this is where `NewestFirst` is
  needed); `BatchIs` puts the page behind what is kept. A search with local filters that ends with enough rows may cut its answer: then
  the order of what is kept says that whatever is cut, or behind the cursor, comes after every row of the answer.
- `EveryPageMovesOn`: `ScanSpec => CursorMovesOn`, step by step: the part of `ScanEnds` that needs no fairness. No run lists it,
  because the slip that breaks it, a repeated cursor that is followed, is the one that breaks `ScanEnds`.
- `PickedIs`, with `RankIs`, is what both filters rest on: what is picked from a sequence at some places is what stands there,
  in the order of the places.

`AnnotationStore_proofs`, for any number of tasks, processes, threads and texts:

- `StoreInvariant`: `Spec => []StoreInv`. The parts that carry it: `LockHeld` (one writer and no reader, or
  readers), `LoadedIsCurrent` (what the writer loaded is still what the file holds), `TempIsOwn`
  (the temporary file of its process holds what it is about to rename, although tasks of one process share the name and
  a dead one may have left one behind), `FileIsWhole` (what has the name is complete and synced).
- `LiveNotesAreKept`: `Spec => LiveNotesKept`, from `TargetsGone`: what a prune or a deletion clears is gone from the
  server, which does not bring threads back.
- `StoreImplementsMap`: `Spec => AtomicMap`, the refinement. A task's update is taken when it renames; `LoadedIsCurrent`
  makes the renamed file the update of the current map, and `FileIsWhole` makes what a loss of power leaves a
  map.

`RpcCalls_proofs`, for any number of operations, connections and ids:

- `RpcInvariant`: `Spec => []RpcInv`. `SentInv` and `WaitInv` say that an id is used once on a connection, so the
  answer that is taken is that of the request that is waited for, late ones having smaller ids;
  `TrafficInv` that a request for an action is in one place and its answer tells whether it was done; `ActionInv`
  that an action is asked for only when it was not done and nothing that asks for it is under way.
- `CallsImplementAction`: `Spec => ActsAsSaid`, the refinement of `RemoteAction`. The step that needs the invariant is the
  serving of a request whose caller has gone: it may still do the action after "failed", but never after "refused" or
  "done".
- `ConnectionFailsOnce`: `Spec => []FailsOnce`, from `BlameInv`. `ServerIsAnswered`: `Spec => []AsksRejected`.

`AssistantStream_proofs`, for any tokens, any number of messages, prompts and frames, and texts of any length:

- `TypeCorrect`, `OneEntryHolds`, `FinalHolds`, `PrefixHolds`: `TypeOK`, `OneEntryPerMessage`, `FinalIsSaid` and `ShownIsPrefix` are
  invariants. `NothingTakenBackHolds`: `Spec => NothingTakenBack`, step by step. All come from one inductive invariant, `StreamInv`.
- None of the four is inductive: what a delta does to the entries depends on what was said before it was sent,
  and the model's state has only what the server says now. `Followable` supplies it: there is a *past*, the
  texts of the turn before each frame that was not looked at yet (`Unheard`, those set aside and then those on their way), such
  that each frame leads from one moment to the next (`Follows`) and no message ever loses text (`Later`). A step of the server
  adds a moment at the end, a frame that is read removes the first.
- `Hears` ties the past to the client. While it reads or polls, the entries show the first moment (`Shows`), each under
  the names of its own message (`NamesFit`); a poll's snapshot is of the moment of its answer, unless something was said
  since (`PollAt`); a resume's is of some moment of the past (`SeedAt`). `ShownFits` is what remains of it once the wait is over,
  and `Protocol` says that one request is under way and nothing follows the end of a turn.
- The step that is hard is the answer to a resume. The frames set aside tell again what the snapshot says already, from
  where the connection was subscribed to the moment of the snapshot. `ReplayFits` proves that `ReconcileReplayedDeltas` cuts off just that: if no
  message repeats a token, only one prefix of what was replayed can be a suffix of what the snapshot says, and
  its length (`Skip`) is that of what was heard until the snapshot. Then `RunFits` goes through the rest frame by frame, as `Receive` does.
  Where a message does repeat a token, the names still fit, and a completed message still has its text: `Agrees` asks for the
  texts of closed messages in any case, and of the open one under `Plain` alone.
- `ApplyAll`, `SyncFromTurn` and the folds of the library are recursive functions of a place in a sequence. That they are what they
  are at each place is proved once (`ApplySteps` and the like), by taking the least place where it would fail (`Least`, `UpTo`).

Only model-checked. Every invariant, action property and refinement of the passing runs is proved. What is left is liveness
(`DetachedTaskEnds`, `FollowingEnds`, `SpawnedPromptSettles`, `RedeemSettles`, `WaitEnds`, `JumpEnds`, `CommandsEnd`, `ScanEnds`): liveness under
fairness and ENABLED are beyond this prover. So are modules with RECURSIVE operators, and the library's induction
theorems, which take an operator as a parameter: where a proof needs induction over data, it uses a least
counterexample, which is a set and not an operator.

## 5. Where the code and its documents disagree

Each cfg named here ends in a counterexample; `WrongThread` is a run of the project, the others are started by
hand: `tlc -config <cfg> <module>`.

- `WrongThread.cfg`, MCStreamSession (`PromptOnItsThread`, `tui/mod.rs:4435`): SessionCreated replaces the stream but not the
  control, so a message for the new session goes to the other thread.
- `Stranded.cfg`, MCStreamSession (`NoPromptStranded`, `tui/mod.rs:3320`): a message put on the control channel of a task that
  fails before it reads the channel is lost without a word; README 293-295 promises that
  compose follows queued turns.
- `DraftLost.cfg`, MCStreamSession (`DraftSurvivesAppEvents`, `tui/mod.rs:1606`): the refresh after a stream has finished sets the
  mode to Detail and drops a draft in progress; the test at `tui/mod.rs:9226` asserts that a detail
  refresh keeps it.
- `ControlLost.cfg`, MCStreamSession (`TerminalKeepsNewControl`, `tui/mod.rs:4502`): dropping the stream does not keep the old
  task's last message from clearing the new session's control, as the comment at
  `tui/mod.rs:3368` says it does: a queued progress event brings the stream back first.
- `ResetHeld.cfg`, MCRateLimitReset (`ModalHoldsRedemption`, `tui/mod.rs:4790`): a refresh queued before a redemption is answered
  after it and unlocks the modal; a second redemption can be asked for at once.
- `TwoIds.cfg`, MCAssistantStream (`NeverUnderTwoIds`, `turns.rs:161`): a message that begins between the subscription and the
  snapshot of an attach gets two entries, one from the snapshot and one from its set-aside declaration,
  and is emitted under two ids; the comment at `turns.rs:80-84` says consumers never see that.
- `OpenOther.cfg`, MCDetailPages (`AnswersKeepThread`, `tui/state.rs:727`): the epoch of a detail restarts after Esc, so a slow
  load of one thread, answered when another was opened, replaces it: the README has opening a thread load
  that thread.
- `RefreshInPlace.cfg`, MCDetailPages (`RefreshKeepsTranscript`): a refresh replaces the transcript by its newest page, and the
  older turns that were scrolled to are gone; README 317-324 has detail views refresh in place and scrolling
  preserve the view.
- `LazyPreview.cfg`, MCBrowserPane (`PreviewIsLazy`, `tui/mod.rs:1670`): the preview of a thread without messages counts as not loaded and
  is asked for again at every tick; README 266 calls the preview lazy.
- `ExitTwo.cfg`, MCCliCommands (`TwoIsLocal`, `rpc.rs:271`): a request that could not be sent, or a request of the server that could not
  be rejected (`rpc.rs:228`, `294`, `361`), ends the process with 2, because `classify_error`
  (`app.rs:2286-2309`) does not know the words; the README's "Exit codes" gives 3 to the connection and 2 to
  usage, configuration and local lookup.
- `Unreported.cfg`, MCCliCommands (`CreatedIsReported`, `app.rs:850`): `new` and `fork` print nothing when the name cannot be set or the first
  turn cannot be started, and the thread that was created is not named; the README says that commands that
  create work always return enough identifiers to follow it up.

Seen in the models, without a document to hold against the code:

- Session: a failed session creation clears whatever control is current (4463); a failed steer or interrupt
  marks a live stream failed and drops its control (4638); the accepted event of a steer on a
  thread nobody is attached to makes a running stream without a task (4502).
- Detail: a page dropped under a stream takes its cursor with it, and the turns between cannot be reached
  without a refresh; `gg`, then `G`, then scrolling up leaves the transcript out of order; a jump whose request found the
  queue full stays pending.
- Browser: after a deletion or an archive the selection keeps its index and so moves to another thread; a change of search,
  filter or order keeps the cursor of the old list; the numbers of previews start at 0 again, which
  is harmless only because answers name their thread.
- Scan: with `--sort updated` in ascending order a thread that changes meanwhile can be listed twice;
  `search_threads_with_local_filters` follows a repeated cursor for ever.
- Command line: a websocket URL in the configuration that is no URL ends with 3 (`config.rs`, near 276), although it is a matter of
  configuration; `usage redeem` makes a new idempotency key in each process, so a retry by hand is not a retry
  of the same redemption.

## 6. What is not modelled

Session: quit and the shutdown signal, explicit loading, poll-now requests, the guard against direct
input to some threads (it is in `RpcCalls`), and overlays that touch no stream state. Turn protocol: deltas without an item id,
notifications of other turns, the output's fields. Detail: folds, search within a transcript, requests
of an open message. Browser: columns, widths, the text of a preview. Command line: the parsing of
arguments, the tables and JSON that are printed. Preferences: one small file, read at the start and written whole after a key
press and at the end, under a lock and by a rename as the annotations are; of two TUIs the last to save overwrites what the
other saved, and a file that cannot be read is set aside as corrupt, both of which the README allows by calling
preferences disposable. The auto-attach preference is a free choice in `StreamSession`. Configuration is modelled only as
a step that may refuse. Rendering, the keymap, completion, the time filter and the debug log are
conversions without state of their own: nothing in them takes more than one call to go wrong, which is what unit
tests reach.

## 7. Plan

All modules of the plan are written, and every invariant, action property and refinement of the passing runs is proved. What
could still be added: properties for the hazards that have none (the draft under a refresh, the steer without a stream, the
control after a failed creation) and for the repeated cursor of a filtered search, each of which the code would fail today, so that they
wait for the code (section 5).
