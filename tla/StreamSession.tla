---------------------------- MODULE StreamSession ----------------------------
(***************************************************************************)
(* The live-stream session of the TUI: the single UI task (run_tui and the *)
(* handlers it calls), the stream tasks it spawns, the one-shot tasks for  *)
(* steering, interrupting and unstreamed sends, and the two channels that  *)
(* connect them: the control channel of each stream task (UI -> task) and  *)
(* the app-event channel (tasks -> UI, one FIFO shared by all of them).    *)
(*                                                                         *)
(* A thread is a (server, thread id) key; a turn is its position in the    *)
(* order the servers started turns, 0 standing for None.  Transcript       *)
(* content, row statuses and history pages are abstracted: the turn a      *)
(* fetch reports is the one active when it was read, and what depends on   *)
(* a row's status is a free choice.                                        *)
(***************************************************************************)
EXTENDS Naturals, Sequences, FiniteSets

CONSTANTS
    Thread,     \* thread keys
    Existing,   \* the threads the servers hold when the TUI starts
    Prompt,     \* the messages the user may submit, each once
    NoThread,   \* Option::None for a thread key
    NoPrompt,   \* Option::None for a message
    MaxStream,  \* bound: stream ids allocated
    MaxTurn,    \* bound: turns the servers start
    MaxApp,     \* bound: app events queued at a time
    Features    \* what the user and other clients do, of AllFeatures

AllFeatures == {"move", "detail", "send", "nowait", "session", "steer", "interrupt",
                "codex", "attach", "others"}

ASSUME SessionAssumption ==
    /\ Existing \subseteq Thread
    /\ NoThread \notin Thread
    /\ NoPrompt \notin Prompt
    /\ MaxStream \in Nat
    /\ MaxTurn \in Nat
    /\ MaxApp \in Nat
    /\ Features \subseteq AllFeatures

VARIABLES
    mode,       \* state.mode: Browser, Detail, Compose or Confirm (interrupt)
    selected,   \* the selected (and previewed) browser row; none: no rows yet
    detail,     \* state.detail: the open thread and its active_turn_id
    draft,      \* the ComposeState, or what Mode::ConfirmInterrupt is about
    stream,     \* state.stream
    control,    \* the stream id whose control sender state.stream_control is
    nextId,     \* state.next_stream_id
    task,       \* the spawned stream tasks, by stream id
    ctl,        \* the control channel of each stream task
    jobs,       \* the one-shot tasks in flight
    app,        \* the app-event channel
    turns,      \* (servers) the turns started so far
    alive,      \* (servers) the threads that exist
    unsent,     \* the messages the user has not submitted yet
    aim,        \* the thread each message was composed for
    ran,        \* the turns each message was given to, in order
    refused     \* the messages whose submission was reported as failed

uiVars     == <<mode, selected, detail, draft>>
streamVars == <<stream, control, nextId>>
taskVars   == <<task, ctl, jobs>>
serverVars == <<turns, alive, ran>>
userVars   == <<unsent, aim, refused>>
vars == <<uiVars, streamVars, taskVars, app, serverVars, userVars>>

Id   == 1..MaxStream
Live == {"Starting", "Running"}
NoDetail == [thread |-> NoThread, turn |-> 0]
NoDraft  == [to |-> "none", thread |-> NoThread, turn |-> 0, ret |-> FALSE]
NoStream == [id |-> 0, thread |-> NoThread, turn |-> 0, status |-> "None"]
NoTask   == [pc |-> "none", thread |-> NoThread, turn |-> 0, prompt |-> NoPrompt]

(***************************************************************************)
(* The servers: one of a thread's unfinished turns is its active one.      *)
(* turn/start opens a new turn or gives the input to the active turn.      *)
(***************************************************************************)
OpenTurns(th) == {n \in DOMAIN turns : turns[n].thread = th /\ turns[n].state = "open"}

ActiveTurn(th) ==
    IF OpenTurns(th) = {} THEN 0 ELSE CHOOSE n \in OpenTurns(th) : TRUE

ServerRuns(th, p, n) ==
    /\ \/ /\ n = Len(turns) + 1
          /\ n <= MaxTurn
          /\ turns' = Append(turns, [thread |-> th, state |-> "open"])
       \/ /\ n = ActiveTurn(th)
          /\ n # 0
          /\ UNCHANGED turns
    /\ ran' = [ran EXCEPT ![p] = Append(@, n)]

\* The active turn of a thread ends on the server.
TurnOver(th) ==
    /\ ActiveTurn(th) # 0
    /\ \E outcome \in {"Completed", "Interrupted", "Failed"} :
         turns' = [turns EXCEPT ![ActiveTurn(th)].state = outcome]
    /\ UNCHANGED <<uiVars, streamVars, taskVars, app, alive, ran, userVars>>

\* Another client starts a turn on a thread.
OtherClient(th) ==
    /\ "others" \in Features
    /\ Len(turns) < MaxTurn
    /\ turns' = Append(turns, [thread |-> th, state |-> "open"])
    /\ UNCHANGED <<uiVars, streamVars, taskVars, app, alive, ran, userVars>>

(***************************************************************************)
(* Reading and writing the session's parts.                                *)
(***************************************************************************)
\* What the preview pane may hold: nothing, or a thread selected or streamed
\* before; it outlives its row, so it is a free choice.
Previews == alive \cup {NoThread}

\* stream_event_matches_visible_thread, with pv in the preview pane.
VisibleIn(m, th, pv) ==
    IF m = "Browser"
    THEN \/ th \in {selected, pv}
         \/ selected = NoThread /\ pv = NoThread /\ detail.thread = th
    ELSE detail.thread = th

StreamOn(th, statuses) == stream.thread = th /\ stream.status \in statuses

Msg(type, id, th, n, status) ==
    [type |-> type, id |-> id, thread |-> th, turn |-> n, status |-> status]

Submit(p) == [op |-> "submit", prompt |-> p]
Detach    == [op |-> "detach", prompt |-> NoPrompt]

CtlAfterDetach ==
    IF control = 0 THEN ctl ELSE [ctl EXCEPT ![control] = Append(@, Detach)]

\* detach_stream; Following is not touched.
DetachStream ==
    /\ ctl' = CtlAfterDetach
    /\ stream' = IF stream.status \in Live
                 THEN [stream EXCEPT !.status = "Detached"] ELSE stream
    /\ control' = 0

\* detach_stream followed by state.stream = None.
DropStream ==
    /\ ctl' = CtlAfterDetach
    /\ stream' = NoStream
    /\ control' = 0

NewTask(pc, th, n, p) == [pc |-> pc, thread |-> th, turn |-> n, prompt |-> p]

\* Mutation: allocate_stream_id hands out the next id without taking it.
SpawnTaskSameId(t) ==
    /\ nextId < MaxStream
    /\ nextId' = nextId
    /\ control' = nextId + 1
    /\ task' = [task EXCEPT ![nextId + 1] = t]

\* allocate_stream_id, a fresh control channel, and a spawned task that runs t.
SpawnTask(t) ==
    /\ nextId < MaxStream
    /\ nextId' = nextId + 1
    /\ control' = nextId + 1
    /\ task' = [task EXCEPT ![nextId + 1] = t]

\* The same, with the stream shown at once.
OpenStream(t, status) ==
    /\ SpawnTask(t)
    /\ stream' = [id |-> nextId + 1, thread |-> t.thread, turn |-> t.turn,
                  status |-> status]

\* preserve_detail_overlay_mode
ModeKept(same) ==
    same /\ (mode \in {"Detail", "Confirm"} \/ (mode = "Compose" /\ draft.ret))

ShowDetail ==
    /\ mode' = "Detail"
    /\ draft' = NoDraft

(***************************************************************************)
(* Key presses: handle_terminal_event, then                                *)
(* detach_stream_if_browser_selection_changed.                             *)
(***************************************************************************)
\* j, k, the mouse wheel, or a search that returns to the first row.
MoveSelection(th) ==
    /\ "move" \in Features
    /\ mode = "Browser"
    /\ th \in alive \ {selected}
    /\ selected' = th
    /\ IF stream.status # "None" /\ stream.thread # th
       THEN DropStream
       ELSE UNCHANGED <<stream, control, ctl>>
    /\ UNCHANGED <<mode, detail, draft, nextId, task, jobs,
                   app, serverVars, userVars>>

\* Enter on a browser row: schedule_detail_load.
OpenDetail ==
    /\ "detail" \in Features
    /\ mode = "Browser"
    /\ selected # NoThread
    /\ mode' = "Detail"
    /\ detail' = IF detail.thread = selected THEN detail
                 ELSE [thread |-> selected, turn |-> 0]
    /\ UNCHANGED <<selected, draft, streamVars, taskVars,
                   app, serverVars, userVars>>

\* Esc in a detail: unlink_detail_session.
CloseDetail ==
    /\ mode = "Detail"
    /\ mode' = "Browser"
    /\ detail' = NoDetail
    /\ IF stream.status # "None" /\ stream.thread = detail.thread
       THEN DropStream
       ELSE UNCHANGED <<stream, control, ctl>>
    /\ UNCHANGED <<selected, draft, nextId, task, jobs,
                   app, serverVars, userVars>>

\* ? in a detail and the key that leaves the help: the detail is kept.
LeaveByHelp ==
    /\ mode = "Detail"
    /\ mode' = "Browser"
    /\ UNCHANGED <<selected, detail, draft, streamVars, taskVars, app, serverVars,
                   userVars>>

ActiveThread == IF mode = "Detail" THEN detail.thread ELSE selected

\* Mutation: the turn of whatever stream is running.
SteerAnyStream(th, ret) ==
    IF stream.status \in Live
    THEN {[to |-> "steer", thread |-> th, turn |-> stream.turn, ret |-> ret]}
    ELSE {[to |-> to, thread |-> th, turn |-> 0, ret |-> ret] : to \in {"steer", "none"}}

\* steer_target_for_thread; the row's status decides the last case freely.
SteerTargets(th, ret) ==
    IF ret /\ detail.thread = th /\ detail.turn # 0
    THEN {[to |-> "steer", thread |-> th, turn |-> detail.turn, ret |-> ret]}
    ELSE IF StreamOn(th, Live)
    THEN {[to |-> "steer", thread |-> th, turn |-> stream.turn, ret |-> ret]}
    ELSE {[to |-> to, thread |-> th, turn |-> 0, ret |-> ret] : to \in {"steer", "none"}}

Sends(th, ret, to) == [to |-> to, thread |-> th, turn |-> 0, ret |-> ret]

\* The composer's target.  Bound: the user composes what it will submit.
Targets(d) == draft' = d /\ d.to \in Features /\ unsent # {}

\* m, or Enter in a detail: open_message_action with default_compose_target.
OpenCompose ==
    /\ mode \in {"Browser", "Detail"}
    /\ ActiveThread # NoThread
    /\ mode' = "Compose"
    /\ \E t \in SteerTargets(ActiveThread, mode = "Detail") :
         Targets(IF t.to = "none" THEN Sends(t.thread, t.ret, "send") ELSE t)
    /\ UNCHANGED <<selected, detail, streamVars, taskVars,
                   app, serverVars, userVars>>

\* n, and the server, directory and title prompts, up to the composer.
OpenNewSession ==
    /\ mode = "Browser"
    /\ mode' = "Compose"
    /\ Targets(Sends(NoThread, FALSE, "session"))
    /\ UNCHANGED <<selected, detail, streamVars, taskVars,
                   app, serverVars, userVars>>

\* Tab: toggle_compose_target_or_mode.
ToggleCompose ==
    /\ mode = "Compose"
    /\ \/ /\ draft.to = "steer"
          /\ Targets(Sends(draft.thread, draft.ret, "send"))
       \/ /\ draft.to \in {"send", "nowait"}
          /\ \E t \in SteerTargets(draft.thread, draft.ret) :
               Targets(IF t.to # "none" THEN t
                       ELSE Sends(draft.thread, draft.ret,
                                  IF draft.to = "send" THEN "nowait" ELSE "send"))
    /\ UNCHANGED <<mode, selected, detail, streamVars,
                   taskVars, app, serverVars, userVars>>

LeaveCompose ==
    /\ mode' = IF draft.ret THEN "Detail" ELSE "Browser"
    /\ draft' = NoDraft
    /\ UNCHANGED <<selected, detail>>

\* Esc in the composer or in the interrupt dialog, or Enter on an empty message.
CancelCompose ==
    /\ mode \in {"Compose", "Confirm"}
    /\ LeaveCompose
    /\ UNCHANGED <<streamVars, taskVars, app, serverVars, userVars>>

\* submit_compose, up to its match on the target.
Submitting(p, to) ==
    /\ mode = "Compose"
    /\ draft.to = to
    /\ p \in unsent
    /\ unsent' = unsent \ {p}
    /\ aim' = [aim EXCEPT ![p] = draft.thread]
    /\ LeaveCompose
    /\ UNCHANGED <<app, serverVars, refused>>

\* active_stream_can_queue_prompt
CanQueue(th) == StreamOn(th, Live \cup {"Following"})

SendJob(p)  == [op |-> "send", thread |-> draft.thread, turn |-> 0, prompt |-> p]

\* Enter on a streamed send to an existing thread.
SubmitSend(p) ==
    /\ Submitting(p, "send")
    /\ \/ /\ CanQueue(draft.thread)
          /\ control # 0
          /\ ctl' = [ctl EXCEPT ![control] = Append(@, Submit(p))]
          /\ UNCHANGED <<streamVars, task, jobs>>
       \/ /\ CanQueue(draft.thread)
          /\ control = 0
          /\ jobs' = jobs \cup {SendJob(p)}
          /\ UNCHANGED <<streamVars, task, ctl>>
       \/ /\ ~CanQueue(draft.thread)
          /\ ctl' = CtlAfterDetach
          /\ OpenStream(NewTask("start", draft.thread, 0, p), "Starting")
          /\ UNCHANGED jobs

\* Enter on a send without waiting.
SubmitNoWait(p) ==
    /\ Submitting(p, "nowait")
    /\ jobs' = jobs \cup {SendJob(p)}
    /\ UNCHANGED <<streamVars, task, ctl>>

\* Enter on the first message of a new session.
SubmitNewSession(p) ==
    /\ Submitting(p, "session")
    /\ ctl' = CtlAfterDetach
    /\ stream' = NoStream
    /\ SpawnTask(NewTask("create", NoThread, 0, p))
    /\ UNCHANGED jobs

\* Enter on a steer.
SubmitSteer(p) ==
    /\ Submitting(p, "steer")
    /\ jobs' = jobs \cup {[op |-> "steer", thread |-> draft.thread,
                           turn |-> draft.turn, prompt |-> p]}
    /\ UNCHANGED <<streamVars, task, ctl>>

\* The interrupt dialog, on turn n of th.
Dialog(th, n) == [to |-> "interrupt", thread |-> th, turn |-> n, ret |-> mode = "Detail"]

\* i on the open detail or on a row that runs, or Ctrl-C, in whatever mode, on the
\* running stream: the dialog keeps the turn of that moment.  Bound: one interrupt
\* at a time.
AskInterrupt ==
    /\ "interrupt" \in Features
    /\ \A j \in jobs : j.op # "interrupt"
    /\ \/ /\ mode = "Detail"
          /\ detail.turn # 0
          /\ draft' = Dialog(detail.thread, detail.turn)
       \/ /\ mode = "Browser"
          /\ selected # NoThread
          /\ draft' = Dialog(selected, IF StreamOn(selected, Live) THEN stream.turn ELSE 0)
       \/ /\ stream.status \in Live
          /\ stream.turn # 0
          /\ draft' = Dialog(stream.thread, stream.turn)
    /\ mode' = "Confirm"
    /\ UNCHANGED <<selected, detail, streamVars, taskVars, app, serverVars, userVars>>

\* Enter in the dialog.
Interrupt ==
    /\ mode = "Confirm"
    /\ jobs' = jobs \cup {[op |-> "interrupt", thread |-> draft.thread,
                           turn |-> draft.turn, prompt |-> NoPrompt]}
    /\ LeaveCompose
    /\ UNCHANGED <<streamVars, task, ctl, app, serverVars, userVars>>

\* o and the confirmation: codex runs in the terminal and the TUI resumes.
LaunchCodex ==
    /\ "codex" \in Features
    /\ mode \in {"Browser", "Detail"}
    /\ ActiveThread # NoThread
    /\ DetachStream
    /\ mode' = IF detail.thread = ActiveThread THEN "Detail" ELSE mode
    /\ UNCHANGED <<selected, detail, draft, nextId, task,
                   jobs, app, serverVars, userVars>>

(***************************************************************************)
(* History fetches.  The auto-attach preference (a in the columns menu)    *)
(* can be toggled between any two of them, so where it is read it is a     *)
(* free choice.                                                            *)
(***************************************************************************)
\* BrowserLoaded: set_browser_rows, which may lose the selected row, then, on
\* the first load, auto_attach_selected_browser_thread_if_active.
BrowserLoaded ==
    /\ selected' \in alive \cup {NoThread}
    /\ \/ /\ "attach" \in Features
          /\ selected = NoThread /\ selected' # NoThread
          /\ mode = "Browser" /\ stream.status = "None"
          /\ OpenStream(NewTask("resolve", selected', 0, NoPrompt), "Starting")
       \/ selected' # selected /\ UNCHANGED <<streamVars, task>>
    /\ UNCHANGED <<mode, detail, draft, ctl, jobs, app, serverVars, userVars>>

\* The replies the open detail may meet.  Epochs restart when a detail is
\* reopened, so they include another thread's; the reply was read earlier, so
\* its turn may have ended since.
Replies ==
    {d \in [thread : alive, turn : 0..Len(turns)] :
        d.turn # 0 => turns[d.turn].thread = d.thread}

\* auto_attach_open_detail_thread_if_active, on the detail just loaded.
AutoAttachDetail(d) ==
    /\ "attach" \in Features
    /\ mode' = "Detail"
    /\ d.turn # 0
    /\ ~StreamOn(d.thread, Live)
    /\ ctl' = CtlAfterDetach
    /\ OpenStream(NewTask("attach", d.thread, d.turn, NoPrompt), "Running")

\* DetailLoaded(Replace): replace_detail.  While a stream delivers the thread,
\* a transcript that is not empty takes metadata only.
DetailLoaded ==
    /\ detail.thread # NoThread
    /\ \E d \in Replies :
         /\ detail' = d
         /\ \/ /\ \/ ModeKept(detail.thread = d.thread)
                  \/ StreamOn(detail.thread, Live) /\ detail.thread = d.thread
               /\ UNCHANGED <<mode, draft>>
            \/ /\ ~ModeKept(detail.thread = d.thread)
               /\ ShowDetail
         /\ AutoAttachDetail(d) \/ UNCHANGED <<streamVars, task, ctl>>
    /\ UNCHANGED <<selected, jobs, app, serverVars, userVars>>

(***************************************************************************)
(* Stream tasks.  Each one ends with exactly one finished, failed, idle or *)
(* createFailed message; pc "over" and "leaving" are what lies between the *)
(* end of its wait and that message.                                       *)
(***************************************************************************)
Ended == {"none", "done"}

Post(m) ==
    /\ Len(app) < MaxApp
    /\ app' = Append(app, m)

Send(type, i, t, status) == Post(Msg(type, i, t.thread, t.turn, status))

\* A failed turn/start may still have reached the server (a lost answer).
Attempted(th, p) == UNCHANGED <<turns, ran>> \/ \E n \in 1..MaxTurn : ServerRuns(th, p, n)

\* spawn_create_session_task, up to SessionCreated.
CreateThread(i) ==
    /\ task[i].pc = "create"
    /\ \E th \in Thread \ alive :
         /\ alive' = alive \cup {th}
         /\ task' = [task EXCEPT ![i].pc = "start", ![i].thread = th]
         /\ aim' = [aim EXCEPT ![task[i].prompt] = th]
         /\ Post(Msg("created", i, th, 0, "None"))
    /\ UNCHANGED <<uiVars, streamVars, ctl, jobs, turns, ran, unsent, refused>>

CreateFails(i) ==
    /\ task[i].pc = "create"
    /\ task' = [task EXCEPT ![i].pc = "done"]
    /\ refused' = refused \cup {task[i].prompt}
    /\ Post(Msg("createFailed", 0, NoThread, 0, "None"))
    /\ UNCHANGED <<uiVars, streamVars, ctl, jobs, serverVars, unsent, aim>>

\* Mutation: an accepted start is sent again.
StartTurnAgain(i) ==
    /\ task[i].pc = "start"
    /\ \E n \in 1..MaxTurn : ServerRuns(task[i].thread, task[i].prompt, n)
    /\ Send("accepted", i, task[i], "Running")
    /\ UNCHANGED <<uiVars, streamVars, taskVars, alive, userVars>>

\* start_turn_request and its acceptance.
StartTurn(i) ==
    /\ task[i].pc = "start"
    /\ \E n \in 1..MaxTurn :
         LET t == [task[i] EXCEPT !.pc = "wait", !.turn = n]
         IN  /\ ServerRuns(t.thread, t.prompt, n)
             /\ task' = [task EXCEPT ![i] = t]
             /\ Send("accepted", i, t, "Running")
    /\ UNCHANGED <<uiVars, streamVars, ctl, jobs, alive, userVars>>

\* active_turn_id_for_thread in spawn_browser_attach_task (no active turn: the
\* task fails) and in wait_for_next_active_turn.
FindTurn(i) ==
    /\ task[i].pc \in {"resolve", "probe"}
    /\ ActiveTurn(task[i].thread) # 0
    /\ task' = [task EXCEPT ![i].pc = "attach", ![i].turn = ActiveTurn(task[i].thread)]
    /\ UNCHANGED <<uiVars, streamVars, ctl, jobs, app, serverVars, userVars>>

\* Mutation: the task says it is idle and goes on.
ProbeGoesOn(i) ==
    /\ task[i].pc = "probe"
    /\ ActiveTurn(task[i].thread) = 0
    /\ Send("idle", i, task[i], "None")
    /\ UNCHANGED <<uiVars, streamVars, taskVars, serverVars, userVars>>

\* wait_for_next_active_turn: its last attempt finds nothing.
ProbeGivesUp(i) ==
    /\ task[i].pc = "probe"
    /\ ActiveTurn(task[i].thread) = 0
    /\ task' = [task EXCEPT ![i].pc = "done"]
    /\ Send("idle", i, task[i], "None")
    /\ UNCHANGED <<uiVars, streamVars, ctl, jobs, serverVars, userVars>>

\* attach_turn: resume and the attached event.
Attach(i) ==
    /\ task[i].pc = "attach"
    /\ task' = [task EXCEPT ![i].pc = "wait"]
    /\ Send("attached", i, task[i], "Running")
    /\ UNCHANGED <<uiVars, streamVars, ctl, jobs, serverVars, userVars>>

\* TurnControl::Submit: the prompt is queued on the task's own thread.
ReadSubmit(i) ==
    /\ task[i].pc \in {"probe", "wait"}
    /\ ctl[i] # <<>>
    /\ Head(ctl[i]).op = "submit"
    /\ ctl' = [ctl EXCEPT ![i] = Tail(@)]
    /\ LET p == Head(ctl[i]).prompt
           th == task[i].thread
       IN  \/ \E n \in 1..MaxTurn :
                /\ ServerRuns(th, p, n)
                /\ Post(Msg("queued", i, th, n, "Running"))
                /\ task' = IF task[i].pc = "wait" THEN task
                           ELSE [task EXCEPT ![i].pc = "attach", ![i].turn = n]
                /\ UNCHANGED refused
           \/ /\ Attempted(th, p)
              /\ Send("failed", i, task[i], "Failed")
              /\ task' = [task EXCEPT ![i].pc = "done"]
              /\ refused' = refused \cup {p}
    /\ UNCHANGED <<uiVars, streamVars, jobs, alive, unsent, aim>>

\* Mutation: only the dropped sender makes the task leave; the message does not.
ReadDroppedOnly(i) ==
    /\ task[i].pc \in {"probe", "wait"}
    /\ ctl[i] = <<>>
    /\ control # i
    /\ IF task[i].pc = "wait"
       THEN /\ task' = [task EXCEPT ![i].pc = "leaving"]
            /\ UNCHANGED app
       ELSE /\ task' = [task EXCEPT ![i].pc = "done"]
            /\ Send("idle", i, task[i], "None")
    /\ UNCHANGED <<uiVars, streamVars, ctl, jobs, serverVars, userVars>>

\* TurnControl::Detach, or the sender was dropped.
ReadDetach(i) ==
    /\ task[i].pc \in {"probe", "wait"}
    /\ \/ /\ ctl[i] # <<>>
          /\ Head(ctl[i]).op = "detach"
          /\ ctl' = [ctl EXCEPT ![i] = Tail(@)]
       \/ /\ ctl[i] = <<>>
          /\ control # i
          /\ UNCHANGED ctl
    /\ IF task[i].pc = "wait"
       THEN /\ task' = [task EXCEPT ![i].pc = "leaving"]
            /\ UNCHANGED app
       ELSE /\ task' = [task EXCEPT ![i].pc = "done"]
            /\ Send("idle", i, task[i], "None")
    /\ UNCHANGED <<uiVars, streamVars, jobs, serverVars, userVars>>

\* A delta or a message of the awaited turn.
Progress(i) ==
    /\ task[i].pc = "wait"
    /\ turns[task[i].turn].state = "open"
    /\ Send("progress", i, task[i], "Running")
    /\ UNCHANGED <<uiVars, streamVars, taskVars, serverVars, userVars>>

\* turn/completed, by notification or by the fallback poll.
TurnEnds(i) ==
    /\ task[i].pc = "wait"
    /\ turns[task[i].turn].state # "open"
    /\ task' = [task EXCEPT ![i].pc = "over"]
    /\ Send("ended", i, task[i], turns[task[i].turn].state)
    /\ UNCHANGED <<uiVars, streamVars, ctl, jobs, serverVars, userVars>>

\* report_stream_task_result on Ok.
Report(i) ==
    /\ task[i].pc \in {"over", "leaving"}
    /\ task' = [task EXCEPT ![i].pc = "done"]
    /\ Send("finished", i, task[i],
            IF task[i].pc = "over" THEN turns[task[i].turn].state ELSE "Detached")
    /\ UNCHANGED <<uiVars, streamVars, ctl, jobs, serverVars, userVars>>

\* Mutation: a start that fails ends the task without a word.
TaskFailsSilently(i) ==
    /\ task[i].pc = "start"
    /\ task' = [task EXCEPT ![i].pc = "done"]
    /\ UNCHANGED <<uiVars, streamVars, ctl, jobs, app, serverVars, userVars>>

\* report_stream_task_result on Err: a request failed, the thread to attach
\* has no active turn, the connection is gone, or the hour to wait is over.
TaskFails(i) ==
    /\ task[i].pc \in {"start", "resolve", "probe", "attach", "wait"}
    /\ IF task[i].pc = "start"
       THEN /\ Attempted(task[i].thread, task[i].prompt)
            /\ refused' = refused \cup {task[i].prompt}
       ELSE UNCHANGED <<turns, ran, refused>>
    /\ task' = [task EXCEPT ![i].pc = "done"]
    /\ Send("failed", i, task[i], "Failed")
    /\ UNCHANGED <<uiVars, streamVars, ctl, jobs, alive, unsent, aim>>

(***************************************************************************)
(* One-shot tasks.                                                         *)
(***************************************************************************)
\* turn/steer and turn/interrupt expect the active turn.
JobTurn(j) == IF j.turn = 0 THEN ActiveTurn(j.thread) ELSE j.turn

Steered(j) ==
    /\ ActiveTurn(j.thread) # 0
    /\ JobTurn(j) = ActiveTurn(j.thread)
    /\ IF j.op = "steer"
       THEN ran' = [ran EXCEPT ![j.prompt] = Append(@, JobTurn(j))]
       ELSE UNCHANGED ran

\* spawn_no_wait_send_task and spawn_queue_turn_task.
JobSends(j) ==
    /\ j \in jobs
    /\ j.op = "send"
    /\ jobs' = jobs \ {j}
    /\ \E n \in 1..MaxTurn :
         /\ ServerRuns(j.thread, j.prompt, n)
         /\ Post(Msg("notice", 0, j.thread, n, "None"))
    /\ UNCHANGED <<uiVars, streamVars, task, ctl, alive, userVars>>

\* spawn_steer_task and spawn_interrupt_task.
JobSteers(j) ==
    /\ j \in jobs
    /\ j.op # "send"
    /\ Steered(j)
    /\ jobs' = jobs \ {j}
    /\ Post(Msg("accepted", 0, j.thread, JobTurn(j), "Running"))
    /\ UNCHANGED <<uiVars, streamVars, task, ctl, turns, alive, userVars>>

JobFails(j) ==
    /\ j \in jobs
    /\ jobs' = jobs \ {j}
    /\ \/ j.op = "send" /\ Attempted(j.thread, j.prompt)
       \/ j.op # "send" /\ Steered(j) /\ UNCHANGED turns
       \/ UNCHANGED <<turns, ran>>
    /\ refused' = refused \cup ({j.prompt} \ {NoPrompt})
    /\ \E n \in {j.turn, JobTurn(j)} :
         Post(IF j.op = "send" THEN Msg("notice", 0, j.thread, 0, "None")
              ELSE Msg("failed", 0, j.thread, n, "Failed"))
    /\ UNCHANGED <<uiVars, streamVars, task, ctl, alive, unsent, aim>>

(***************************************************************************)
(* App events: the app_rx branch of run_tui and handle_app_event.          *)
(***************************************************************************)
Receiving(types) ==
    /\ app # <<>>
    /\ Head(app).type \in types
    /\ app' = Tail(app)

\* Mutation: the new session takes the newest stream id, not its own.
HandleCreatedNewest ==
    /\ Receiving({"created"})
    /\ selected' = Head(app).thread
    /\ stream' = [id |-> nextId, thread |-> Head(app).thread, turn |-> 0,
                  status |-> "Starting"]
    /\ UNCHANGED <<mode, detail, draft, control, nextId, taskVars, serverVars, userVars>>

\* SessionCreated: the new row, selected, and its stream.
HandleCreated ==
    /\ Receiving({"created"})
    /\ selected' = Head(app).thread
    /\ stream' = [id |-> Head(app).id, thread |-> Head(app).thread, turn |-> 0,
                  status |-> "Starting"]
    /\ UNCHANGED <<mode, detail, draft, control, nextId, taskVars,
                   serverVars, userVars>>

HandleCreateFailed ==
    /\ Receiving({"createFailed"})
    /\ control' = 0
    /\ UNCHANGED <<uiVars, stream, nextId, taskVars, serverVars, userVars>>

\* The early returns of the StreamEvent arm.
Concerns(m, pv) ==
    IF stream.status = "None" THEN VisibleIn(mode, m.thread, pv)
    ELSE IF m.id # 0 THEN stream.id = m.id
    ELSE stream.thread = m.thread

\* The stream after an event it takes, made from the event when there is none.
StreamAfter(m) ==
    [id     |-> IF stream.status = "None" THEN m.id ELSE stream.id,
     thread |-> IF stream.status = "None" THEN m.thread ELSE stream.thread,
     turn   |-> IF m.type = "queued" /\ stream.status # "None" THEN stream.turn ELSE m.turn,
     status |-> m.status]

\* Mutation: the snapshot of an attach is put on whatever detail is open.
SnapshotForAny(m) == m.type = "attached" /\ detail.thread # NoThread

\* detail_from_resume_snapshot, when the snapshot has turns
SnapshotFor(m) == m.type = "attached" /\ detail.thread = m.thread

HandleStreamEvent ==
    /\ Receiving({"accepted", "queued", "attached", "progress", "ended"})
    /\ \E pv \in Previews, snapshot \in BOOLEAN :
         LET m == Head(app)
         IN
           /\ snapshot => SnapshotFor(m)
           /\ IF ~Concerns(m, pv) THEN UNCHANGED <<stream, detail, mode, draft>>
              ELSE
                /\ stream' = StreamAfter(m)
                /\ detail' = IF snapshot THEN [detail EXCEPT !.turn = m.turn] ELSE detail
                /\ IF snapshot /\ ~ModeKept(TRUE) THEN ShowDetail
                   ELSE UNCHANGED <<mode, draft>>
    /\ UNCHANGED <<selected, control, nextId, taskVars,
                   serverVars, userVars>>

\* stream_terminal_event_applies
Applies(m, pv) ==
    IF stream.status = "None" THEN m.id = 0 /\ VisibleIn(mode, m.thread, pv)
    ELSE /\ m.id = 0 \/ stream.id = m.id
         /\ stream.thread = m.thread
         /\ stream.turn = 0 \/ m.turn = 0 \/ stream.turn = m.turn

\* The stream's end: the status it takes and the loss of its control.
EndStream(m, pv) ==
    IF Applies(m, pv)
    THEN /\ stream' = IF stream.status = "None" THEN stream
                      ELSE [stream EXCEPT !.status = m.status]
         /\ control' = 0
    ELSE UNCHANGED <<stream, control>>

HandleFailed ==
    /\ Receiving({"failed"})
    /\ \E pv \in Previews : EndStream(Head(app), pv)
    /\ UNCHANGED <<uiVars, nextId, taskVars, serverVars, userVars>>

\* stream_finish_detail_thread, which does not ask whose stream finished.
RefreshesDetail == detail.thread # NoThread /\ stream.thread = detail.thread

\* stream_finish_follow_thread
FollowsUp(m, pv) ==
    /\ m.status = "Completed"
    /\ stream.id = m.id
    /\ stream.thread = m.thread
    /\ VisibleIn(mode, m.thread, pv)

\* follow_thread_stream_if_active, with auto-attach on.
FollowThread(th, pv) ==
    /\ "attach" \in Features
    /\ VisibleIn(mode', th, pv)
    /\ OpenStream(NewTask("probe", th, 0, NoPrompt), "Following")

\* What run_tui decided on before the handler ran comes after it: the refresh,
\* which shows the detail, and the follow-up.
HandleFinished ==
    /\ Receiving({"finished"})
    /\ IF RefreshesDetail THEN ShowDetail ELSE UNCHANGED <<mode, draft>>
    /\ \E pv \in Previews :
         \/ FollowsUp(Head(app), pv) /\ FollowThread(Head(app).thread, pv)
         \/ EndStream(Head(app), pv) /\ UNCHANGED <<nextId, task>>
    /\ UNCHANGED <<selected, detail, ctl, jobs, serverVars, userVars>>

\* Mutation: only the control is cleared.
HandleIdleControl ==
    /\ Receiving({"idle"})
    /\ control' = 0
    /\ UNCHANGED <<uiVars, stream, nextId, taskVars, serverVars, userVars>>

HandleIdle ==
    /\ Receiving({"idle"})
    /\ LET m == Head(app)
       IN  IF stream.id = m.id /\ stream.thread = m.thread
           THEN /\ stream' = [stream EXCEPT !.status = "Completed", !.turn = 0]
                /\ control' = 0
                /\ detail' = IF detail.thread = m.thread THEN [detail EXCEPT !.turn = 0]
                             ELSE detail
           ELSE UNCHANGED <<stream, control, detail>>
    /\ UNCHANGED <<mode, selected, draft, nextId, taskVars,
                   serverVars, userVars>>

\* TurnQueued and TurnSubmitFailed: a notice.
HandleNotice ==
    /\ Receiving({"notice"})
    /\ UNCHANGED <<uiVars, streamVars, taskVars, serverVars, userVars>>

(***************************************************************************)
(* The specification.                                                      *)
(***************************************************************************)
Init ==
    /\ mode = "Browser"
    /\ selected = NoThread
    /\ detail = NoDetail
    /\ draft = NoDraft
    /\ stream = NoStream
    /\ control = 0
    /\ nextId = 0
    /\ task = [i \in Id |-> NoTask]
    /\ ctl = [i \in Id |-> <<>>]
    /\ jobs = {}
    /\ app = <<>>
    /\ turns = <<>>
    /\ alive = Existing
    /\ unsent = Prompt
    /\ aim = [p \in Prompt |-> NoThread]
    /\ ran = [p \in Prompt |-> <<>>]
    /\ refused = {}

UserStep ==
    \/ \E th \in Thread : MoveSelection(th)
    \/ OpenDetail
    \/ CloseDetail
    \/ LeaveByHelp
    \/ OpenCompose
    \/ OpenNewSession
    \/ ToggleCompose
    \/ CancelCompose
    \/ \E p \in Prompt : \/ SubmitSend(p)
                         \/ SubmitNoWait(p)
                         \/ SubmitNewSession(p)
                         \/ SubmitSteer(p)
    \/ AskInterrupt
    \/ Interrupt
    \/ LaunchCodex

FetchStep == BrowserLoaded \/ DetailLoaded

AppStep ==
    \/ HandleCreated
    \/ HandleCreateFailed
    \/ HandleStreamEvent
    \/ HandleFailed
    \/ HandleFinished
    \/ HandleIdle
    \/ HandleNotice

TaskStep(i) ==
    \/ CreateThread(i)
    \/ CreateFails(i)
    \/ StartTurn(i)
    \/ FindTurn(i)
    \/ ProbeGivesUp(i)
    \/ Attach(i)
    \/ ReadSubmit(i)
    \/ ReadDetach(i)
    \/ Progress(i)
    \/ TurnEnds(i)
    \/ Report(i)
    \/ TaskFails(i)

JobStep(j) == JobSends(j) \/ JobSteers(j) \/ JobFails(j)

ServerStep == \E th \in alive : TurnOver(th) \/ OtherClient(th)

Next ==
    \/ UserStep
    \/ FetchStep
    \/ AppStep
    \/ \E i \in Id : TaskStep(i)
    \/ \E j \in jobs : JobStep(j)
    \/ ServerStep

Spec == Init /\ [][Next]_vars

\* What a task does without being told to, short of giving up on a turn.
Advance(i) ==
    \/ CreateThread(i)
    \/ CreateFails(i)
    \/ StartTurn(i)
    \/ FindTurn(i)
    \/ ProbeGivesUp(i)
    \/ Attach(i)
    \/ TurnEnds(i)
    \/ Report(i)
    \/ task[i].pc # "wait" /\ TaskFails(i)

\* The UI loop, the tasks and their selects run; strong fairness only makes up
\* for MaxApp, which the unbounded app-event channel does not have.  Nothing is
\* assumed of the user, the servers, or the one-hour timeout.
Fairness ==
    /\ WF_vars(AppStep)
    /\ \A i \in Id : SF_vars(Advance(i)) /\ SF_vars(ReadSubmit(i) \/ ReadDetach(i))
    /\ SF_vars(\E j \in jobs : JobStep(j))

FairSpec == Spec /\ Fairness

(***************************************************************************)
(* Safety.                                                                 *)
(***************************************************************************)
Statuses == {"None", "Starting", "Running", "Following", "Completed", "Interrupted",
             "Failed", "Detached"}
ThreadOrNone == Thread \cup {NoThread}
PromptOrNone == Prompt \cup {NoPrompt}
Turn0        == 0..MaxTurn
Id0          == 0..MaxStream

Drafts  == [to : {"none", "send", "nowait", "session", "steer", "interrupt"},
            thread : ThreadOrNone, turn : Turn0, ret : BOOLEAN]
Streams == [id : Id0, thread : ThreadOrNone, turn : Turn0, status : Statuses]
Tasks   == [pc : {"none", "create", "start", "resolve", "probe", "attach", "wait", "over",
                  "leaving", "done"},
            thread : ThreadOrNone, turn : Turn0, prompt : PromptOrNone]
Jobs    == [op : {"send", "steer", "interrupt"}, thread : ThreadOrNone, turn : Turn0,
            prompt : PromptOrNone]
Msgs    == [type : {"created", "createFailed", "accepted", "queued", "attached", "progress",
                    "ended", "finished", "failed", "idle", "notice"},
            id : Id0, thread : ThreadOrNone, turn : Turn0, status : Statuses]
Ctls    == [op : {"submit", "detach"}, prompt : PromptOrNone]
Turns   == [thread : ThreadOrNone, state : {"open", "Completed", "Interrupted", "Failed"}]

UITypes ==
    /\ mode \in {"Browser", "Detail", "Compose", "Confirm"}
    /\ selected \in ThreadOrNone
    /\ detail \in [thread : ThreadOrNone, turn : Turn0]
    /\ draft \in Drafts

StreamTypes ==
    /\ stream \in Streams
    /\ control \in Id0
    /\ nextId \in Id0

TaskTypes ==
    /\ task \in [Id -> Tasks]
    /\ ctl \in [Id -> Seq(Ctls)]
    /\ jobs \subseteq Jobs
    /\ app \in Seq(Msgs)

ServerTypes ==
    /\ turns \in Seq(Turns)
    /\ Len(turns) <= MaxTurn
    /\ alive \subseteq Thread
    /\ ran \in [Prompt -> Seq(1..MaxTurn)]

UserTypes ==
    /\ unsent \subseteq Prompt
    /\ aim \in [Prompt -> ThreadOrNone]
    /\ refused \subseteq PromptOrNone

\* The stream ids above nextId are free: what allocate_stream_id hands out next
\* was never given to a task, a channel, or the control of the UI.
FreshIds ==
    /\ control <= nextId
    /\ \A i \in Id : i > nextId => task[i] = NoTask /\ ctl[i] = <<>>

\* The state's types, with the freshness of stream ids.
TypeOK == UITypes /\ StreamTypes /\ TaskTypes /\ ServerTypes /\ UserTypes /\ FreshIds

\* A task that attaches or waits does so for a turn the servers started, and the
\* turn it is about to report as over has ended.
TurnsStarted ==
    \A i \in Id :
        /\ task[i].pc = "create" => task[i].turn = 0
        /\ task[i].pc \in {"attach", "wait", "over", "leaving"} => task[i].turn # 0
        /\ task[i].pc = "over" => turns[task[i].turn].state # "open"

\* What bears a stream id names the thread of its task, once that is decided.
OnTask(x) ==
    x.id # 0 => task[x.id].pc \notin {"none", "create"} /\ x.thread = task[x.id].thread

EventsMatchTask == OnTask(stream) /\ \A k \in DOMAIN app : OnTask(app[k])

\* A turn is only ever kept next to the thread it belongs to.
Owned(x) == x.turn # 0 => x.turn \in DOMAIN turns /\ turns[x.turn].thread = x.thread

TurnsOwned ==
    /\ Owned(detail) /\ Owned(draft) /\ Owned(stream)
    /\ \A i \in Id : Owned(task[i])
    /\ \A j \in jobs : Owned(j)
    /\ \A k \in DOMAIN app : Owned(app[k])

\* The thread the UI shows a stream on is the one its task works on, whatever
\* streams were opened while the events of that task were on their way.
StreamMatchesTask ==
    stream.id # 0 => stream.thread = task[stream.id].thread

\* The inductive invariant: threads, turns and stream ids stay together in every
\* place that holds them, which is what StreamMatchesTask and CommandsOnOwnTurn
\* rest on.
SessionInv ==
    TypeOK /\ TurnsStarted /\ EventsMatchTask /\ TurnsOwned

\* Where a message is, on its way from the user to a turn.
Places(p) ==
    (IF p \in unsent THEN {<<"unsent", 0, 0>>} ELSE {})
    \cup {<<"task", i, 0>> : i \in {k \in Id : /\ task[k].prompt = p
                                               /\ task[k].pc \in {"create", "start"}}}
    \cup (UNION {{<<"ctl", i, k>> : k \in {n \in DOMAIN ctl[i] : ctl[i][n] = Submit(p)}} :
                   i \in Id})
    \cup {<<"job", j.thread, j.turn>> : j \in {k \in jobs : k.prompt = p}}
    \cup {<<"ran", k, 0>> : k \in DOMAIN ran[p]}

\* A message is handed over once: it is never both queued and sent, and never
\* given to two turns, whichever way submit_compose chose and whatever failed.
PromptOnce == \A p \in Prompt : \A x, y \in Places(p) : x = y

Terminal == {"finished", "failed", "idle"}
NoticeQueued(i) == \E k \in DOMAIN app : app[k].id = i /\ app[k].type \in Terminal

\* A stream shown as starting or following always has a task that will still
\* say how it went: the UI never waits on a task that has nothing left to say.
WaitingIsBacked ==
    stream.status \in {"Starting", "Following"} =>
        task[stream.id].pc \notin Ended \/ NoticeQueued(stream.id)

\* A steer or an interrupt is only ever addressed to a turn of the thread it was
\* requested on, though the turn comes from the stream or the detail.
CommandsOnOwnTurn ==
    \A j \in jobs : j.turn # 0 => turns[j.turn].thread = j.thread

\* A task's closing message is its last: none of its events is left behind it to
\* bring the stream back.
TerminalIsLast ==
    \A k \in DOMAIN app :
        app[k].id # 0 /\ app[k].type \in Terminal =>
            /\ task[app[k].id].pc = "done"
            /\ \A n \in DOMAIN app : n > k => app[n].id # app[k].id

(***************************************************************************)
(* Liveness, under FairSpec.                                               *)
(***************************************************************************)
\* A task that no longer owns the control of the UI (left, replaced, or cut off
\* by an error) ends, though the turn it waits for may never end.
DetachedTaskEnds ==
    \A i \in Id : (task[i].pc \notin Ended /\ control # i) ~> task[i].pc = "done"

\* Following is a passing state: the next turn is found or the stream ends.
FollowingEnds == (stream.status = "Following") ~> (stream.status # "Following")

\* A message handed to a task of its own runs or is reported as failed.
SpawnedPromptSettles ==
    \A p \in Prompt :
        (\/ \E i \in Id : task[i].prompt = p /\ task[i].pc \in {"create", "start"}
         \/ \E j \in jobs : j.prompt = p)
        ~> (ran[p] # <<>> \/ p \in refused)

(***************************************************************************)
(* What the documentation, a comment or a test says and the code does not  *)
(* keep.                                                                   *)
(***************************************************************************)
\* README: compose follows queued turns on the thread.  A message put on the
\* control channel of a task is taken from it before the task is gone.
NoPromptStranded ==
    \A i \in Id : task[i].pc = "done" =>
        \A k \in DOMAIN ctl[i] : ctl[i][k].op # "submit"

\* Test detail_refresh_preserves_compose_overlay: a draft in progress is kept.
\* No app event closes the composer.
DraftSurvivesAppEvents ==
    [][mode = "Compose" /\ app # <<>> /\ app' = Tail(app) => draft' = draft]_vars

\* Comment in submit_compose: the terminal event of a detached stream's task
\* must not clear the new session's stream control.
TerminalKeepsNewControl ==
    [][app # <<>> /\ app' = Tail(app) /\ Head(app).type = "finished"
       /\ control \notin {0, Head(app).id} => control' # 0]_vars

\* README: a normal send is a turn/start on the thread it was composed for.
PromptOnItsThread ==
    \A p \in Prompt : \A k \in DOMAIN ran[p] : turns[ran[p][k]].thread = aim[p]

=============================================================================
