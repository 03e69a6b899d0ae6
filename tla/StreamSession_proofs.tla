------------------------ MODULE StreamSession_proofs ------------------------
(***************************************************************************)
(* Proofs about StreamSession, for every set of threads and messages,      *)
(* every bound and every choice of Features.                               *)
(***************************************************************************)
EXTENDS StreamSession, SequenceTheorems, TLAPS

\* What a closing event does to the stream, whatever the preview pane shows.
Ends(m)    == \E pv \in Previews : EndStream(m, pv)
Follows(m) == \E pv \in Previews : FollowThread(m.thread, pv)

(***************************************************************************)
(* The operators the model is built from.                                  *)
(***************************************************************************)
\* The active turn of a thread is 0 or one of its open turns.
LEMMA ActiveTurnIsOpen ==
    ASSUME NEW th, ServerTypes
    PROVE  /\ ActiveTurn(th) \in 0..Len(turns)
           /\ ActiveTurn(th) \in Turn0
           /\ ActiveTurn(th) # 0 => /\ ActiveTurn(th) \in 1..Len(turns)
                                    /\ turns[ActiveTurn(th)].thread = th
                                    /\ turns[ActiveTurn(th)].state = "open"
<1>1. OpenTurns(th) \subseteq 1..Len(turns)
  BY DEF OpenTurns, ServerTypes
<1>2. CASE OpenTurns(th) = {}
  BY <1>2, SessionAssumption DEF ActiveTurn, ServerTypes, Turn0
<1>3. CASE OpenTurns(th) # {}
  <2>1. ActiveTurn(th) \in OpenTurns(th)
    BY <1>3 DEF ActiveTurn
  <2> QED BY <2>1, <1>1, SessionAssumption DEF OpenTurns, ServerTypes, Turn0
<1> QED BY <1>2, <1>3

\* A turn/start keeps the types of what the servers hold, and returns a turn.
LEMMA ServerRunsTypes ==
    ASSUME ServerTypes, NEW th \in ThreadOrNone, NEW p, NEW n \in 1..MaxTurn,
           ServerRuns(th, p, n)
    PROVE  /\ turns' \in Seq(Turns)
           /\ Len(turns') <= MaxTurn
           /\ ran' \in [Prompt -> Seq(1..MaxTurn)]
<1> USE SessionAssumption
<1>1. turns' \in Seq(Turns) /\ Len(turns') <= MaxTurn
  <2>1. [thread |-> th, state |-> "open"] \in Turns
    BY DEF Turns
  <2> QED BY <2>1 DEF ServerRuns, ServerTypes
<1>2. ran' \in [Prompt -> Seq(1..MaxTurn)]
  <2>1. ran' = [q \in Prompt |-> IF q = p THEN Append(ran[p], n) ELSE ran[q]]
    BY DEF ServerRuns, ServerTypes
  <2>2. ASSUME NEW q \in Prompt
        PROVE  Append(ran[q], n) \in Seq(1..MaxTurn)
    BY DEF ServerTypes
  <2> QED BY <2>1, <2>2 DEF ServerTypes
<1> QED BY <1>1, <1>2

\* So does one whose answer is lost.
LEMMA AttemptedTypes ==
    ASSUME ServerTypes, NEW th \in ThreadOrNone, NEW p, Attempted(th, p)
    PROVE  /\ turns' \in Seq(Turns)
           /\ Len(turns') <= MaxTurn
           /\ ran' \in [Prompt -> Seq(1..MaxTurn)]
BY ServerRunsTypes DEF Attempted, ServerTypes

\* A message that is posted has the type of the channel.
LEMMA PostTypes ==
    ASSUME TaskTypes, NEW m \in Msgs, Post(m)
    PROVE  app' \in Seq(Msgs)
BY DEF Post, TaskTypes

\* Detaching appends to at most one control channel.
LEMMA DetachTypes ==
    ASSUME StreamTypes, TaskTypes
    PROVE  CtlAfterDetach \in [Id -> Seq(Ctls)]
<1>1. Detach \in Ctls
  BY DEF Detach, Ctls, PromptOrNone
<1> QED BY <1>1 DEF CtlAfterDetach, StreamTypes, TaskTypes, Id, Id0

\* Detaching leaves the channels of free stream ids empty.
LEMMA DetachFresh ==
    ASSUME StreamTypes, TaskTypes, FreshIds, NEW i \in Id, i > nextId
    PROVE  CtlAfterDetach[i] = ctl[i]
BY SessionAssumption DEF CtlAfterDetach, StreamTypes, TaskTypes, FreshIds, Id, Id0

\* A spawned task takes the first free stream id.
LEMMA SpawnTypes ==
    ASSUME TypeOK, NEW t \in Tasks, SpawnTask(t)
    PROVE  /\ nextId' = nextId + 1
           /\ nextId' \in Id
           /\ nextId' \in Id0
           /\ control' = nextId'
           /\ task' \in [Id -> Tasks]
           /\ \A i \in Id : i > nextId' => task'[i] = NoTask
BY SessionAssumption DEF SpawnTask, TypeOK, StreamTypes, TaskTypes, FreshIds, Id, Id0

\* So does a task whose stream is shown at once.
LEMMA OpenStreamTypes ==
    ASSUME TypeOK, NEW t \in Tasks, NEW s \in Statuses, OpenStream(t, s)
    PROVE  /\ SpawnTask(t)
           /\ stream' \in Streams
           /\ stream'.thread = t.thread
           /\ stream'.id = nextId'
BY SpawnTypes DEF OpenStream, Streams, Tasks

(***************************************************************************)
(* Type correctness, one action at a time.                                 *)
(***************************************************************************)
\* The parts of the state an action leaves alone keep their types.
LEMMA UnchangedTypes ==
    ASSUME TypeOK
    PROVE  /\ UNCHANGED uiVars => UITypes'
           /\ UNCHANGED serverVars => ServerTypes'
           /\ UNCHANGED userVars => UserTypes'
           /\ UNCHANGED streamVars => StreamTypes'
           /\ UNCHANGED <<taskVars, app>> => TaskTypes'
           /\ UNCHANGED <<streamVars, task, ctl>> => FreshIds'
<1> USE DEF TypeOK
<1>1. UNCHANGED uiVars => UITypes'
  BY DEF uiVars, UITypes
<1>2. UNCHANGED serverVars => ServerTypes'
  BY DEF serverVars, ServerTypes
<1>3. UNCHANGED userVars => UserTypes'
  BY DEF userVars, UserTypes
<1>4. UNCHANGED streamVars => StreamTypes'
  BY DEF streamVars, StreamTypes
<1>5. UNCHANGED <<taskVars, app>> => TaskTypes'
  BY DEF taskVars, TaskTypes
<1>6. UNCHANGED <<streamVars, task, ctl>> => FreshIds'
  BY DEF streamVars, FreshIds
<1> QED BY <1>1, <1>2, <1>3, <1>4, <1>5, <1>6

\* Detaching, with or without dropping the stream, keeps the session typed.
LEMMA DropTypes ==
    ASSUME TypeOK, DetachStream \/ DropStream, UNCHANGED <<nextId, task, jobs, app>>
    PROVE  StreamTypes' /\ TaskTypes' /\ FreshIds'
<1> USE SessionAssumption DEF TypeOK
<1>1. StreamTypes'
  BY DEF DetachStream, DropStream, StreamTypes, Streams, NoStream, ThreadOrNone, Turn0,
         Statuses, Id0
<1>2. TaskTypes'
  BY DetachTypes DEF DetachStream, DropStream, TaskTypes
<1>3. FreshIds'
  <2>1. control' = 0 /\ ctl' = CtlAfterDetach
    BY DEF DetachStream, DropStream
  <2>2. control' <= nextId'
    BY <2>1 DEF StreamTypes, Id0
  <2>3. ASSUME NEW i \in Id, i > nextId'
        PROVE  task'[i] = NoTask /\ ctl'[i] = <<>>
    BY <2>1, <2>3, DetachFresh DEF FreshIds
  <2> QED BY <2>2, <2>3 DEF FreshIds
<1> QED BY <1>1, <1>2, <1>3

\* The keys that only move around the interface.
LEMMA BrowsingTypes ==
    ASSUME TypeOK,
           \/ \E th \in Thread : MoveSelection(th)
           \/ OpenDetail
           \/ CloseDetail
           \/ LeaveByHelp
           \/ LaunchCodex
    PROVE  TypeOK'
<1> USE SessionAssumption
<1>1. CASE \E th \in Thread : MoveSelection(th)
  <2> PICK th \in Thread : MoveSelection(th)
    BY <1>1
  <2>1. UITypes'
    BY DEF MoveSelection, TypeOK, UITypes, ThreadOrNone
  <2>2. StreamTypes' /\ TaskTypes' /\ FreshIds'
    BY DropTypes, UnchangedTypes DEF MoveSelection, streamVars, taskVars
  <2>3. ServerTypes' /\ UserTypes'
    BY UnchangedTypes DEF MoveSelection
  <2> QED BY <2>1, <2>2, <2>3 DEF TypeOK
<1>2. CASE OpenDetail
  <2>1. UITypes'
    BY <1>2 DEF OpenDetail, TypeOK, UITypes, Turn0
  <2> QED BY <1>2, <2>1, UnchangedTypes DEF OpenDetail, TypeOK, streamVars, taskVars
<1>3. CASE CloseDetail
  <2>1. UITypes'
    BY <1>3 DEF CloseDetail, TypeOK, UITypes, NoDetail, ThreadOrNone, Turn0
  <2>2. StreamTypes' /\ TaskTypes' /\ FreshIds'
    BY <1>3, DropTypes, UnchangedTypes DEF CloseDetail, streamVars, taskVars
  <2> QED BY <1>3, <2>1, <2>2, UnchangedTypes DEF CloseDetail, TypeOK
<1>4. CASE LeaveByHelp
  <2>1. UITypes'
    BY <1>4 DEF LeaveByHelp, TypeOK, UITypes
  <2> QED BY <1>4, <2>1, UnchangedTypes DEF LeaveByHelp, TypeOK, streamVars, taskVars
<1>5. CASE LaunchCodex
  <2>1. UITypes'
    BY <1>5 DEF LaunchCodex, TypeOK, UITypes
  <2>2. StreamTypes' /\ TaskTypes' /\ FreshIds'
    BY <1>5, DropTypes DEF LaunchCodex
  <2> QED BY <1>5, <2>1, <2>2, UnchangedTypes DEF LaunchCodex, TypeOK
<1> QED BY <1>1, <1>2, <1>3, <1>4, <1>5

\* Opening, switching and leaving the composer.
LEMMA ComposingTypes ==
    ASSUME TypeOK, \/ OpenCompose \/ OpenNewSession \/ ToggleCompose \/ CancelCompose
                   \/ AskInterrupt
    PROVE  TypeOK'
<1> USE SessionAssumption
<1>1. ASSUME NEW th \in ThreadOrNone, NEW ret \in BOOLEAN, NEW t \in SteerTargets(th, ret)
      PROVE  t \in Drafts
  BY <1>1 DEF SteerTargets, Drafts, TypeOK, UITypes, StreamTypes, Streams, Turn0
<1>2. ASSUME NEW th \in ThreadOrNone, NEW ret \in BOOLEAN,
             NEW to \in {"send", "nowait", "session"}
      PROVE  Sends(th, ret, to) \in Drafts
  BY DEF Sends, Drafts, Turn0
<1>3. UITypes'
  <2>1. CASE OpenCompose
    <3>1. ActiveThread \in ThreadOrNone /\ (mode = "Detail") \in BOOLEAN
      BY DEF ActiveThread, TypeOK, UITypes
    <3>2. PICK t \in SteerTargets(ActiveThread, mode = "Detail") :
              draft' = IF t.to = "none" THEN Sends(t.thread, t.ret, "send") ELSE t
      BY <2>1 DEF OpenCompose, Targets
    <3>3. t \in Drafts
      BY <1>1, <3>1
    <3>4. draft' \in Drafts
      BY <3>2, <3>3, <1>2 DEF Drafts
    <3> QED BY <2>1, <3>4 DEF OpenCompose, TypeOK, UITypes
  <2>2. CASE OpenNewSession
    BY <2>2, <1>2 DEF OpenNewSession, Targets, TypeOK, UITypes, ThreadOrNone
  <2>3. CASE ToggleCompose
    <3>1. draft.thread \in ThreadOrNone /\ draft.ret \in BOOLEAN
      BY DEF TypeOK, UITypes, Drafts
    <3>2. draft' \in Drafts
      BY <2>3, <3>1, <1>1, <1>2 DEF ToggleCompose, Targets
    <3> QED BY <2>3, <3>2 DEF ToggleCompose, Targets, TypeOK, UITypes
  <2>4. CASE CancelCompose
    BY <2>4 DEF CancelCompose, LeaveCompose, TypeOK, UITypes, NoDraft, Drafts, ThreadOrNone,
                Turn0
  <2>5. CASE AskInterrupt
    <3>1. ASSUME NEW th \in ThreadOrNone, NEW n \in Turn0
          PROVE  Dialog(th, n) \in Drafts
      BY DEF Dialog, Drafts
    <3>2. draft' \in Drafts
      BY <2>5, <3>1 DEF AskInterrupt, TypeOK, UITypes, StreamTypes, Streams, Turn0
    <3> QED BY <2>5, <3>2 DEF AskInterrupt, TypeOK, UITypes
  <2> QED BY <2>1, <2>2, <2>3, <2>4, <2>5
<1>4. UNCHANGED <<streamVars, taskVars, app, serverVars, userVars>>
  BY DEF OpenCompose, OpenNewSession, ToggleCompose, CancelCompose, AskInterrupt
<1> QED BY <1>3, <1>4, UnchangedTypes DEF TypeOK, streamVars, taskVars

\* What is common to the ways a message is submitted.
LEMMA SubmittingTypes ==
    ASSUME TypeOK, NEW p \in Prompt, NEW to, Submitting(p, to)
    PROVE  UITypes' /\ ServerTypes' /\ UserTypes' /\ draft.thread \in ThreadOrNone
<1>1. UITypes'
  BY SessionAssumption DEF Submitting, LeaveCompose, TypeOK, UITypes, NoDraft, Drafts,
                           ThreadOrNone, Turn0
<1>2. UserTypes' /\ draft.thread \in ThreadOrNone
  BY DEF Submitting, TypeOK, UserTypes, UITypes, Drafts
<1> QED BY <1>1, <1>2, UnchangedTypes DEF Submitting

\* A task spawned along with a detached control channel.
LEMMA SpawnStepTypes ==
    ASSUME TypeOK, NEW t \in Tasks, SpawnTask(t), ctl' = CtlAfterDetach \/ ctl' = ctl,
           stream' \in Streams, jobs' \subseteq Jobs, app' \in Seq(Msgs)
    PROVE  StreamTypes' /\ TaskTypes' /\ FreshIds'
<1>1. /\ nextId' = nextId + 1 /\ nextId' \in Id0 /\ control' = nextId'
      /\ task' \in [Id -> Tasks]
      /\ \A i \in Id : i > nextId' => task'[i] = NoTask
  BY SpawnTypes
<1>2. StreamTypes'
  BY <1>1 DEF StreamTypes
<1>3. TaskTypes'
  BY <1>1, DetachTypes DEF TaskTypes, TypeOK
<1>4. ASSUME NEW i \in Id, i > nextId'
      PROVE  task'[i] = NoTask /\ ctl'[i] = <<>>
  <2>1. i > nextId
    BY <1>1, <1>4 DEF TypeOK, StreamTypes, Id0, Id
  <2> QED BY <1>1, <1>4, <2>1, DetachFresh DEF TypeOK, FreshIds
<1>5. control' <= nextId'
  BY <1>1 DEF Id0
<1> QED BY <1>2, <1>3, <1>4, <1>5 DEF FreshIds

\* The ways a message is submitted.
LEMMA SubmitTypes ==
    ASSUME TypeOK, NEW p \in Prompt,
           \/ SubmitSend(p)
           \/ SubmitNoWait(p)
           \/ SubmitNewSession(p)
           \/ SubmitSteer(p)
    PROVE  TypeOK'
<1> USE SessionAssumption
<1>1. ASSUME ServerTypes', UITypes', UserTypes', StreamTypes', TaskTypes', FreshIds'
      PROVE  TypeOK'
  BY <1>1 DEF TypeOK
<1>2. CASE SubmitSend(p)
  <2>1. Submitting(p, "send") /\ app' = app
    BY <1>2 DEF SubmitSend, Submitting
  <2>2. UITypes' /\ ServerTypes' /\ UserTypes' /\ draft.thread \in ThreadOrNone
    BY <2>1, SubmittingTypes
  <2>3. SendJob(p) \in Jobs
    BY <2>2 DEF SendJob, Jobs, PromptOrNone, Turn0
  <2>4. CASE /\ control # 0 /\ ctl' = [ctl EXCEPT ![control] = Append(@, Submit(p))]
             /\ UNCHANGED <<streamVars, task, jobs>>
    <3>1. control \in Id /\ Submit(p) \in Ctls
      BY <2>4 DEF TypeOK, StreamTypes, Id0, Id, Submit, Ctls, PromptOrNone
    <3>2. ctl' \in [Id -> Seq(Ctls)]
      BY <2>4, <3>1 DEF TypeOK, TaskTypes
    <3>3. TaskTypes'
      BY <2>1, <2>4, <3>2 DEF TypeOK, TaskTypes
    <3>4. FreshIds'
      BY <2>4, <3>1 DEF TypeOK, FreshIds, streamVars, TaskTypes, StreamTypes, Id, Id0
    <3> QED BY <1>1, <2>2, <2>4, <3>3, <3>4, UnchangedTypes
  <2>5. CASE jobs' = jobs \cup {SendJob(p)} /\ UNCHANGED <<streamVars, task, ctl>>
    <3>1. TaskTypes'
      BY <2>1, <2>3, <2>5 DEF TypeOK, TaskTypes
    <3> QED BY <1>1, <2>2, <2>5, <3>1, UnchangedTypes
  <2>6. CASE /\ ctl' = CtlAfterDetach
             /\ OpenStream(NewTask("start", draft.thread, 0, p), "Starting")
             /\ UNCHANGED jobs
    <3>1. NewTask("start", draft.thread, 0, p) \in Tasks /\ "Starting" \in Statuses
      BY <2>2 DEF NewTask, Tasks, PromptOrNone, Turn0, Statuses
    <3>2. /\ SpawnTask(NewTask("start", draft.thread, 0, p))
          /\ stream' \in Streams /\ jobs' \subseteq Jobs /\ app' \in Seq(Msgs)
      BY <2>1, <2>6, <3>1, OpenStreamTypes DEF TypeOK, TaskTypes
    <3>3. StreamTypes' /\ TaskTypes' /\ FreshIds'
      BY <2>6, <3>1, <3>2, SpawnStepTypes
    <3> QED BY <1>1, <2>2, <3>3
  <2> QED BY <1>2, <2>4, <2>5, <2>6 DEF SubmitSend
<1>3. CASE SubmitNoWait(p) \/ SubmitSteer(p)
  <2>1. UITypes' /\ ServerTypes' /\ UserTypes' /\ draft.thread \in ThreadOrNone
    BY <1>3, SubmittingTypes DEF SubmitNoWait, SubmitSteer
  <2>2. app' = app /\ jobs' \subseteq Jobs
    BY <1>3, <2>1 DEF SubmitNoWait, SubmitSteer, Submitting, SendJob, Jobs, PromptOrNone,
                      Turn0, TypeOK, TaskTypes, UITypes, Drafts
  <2>3. UNCHANGED <<streamVars, task, ctl>>
    BY <1>3 DEF SubmitNoWait, SubmitSteer
  <2>4. TaskTypes'
    BY <2>2, <2>3 DEF TypeOK, TaskTypes
  <2> QED BY <1>1, <2>1, <2>3, <2>4, UnchangedTypes
<1>4. CASE SubmitNewSession(p)
  <2>1. UITypes' /\ ServerTypes' /\ UserTypes'
    BY <1>4, SubmittingTypes DEF SubmitNewSession
  <2>2. NewTask("create", NoThread, 0, p) \in Tasks /\ NoStream \in Streams
    BY DEF NewTask, Tasks, PromptOrNone, ThreadOrNone, Turn0, NoStream, Streams, Statuses,
           Id0
  <2>3. jobs' \subseteq Jobs /\ app' \in Seq(Msgs) /\ stream' \in Streams
    BY <1>4, <2>2 DEF SubmitNewSession, Submitting, TypeOK, TaskTypes
  <2>4. StreamTypes' /\ TaskTypes' /\ FreshIds'
    BY <1>4, <2>2, <2>3, SpawnStepTypes DEF SubmitNewSession
  <2> QED BY <1>1, <2>1, <2>4
<1> QED BY <1>2, <1>3, <1>4

\* The interrupt.
LEMMA InterruptTypes ==
    ASSUME TypeOK, Interrupt
    PROVE  TypeOK'
<1> USE SessionAssumption
<1>1. jobs' \subseteq Jobs
  BY DEF Interrupt, Jobs, PromptOrNone, TypeOK, TaskTypes, UITypes, Drafts
<1>2. TaskTypes'
  BY <1>1 DEF Interrupt, TypeOK, TaskTypes
<1>3. UITypes'
  BY DEF Interrupt, LeaveCompose, TypeOK, UITypes, NoDraft, Drafts, ThreadOrNone, Turn0
<1> QED BY <1>2, <1>3, UnchangedTypes DEF Interrupt, TypeOK

\* The loads of the browser and of the detail.
LEMMA FetchTypes ==
    ASSUME TypeOK, FetchStep
    PROVE  TypeOK'
<1> USE SessionAssumption
<1>1. CASE BrowserLoaded
  <2>1. UITypes'
    BY <1>1 DEF BrowserLoaded, TypeOK, UITypes, ServerTypes, ThreadOrNone
  <2>2. CASE selected' # NoThread
             /\ OpenStream(NewTask("resolve", selected', 0, NoPrompt), "Starting")
    <3>1. NewTask("resolve", selected', 0, NoPrompt) \in Tasks /\ "Starting" \in Statuses
      BY <2>1 DEF UITypes, NewTask, Tasks, PromptOrNone, Turn0, Statuses
    <3>2. /\ SpawnTask(NewTask("resolve", selected', 0, NoPrompt))
          /\ stream' \in Streams /\ ctl' = ctl /\ jobs' \subseteq Jobs /\ app' \in Seq(Msgs)
      BY <1>1, <2>2, <3>1, OpenStreamTypes DEF BrowserLoaded, TypeOK, TaskTypes
    <3>3. StreamTypes' /\ TaskTypes' /\ FreshIds'
      BY <3>1, <3>2, SpawnStepTypes
    <3> QED BY <1>1, <2>1, <3>3, UnchangedTypes DEF BrowserLoaded, TypeOK
  <2>3. CASE UNCHANGED <<streamVars, task>>
    BY <1>1, <2>1, <2>3, UnchangedTypes DEF BrowserLoaded, TypeOK, taskVars
  <2> QED BY <1>1, <2>2, <2>3 DEF BrowserLoaded
<1>2. CASE DetailLoaded
  <2>1. PICK d \in Replies :
          /\ detail' = d
          /\ UNCHANGED <<mode, draft>> \/ ShowDetail
          /\ AutoAttachDetail(d) \/ UNCHANGED <<streamVars, task, ctl>>
    BY <1>2 DEF DetailLoaded
  <2>2. d \in [thread : ThreadOrNone, turn : Turn0]
    <3>1. d \in [thread : alive, turn : 0..Len(turns)]
      BY DEF Replies
    <3>2. alive \subseteq ThreadOrNone /\ 0..Len(turns) \subseteq Turn0
      BY DEF TypeOK, ServerTypes, ThreadOrNone, Turn0
    <3> QED BY <3>1, <3>2
  <2>3. UITypes'
    <3>1. selected' \in ThreadOrNone /\ detail' \in [thread : ThreadOrNone, turn : Turn0]
      BY <1>2, <2>1, <2>2 DEF DetailLoaded, TypeOK, UITypes
    <3>2. NoDraft \in Drafts
      BY DEF NoDraft, Drafts, ThreadOrNone, Turn0
    <3>3. mode' \in {"Browser", "Detail", "Compose", "Confirm"} /\ draft' \in Drafts
      BY <2>1, <3>2 DEF ShowDetail, TypeOK, UITypes
    <3> QED BY <3>1, <3>3 DEF UITypes
  <2>4. CASE AutoAttachDetail(d)
    <3>1. NewTask("attach", d.thread, d.turn, NoPrompt) \in Tasks /\ "Running" \in Statuses
      BY <2>2 DEF NewTask, Tasks, PromptOrNone, Statuses
    <3>2. /\ SpawnTask(NewTask("attach", d.thread, d.turn, NoPrompt))
          /\ stream' \in Streams /\ ctl' = CtlAfterDetach
          /\ jobs' \subseteq Jobs /\ app' \in Seq(Msgs)
      BY <1>2, <2>4, <3>1, OpenStreamTypes DEF AutoAttachDetail, DetailLoaded, TypeOK, TaskTypes
    <3>3. StreamTypes' /\ TaskTypes' /\ FreshIds'
      BY <3>1, <3>2, SpawnStepTypes
    <3> QED BY <1>2, <2>3, <3>3, UnchangedTypes DEF DetailLoaded, TypeOK
  <2>5. CASE UNCHANGED <<streamVars, task, ctl>>
    BY <1>2, <2>3, <2>5, UnchangedTypes DEF DetailLoaded, TypeOK, taskVars
  <2> QED BY <2>1, <2>4, <2>5
<1> QED BY <1>1, <1>2 DEF FetchStep

\* What a task's step leaves alone.
LEMMA TaskFrame ==
    ASSUME NEW i \in Id, TaskStep(i)
    PROVE  UNCHANGED <<uiVars, streamVars, jobs, unsent>>
BY Zenon DEF TaskStep, CreateThread, CreateFails, StartTurn, FindTurn, ProbeGivesUp, Attach,
       ReadSubmit, ReadDetach, Progress, TurnEnds, Report, TaskFails, taskVars, userVars

\* A task that moves is one that was spawned.
LEMMA TaskMoves ==
    ASSUME TypeOK, NEW i \in Id, TaskStep(i)
    PROVE  /\ i <= nextId
           /\ task[i] \in Tasks
           /\ task[i].pc \notin Ended
           /\ \A k \in Id : k # i => task'[k] = task[k] /\ ctl'[k] = ctl[k]
<1>1. task[i] \in Tasks
  BY DEF TypeOK, TaskTypes
<1>2. task[i].pc \notin Ended
  BY Zenon DEF Ended, TaskStep, CreateThread, CreateFails, StartTurn, FindTurn, ProbeGivesUp, Attach,
         ReadSubmit, ReadDetach, Progress, TurnEnds, Report, TaskFails
<1>3. i <= nextId
  BY <1>2, SessionAssumption DEF TypeOK, FreshIds, StreamTypes, NoTask, Ended, Id, Id0
<1>4. \A k \in Id : k # i => task'[k] = task[k] /\ ctl'[k] = ctl[k]
  BY Zenon DEF TypeOK, TaskTypes, TaskStep, CreateThread, CreateFails, StartTurn, FindTurn,
         ProbeGivesUp, Attach, ReadSubmit, ReadDetach, Progress, TurnEnds, Report, TaskFails,
         taskVars
<1> QED BY <1>1, <1>2, <1>3, <1>4

\* The steps of a stream task.
LEMMA TaskStepTypes ==
    ASSUME TypeOK, TurnsStarted, TurnsOwned, NEW i \in Id, TaskStep(i)
    PROVE  TypeOK'
<1> USE SessionAssumption
<1>1. /\ i <= nextId /\ task[i] \in Tasks
      /\ \A k \in Id : k # i => task'[k] = task[k] /\ ctl'[k] = ctl[k]
  BY TaskMoves
<1>2. UITypes' /\ StreamTypes' /\ jobs' \subseteq Jobs /\ unsent' = unsent
  BY TaskFrame, UnchangedTypes DEF TypeOK, TaskTypes
<1>3. FreshIds'
  BY <1>1, TaskFrame DEF TypeOK, FreshIds, streamVars, StreamTypes, Id, Id0
<1>4. ASSUME NEW m \in Msgs, Post(m)
      PROVE  app' \in Seq(Msgs)
  BY <1>4, PostTypes DEF TypeOK
<1>5. ASSUME NEW t \in Tasks, NEW s \in Statuses, NEW type, Send(type, i, t, s),
             type \in {"accepted", "attached", "progress", "ended", "finished", "failed", "idle"}
      PROVE  app' \in Seq(Msgs)
  <2>1. Msg(type, i, t.thread, t.turn, s) \in Msgs
    BY <1>5 DEF Msg, Msgs, Tasks, Id, Id0
  <2> QED BY <1>5, <2>1, <1>4 DEF Send
<1>6. ASSUME NEW t \in Tasks, task' = [task EXCEPT ![i] = t]
      PROVE  task' \in [Id -> Tasks]
  BY <1>6 DEF TypeOK, TaskTypes
<1>6a. ASSUME NEW pc \in {"attach", "wait", "over", "leaving", "done"},
              task' = [task EXCEPT ![i].pc = pc]
       PROVE  task' \in [Id -> Tasks]
  <2>1. [task[i] EXCEPT !.pc = pc] \in Tasks
    BY <1>1 DEF Tasks
  <2>2. task' = [task EXCEPT ![i] = [task[i] EXCEPT !.pc = pc]]
    BY <1>6a
  <2> QED BY <2>1, <2>2, <1>6
<1>7. ASSUME ctl[i] # <<>>
      PROVE  Head(ctl[i]) \in Ctls /\ Tail(ctl[i]) \in Seq(Ctls)
  BY <1>7, HeadTailProperties DEF TypeOK, TaskTypes
<1> DEFINE Goal == /\ task' \in [Id -> Tasks]
                   /\ ctl' \in [Id -> Seq(Ctls)]
                   /\ app' \in Seq(Msgs)
                   /\ ServerTypes'
                   /\ aim' \in [Prompt -> ThreadOrNone]
                   /\ refused' \subseteq PromptOrNone
<1>8. ASSUME Goal
      PROVE  TypeOK'
  BY <1>2, <1>3, <1>8 DEF TypeOK, TaskTypes, UserTypes
<1>9. UNCHANGED serverVars => ServerTypes'
  BY UnchangedTypes
<1>10. UNCHANGED ctl => ctl' \in [Id -> Seq(Ctls)]
  BY DEF TypeOK, TaskTypes
<1>11. UNCHANGED <<aim, refused>> =>
         aim' \in [Prompt -> ThreadOrNone] /\ refused' \subseteq PromptOrNone
  BY DEF TypeOK, UserTypes
<1>12. task[i].prompt \in PromptOrNone /\ task[i].thread \in ThreadOrNone
  BY <1>1 DEF Tasks
<1>13. CASE CreateThread(i)
  <2> PICK th \in Thread \ alive :
        /\ alive' = alive \cup {th}
        /\ task' = [task EXCEPT ![i].pc = "start", ![i].thread = th]
        /\ aim' = [aim EXCEPT ![task[i].prompt] = th]
        /\ Post(Msg("created", i, th, 0, "None"))
    BY <1>13 DEF CreateThread
  <2>1. task' \in [Id -> Tasks]
    BY <1>1 DEF TypeOK, TaskTypes, Tasks, ThreadOrNone
  <2>2. Msg("created", i, th, 0, "None") \in Msgs
    BY DEF Msg, Msgs, Id, Id0, ThreadOrNone, Turn0, Statuses
  <2>3. aim' \in [Prompt -> ThreadOrNone] /\ refused' \subseteq PromptOrNone
    BY <1>13 DEF CreateThread, TypeOK, UserTypes, ThreadOrNone
  <2>4. ServerTypes'
    BY <1>13 DEF CreateThread, TypeOK, ServerTypes
  <2> QED BY <1>4, <1>8, <1>10, <1>13, <2>1, <2>2, <2>3, <2>4 DEF CreateThread
<1>14. CASE CreateFails(i)
  <2>1. task' \in [Id -> Tasks]
    BY <1>1, <1>14 DEF CreateFails, TypeOK, TaskTypes, Tasks
  <2>2. Msg("createFailed", 0, NoThread, 0, "None") \in Msgs
    BY DEF Msg, Msgs, Id0, ThreadOrNone, Turn0, Statuses
  <2>3. aim' \in [Prompt -> ThreadOrNone] /\ refused' \subseteq PromptOrNone
    BY <1>12, <1>14 DEF CreateFails, TypeOK, UserTypes
  <2> QED BY <1>4, <1>8, <1>9, <1>10, <1>14, <2>1, <2>2, <2>3 DEF CreateFails
<1>15. CASE StartTurn(i)
  <2> DEFINE t(n) == [task[i] EXCEPT !.pc = "wait", !.turn = n]
  <2>1. ASSUME NEW n \in 1..MaxTurn
        PROVE  t(n) \in Tasks /\ t(n).thread = task[i].thread /\ t(n).prompt = task[i].prompt
    <3>1. n \in Turn0
      BY DEF Turn0
    <3> QED BY <3>1, <1>1 DEF Tasks
  <2> PICK n \in 1..MaxTurn :
        /\ ServerRuns(t(n).thread, t(n).prompt, n)
        /\ task' = [task EXCEPT ![i] = t(n)]
        /\ Send("accepted", i, t(n), "Running")
    BY <1>15 DEF StartTurn
  <2>2. ServerRuns(task[i].thread, task[i].prompt, n) /\ t(n) \in Tasks
    BY <2>1, Zenon
  <2> HIDE DEF t
  <2>3. ServerTypes'
    BY <2>2, <1>12, <1>15, ServerRunsTypes DEF StartTurn, TypeOK, ServerTypes
  <2>4. app' \in Seq(Msgs)
    BY <2>2, <1>5 DEF Statuses
  <2>5. task' \in [Id -> Tasks]
    BY <2>2, <1>6
  <2> QED BY <1>8, <1>10, <1>11, <1>15, <2>3, <2>4, <2>5 DEF StartTurn, userVars
<1>16. CASE FindTurn(i)
  <2>1. [task[i] EXCEPT !.pc = "attach", !.turn = ActiveTurn(task[i].thread)] \in Tasks
    BY <1>1, ActiveTurnIsOpen DEF Tasks, TypeOK
  <2>2. task' \in [Id -> Tasks]
    BY <1>16, <2>1 DEF FindTurn, TypeOK, TaskTypes
  <2> QED BY <1>8, <1>9, <1>10, <1>11, <1>16, <2>2 DEF FindTurn, userVars, TypeOK, TaskTypes
<1>17. CASE ProbeGivesUp(i) \/ Attach(i) \/ Progress(i)
  <2>1. task' \in [Id -> Tasks]
    BY <1>17, <1>6a DEF ProbeGivesUp, Attach, Progress, TypeOK, TaskTypes, taskVars
  <2>2. app' \in Seq(Msgs)
    BY <1>1, <1>5, <1>17 DEF ProbeGivesUp, Attach, Progress, Statuses
  <2> QED BY <1>8, <1>9, <1>10, <1>11, <1>17, <2>1, <2>2
          DEF ProbeGivesUp, Attach, Progress, userVars, taskVars
<1>18. CASE TurnEnds(i) \/ Report(i)
  <2>1. task[i].pc # "leaving" => turns[task[i].turn].state \in Statuses
    <3>1. task[i].turn \in 1..Len(turns)
      BY <1>18 DEF TurnEnds, Report, TurnsStarted, TurnsOwned, Owned, TypeOK, ServerTypes
    <3>2. turns[task[i].turn] \in Turns
      BY <3>1 DEF TypeOK, ServerTypes
    <3>3. turns[task[i].turn].state # "open" \/ task[i].pc = "leaving"
      BY <1>18 DEF TurnEnds, Report, TurnsStarted
    <3> QED BY <3>2, <3>3 DEF Turns, Statuses
  <2>2. task' \in [Id -> Tasks]
    BY <1>18, <1>6a DEF TurnEnds, Report
  <2>3. app' \in Seq(Msgs)
    BY <1>1, <1>5, <1>18, <2>1 DEF TurnEnds, Report, Statuses
  <2> QED BY <1>8, <1>9, <1>10, <1>11, <1>18, <2>2, <2>3 DEF TurnEnds, Report, userVars
<1>19. CASE ReadSubmit(i)
  <2> DEFINE p  == Head(ctl[i]).prompt
             th == task[i].thread
  <2>1. p \in PromptOrNone /\ Tail(ctl[i]) \in Seq(Ctls)
    BY <1>7, <1>19 DEF ReadSubmit, Ctls
  <2>2. ctl' \in [Id -> Seq(Ctls)]
    BY <1>19, <2>1 DEF ReadSubmit, TypeOK, TaskTypes
  <2>3. CASE \E n \in 1..MaxTurn :
               /\ ServerRuns(th, p, n)
               /\ Post(Msg("queued", i, th, n, "Running"))
               /\ task' = IF task[i].pc = "wait" THEN task
                          ELSE [task EXCEPT ![i].pc = "attach", ![i].turn = n]
               /\ UNCHANGED refused
    <3> PICK n \in 1..MaxTurn :
               /\ ServerRuns(th, p, n)
               /\ Post(Msg("queued", i, th, n, "Running"))
               /\ task' = IF task[i].pc = "wait" THEN task
                          ELSE [task EXCEPT ![i].pc = "attach", ![i].turn = n]
               /\ UNCHANGED refused
      BY <2>3
    <3>1. n \in Turn0
      BY DEF Turn0
    <3>2. Msg("queued", i, th, n, "Running") \in Msgs
      BY <1>12, <3>1 DEF Msg, Msgs, Statuses, Id, Id0
    <3>3. app' \in Seq(Msgs)
      BY <3>2, <1>4
    <3>4. task' \in [Id -> Tasks]
      BY <1>1, <3>1 DEF TypeOK, TaskTypes, Tasks
    <3>5. ServerTypes'
      BY <1>12, <1>19, ServerRunsTypes DEF ReadSubmit, TypeOK, ServerTypes
    <3> QED BY <1>8, <1>11, <1>19, <2>2, <3>3, <3>4, <3>5 DEF ReadSubmit
  <2>4. CASE /\ Attempted(th, p)
             /\ Send("failed", i, task[i], "Failed")
             /\ task' = [task EXCEPT ![i].pc = "done"]
             /\ refused' = refused \cup {p}
    <3>1. task' \in [Id -> Tasks]
      BY <1>1, <2>4 DEF TypeOK, TaskTypes, Tasks
    <3>2. app' \in Seq(Msgs)
      BY <1>1, <1>5, <2>4 DEF Statuses
    <3>3. ServerTypes'
      BY <1>12, <1>19, <2>4, AttemptedTypes DEF ReadSubmit, TypeOK, ServerTypes
    <3>4. aim' \in [Prompt -> ThreadOrNone] /\ refused' \subseteq PromptOrNone
      BY <1>19, <2>1, <2>4 DEF ReadSubmit, TypeOK, UserTypes
    <3> QED BY <1>8, <2>2, <3>1, <3>2, <3>3, <3>4
  <2> QED BY <1>19, <2>3, <2>4 DEF ReadSubmit
<1>20. CASE ReadDetach(i)
  <2>1. ctl' \in [Id -> Seq(Ctls)]
    BY <1>7, <1>20 DEF ReadDetach, TypeOK, TaskTypes
  <2>2. task' \in [Id -> Tasks]
    BY <1>20, <1>6a DEF ReadDetach
  <2>3. app' \in Seq(Msgs)
    BY <1>1, <1>5, <1>20 DEF ReadDetach, Statuses, TypeOK, TaskTypes
  <2> QED BY <1>8, <1>9, <1>11, <1>20, <2>1, <2>2, <2>3 DEF ReadDetach, userVars
<1>21. CASE TaskFails(i)
  <2>1. task' \in [Id -> Tasks]
    BY <1>1, <1>21 DEF TaskFails, TypeOK, TaskTypes, Tasks
  <2>2. app' \in Seq(Msgs)
    BY <1>1, <1>5, <1>21 DEF TaskFails, Statuses
  <2>3. ServerTypes'
    BY <1>12, <1>21, AttemptedTypes DEF TaskFails, TypeOK, ServerTypes
  <2>4. aim' \in [Prompt -> ThreadOrNone] /\ refused' \subseteq PromptOrNone
    BY <1>12, <1>21 DEF TaskFails, TypeOK, UserTypes
  <2> QED BY <1>8, <1>10, <1>21, <2>1, <2>2, <2>3, <2>4 DEF TaskFails
<1> QED
  BY <1>13, <1>14, <1>15, <1>16, <1>17, <1>18, <1>19, <1>20, <1>21 DEF TaskStep

\* The steps of a one-shot task.
LEMMA JobStepTypes ==
    ASSUME TypeOK, NEW j \in jobs, JobStep(j)
    PROVE  TypeOK'
<1> USE SessionAssumption
<1>1. /\ j.op \in {"send", "steer", "interrupt"} /\ j.thread \in ThreadOrNone
      /\ j.turn \in Turn0 /\ j.prompt \in PromptOrNone
  BY DEF TypeOK, TaskTypes, Jobs
<1>2. JobTurn(j) \in Turn0
  BY <1>1, ActiveTurnIsOpen DEF JobTurn, TypeOK
<1>3. ASSUME Steered(j)
      PROVE  ran' \in [Prompt -> Seq(1..MaxTurn)]
  <2>1. JobTurn(j) \in 1..MaxTurn
    BY <1>3, ActiveTurnIsOpen DEF Steered, TypeOK, ServerTypes
  <2>2. ASSUME NEW q \in Prompt
        PROVE  Append(ran[q], JobTurn(j)) \in Seq(1..MaxTurn)
    BY <2>1 DEF TypeOK, ServerTypes
  <2>3. CASE j.op = "steer"
    <3>1. ran' = [q \in Prompt |-> IF q = j.prompt THEN Append(ran[q], JobTurn(j)) ELSE ran[q]]
      BY <1>3, <2>3 DEF Steered, TypeOK, ServerTypes
    <3> HIDE DEF JobTurn
    <3> QED BY <2>2, <3>1 DEF TypeOK, ServerTypes
  <2> QED BY <1>3, <2>3 DEF Steered, TypeOK, ServerTypes
<1>4. ASSUME NEW n \in Turn0, NEW type \in {"notice", "accepted", "failed"},
             NEW s \in Statuses, Post(Msg(type, 0, j.thread, n, s))
      PROVE  app' \in Seq(Msgs)
  <2>1. Msg(type, 0, j.thread, n, s) \in Msgs
    BY <1>1 DEF Msg, Msgs, Id0
  <2> QED BY <1>4, <2>1, PostTypes DEF TypeOK
<1>5. /\ UNCHANGED <<uiVars, streamVars, task, ctl, unsent, aim, alive>>
      /\ jobs' \subseteq Jobs
  BY DEF JobStep, JobSends, JobSteers, JobFails, serverVars, userVars, TypeOK, TaskTypes
<1>6. UITypes' /\ StreamTypes' /\ FreshIds'
  BY <1>5, UnchangedTypes
<1> DEFINE Goal == /\ app' \in Seq(Msgs)
                   /\ turns' \in Seq(Turns)
                   /\ Len(turns') <= MaxTurn
                   /\ ran' \in [Prompt -> Seq(1..MaxTurn)]
                   /\ refused' \subseteq PromptOrNone
<1>7. ASSUME Goal
      PROVE  TypeOK'
  BY <1>5, <1>6, <1>7 DEF TypeOK, TaskTypes, ServerTypes, UserTypes
<1>8. CASE JobSends(j)
  <2> PICK n \in 1..MaxTurn : /\ ServerRuns(j.thread, j.prompt, n)
                              /\ Post(Msg("notice", 0, j.thread, n, "None"))
    BY <1>8 DEF JobSends
  <2>1. app' \in Seq(Msgs)
    BY <1>4 DEF Turn0, Statuses
  <2>2. /\ turns' \in Seq(Turns) /\ Len(turns') <= MaxTurn
        /\ ran' \in [Prompt -> Seq(1..MaxTurn)]
    BY <1>1, ServerRunsTypes DEF TypeOK
  <2>3. refused' \subseteq PromptOrNone
    BY <1>8 DEF JobSends, userVars, TypeOK, UserTypes
  <2> QED BY <1>7, <2>1, <2>2, <2>3
<1>9. CASE JobSteers(j)
  <2>1. app' \in Seq(Msgs)
    BY <1>2, <1>4, <1>9 DEF JobSteers, Statuses
  <2>2. turns' \in Seq(Turns) /\ Len(turns') <= MaxTurn /\ refused' \subseteq PromptOrNone
    BY <1>9 DEF JobSteers, userVars, TypeOK, UserTypes, ServerTypes
  <2> QED BY <1>3, <1>7, <1>9, <2>1, <2>2 DEF JobSteers
<1>10. CASE JobFails(j)
  <2> PICK n \in {j.turn, JobTurn(j)} :
         Post(IF j.op = "send" THEN Msg("notice", 0, j.thread, 0, "None")
              ELSE Msg("failed", 0, j.thread, n, "Failed"))
    BY <1>10 DEF JobFails
  <2>1. app' \in Seq(Msgs)
    <3>1. n \in Turn0 /\ 0 \in Turn0 /\ {"None", "Failed"} \subseteq Statuses
      BY <1>1, <1>2 DEF Turn0, Statuses
    <3>2. CASE j.op = "send"
      BY <1>4, <3>1, <3>2
    <3>3. CASE j.op # "send"
      BY <1>4, <3>1, <3>3
    <3> QED BY <3>2, <3>3
  <2>2. /\ turns' \in Seq(Turns) /\ Len(turns') <= MaxTurn
        /\ ran' \in [Prompt -> Seq(1..MaxTurn)]
    <3>1. CASE Attempted(j.thread, j.prompt)
      BY <1>1, <3>1, AttemptedTypes DEF TypeOK
    <3>2. CASE Steered(j) /\ UNCHANGED turns
      BY <1>3, <3>2 DEF TypeOK, ServerTypes
    <3>3. CASE UNCHANGED <<turns, ran>>
      BY <3>3 DEF TypeOK, ServerTypes
    <3> QED BY <1>10, <3>1, <3>2, <3>3 DEF JobFails
  <2>3. refused' \subseteq PromptOrNone
    BY <1>1, <1>10 DEF JobFails, TypeOK, UserTypes
  <2> QED BY <1>7, <2>1, <2>2, <2>3
<1> QED BY <1>8, <1>9, <1>10 DEF JobStep

\* The app events.
LEMMA AppStepTypes ==
    ASSUME TypeOK, AppStep
    PROVE  TypeOK'
<1> USE SessionAssumption
<1> DEFINE m == Head(app)
<1>1. /\ app # <<>> /\ app' = Tail(app)
      /\ UNCHANGED <<taskVars, serverVars, userVars>> \/ HandleFinished
  BY DEF AppStep, Receiving, HandleCreated, HandleCreateFailed, HandleStreamEvent, HandleFailed,
         HandleFinished, HandleIdle, HandleNotice
<1>2. m \in Msgs /\ app' \in Seq(Msgs)
  BY <1>1, HeadTailProperties DEF TypeOK, TaskTypes
<1>3. m.id \in Id0 /\ m.thread \in ThreadOrNone /\ m.turn \in Turn0 /\ m.status \in Statuses
  BY <1>2 DEF Msgs
<1> HIDE DEF m
<1>4. ASSUME UITypes', stream' \in Streams, control' \in {0, control},
             UNCHANGED <<nextId, taskVars, serverVars, userVars>>
      PROVE  TypeOK'
  <2>1. StreamTypes' /\ FreshIds'
    BY <1>4 DEF TypeOK, StreamTypes, FreshIds, taskVars, Id0
  <2>2. TaskTypes'
    BY <1>2, <1>4 DEF TypeOK, TaskTypes, taskVars
  <2> QED BY <1>4, <2>1, <2>2, UnchangedTypes DEF TypeOK
<1>5. stream \in Streams /\ UITypes
  BY DEF TypeOK, StreamTypes
<1>6. ASSUME Ends(m)
      PROVE  stream' \in Streams /\ control' \in {0, control}
  BY <1>3, <1>5, <1>6 DEF Ends, EndStream, Streams
<1>7. ASSUME ShowDetail \/ UNCHANGED <<mode, draft>>
      PROVE  mode' \in {"Browser", "Detail", "Compose", "Confirm"} /\ draft' \in Drafts
  <2>1. NoDraft \in Drafts
    BY DEF NoDraft, Drafts, ThreadOrNone, Turn0
  <2> QED BY <1>5, <1>7, <2>1 DEF ShowDetail, UITypes
<1>8. CASE HandleCreated
  <2>1. UITypes'
    BY <1>3, <1>5, <1>8 DEF HandleCreated, UITypes, m
  <2>2. stream' \in Streams
    BY <1>3, <1>8 DEF HandleCreated, Streams, m, Turn0, Statuses
  <2> QED BY <1>4, <1>8, <2>1, <2>2 DEF HandleCreated
<1>9. CASE HandleCreateFailed
  BY <1>4, <1>5, <1>9, UnchangedTypes DEF HandleCreateFailed
<1>10. CASE HandleStreamEvent
  <2>1. StreamAfter(m) \in Streams
    BY <1>3, <1>5 DEF StreamAfter, Streams
  <2>2. stream' \in Streams
    BY <1>5, <1>10, <2>1 DEF HandleStreamEvent, m
  <2>3. detail' \in [thread : ThreadOrNone, turn : Turn0]
    BY <1>3, <1>5, <1>10 DEF HandleStreamEvent, UITypes, m
  <2>4. ShowDetail \/ UNCHANGED <<mode, draft>>
    BY <1>10 DEF HandleStreamEvent
  <2>5. UITypes'
    BY <1>5, <1>7, <1>10, <2>3, <2>4 DEF HandleStreamEvent, UITypes
  <2> QED BY <1>4, <1>10, <2>2, <2>5 DEF HandleStreamEvent
<1>11. CASE HandleFailed
  <2>1. Ends(m)
    BY <1>11 DEF HandleFailed, Ends, m
  <2> QED BY <1>4, <1>6, <1>11, <2>1, UnchangedTypes DEF HandleFailed
<1>12. CASE HandleFinished
  <2>1. UITypes'
    BY <1>5, <1>7, <1>12 DEF HandleFinished, UITypes
  <2>2. CASE Follows(m)
    <3>1. NewTask("probe", m.thread, 0, NoPrompt) \in Tasks /\ "Following" \in Statuses
      BY <1>3 DEF NewTask, Tasks, PromptOrNone, Turn0, Statuses
    <3>2. /\ SpawnTask(NewTask("probe", m.thread, 0, NoPrompt))
          /\ stream' \in Streams /\ ctl' = ctl /\ jobs' \subseteq Jobs
      BY <1>12, <2>2, <3>1, OpenStreamTypes
         DEF Follows, FollowThread, HandleFinished, TypeOK, TaskTypes
    <3>3. StreamTypes' /\ TaskTypes' /\ FreshIds'
      BY <1>2, <3>1, <3>2, SpawnStepTypes
    <3> QED BY <1>12, <2>1, <3>3, UnchangedTypes DEF HandleFinished, TypeOK
  <2>3. CASE Ends(m) /\ UNCHANGED <<nextId, task>>
    BY <1>4, <1>6, <1>12, <2>1, <2>3 DEF HandleFinished, taskVars
  <2> QED BY <1>12, <2>2, <2>3 DEF HandleFinished, Ends, Follows, m
<1>13. CASE HandleIdle
  <2>1. stream' \in Streams /\ control' \in {0, control}
    <3>1. CASE stream' = [stream EXCEPT !.status = "Completed", !.turn = 0] /\ control' = 0
      <4>1. 0 \in Turn0 /\ "Completed" \in Statuses
        BY DEF Turn0, Statuses
      <4>2. [stream EXCEPT !.status = "Completed", !.turn = 0] \in Streams
        BY <1>5, <4>1 DEF Streams
      <4> QED BY <3>1, <4>2
    <3>2. CASE UNCHANGED <<stream, control>>
      BY <1>5, <3>2
    <3> QED BY <1>13, <3>1, <3>2 DEF HandleIdle
  <2>2. detail' \in [thread : ThreadOrNone, turn : Turn0]
    BY <1>5, <1>13 DEF HandleIdle, UITypes, Turn0
  <2>3. UITypes'
    BY <1>5, <1>13, <2>2 DEF HandleIdle, UITypes
  <2> QED BY <1>4, <1>13, <2>1, <2>3 DEF HandleIdle
<1>14. CASE HandleNotice
  BY <1>4, <1>5, <1>14, UnchangedTypes DEF HandleNotice, streamVars
<1> QED
  BY <1>8, <1>9, <1>10, <1>11, <1>12, <1>13, <1>14 DEF AppStep

\* What happens on the servers without the TUI.
LEMMA ServerStepTypes ==
    ASSUME TypeOK, ServerStep
    PROVE  TypeOK'
<1> USE SessionAssumption
<1> PICK th \in alive : TurnOver(th) \/ OtherClient(th)
  BY DEF ServerStep
<1>1. turns' \in Seq(Turns) /\ Len(turns') <= MaxTurn
  <2>1. CASE TurnOver(th)
    <3>1. ActiveTurn(th) \in 1..Len(turns)
      BY <2>1, ActiveTurnIsOpen DEF TurnOver, TypeOK
    <3>2. PICK o \in {"Completed", "Interrupted", "Failed"} :
             turns' = [turns EXCEPT ![ActiveTurn(th)].state = o]
      BY <2>1 DEF TurnOver
    <3>3. [turns[ActiveTurn(th)] EXCEPT !.state = o] \in Turns
      <4>1. turns[ActiveTurn(th)] \in Turns
        BY <3>1 DEF TypeOK, ServerTypes
      <4> QED BY <4>1 DEF Turns
    <3>4. turns' = [turns EXCEPT ![ActiveTurn(th)] = [turns[ActiveTurn(th)] EXCEPT !.state = o]]
      BY <3>2
    <3> QED BY <3>1, <3>3, <3>4, ExceptSeq DEF TypeOK, ServerTypes
  <2>2. CASE OtherClient(th)
    <3>1. [thread |-> th, state |-> "open"] \in Turns
      BY DEF TypeOK, ServerTypes, Turns, ThreadOrNone
    <3> QED BY <2>2, <3>1 DEF OtherClient, TypeOK, ServerTypes
  <2> QED BY <2>1, <2>2
<1>2. UNCHANGED <<uiVars, streamVars, taskVars, app, alive, ran, userVars>>
  BY DEF TurnOver, OtherClient
<1>3. ServerTypes'
  BY <1>1, <1>2 DEF TypeOK, ServerTypes
<1> QED BY <1>2, <1>3, UnchangedTypes DEF TypeOK, taskVars

(***************************************************************************)
(* The inductive invariant: stream ids, threads and turns stay together    *)
(* wherever the program keeps them, and with it the theorems about the     *)
(* specification.                                                          *)
(***************************************************************************)

(***************************************************************************)
(* The turns the servers hold.                                             *)
(***************************************************************************)
\* A turn/start returns a turn of its thread, and the turns that were there keep
\* their threads and their outcomes.
LEMMA ServerRunsTurn ==
    ASSUME ServerTypes, NEW th, NEW p, NEW n \in 1..MaxTurn, ServerRuns(th, p, n)
    PROVE  /\ n \in DOMAIN turns'
           /\ turns'[n].thread = th
           /\ \A k \in DOMAIN turns : k \in DOMAIN turns' /\ turns'[k] = turns[k]
<1>1. CASE n = Len(turns) + 1 /\ turns' = Append(turns, [thread |-> th, state |-> "open"])
  BY <1>1, SessionAssumption DEF ServerTypes
<1>2. CASE n = ActiveTurn(th) /\ n # 0 /\ UNCHANGED turns
  BY <1>2, ActiveTurnIsOpen, SessionAssumption DEF ServerTypes
<1> QED BY <1>1, <1>2 DEF ServerRuns

\* So does one whose answer is lost.
LEMMA AttemptedTurns ==
    ASSUME ServerTypes, NEW th, NEW p, Attempted(th, p)
    PROVE  \A k \in DOMAIN turns : k \in DOMAIN turns' /\ turns'[k] = turns[k]
BY ServerRunsTurn DEF Attempted

\* No step takes a turn back, moves it to another thread or reopens it.
TurnsKept ==
    \A k \in DOMAIN turns : /\ k \in DOMAIN turns'
                            /\ turns'[k].thread = turns[k].thread
                            /\ turns[k].state # "open" => turns'[k].state # "open"

\* The UI and its handlers leave the turns alone.
LEMMA UIKeepsTurns ==
    ASSUME UserStep \/ FetchStep \/ AppStep
    PROVE  UNCHANGED serverVars
<1>1. CASE UserStep
  BY <1>1 DEF UserStep, MoveSelection, OpenDetail, CloseDetail, LeaveByHelp, OpenCompose,
     OpenNewSession, ToggleCompose, CancelCompose, SubmitSend, SubmitNoWait, SubmitNewSession,
     SubmitSteer, Submitting, AskInterrupt, Interrupt, LaunchCodex
<1>2. CASE FetchStep
  BY <1>2 DEF FetchStep, BrowserLoaded, DetailLoaded
<1>3. CASE AppStep
  BY <1>3 DEF AppStep, HandleCreated, HandleCreateFailed, HandleStreamEvent, HandleFailed,
         HandleFinished, HandleIdle, HandleNotice
<1> QED BY <1>1, <1>2, <1>3

\* A task's step keeps the turns.
LEMMA TaskKeepsTurns ==
    ASSUME TypeOK, NEW i \in Id, TaskStep(i)
    PROVE  TurnsKept
<1>1. CASE UNCHANGED turns
  BY <1>1 DEF TurnsKept
<1>2. CASE StartTurn(i)
  BY <1>2, ServerRunsTurn DEF StartTurn, TurnsKept, TypeOK
<1>3. CASE ReadSubmit(i)
  BY <1>3, ServerRunsTurn, AttemptedTurns DEF ReadSubmit, TurnsKept, TypeOK
<1>4. CASE TaskFails(i)
  BY <1>1, <1>4, AttemptedTurns DEF TaskFails, TurnsKept, TypeOK
<1> QED
  BY <1>1, <1>2, <1>3, <1>4
  DEF TaskStep, CreateThread, CreateFails, FindTurn, ProbeGivesUp, Attach, ReadDetach, Progress,
      TurnEnds, Report, serverVars

\* So does a one-shot task.
LEMMA JobKeepsTurns ==
    ASSUME TypeOK, NEW j \in jobs, JobStep(j)
    PROVE  TurnsKept
<1>1. CASE UNCHANGED turns
  BY <1>1 DEF TurnsKept
<1>2. CASE JobSends(j)
  BY <1>2, ServerRunsTurn DEF JobSends, TurnsKept, TypeOK
<1>3. CASE JobFails(j)
  BY <1>1, <1>3, AttemptedTurns DEF JobFails, TurnsKept, TypeOK
<1> QED BY <1>1, <1>2, <1>3 DEF JobStep, JobSteers

\* So do the servers on their own.
LEMMA ServerKeepsTurns ==
    ASSUME TypeOK, ServerStep
    PROVE  TurnsKept
<1> PICK th \in alive : TurnOver(th) \/ OtherClient(th)
  BY DEF ServerStep
<1>1. CASE TurnOver(th)
  <2> DEFINE n == ActiveTurn(th)
  <2>1. n \in 1..Len(turns) /\ turns \in Seq(Turns)
    BY <1>1, ActiveTurnIsOpen DEF TurnOver, TypeOK, ServerTypes
  <2>2. PICK o \in {"Completed", "Interrupted", "Failed"} : turns' = [turns EXCEPT ![n].state = o]
    BY <1>1 DEF TurnOver
  <2> HIDE DEF n
  <2>3. DOMAIN turns' = DOMAIN turns
    BY <2>2
  <2>4. ASSUME NEW k \in DOMAIN turns
        PROVE  /\ turns'[k].thread = turns[k].thread
               /\ turns[k].state # "open" => turns'[k].state # "open"
    <3>1. turns[k] \in Turns
      BY <2>1
    <3>2. CASE k = n
      <4>1. turns'[k] = [turns[k] EXCEPT !.state = o]
        BY <2>2, <3>2
      <4> QED BY <3>1, <4>1 DEF Turns
    <3>3. CASE k # n
      BY <2>2, <3>3
    <3> QED BY <3>2, <3>3
  <2> QED BY <2>3, <2>4 DEF TurnsKept
<1>2. CASE OtherClient(th)
  BY <1>2 DEF OtherClient, TurnsKept, TypeOK, ServerTypes
<1> QED BY <1>1, <1>2

(***************************************************************************)
(* What the invariant says besides the types.                              *)
(***************************************************************************)
Kept == TurnsStarted /\ EventsMatchTask /\ TurnsOwned

\* A thread and turn that belong together still do when the turns are kept.
LEMMA OwnedKept ==
    ASSUME TurnsKept, NEW th, NEW n, n # 0 => n \in DOMAIN turns /\ turns[n].thread = th
    PROVE  n # 0 => n \in DOMAIN turns' /\ turns'[n].thread = th
BY DEF TurnsKept

\* What is left alone keeps the invariant while the turns are kept.
LEMMA FrameKeeps ==
    ASSUME TypeOK, Kept, TurnsKept
    PROVE  /\ detail' = detail => Owned(detail)'
           /\ draft' = draft => Owned(draft)'
           /\ stream' = stream => Owned(stream)'
           /\ \A i \in Id : task'[i] = task[i] => Owned(task[i])'
           /\ \A j \in jobs : j.turn # 0 => j.turn \in DOMAIN turns'
                                           /\ turns'[j.turn].thread = j.thread
           /\ \A k \in DOMAIN app : app[k].turn # 0 =>
                 app[k].turn \in DOMAIN turns' /\ turns'[app[k].turn].thread = app[k].thread
BY DEF Kept, TurnsOwned, Owned, TurnsKept

\* The tasks left alone still work on turns that were started.
LEMMA StartedKept ==
    ASSUME TypeOK, Kept, TurnsKept, NEW i \in Id, task'[i] = task[i]
    PROVE  /\ task'[i].pc = "create" => task'[i].turn = 0
           /\ task'[i].pc \in {"attach", "wait", "over", "leaving"} => task'[i].turn # 0
           /\ task'[i].pc = "over" => turns'[task'[i].turn].state # "open"
BY DEF Kept, TurnsStarted, TurnsOwned, Owned, TurnsKept

\* What happens on the servers without the TUI.
LEMMA ServerStepKeeps ==
    ASSUME TypeOK, Kept, ServerStep
    PROVE  Kept'
<1>1. UNCHANGED <<uiVars, streamVars, taskVars, app>>
  BY DEF ServerStep, TurnOver, OtherClient
<1>2. TurnsKept
  BY ServerKeepsTurns
<1>3. TurnsStarted'
  BY <1>1, <1>2, StartedKept DEF TurnsStarted, taskVars
<1>4. EventsMatchTask'
  BY <1>1 DEF Kept, EventsMatchTask, OnTask, streamVars, taskVars
<1>5. TurnsOwned'
  <2>1. Owned(detail)' /\ Owned(draft)' /\ Owned(stream)'
    BY <1>1, <1>2, FrameKeeps DEF uiVars, streamVars
  <2>2. \A i \in Id : Owned(task[i])'
    BY <1>1, <1>2, FrameKeeps DEF taskVars
  <2>3. (\A j \in jobs : Owned(j))' /\ (\A k \in DOMAIN app : Owned(app[k]))'
    BY <1>1, <1>2, FrameKeeps DEF taskVars, Owned
  <2> QED BY <2>1, <2>2, <2>3 DEF TurnsOwned
<1> QED BY <1>3, <1>4, <1>5 DEF Kept

\* A message that joins the channel.
LEMMA PostKeeps ==
    ASSUME TypeOK, NEW m, Post(m)
    PROVE  \A k \in DOMAIN app' : app'[k] = m \/ (k \in DOMAIN app /\ app'[k] = app[k])
BY DEF Post, TypeOK, TaskTypes

\* The steps of a one-shot task.
LEMMA JobStepKeeps ==
    ASSUME TypeOK, Kept, NEW j \in jobs, JobStep(j)
    PROVE  Kept'
<1>1. UNCHANGED <<uiVars, streamVars, task>> /\ jobs' \subseteq jobs
  BY DEF JobStep, JobSends, JobSteers, JobFails
<1>2. TurnsKept
  BY JobKeepsTurns
<1>3. \E type, s : \E n \in Nat :
        /\ Post(Msg(type, 0, j.thread, n, s))
        /\ n # 0 => n \in DOMAIN turns' /\ turns'[n].thread = j.thread
  <2>1. j.turn # 0 => j.turn \in DOMAIN turns' /\ turns'[j.turn].thread = j.thread
    BY <1>2, FrameKeeps
  <2>2. ActiveTurn(j.thread) # 0 => /\ ActiveTurn(j.thread) \in DOMAIN turns'
                                    /\ turns'[ActiveTurn(j.thread)].thread = j.thread
    BY <1>2, ActiveTurnIsOpen DEF TurnsKept, TypeOK, ServerTypes
  <2>3. JobTurn(j) # 0 => /\ JobTurn(j) \in DOMAIN turns'
                          /\ turns'[JobTurn(j)].thread = j.thread
    BY <2>1, <2>2 DEF JobTurn
  <2>4. j.turn \in Nat /\ JobTurn(j) \in Nat
    <3>1. j.turn \in Nat
      BY SessionAssumption DEF TypeOK, TaskTypes, Jobs, Turn0
    <3>2. ActiveTurn(j.thread) \in Nat
      BY ActiveTurnIsOpen DEF TypeOK, ServerTypes
    <3> QED BY <3>1, <3>2 DEF JobTurn
  <2>5. CASE JobSends(j)
    <3> PICK n \in 1..MaxTurn : /\ ServerRuns(j.thread, j.prompt, n)
                                /\ Post(Msg("notice", 0, j.thread, n, "None"))
      BY <2>5 DEF JobSends
    <3>1. n \in DOMAIN turns' /\ turns'[n].thread = j.thread
      BY ServerRunsTurn DEF TypeOK
    <3> QED BY <3>1
  <2>6. CASE JobSteers(j)
    <3>1. Post(Msg("accepted", 0, j.thread, JobTurn(j), "Running"))
      BY <2>6 DEF JobSteers
    <3> QED BY <2>3, <2>4, <3>1
  <2>7. CASE JobFails(j)
    <3> PICK n \in {j.turn, JobTurn(j)} :
           Post(IF j.op = "send" THEN Msg("notice", 0, j.thread, 0, "None")
                ELSE Msg("failed", 0, j.thread, n, "Failed"))
      BY <2>7 DEF JobFails
    <3>1. CASE j.op = "send"
      BY <3>1
    <3>2. CASE j.op # "send"
      <4>1. n \in Nat /\ (n # 0 => n \in DOMAIN turns' /\ turns'[n].thread = j.thread)
        BY <2>1, <2>3, <2>4
      <4> QED BY <3>2, <4>1
    <3> QED BY <3>1, <3>2
  <2> QED BY <2>5, <2>6, <2>7 DEF JobStep
<1>4. PICK type, s : \E n \in Nat :
        /\ Post(Msg(type, 0, j.thread, n, s))
        /\ n # 0 => n \in DOMAIN turns' /\ turns'[n].thread = j.thread
  BY <1>3
<1> PICK n \in Nat :
        /\ Post(Msg(type, 0, j.thread, n, s))
        /\ n # 0 => n \in DOMAIN turns' /\ turns'[n].thread = j.thread
  BY <1>4
<1> DEFINE m == Msg(type, 0, j.thread, n, s)
<1>5. m.id = 0 /\ m.thread = j.thread /\ m.turn = n
  BY DEF Msg
<1>6. \A k \in DOMAIN app' : app'[k] = m \/ (k \in DOMAIN app /\ app'[k] = app[k])
  BY PostKeeps
<1> HIDE DEF m
<1>7. TurnsStarted'
  BY <1>1, <1>2, StartedKept DEF TurnsStarted
<1>8. EventsMatchTask'
  BY <1>1, <1>5, <1>6 DEF Kept, EventsMatchTask, OnTask, streamVars
<1>9. TurnsOwned'
  <2>1. Owned(detail)' /\ Owned(draft)' /\ Owned(stream)'
    BY <1>1, <1>2, FrameKeeps DEF uiVars, streamVars
  <2>2. \A i \in Id : Owned(task[i])'
    BY <1>1, <1>2, FrameKeeps
  <2>3. (\A x \in jobs : Owned(x))'
    BY <1>1, <1>2, FrameKeeps DEF Owned
  <2>4. (\A k \in DOMAIN app : Owned(app[k]))'
    BY <1>2, <1>5, <1>6, FrameKeeps DEF Owned
  <2> QED BY <2>1, <2>2, <2>3, <2>4 DEF TurnsOwned
<1> QED BY <1>7, <1>8, <1>9 DEF Kept

\* A message of task i, naming the thread and a turn of that task.
TaskPosts(i) ==
    \E type, status : \E n \in Nat :
        /\ Post(Msg(type, i, task'[i].thread, n, status))
        /\ n # 0 => n \in DOMAIN turns' /\ turns'[n].thread = task'[i].thread

\* What a step of task i makes of that task.
TaskMoved(i) ==
    /\ task'[i].pc \notin {"none", "create"}
    /\ task[i].pc # "create" => task'[i].thread = task[i].thread
    /\ task'[i].turn # 0 => /\ task'[i].turn \in DOMAIN turns'
                            /\ turns'[task'[i].turn].thread = task'[i].thread
    /\ task'[i].pc \in {"attach", "wait", "over", "leaving"} => task'[i].turn # 0
    /\ task'[i].pc = "over" => turns'[task'[i].turn].state # "open"

\* A step of a task moves it on, and says so, on its own thread and turn.
LEMMA TaskStepMoves ==
    ASSUME TypeOK, Kept, NEW i \in Id, TaskStep(i)
    PROVE  /\ TaskMoved(i)
           /\ \/ app' = app
              \/ TaskPosts(i)
              \/ Post(Msg("createFailed", 0, NoThread, 0, "None"))
<1>1. TurnsKept
  BY TaskKeepsTurns
<1>2. /\ task \in [Id -> Tasks] /\ task[i] \in Tasks /\ task[i].turn \in Nat
      /\ task[i].pc \notin {"none", "done"}
  BY TaskMoves, SessionAssumption DEF TypeOK, TaskTypes, Tasks, Turn0, Ended
<1>3. /\ task[i].pc = "create" => task[i].turn = 0
      /\ task[i].pc \in {"attach", "wait", "over", "leaving"} => task[i].turn # 0
      /\ task[i].pc = "over" => turns[task[i].turn].state # "open"
      /\ task[i].turn # 0 => task[i].turn \in DOMAIN turns
                             /\ turns[task[i].turn].thread = task[i].thread
  BY DEF Kept, TurnsStarted, TurnsOwned, Owned
<1>4. /\ task[i].turn # 0 => task[i].turn \in DOMAIN turns'
                             /\ turns'[task[i].turn].thread = task[i].thread
      /\ task[i].pc = "over" => turns'[task[i].turn].state # "open"
  BY <1>1, <1>3 DEF TurnsKept
<1>5. ASSUME NEW type, NEW s, Send(type, i, task[i], s), task'[i].thread = task[i].thread
      PROVE  TaskPosts(i)
  BY <1>2, <1>4, <1>5 DEF Send, TaskPosts
<1>6. ASSUME NEW pc, task' = [task EXCEPT ![i].pc = pc]
      PROVE  task'[i].pc = pc /\ task'[i].thread = task[i].thread /\ task'[i].turn = task[i].turn
  BY <1>2, <1>6 DEF Tasks
<1>7. CASE CreateThread(i)
  <2> PICK th \in Thread \ alive :
        /\ task' = [task EXCEPT ![i].pc = "start", ![i].thread = th]
        /\ Post(Msg("created", i, th, 0, "None"))
    BY <1>7 DEF CreateThread
  <2>1. task'[i].pc = "start" /\ task'[i].thread = th /\ task'[i].turn = 0 /\ task[i].pc = "create"
    BY <1>2, <1>3, <1>7 DEF Tasks, CreateThread
  <2>2. Post(Msg("created", i, task'[i].thread, 0, "None"))
    BY <2>1
  <2>3. TaskPosts(i)
    BY <2>2 DEF TaskPosts
  <2> QED BY <2>1, <2>3 DEF TaskMoved
<1>8. CASE CreateFails(i)
  <2>1. task' = [task EXCEPT ![i].pc = "done"] /\ UNCHANGED turns
        /\ Post(Msg("createFailed", 0, NoThread, 0, "None"))
    BY <1>8 DEF CreateFails, serverVars
  <2> QED BY <1>4, <1>6, <2>1 DEF TaskMoved
<1>9. CASE StartTurn(i)
  <2> DEFINE t(n) == [task[i] EXCEPT !.pc = "wait", !.turn = n]
  <2> PICK n \in 1..MaxTurn : /\ ServerRuns(t(n).thread, t(n).prompt, n)
                              /\ task' = [task EXCEPT ![i] = t(n)]
                              /\ Send("accepted", i, t(n), "Running")
    BY <1>9 DEF StartTurn
  <2>1. t(n).pc = "wait" /\ t(n).turn = n /\ t(n).thread = task[i].thread
    BY <1>2 DEF Tasks
  <2>2. task'[i] = t(n)
    BY <1>2
  <2> HIDE DEF t
  <2>3. n \in DOMAIN turns' /\ turns'[n].thread = task'[i].thread
    BY <2>1, <2>2, ServerRunsTurn DEF TypeOK
  <2>4. TaskPosts(i)
    BY <2>1, <2>2, <2>3 DEF Send, TaskPosts
  <2> QED BY <2>1, <2>2, <2>3, <2>4, SessionAssumption DEF TaskMoved
<1>10. CASE FindTurn(i)
  <2> DEFINE n == ActiveTurn(task[i].thread)
  <2>1. n # 0 /\ task' = [task EXCEPT ![i].pc = "attach", ![i].turn = n] /\ app' = app
        /\ UNCHANGED turns
    BY <1>10 DEF FindTurn, serverVars
  <2>2. n \in DOMAIN turns /\ turns[n].thread = task[i].thread
    BY <2>1, ActiveTurnIsOpen DEF TypeOK, ServerTypes
  <2> HIDE DEF n
  <2>3. task'[i].pc = "attach" /\ task'[i].turn = n /\ task'[i].thread = task[i].thread
    BY <1>2, <2>1 DEF Tasks
  <2> QED BY <2>1, <2>2, <2>3 DEF TaskMoved
<1>11. CASE ProbeGivesUp(i)
  BY <1>4, <1>5, <1>6, <1>11 DEF ProbeGivesUp, TaskMoved
<1>12. CASE Attach(i)
  BY <1>3, <1>4, <1>5, <1>6, <1>12 DEF Attach, TaskMoved
<1>13. CASE Progress(i)
  BY <1>3, <1>4, <1>5, <1>13 DEF Progress, TaskMoved, taskVars
<1>14. CASE TurnEnds(i)
  BY <1>3, <1>4, <1>5, <1>6, <1>14 DEF TurnEnds, TaskMoved, serverVars
<1>15. CASE Report(i)
  BY <1>3, <1>4, <1>5, <1>6, <1>15 DEF Report, TaskMoved
<1>16. CASE ReadDetach(i)
  <2>1. CASE task' = [task EXCEPT ![i].pc = "leaving"] /\ UNCHANGED app /\ task[i].pc = "wait"
    BY <1>3, <1>4, <1>6, <2>1 DEF TaskMoved
  <2>2. CASE task' = [task EXCEPT ![i].pc = "done"] /\ Send("idle", i, task[i], "None")
    BY <1>4, <1>5, <1>6, <2>2 DEF TaskMoved
  <2> QED BY <1>16, <2>1, <2>2 DEF ReadDetach
<1>17. CASE TaskFails(i)
  BY <1>3, <1>4, <1>5, <1>6, <1>17 DEF TaskFails, TaskMoved
<1>18. CASE ReadSubmit(i)
  <2> DEFINE p  == Head(ctl[i]).prompt
             th == task[i].thread
  <2>1. CASE \E n \in 1..MaxTurn :
               /\ ServerRuns(th, p, n)
               /\ Post(Msg("queued", i, th, n, "Running"))
               /\ task' = IF task[i].pc = "wait" THEN task
                          ELSE [task EXCEPT ![i].pc = "attach", ![i].turn = n]
    <3> PICK n \in 1..MaxTurn :
               /\ ServerRuns(th, p, n)
               /\ Post(Msg("queued", i, th, n, "Running"))
               /\ task' = IF task[i].pc = "wait" THEN task
                          ELSE [task EXCEPT ![i].pc = "attach", ![i].turn = n]
      BY <2>1
    <3>1. n \in DOMAIN turns' /\ turns'[n].thread = th
      BY ServerRunsTurn DEF TypeOK
    <3>2. \/ task[i].pc = "wait" /\ task' = task
          \/ task'[i].pc = "attach" /\ task'[i].turn = n /\ task'[i].thread = th
      BY <1>2 DEF Tasks
    <3>3. TaskPosts(i)
      BY <3>1, <3>2 DEF TaskPosts
    <3> QED BY <1>3, <1>4, <3>1, <3>2, <3>3, SessionAssumption DEF TaskMoved
  <2>2. CASE /\ Send("failed", i, task[i], "Failed")
             /\ task' = [task EXCEPT ![i].pc = "done"]
    BY <1>4, <1>5, <1>6, <2>2 DEF TaskMoved
  <2> QED BY <1>18, <2>1, <2>2 DEF ReadSubmit
<1> QED
  BY <1>7, <1>8, <1>9, <1>10, <1>11, <1>12, <1>13, <1>14, <1>15, <1>16, <1>17, <1>18
  DEF TaskStep

\* The steps of a stream task.
LEMMA TaskStepKeeps ==
    ASSUME TypeOK, Kept, NEW i \in Id, TaskStep(i)
    PROVE  Kept'
<1>1. UNCHANGED <<uiVars, streamVars, jobs>> /\ TurnsKept
  BY TaskFrame, TaskKeepsTurns
<1>2. TaskMoved(i) /\ \A k \in Id : k # i => task'[k] = task[k]
  BY TaskStepMoves, TaskMoves
<1>3. TurnsStarted'
  BY <1>1, <1>2, StartedKept DEF TurnsStarted, TaskMoved
<1>4. ASSUME NEW x, OnTask(x), x.id \in Id0
      PROVE  x.id # 0 => task'[x.id].pc \notin {"none", "create"} /\ x.thread = task'[x.id].thread
  BY <1>2, <1>4, SessionAssumption DEF OnTask, TaskMoved, Id, Id0
<1>5. \A k \in DOMAIN app : app[k] \in Msgs
  BY DEF TypeOK, TaskTypes
<1>6. OnTask(stream)'
  BY <1>1, <1>4 DEF Kept, EventsMatchTask, OnTask, streamVars, TypeOK, StreamTypes, Streams
<1>7. ASSUME NEW k \in DOMAIN app
      PROVE  /\ app[k].id # 0 => /\ task'[app[k].id].pc \notin {"none", "create"}
                                 /\ app[k].thread = task'[app[k].id].thread
             /\ app[k].turn # 0 => /\ app[k].turn \in DOMAIN turns'
                                   /\ turns'[app[k].turn].thread = app[k].thread
  BY <1>1, <1>4, <1>5, FrameKeeps DEF Kept, EventsMatchTask, Msgs
<1>8. (\A k \in DOMAIN app : OnTask(app[k]))' /\ (\A k \in DOMAIN app : Owned(app[k]))'
  <2>1. CASE app' = app
    BY <1>7, <2>1 DEF OnTask, Owned
  <2>2. CASE TaskPosts(i)
    <3> PICK type, status : \E n \in Nat :
          /\ Post(Msg(type, i, task'[i].thread, n, status))
          /\ n # 0 => n \in DOMAIN turns' /\ turns'[n].thread = task'[i].thread
      BY <2>2 DEF TaskPosts
    <3> PICK n \in Nat :
          /\ Post(Msg(type, i, task'[i].thread, n, status))
          /\ n # 0 => n \in DOMAIN turns' /\ turns'[n].thread = task'[i].thread
      OBVIOUS
    <3> DEFINE m == Msg(type, i, task'[i].thread, n, status)
    <3>1. m.id = i /\ m.thread = task'[i].thread /\ m.turn = n
      BY DEF Msg
    <3>2. \A k \in DOMAIN app' : app'[k] = m \/ (k \in DOMAIN app /\ app'[k] = app[k])
      BY PostKeeps
    <3> HIDE DEF m
    <3> QED BY <1>2, <1>7, <3>1, <3>2 DEF OnTask, Owned, TaskMoved
  <2>3. CASE Post(Msg("createFailed", 0, NoThread, 0, "None"))
    <3> DEFINE m == Msg("createFailed", 0, NoThread, 0, "None")
    <3>1. m.id = 0 /\ m.turn = 0
      BY DEF Msg
    <3>2. \A k \in DOMAIN app' : app'[k] = m \/ (k \in DOMAIN app /\ app'[k] = app[k])
      BY <2>3, PostKeeps
    <3> HIDE DEF m
    <3> QED BY <1>7, <3>1, <3>2 DEF OnTask, Owned
  <2> QED BY <2>1, <2>2, <2>3, TaskStepMoves
<1>9. TurnsOwned'
  <2>1. Owned(detail)' /\ Owned(draft)' /\ Owned(stream)'
    BY <1>1, FrameKeeps DEF uiVars, streamVars
  <2>2. \A k \in Id : Owned(task[k])'
    BY <1>1, <1>2, FrameKeeps DEF TaskMoved, Owned
  <2>3. (\A j \in jobs : Owned(j))'
    BY <1>1, FrameKeeps DEF Owned
  <2> QED BY <1>8, <2>1, <2>2, <2>3 DEF TurnsOwned
<1> QED BY <1>3, <1>6, <1>8, <1>9 DEF Kept, EventsMatchTask

(***************************************************************************)
(* The steps of the UI.                                                    *)
(***************************************************************************)
\* The tasks a UI step leaves are those it found and the one it spawned, if any.
TasksKept ==
    \A i \in Id :
        \/ task'[i] = task[i]
        \/ /\ task[i].pc = "none"
           /\ task'[i].pc = "create" => task'[i].turn = 0
           /\ task'[i].pc = "attach" => task'[i].turn # 0
           /\ task'[i].pc \notin {"wait", "over", "leaving"}
           /\ Owned(task[i])'

\* A UI step reads the channel, and keeps the session if what it writes is owned.
LEMMA UIStepKeeps ==
    ASSUME TypeOK, Kept, UNCHANGED turns, TasksKept,
           \A k \in DOMAIN app' : \E x \in DOMAIN app : app'[k] = app[x],
           (\A j \in jobs : Owned(j))',
           Owned(detail)', Owned(draft)', Owned(stream)', OnTask(stream)'
    PROVE  Kept'
<1>1. TurnsStarted'
  BY DEF Kept, TurnsStarted, TasksKept
<1>2. (\A i \in Id : Owned(task[i]))'
  BY DEF Kept, TurnsOwned, TasksKept, Owned
<1>3. (\A k \in DOMAIN app : Owned(app[k]))'
  BY DEF Kept, TurnsOwned, Owned
<1>4. (\A k \in DOMAIN app : OnTask(app[k]))'
  <2>1. ASSUME NEW x \in DOMAIN app, app[x].id # 0
        PROVE  task'[app[x].id] = task[app[x].id]
    <3>1. app[x].id \in Id /\ task[app[x].id].pc # "none"
      <4>1. app[x] \in Msgs
        BY DEF TypeOK, TaskTypes
      <4>2. app[x].id \in Id
        BY <2>1, <4>1, SessionAssumption DEF Msgs, Id, Id0
      <4> QED BY <2>1, <4>2 DEF Kept, EventsMatchTask, OnTask
    <3> QED BY <3>1 DEF TasksKept
  <2> QED BY <2>1 DEF Kept, EventsMatchTask, OnTask
<1> QED BY <1>1, <1>2, <1>3, <1>4 DEF Kept, TurnsOwned, EventsMatchTask

\* A spawned task takes an id no task had.
LEMMA SpawnKeeps ==
    ASSUME TypeOK, Kept, NEW t \in Tasks, SpawnTask(t), UNCHANGED turns,
           t.pc \in {"create", "start", "resolve", "probe", "attach"},
           t.turn # 0 => t.pc = "attach" /\ t.turn \in DOMAIN turns
                                        /\ turns[t.turn].thread = t.thread,
           t.pc = "attach" => t.turn # 0
    PROVE  TasksKept /\ task'[nextId + 1] = t
<1>1. nextId + 1 \in Id /\ nextId + 1 > nextId
  BY SpawnTypes, SessionAssumption DEF TypeOK, StreamTypes, Id0
<1>2. task[nextId + 1].pc = "none"
  BY <1>1 DEF TypeOK, FreshIds, NoTask
<1>3. task' = [task EXCEPT ![nextId + 1] = t] /\ task \in [Id -> Tasks]
  BY DEF SpawnTask, TypeOK, TaskTypes
<1>4. task'[nextId + 1] = t
  BY <1>1, <1>3
<1>5. \A i \in Id : i # nextId + 1 => task'[i] = task[i]
  BY <1>3
<1> QED BY <1>2, <1>4, <1>5 DEF TasksKept, Owned

\* A stream shown with its task is on it.
LEMMA OpenStreamKeeps ==
    ASSUME TypeOK, Kept, NEW t \in Tasks, NEW s, OpenStream(t, s), UNCHANGED turns,
           t.pc \in {"start", "resolve", "probe", "attach"},
           t.turn # 0 => t.pc = "attach" /\ t.turn \in DOMAIN turns
                                        /\ turns[t.turn].thread = t.thread,
           t.pc = "attach" => t.turn # 0
    PROVE  TasksKept /\ Owned(stream)' /\ OnTask(stream)'
<1>1. TasksKept /\ task'[nextId + 1] = t
  BY SpawnKeeps DEF OpenStream
<1>2. stream'.id = nextId + 1 /\ stream'.thread = t.thread /\ stream'.turn = t.turn
  BY DEF OpenStream
<1>3. OnTask(stream)'
  BY <1>1, <1>2 DEF OnTask
<1>4. Owned(stream)'
  BY <1>2 DEF Owned
<1> QED BY <1>1, <1>3, <1>4

\* A stream that keeps its id, thread and turn, or is dropped, is still owned.
LEMMA StreamKeeps ==
    ASSUME TypeOK, Kept, UNCHANGED turns, TasksKept,
           \/ stream' = NoStream
           \/ /\ stream'.id = stream.id /\ stream'.thread = stream.thread
              /\ stream'.turn \in {0, stream.turn}
    PROVE  Owned(stream)' /\ OnTask(stream)'
<1>1. CASE stream' = NoStream
  BY <1>1 DEF NoStream, Owned, OnTask
<1>2. CASE /\ stream'.id = stream.id /\ stream'.thread = stream.thread
           /\ stream'.turn \in {0, stream.turn}
  <2>1. stream.id # 0 => stream.id \in Id /\ task[stream.id].pc # "none"
    BY SessionAssumption
       DEF Kept, EventsMatchTask, OnTask, TypeOK, StreamTypes, Streams, Id, Id0
  <2> QED BY <1>2, <2>1 DEF Kept, EventsMatchTask, TurnsOwned, OnTask, Owned, TasksKept
<1> QED BY <1>1, <1>2

\* What does not change is still owned.
LEMMA UnchangedOwned ==
    ASSUME Kept, UNCHANGED turns
    PROVE  /\ detail' = detail => Owned(detail)'
           /\ draft' = draft => Owned(draft)'
           /\ jobs' = jobs => (\A j \in jobs : Owned(j))'
           /\ task' = task => TasksKept
BY DEF Kept, TurnsOwned, Owned, TasksKept

\* Moving around the interface and composing.
LEMMA BrowsingKeeps ==
    ASSUME TypeOK, Kept,
           \/ \E th \in Thread : MoveSelection(th)
           \/ OpenDetail
           \/ CloseDetail
           \/ LeaveByHelp
           \/ LaunchCodex
    PROVE  Kept'
<1>1. UNCHANGED <<draft, task, jobs, app, turns>>
  BY DEF MoveSelection, OpenDetail, CloseDetail, LeaveByHelp, LaunchCodex, serverVars, taskVars
<1>2. \/ stream' = NoStream
      \/ stream'.id = stream.id /\ stream'.thread = stream.thread /\ stream'.turn = stream.turn
  BY DEF MoveSelection, OpenDetail, CloseDetail, LeaveByHelp, LaunchCodex, DropStream,
         DetachStream, streamVars, TypeOK, StreamTypes, Streams
<1>3. Owned(detail)'
  <2>1. CASE detail' = detail
    BY <1>1, <2>1, UnchangedOwned
  <2>2. CASE detail'.turn = 0
    BY <2>2 DEF Owned
  <2> QED BY <2>1, <2>2
          DEF MoveSelection, OpenDetail, CloseDetail, LeaveByHelp, LaunchCodex, NoDetail
<1>4. Owned(draft)' /\ TasksKept /\ (\A j \in jobs : Owned(j))'
  BY <1>1, UnchangedOwned
<1> QED BY <1>1, <1>2, <1>3, <1>4, StreamKeeps, UIStepKeeps

\* A steer is composed for a turn of its thread.
LEMMA ComposingKeeps ==
    ASSUME TypeOK, Kept, \/ OpenCompose \/ OpenNewSession \/ ToggleCompose
                         \/ CancelCompose \/ AskInterrupt
    PROVE  Kept'
<1>1. UNCHANGED <<detail, stream, task, jobs, app, turns>>
  BY DEF OpenCompose, OpenNewSession, ToggleCompose, CancelCompose, AskInterrupt, LeaveCompose,
         serverVars, taskVars, streamVars
<1>2. ASSUME NEW th, NEW ret, NEW t \in SteerTargets(th, ret)
      PROVE  t.turn # 0 => t.turn \in DOMAIN turns /\ turns[t.turn].thread = t.thread
  BY <1>2 DEF SteerTargets, StreamOn, Kept, TurnsOwned, Owned
<1>3. \/ draft'.turn = 0
      \/ \E th, ret : draft' \in SteerTargets(th, ret)
      \/ AskInterrupt
  <2>1. CASE OpenCompose
    <3> PICK t \in SteerTargets(ActiveThread, mode = "Detail") :
           draft' = IF t.to = "none" THEN Sends(t.thread, t.ret, "send") ELSE t
      BY <2>1 DEF OpenCompose, Targets
    <3> QED BY DEF Sends
  <2>2. CASE ToggleCompose
    BY <2>2 DEF ToggleCompose, Targets, Sends
  <2> QED BY <2>1, <2>2 DEF OpenNewSession, Targets, CancelCompose, LeaveCompose, Sends, NoDraft
<1>4. Owned(draft)'
  <2>1. CASE AskInterrupt
    BY <1>1, <2>1 DEF AskInterrupt, Dialog, StreamOn, Kept, TurnsOwned, Owned
  <2> QED BY <1>1, <1>2, <1>3, <2>1 DEF Owned
<1> QED BY <1>1, <1>4, UnchangedOwned, StreamKeeps, UIStepKeeps

\* Submitting a message.
LEMMA SubmitKeeps ==
    ASSUME TypeOK, Kept, NEW p \in Prompt,
           \/ SubmitSend(p)
           \/ SubmitNoWait(p)
           \/ SubmitNewSession(p)
           \/ SubmitSteer(p)
    PROVE  Kept'
<1> USE SessionAssumption
<1>1. UNCHANGED <<detail, app, turns>>
  BY DEF SubmitSend, SubmitNoWait, SubmitNewSession, SubmitSteer, Submitting, LeaveCompose,
         serverVars
<1>2. Owned(detail)' /\ Owned(draft)'
  <2>1. draft' = draft \/ draft' = NoDraft
    BY DEF SubmitSend, SubmitNoWait, SubmitNewSession, SubmitSteer, Submitting, LeaveCompose
  <2> QED BY <1>1, <2>1, UnchangedOwned DEF NoDraft, Owned
<1>3. ASSUME NEW x, jobs' = jobs \cup {x},
             x.turn # 0 => x.turn \in DOMAIN turns /\ turns[x.turn].thread = x.thread
      PROVE  (\A j \in jobs : Owned(j))'
  BY <1>1, <1>3 DEF Kept, TurnsOwned, Owned
<1>4. jobs' = jobs => (\A j \in jobs : Owned(j))'
  BY <1>1, UnchangedOwned
<1>5. SendJob(p).turn = 0
  BY DEF SendJob
<1>6. ASSUME TasksKept, Owned(stream)', OnTask(stream)', (\A j \in jobs : Owned(j))'
      PROVE  Kept'
  BY <1>1, <1>2, <1>6, UIStepKeeps
<1>7. ASSUME UNCHANGED <<stream, task>>
      PROVE  TasksKept /\ Owned(stream)' /\ OnTask(stream)'
  BY <1>1, <1>7, UnchangedOwned, StreamKeeps
<1>8. draft.thread \in ThreadOrNone
  BY DEF TypeOK, UITypes, Drafts
<1>9. CASE SubmitSend(p)
  <2>1. CASE UNCHANGED <<streamVars, task, jobs>>
    BY <1>4, <1>6, <1>7, <2>1 DEF streamVars
  <2>2. CASE jobs' = jobs \cup {SendJob(p)} /\ UNCHANGED <<streamVars, task, ctl>>
    BY <1>3, <1>5, <1>6, <1>7, <2>2 DEF streamVars
  <2>3. CASE OpenStream(NewTask("start", draft.thread, 0, p), "Starting") /\ UNCHANGED jobs
    <3> DEFINE t == NewTask("start", draft.thread, 0, p)
    <3>1. t \in Tasks /\ t.pc = "start" /\ t.turn = 0
      BY <1>8 DEF NewTask, Tasks, PromptOrNone, Turn0
    <3> HIDE DEF t
    <3>2. TasksKept /\ Owned(stream)' /\ OnTask(stream)'
      BY <1>1, <2>3, <3>1, OpenStreamKeeps DEF t
    <3> QED BY <1>4, <1>6, <2>3, <3>2
  <2> QED BY <1>9, <2>1, <2>2, <2>3 DEF SubmitSend
<1>10. CASE SubmitNoWait(p)
  BY <1>3, <1>5, <1>6, <1>7, <1>10 DEF SubmitNoWait, streamVars
<1>11. CASE SubmitNewSession(p)
  <2> DEFINE t == NewTask("create", NoThread, 0, p)
  <2>1. t \in Tasks /\ t.pc = "create" /\ t.turn = 0
    BY DEF NewTask, Tasks, PromptOrNone, ThreadOrNone, Turn0
  <2>2. SpawnTask(t) /\ stream' = NoStream /\ jobs' = jobs
    BY <1>11 DEF SubmitNewSession
  <2> HIDE DEF t
  <2>3. TasksKept
    BY <1>1, <2>1, <2>2, SpawnKeeps
  <2> QED BY <1>1, <1>4, <1>6, <2>2, <2>3, StreamKeeps
<1>12. CASE SubmitSteer(p)
  <2> DEFINE x == [op |-> "steer", thread |-> draft.thread, turn |-> draft.turn, prompt |-> p]
  <2>1. x.turn # 0 => x.turn \in DOMAIN turns /\ turns[x.turn].thread = x.thread
    BY DEF Kept, TurnsOwned, Owned
  <2>2. jobs' = jobs \cup {x} /\ UNCHANGED <<stream, task>>
    BY <1>12 DEF SubmitSteer, streamVars
  <2> QED BY <1>3, <1>6, <1>7, <2>1, <2>2
<1> QED BY <1>9, <1>10, <1>11, <1>12

\* Interrupting a turn.
LEMMA InterruptKeeps ==
    ASSUME TypeOK, Kept, Interrupt
    PROVE  Kept'
<1>1. UNCHANGED <<detail, stream, task, app, turns>> /\ draft' = NoDraft
  BY DEF Interrupt, LeaveCompose, streamVars, serverVars
<1> DEFINE x == [op |-> "interrupt", thread |-> draft.thread, turn |-> draft.turn,
                 prompt |-> NoPrompt]
<1>2. x.turn # 0 => x.turn \in DOMAIN turns /\ turns[x.turn].thread = x.thread
  BY DEF Kept, TurnsOwned, Owned
<1>3. (\A j \in jobs : Owned(j))'
  <2>1. jobs' = jobs \cup {x}
    BY DEF Interrupt
  <2> HIDE DEF x
  <2> QED BY <1>1, <1>2, <2>1 DEF Kept, TurnsOwned, Owned
<1>4. Owned(draft)'
  BY <1>1 DEF NoDraft, Owned
<1> QED BY <1>1, <1>3, <1>4, UnchangedOwned, StreamKeeps, UIStepKeeps

\* The loads of the browser and of the detail.
LEMMA FetchKeeps ==
    ASSUME TypeOK, Kept, FetchStep
    PROVE  Kept'
<1> USE SessionAssumption
<1>1. UNCHANGED <<jobs, app, turns>>
  BY DEF FetchStep, BrowserLoaded, DetailLoaded, serverVars
<1>2. (\A j \in jobs : Owned(j))'
  BY <1>1, UnchangedOwned
<1>3. ASSUME UNCHANGED <<stream, task>>
      PROVE  TasksKept /\ Owned(stream)' /\ OnTask(stream)'
  BY <1>1, <1>3, UnchangedOwned, StreamKeeps
<1>4. CASE BrowserLoaded
  <2>1. Owned(detail)' /\ Owned(draft)'
    BY <1>1, <1>4, UnchangedOwned DEF BrowserLoaded
  <2>2. CASE OpenStream(NewTask("resolve", selected', 0, NoPrompt), "Starting")
    <3> DEFINE t == NewTask("resolve", selected', 0, NoPrompt)
    <3>1. t \in Tasks /\ t.pc = "resolve" /\ t.turn = 0
      BY <1>4 DEF BrowserLoaded, NewTask, Tasks, PromptOrNone, ThreadOrNone, Turn0, TypeOK,
                  ServerTypes
    <3> HIDE DEF t
    <3>2. TasksKept /\ Owned(stream)' /\ OnTask(stream)'
      BY <1>1, <2>2, <3>1, OpenStreamKeeps DEF t
    <3> QED BY <1>1, <1>2, <2>1, <3>2, UIStepKeeps
  <2>3. CASE UNCHANGED <<streamVars, task>>
    BY <1>1, <1>2, <1>3, <2>1, <2>3, UIStepKeeps DEF streamVars
  <2> QED BY <1>4, <2>2, <2>3 DEF BrowserLoaded
<1>5. CASE DetailLoaded
  <2>1. PICK d \in Replies :
          /\ detail' = d
          /\ UNCHANGED <<mode, draft>> \/ ShowDetail
          /\ AutoAttachDetail(d) \/ UNCHANGED <<streamVars, task, ctl>>
    BY <1>5 DEF DetailLoaded
  <2>2. /\ d.thread \in Thread /\ d.turn \in Turn0
        /\ d.turn # 0 => d.turn \in DOMAIN turns /\ turns[d.turn].thread = d.thread
    <3>1. d \in Replies
      BY <2>1
    <3>2. d \in [thread : alive, turn : 0..Len(turns)]
      BY <3>1 DEF Replies
    <3> QED BY <3>1, <3>2 DEF Replies, TypeOK, ServerTypes, Turn0
  <2>3. Owned(detail)'
    BY <1>1, <2>1, <2>2 DEF Owned
  <2>4. Owned(draft)'
    BY <1>1, <2>1, UnchangedOwned DEF ShowDetail, NoDraft, Owned
  <2>5. CASE AutoAttachDetail(d)
    <3> DEFINE t == NewTask("attach", d.thread, d.turn, NoPrompt)
    <3>1. t \in Tasks /\ t.pc = "attach" /\ t.turn = d.turn /\ t.thread = d.thread
      BY <2>2 DEF NewTask, Tasks, PromptOrNone, ThreadOrNone
    <3>2. OpenStream(t, "Running") /\ d.turn # 0
      BY <2>5 DEF AutoAttachDetail
    <3> HIDE DEF t
    <3>3. TasksKept /\ Owned(stream)' /\ OnTask(stream)'
      BY <1>1, <2>2, <3>1, <3>2, OpenStreamKeeps
    <3> QED BY <1>1, <1>2, <2>3, <2>4, <3>3, UIStepKeeps
  <2>6. CASE UNCHANGED <<streamVars, task, ctl>>
    BY <1>1, <1>2, <1>3, <2>3, <2>4, <2>6, UIStepKeeps DEF streamVars
  <2> QED BY <2>1, <2>5, <2>6
<1> QED BY <1>4, <1>5 DEF FetchStep

\* The app events.
LEMMA AppStepKeeps ==
    ASSUME TypeOK, Kept, AppStep
    PROVE  Kept'
<1> USE SessionAssumption
<1> DEFINE m == Head(app)
<1>1. app # <<>> /\ app' = Tail(app) /\ UNCHANGED <<jobs, turns>>
  BY UIKeepsTurns
     DEF AppStep, Receiving, HandleCreated, HandleCreateFailed, HandleStreamEvent, HandleFailed,
         HandleFinished, HandleIdle, HandleNotice, serverVars, taskVars
<1>2. \A k \in DOMAIN app' : \E x \in DOMAIN app : app'[k] = app[x]
  BY <1>1 DEF TypeOK, TaskTypes
<1>3. /\ m \in Msgs
      /\ m.id # 0 => task[m.id].pc \notin {"none", "create"} /\ m.thread = task[m.id].thread
      /\ m.turn # 0 => m.turn \in DOMAIN turns /\ turns[m.turn].thread = m.thread
  <2>1. 1 \in DOMAIN app /\ m = app[1]
    BY <1>1 DEF TypeOK, TaskTypes
  <2> QED BY <2>1 DEF TypeOK, TaskTypes, Kept, EventsMatchTask, TurnsOwned, OnTask, Owned
<1> HIDE DEF m
<1>4. (\A j \in jobs : Owned(j))'
  BY <1>1, UnchangedOwned
<1>5. ASSUME TasksKept, Owned(stream)', OnTask(stream)', Owned(detail)', Owned(draft)'
      PROVE  Kept'
  BY <1>1, <1>2, <1>4, <1>5, UIStepKeeps
<1>6. /\ task' = task => TasksKept
      /\ detail' = detail => Owned(detail)'
      /\ draft' \in {draft, NoDraft} => Owned(draft)'
  BY <1>1, UnchangedOwned DEF NoDraft, Owned
<1>7. ASSUME task' = task, stream' = stream
      PROVE  Owned(stream)' /\ OnTask(stream)'
  BY <1>1, <1>6, <1>7, StreamKeeps
<1>8. ASSUME task' = task, Ends(m)
      PROVE  Owned(stream)' /\ OnTask(stream)'
  <2>1. stream'.id = stream.id /\ stream'.thread = stream.thread /\ stream'.turn = stream.turn
    BY <1>8 DEF Ends, EndStream, TypeOK, StreamTypes, Streams
  <2> QED BY <1>1, <1>6, <1>8, <2>1, StreamKeeps
<1>9. CASE HandleCreated
  <2>1. /\ UNCHANGED <<detail, draft, task>>
        /\ stream'.id = m.id /\ stream'.thread = m.thread /\ stream'.turn = 0
    BY <1>9 DEF HandleCreated, taskVars, m
  <2>2. Owned(stream)' /\ OnTask(stream)'
    BY <1>3, <2>1 DEF Owned, OnTask
  <2> QED BY <1>5, <1>6, <2>1, <2>2
<1>10. CASE HandleCreateFailed \/ HandleNotice
  BY <1>5, <1>6, <1>7, <1>10 DEF HandleCreateFailed, HandleNotice, uiVars, taskVars, streamVars
<1>11. CASE HandleStreamEvent
  <2>1. task' = task /\ draft' \in {draft, NoDraft}
    BY <1>11 DEF HandleStreamEvent, taskVars, ShowDetail
  <2>2. Owned(detail)'
    <3>1. CASE detail' = detail
      BY <1>6, <3>1
    <3>2. CASE detail' = [detail EXCEPT !.turn = m.turn] /\ detail.thread = m.thread
      <4>1. detail'.turn = m.turn /\ detail'.thread = m.thread
        BY <3>2 DEF TypeOK, UITypes
      <4> QED BY <1>1, <1>3, <4>1 DEF Owned
    <3> QED BY <1>11, <3>1, <3>2 DEF HandleStreamEvent, SnapshotFor, m
  <2>3. CASE stream' = stream
    BY <1>5, <1>6, <1>7, <2>1, <2>2, <2>3
  <2>4. CASE (\E pv \in Previews : Concerns(m, pv)) /\ stream' = StreamAfter(m)
    <3>1. /\ stream'.thread \in {m.thread, stream.thread}
          /\ stream'.turn \in {m.turn, stream.turn}
      BY <2>4 DEF StreamAfter
    <3>2. CASE stream.status = "None"
      <4>1. stream'.id = m.id /\ stream'.thread = m.thread /\ stream'.turn = m.turn
        BY <2>4, <3>2 DEF StreamAfter
      <4>2. Owned(stream)' /\ OnTask(stream)'
        BY <1>1, <1>3, <2>1, <4>1 DEF Owned, OnTask
      <4> QED BY <1>5, <1>6, <2>1, <2>2, <4>2
    <3>3. CASE stream.status # "None"
      <4>1. stream'.id = stream.id /\ stream'.thread = stream.thread
            /\ stream'.turn \in {m.turn, stream.turn}
        BY <2>4, <3>3 DEF StreamAfter
      <4>2. m.thread = stream.thread
        BY <1>3, <2>4, <3>3 DEF Concerns, Kept, EventsMatchTask, OnTask
      <4>3. Owned(stream)' /\ OnTask(stream)'
        BY <1>1, <1>3, <2>1, <4>1, <4>2 DEF Kept, EventsMatchTask, TurnsOwned, Owned, OnTask
      <4> QED BY <1>5, <1>6, <2>1, <2>2, <4>3
    <3> QED BY <3>2, <3>3
  <2> QED BY <1>11, <2>3, <2>4 DEF HandleStreamEvent, m
<1>12. CASE HandleFailed
  BY <1>5, <1>6, <1>8, <1>12 DEF HandleFailed, Ends, uiVars, taskVars, m
<1>13. CASE HandleFinished
  <2>1. detail' = detail /\ draft' \in {draft, NoDraft}
    BY <1>13 DEF HandleFinished, ShowDetail
  <2>2. CASE Follows(m)
    <3> DEFINE t == NewTask("probe", m.thread, 0, NoPrompt)
    <3>1. t \in Tasks /\ t.pc = "probe" /\ t.turn = 0
      BY <1>3 DEF Msgs, NewTask, Tasks, PromptOrNone, Turn0
    <3>2. OpenStream(t, "Following")
      BY <2>2 DEF Follows, FollowThread
    <3> HIDE DEF t
    <3>3. TasksKept /\ Owned(stream)' /\ OnTask(stream)'
      BY <1>1, <3>1, <3>2, OpenStreamKeeps
    <3> QED BY <1>5, <1>6, <2>1, <3>3
  <2>3. CASE Ends(m) /\ UNCHANGED <<nextId, task>>
    BY <1>5, <1>6, <1>8, <2>1, <2>3
  <2> QED BY <1>13, <2>2, <2>3 DEF HandleFinished, Ends, Follows, m
<1>14. CASE HandleIdle
  <2>1. UNCHANGED <<draft, task>>
    BY <1>14 DEF HandleIdle, taskVars
  <2>2. /\ stream'.id = stream.id /\ stream'.thread = stream.thread
        /\ stream'.turn \in {0, stream.turn}
        /\ detail' = detail \/ detail'.turn = 0
    BY <1>14 DEF HandleIdle, TypeOK, StreamTypes, Streams, UITypes
  <2>3. Owned(stream)' /\ OnTask(stream)'
    BY <1>1, <1>6, <2>1, <2>2, StreamKeeps
  <2>4. Owned(detail)'
    BY <1>6, <2>2 DEF Owned
  <2> QED BY <1>5, <1>6, <2>1, <2>3, <2>4
<1> QED
  BY <1>9, <1>10, <1>11, <1>12, <1>13, <1>14 DEF AppStep

(***************************************************************************)
(* The theorems.                                                           *)
(***************************************************************************)
LEMMA InitInv == Init => SessionInv
<1> SUFFICES ASSUME Init
             PROVE  SessionInv
  OBVIOUS
<1> USE SessionAssumption DEF Init
<1>1. UITypes
  BY DEF UITypes, NoDetail, NoDraft, Drafts, ThreadOrNone, Turn0
<1>2. StreamTypes
  BY DEF StreamTypes, NoStream, Streams, ThreadOrNone, Turn0, Statuses, Id0
<1>3. NoTask \in Tasks
  BY DEF NoTask, Tasks, ThreadOrNone, PromptOrNone, Turn0
<1>4. TaskTypes
  BY <1>3 DEF TaskTypes
<1>5. ServerTypes /\ UserTypes
  BY DEF ServerTypes, UserTypes, ThreadOrNone
<1>6. FreshIds
  BY DEF FreshIds
<1>7. TurnsStarted /\ EventsMatchTask /\ TurnsOwned
  BY DEF TurnsStarted, EventsMatchTask, TurnsOwned, OnTask, Owned, NoTask, NoStream, NoDetail,
         NoDraft
<1> QED BY <1>1, <1>2, <1>4, <1>5, <1>6, <1>7 DEF SessionInv, TypeOK

LEMMA NextInv == SessionInv /\ [Next]_vars => SessionInv'
<1> SUFFICES ASSUME SessionInv, [Next]_vars
             PROVE  SessionInv'
  OBVIOUS
<1>1. TypeOK /\ Kept
  BY DEF SessionInv, Kept
<1>2. ASSUME TypeOK', Kept'
      PROVE  SessionInv'
  BY <1>2 DEF SessionInv, Kept
<1>3. CASE UNCHANGED vars
  BY <1>3 DEF vars, uiVars, streamVars, taskVars, serverVars, userVars, SessionInv, TypeOK,
     UITypes, StreamTypes, TaskTypes, ServerTypes, UserTypes, FreshIds, TurnsStarted,
     EventsMatchTask, TurnsOwned, OnTask, Owned
<1>4. CASE UserStep
  <2>1. CASE \/ \E th \in Thread : MoveSelection(th)
             \/ OpenDetail \/ CloseDetail \/ LeaveByHelp \/ LaunchCodex
    BY <1>1, <1>2, <2>1, BrowsingTypes, BrowsingKeeps
  <2>2. CASE \/ OpenCompose \/ OpenNewSession \/ ToggleCompose \/ CancelCompose
             \/ AskInterrupt
    BY <1>1, <1>2, <2>2, ComposingTypes, ComposingKeeps
  <2>3. ASSUME NEW p \in Prompt,
               \/ SubmitSend(p) \/ SubmitNoWait(p) \/ SubmitNewSession(p) \/ SubmitSteer(p)
        PROVE  SessionInv'
    BY <1>1, <1>2, <2>3, SubmitTypes, SubmitKeeps
  <2>4. CASE Interrupt
    BY <1>1, <1>2, <2>4, InterruptTypes, InterruptKeeps
  <2> QED BY <1>4, <2>1, <2>2, <2>3, <2>4 DEF UserStep
<1>5. CASE FetchStep
  BY <1>1, <1>2, <1>5, FetchTypes, FetchKeeps
<1>6. CASE AppStep
  BY <1>1, <1>2, <1>6, AppStepTypes, AppStepKeeps
<1>7. ASSUME NEW i \in Id, TaskStep(i)
      PROVE  SessionInv'
  BY <1>1, <1>2, <1>7, TaskStepTypes, TaskStepKeeps DEF Kept
<1>8. ASSUME NEW j \in jobs, JobStep(j)
      PROVE  SessionInv'
  BY <1>1, <1>2, <1>8, JobStepTypes, JobStepKeeps
<1>9. CASE ServerStep
  BY <1>1, <1>2, <1>9, ServerStepTypes, ServerStepKeeps
<1> QED BY <1>3, <1>4, <1>5, <1>6, <1>7, <1>8, <1>9 DEF Next

\* The inductive invariant holds: wherever the program keeps a stream id, a thread
\* or a turn, they belong together.
THEOREM SessionInvariant == Spec => []SessionInv
BY InitInv, NextInv, PTL DEF Spec

\* The state's types, and the freshness of the stream ids still to be allocated.
THEOREM TypeCorrect == Spec => []TypeOK
<1>1. SessionInv => TypeOK
  BY DEF SessionInv
<1> QED BY <1>1, SessionInvariant, PTL

\* A stream is shown on the thread its task works on, whatever order the events of
\* old and new tasks are handled in.
THEOREM StreamOnItsThread == Spec => []StreamMatchesTask
<1>1. SessionInv => StreamMatchesTask
  BY DEF SessionInv, EventsMatchTask, OnTask, StreamMatchesTask
<1> QED BY <1>1, SessionInvariant, PTL

\* A steer or an interrupt names a turn of the thread it was asked for on.
THEOREM CommandsAddressOwnTurn == Spec => []CommandsOnOwnTurn
<1>1. SessionInv => CommandsOnOwnTurn
  BY DEF SessionInv, TurnsOwned, Owned, CommandsOnOwnTurn
<1> QED BY <1>1, SessionInvariant, PTL

(***************************************************************************)
(* What a task says last.                                                  *)
(***************************************************************************)
Waiting == {"Starting", "Following"}

\* What a step of task i puts on the app-event channel, and what it makes of the
\* task: it ends with one of its closing messages, or says something else and goes
\* on; only the failure to create a thread names no stream.
TaskSays(i) ==
    \/ app' = app /\ task'[i].pc \notin Ended
    \/ \E m : /\ Post(m) /\ m.id = i /\ m.status \notin Waiting
              /\ m.type \in Terminal => task'[i].pc = "done"
              /\ m.type \notin Terminal => task'[i].pc \notin Ended
    \/ \E m : /\ Post(m) /\ m.id = 0 /\ m.status \notin Waiting
              /\ m.type = "createFailed" /\ task[i].pc = "create"

LEMMA TaskStepSays ==
    ASSUME TypeOK, Kept, NEW i \in Id, TaskStep(i)
    PROVE  TaskSays(i)
<1> USE DEF Ended, Waiting, Terminal
<1>0. task \in [Id -> Tasks] /\ task[i] \in Tasks
  BY DEF TypeOK, TaskTypes
<1>1. ASSUME NEW type, NEW t, NEW status, Send(type, i, t, status), status \notin Waiting,
             type \in Terminal => task'[i].pc = "done",
             type \notin Terminal => task'[i].pc \notin Ended
      PROVE  TaskSays(i)
  <2>1. /\ Msg(type, i, t.thread, t.turn, status).id = i
        /\ Msg(type, i, t.thread, t.turn, status).type = type
        /\ Msg(type, i, t.thread, t.turn, status).status = status
    BY DEF Msg
  <2> QED BY <1>1, <2>1 DEF Send, TaskSays
<1>1a. ASSUME NEW m, Post(m), m.id = i, m.status \notin Waiting, m.type \notin Terminal,
              task'[i].pc \notin Ended
       PROVE  TaskSays(i)
  BY <1>1a DEF TaskSays
<1>2. ASSUME NEW pc, task' = [task EXCEPT ![i].pc = pc]
      PROVE  task'[i].pc = pc
  BY <1>0, <1>2 DEF Tasks
<1>3. task[i].pc \in {"wait", "over"} => turns[task[i].turn].state \notin Waiting
  <2> SUFFICES ASSUME task[i].pc \in {"wait", "over"}
               PROVE  turns[task[i].turn].state \notin Waiting
    OBVIOUS
  <2>1. task[i].turn \in DOMAIN turns
    BY DEF Kept, TurnsStarted, TurnsOwned, Owned
  <2>2. turns[task[i].turn] \in Turns
    BY <2>1 DEF TypeOK, ServerTypes
  <2> QED BY <2>2 DEF Turns
<1>4. CASE CreateThread(i)
  <2>1. PICK th : /\ task' = [task EXCEPT ![i].pc = "start", ![i].thread = th]
                  /\ Post(Msg("created", i, th, 0, "None"))
    BY <1>4 DEF CreateThread
  <2>2. task'[i].pc = "start"
    BY <1>0, <2>1 DEF Tasks
  <2> DEFINE m == Msg("created", i, th, 0, "None")
  <2>3. m.id = i /\ m.status = "None" /\ m.type = "created"
    BY DEF Msg
  <2>4. Post(m)
    BY <2>1
  <2> HIDE DEF m
  <2> QED BY <2>2, <2>3, <2>4, <1>1a
<1>5. CASE CreateFails(i)
  <2>1. /\ Msg("createFailed", 0, NoThread, 0, "None").id = 0
        /\ Msg("createFailed", 0, NoThread, 0, "None").type = "createFailed"
        /\ Msg("createFailed", 0, NoThread, 0, "None").status = "None"
    BY DEF Msg
  <2> QED BY <1>5, <2>1 DEF CreateFails, TaskSays
<1>6. CASE StartTurn(i)
  <2>1. PICK n \in 1..MaxTurn :
          LET t == [task[i] EXCEPT !.pc = "wait", !.turn = n]
          IN  task' = [task EXCEPT ![i] = t] /\ Send("accepted", i, t, "Running")
    BY <1>6 DEF StartTurn
  <2>2. task'[i].pc = "wait"
    BY <1>0, <2>1 DEF Tasks
  <2> QED BY <2>1, <2>2, <1>1
<1>7. CASE FindTurn(i)
  <2>1. task'[i].pc = "attach"
    BY <1>0, <1>7 DEF FindTurn, Tasks
  <2> QED BY <1>7, <2>1 DEF FindTurn, TaskSays
<1>8. CASE ProbeGivesUp(i)
  <2>1. Send("idle", i, task[i], "None") /\ task'[i].pc = "done"
    BY <1>8, <1>2 DEF ProbeGivesUp
  <2> QED BY <2>1, <1>1
<1>9. CASE Attach(i)
  BY <1>9, <1>1, <1>2 DEF Attach
<1>10. CASE ReadSubmit(i)
  <2>1. CASE \E n \in 1..MaxTurn :
               /\ Post(Msg("queued", i, task[i].thread, n, "Running"))
               /\ task' = IF task[i].pc = "wait" THEN task
                          ELSE [task EXCEPT ![i].pc = "attach", ![i].turn = n]
    <3>1. PICK n \in 1..MaxTurn :
               /\ Post(Msg("queued", i, task[i].thread, n, "Running"))
               /\ task' = IF task[i].pc = "wait" THEN task
                          ELSE [task EXCEPT ![i].pc = "attach", ![i].turn = n]
      BY <2>1
    <3>2. task'[i].pc \notin Ended
      BY <1>0, <1>10, <3>1 DEF ReadSubmit, Tasks
    <3> DEFINE m == Msg("queued", i, task[i].thread, n, "Running")
    <3>3. m.id = i /\ m.status = "Running" /\ m.type = "queued"
      BY DEF Msg
    <3>4. Post(m)
      BY <3>1
    <3> HIDE DEF m
    <3> QED BY <3>2, <3>3, <3>4, <1>1a
  <2>2. CASE /\ Send("failed", i, task[i], "Failed")
             /\ task' = [task EXCEPT ![i].pc = "done"]
    <3>1. task'[i].pc = "done"
      BY <2>2, <1>2
    <3> QED BY <2>2, <3>1, <1>1
  <2> QED BY <1>10, <2>1, <2>2 DEF ReadSubmit
<1>11. CASE ReadDetach(i)
  <2>1. CASE task[i].pc = "wait"
    <3>1. app' = app /\ task'[i].pc = "leaving"
      BY <1>11, <2>1, <1>2 DEF ReadDetach
    <3> QED BY <3>1 DEF TaskSays
  <2>2. CASE task[i].pc # "wait"
    <3>1. Send("idle", i, task[i], "None") /\ task'[i].pc = "done"
      BY <1>11, <2>2, <1>2 DEF ReadDetach
    <3> QED BY <3>1, <1>1
  <2> QED BY <2>1, <2>2
<1>12. CASE Progress(i)
  <2>1. task'[i].pc \notin Ended
    BY <1>12 DEF Progress, taskVars
  <2> QED BY <1>12, <2>1, <1>1 DEF Progress
<1>13. CASE TurnEnds(i)
  BY <1>13, <1>1, <1>2, <1>3 DEF TurnEnds
<1>14. CASE Report(i)
  <2> DEFINE s == IF task[i].pc = "over" THEN turns[task[i].turn].state ELSE "Detached"
  <2>1. Send("finished", i, task[i], s) /\ task'[i].pc = "done"
    BY <1>14, <1>2 DEF Report
  <2>2. s \notin Waiting
    BY <1>3
  <2> HIDE DEF s
  <2> QED BY <2>1, <2>2, <1>1
<1>15. CASE TaskFails(i)
  <2>1. Send("failed", i, task[i], "Failed") /\ task'[i].pc = "done"
    BY <1>15, <1>2 DEF TaskFails
  <2> QED BY <2>1, <1>1
<1> QED
  BY <1>4, <1>5, <1>6, <1>7, <1>8, <1>9, <1>10, <1>11, <1>12, <1>13, <1>14, <1>15 DEF TaskStep

\* A one-shot task names no stream.
LEMMA JobStepSays ==
    ASSUME NEW j \in jobs, JobStep(j)
    PROVE  /\ UNCHANGED <<streamVars, task>>
           /\ \E m : /\ Post(m) /\ m.id = 0 /\ m.status \notin Waiting
                     /\ m.type # "created"
<1> USE DEF Waiting
<1>1. ASSUME NEW type, NEW th, NEW n, NEW status, Post(Msg(type, 0, th, n, status)),
             status \notin Waiting, type # "created"
      PROVE  \E m : Post(m) /\ m.id = 0 /\ m.status \notin Waiting /\ m.type # "created"
  <2>1. /\ Msg(type, 0, th, n, status).id = 0
        /\ Msg(type, 0, th, n, status).type = type
        /\ Msg(type, 0, th, n, status).status = status
    BY DEF Msg
  <2> QED BY <1>1, <2>1
<1>2. UNCHANGED <<streamVars, task>>
  BY DEF JobStep, JobSends, JobSteers, JobFails, streamVars
<1>3. \E type, th, n, status : /\ Post(Msg(type, 0, th, n, status))
                               /\ status \notin Waiting /\ type # "created"
  <2>1. CASE JobSends(j)
    BY <2>1 DEF JobSends
  <2>2. CASE JobSteers(j)
    BY <2>2 DEF JobSteers
  <2>3. CASE JobFails(j)
    BY <2>3 DEF JobFails
  <2> QED BY <2>1, <2>2, <2>3 DEF JobStep
<1> QED BY <1>1, <1>2, <1>3

\* The channel is a queue: what is posted comes last, and what is handled was first.
LEMMA PostedLast ==
    ASSUME TypeOK, NEW m, Post(m)
    PROVE  /\ DOMAIN app' = 1..(Len(app) + 1) /\ DOMAIN app = 1..Len(app) /\ Len(app) \in Nat
           /\ \A k \in 1..Len(app) : app'[k] = app[k]
           /\ app'[Len(app) + 1] = m
  BY DEF TypeOK, TaskTypes, Post

LEMMA HandledFirst ==
    ASSUME TypeOK, app # <<>>, app' = Tail(app)
    PROVE  /\ Head(app) = app[1] /\ Head(app) \in Msgs
           /\ DOMAIN app = 1..Len(app) /\ Len(app) \in Nat \ {0}
           /\ DOMAIN app' = 1..(Len(app) - 1)
           /\ \A k \in 1..(Len(app) - 1) : app'[k] = app[k + 1]
  BY DEF TypeOK, TaskTypes

\* The UI ends no task: it leaves the tasks alone but for the one it spawns.
TasksGrow ==
    \A i \in Id : task'[i] = task[i] \/ (task[i].pc = "none" /\ task'[i].pc \notin Ended)

LEMMA SpawnGrows ==
    ASSUME TypeOK, NEW t, SpawnTask(t), t.pc \notin Ended
    PROVE  TasksGrow /\ nextId + 1 \in Id /\ task'[nextId + 1] = t
<1>1. nextId + 1 \in Id
  BY SessionAssumption DEF TypeOK, StreamTypes, SpawnTask, Id, Id0
<1>2. task[nextId + 1].pc = "none"
  BY <1>1 DEF TypeOK, FreshIds, NoTask, StreamTypes, Id0
<1>3. task \in [Id -> Tasks]
  BY DEF TypeOK, TaskTypes
<1> QED BY <1>1, <1>2, <1>3 DEF SpawnTask, TasksGrow

\* What a UI step makes of the stream that is shown: it leaves it, stops its waiting,
\* or shows the new one of a task that it spawned.
StreamMoved ==
    \/ stream' = stream
    \/ stream'.status \notin Waiting
    \/ stream'.id \in Id /\ stream'.turn = 0 /\ task'[stream'.id].pc \notin Ended

LEMMA OpenStreamGrows ==
    ASSUME TypeOK, NEW t, NEW status, OpenStream(t, status), t.pc \notin Ended,
           status \in Waiting => t.turn = 0
    PROVE  TasksGrow /\ StreamMoved
<1>1. TasksGrow /\ nextId + 1 \in Id /\ task'[nextId + 1] = t
  BY SpawnGrows DEF OpenStream
<1>2. stream'.id = nextId + 1 /\ stream'.turn = t.turn /\ stream'.status = status
  BY DEF OpenStream
<1> QED BY <1>1, <1>2 DEF StreamMoved

LEMMA UserFetchGrows ==
    ASSUME TypeOK, UserStep \/ FetchStep
    PROVE  TasksGrow /\ StreamMoved /\ UNCHANGED app
<1> USE DEF Ended, Waiting
<1>0. task \in [Id -> Tasks] /\ stream \in Streams
  BY DEF TypeOK, TaskTypes, StreamTypes
<1>1. UNCHANGED task => TasksGrow
  BY DEF TasksGrow
<1>2. DropStream => StreamMoved
  BY DEF DropStream, NoStream, StreamMoved
<1>3. UNCHANGED streamVars => StreamMoved
  BY DEF streamVars, StreamMoved
<1>4. ASSUME NEW th, NEW n, NEW p, NEW pc \in {"create", "start", "resolve", "attach"}
      PROVE  NewTask(pc, th, n, p).pc = pc /\ NewTask(pc, th, n, p).turn = n
  BY DEF NewTask
<1>5. ASSUME NEW th \in Thread, MoveSelection(th) PROVE TasksGrow /\ StreamMoved /\ UNCHANGED app
  <2>1. UNCHANGED <<task, app>> /\ (DropStream \/ UNCHANGED stream)
    BY <1>5 DEF MoveSelection
  <2> QED BY <2>1, <1>1, <1>2 DEF StreamMoved
<1>6. CASE CloseDetail
  <2>1. UNCHANGED <<task, app>> /\ (DropStream \/ UNCHANGED stream)
    BY <1>6 DEF CloseDetail
  <2> QED BY <2>1, <1>1, <1>2 DEF StreamMoved
<1>7. CASE LaunchCodex
  <2>1. UNCHANGED <<task, app>> /\ DetachStream
    BY <1>7 DEF LaunchCodex
  <2>2. StreamMoved
    BY <1>0, <2>1 DEF DetachStream, StreamMoved, Streams, Live
  <2> QED BY <2>1, <2>2, <1>1
<1>8. CASE \/ OpenDetail \/ LeaveByHelp \/ OpenCompose \/ OpenNewSession \/ ToggleCompose
           \/ CancelCompose \/ AskInterrupt \/ Interrupt
  <2>1. UNCHANGED <<streamVars, task, app>>
    BY <1>8 DEF OpenDetail, LeaveByHelp, OpenCompose, OpenNewSession, ToggleCompose,
                CancelCompose, AskInterrupt, Interrupt, taskVars
  <2> QED BY <2>1, <1>1, <1>3
<1>9. ASSUME NEW p \in Prompt, SubmitSend(p) PROVE TasksGrow /\ StreamMoved /\ UNCHANGED app
  <2>1. UNCHANGED app
    BY <1>9 DEF SubmitSend, Submitting
  <2>2. CASE UNCHANGED <<streamVars, task>>
    BY <2>1, <2>2, <1>1, <1>3
  <2>3. CASE OpenStream(NewTask("start", draft.thread, 0, p), "Starting")
    <3>1. ASSUME NEW t, t = NewTask("start", draft.thread, 0, p)
          PROVE  TasksGrow /\ StreamMoved
      BY <2>3, <3>1, <1>4, OpenStreamGrows
    <3> QED BY <2>1, <3>1
  <2> QED BY <1>9, <2>2, <2>3 DEF SubmitSend
<1>10. ASSUME NEW p \in Prompt, SubmitNoWait(p) \/ SubmitSteer(p)
       PROVE  TasksGrow /\ StreamMoved /\ UNCHANGED app
  <2>1. UNCHANGED <<streamVars, task, app>>
    BY <1>10 DEF SubmitNoWait, SubmitSteer, Submitting
  <2> QED BY <2>1, <1>1, <1>3
<1>11. ASSUME NEW p \in Prompt, SubmitNewSession(p)
       PROVE  TasksGrow /\ StreamMoved /\ UNCHANGED app
  <2>1. /\ UNCHANGED app /\ stream' = NoStream
        /\ SpawnTask(NewTask("create", NoThread, 0, p))
    BY <1>11 DEF SubmitNewSession, Submitting
  <2>2. ASSUME NEW t, t = NewTask("create", NoThread, 0, p)
        PROVE  TasksGrow
    BY <2>1, <2>2, <1>4, SpawnGrows
  <2> QED BY <2>1, <2>2 DEF NoStream, StreamMoved
<1>12. CASE BrowserLoaded
  <2>1. UNCHANGED app
    BY <1>12 DEF BrowserLoaded
  <2>2. CASE UNCHANGED <<streamVars, task>>
    BY <2>1, <2>2, <1>1, <1>3
  <2>3. CASE OpenStream(NewTask("resolve", selected', 0, NoPrompt), "Starting")
    <3>1. ASSUME NEW t, t = NewTask("resolve", selected', 0, NoPrompt)
          PROVE  TasksGrow /\ StreamMoved
      BY <2>3, <3>1, <1>4, OpenStreamGrows
    <3> QED BY <2>1, <3>1
  <2> QED BY <1>12, <2>2, <2>3 DEF BrowserLoaded
<1>13. CASE DetailLoaded
  <2>1. UNCHANGED app
    BY <1>13 DEF DetailLoaded
  <2>2. CASE UNCHANGED <<streamVars, task>>
    BY <2>1, <2>2, <1>1, <1>3
  <2>3. ASSUME NEW d, AutoAttachDetail(d) PROVE TasksGrow /\ StreamMoved
    <3>1. OpenStream(NewTask("attach", d.thread, d.turn, NoPrompt), "Running")
      BY <2>3 DEF AutoAttachDetail
    <3>2. ASSUME NEW t, t = NewTask("attach", d.thread, d.turn, NoPrompt)
          PROVE  TasksGrow /\ StreamMoved
      BY <3>1, <3>2, <1>4, OpenStreamGrows
    <3> QED BY <3>2
  <2> QED BY <1>13, <2>1, <2>2, <2>3 DEF DetailLoaded
<1> QED
  BY <1>5, <1>6, <1>7, <1>8, <1>9, <1>10, <1>11, <1>12, <1>13 DEF UserStep, FetchStep

(***************************************************************************)
(* TerminalIsLast.                                                         *)
(***************************************************************************)
LEMMA QueuedIds ==
    ASSUME TypeOK
    PROVE  \A x \in DOMAIN app : app[x] \in Msgs /\ app[x].id \in Id0
<1>1. app \in Seq(Msgs)
  BY DEF TypeOK, TaskTypes
<1>2. \A x \in DOMAIN app : app[x] \in Msgs
  BY <1>1
<1>3. \A m \in Msgs : m.id \in Id0
  BY DEF Msgs
<1> QED BY <1>2, <1>3

\* A task's step, or a one-shot task's, keeps the closing messages last.
LEMMA PostLast ==
    ASSUME TypeOK, TerminalIsLast, NEW m, Post(m), m.id \in Id0,
           \A i \in Id : task[i].pc = "done" => task'[i].pc = "done",
           m.id # 0 => task[m.id].pc # "done",
           m.id # 0 /\ m.type \in Terminal => task'[m.id].pc = "done"
    PROVE  TerminalIsLast'
<1> SUFFICES ASSUME NEW k \in DOMAIN app', app'[k].id # 0, app'[k].type \in Terminal
             PROVE  /\ task'[app'[k].id].pc = "done"
                    /\ \A n \in DOMAIN app' : n > k => app'[n].id # app'[k].id
  BY DEF TerminalIsLast, Terminal
<1> DEFINE L == Len(app)
<1>1. /\ DOMAIN app' = 1..(L + 1) /\ DOMAIN app = 1..L /\ L \in Nat
      /\ \A x \in 1..L : app'[x] = app[x]
      /\ app'[L + 1] = m
  BY PostedLast
<1>2. \A x \in 1..L : app[x].id \in Id0
  BY <1>1, QueuedIds
<1> HIDE DEF L
<1>3. CASE k = L + 1
  BY <1>1, <1>3
<1>4. CASE k \in 1..L
  <2>1. /\ app'[k] = app[k] /\ app[k].id \in Id /\ task[app[k].id].pc = "done"
        /\ \A n \in 1..L : n > k => app[n].id # app[k].id
    <3>1. k \in DOMAIN app /\ app'[k] = app[k] /\ app[k].id # 0 /\ app[k].type \in Terminal
      BY <1>1, <1>4
    <3>2. app[k].id \in Id
      BY <1>2, <1>4, <3>1, SessionAssumption DEF Id, Id0
    <3> QED BY <1>1, <3>1, <3>2 DEF TerminalIsLast
  <2>2. m.id # app[k].id
    BY <1>1, <1>4, <2>1, SessionAssumption DEF Id
  <2> QED BY <1>1, <2>1, <2>2
<1> QED BY <1>1, <1>3, <1>4

\* So does a step that leaves the channel alone or takes its first message.
LEMMA QueueLast ==
    ASSUME TypeOK, TerminalIsLast, app' = app \/ (app # <<>> /\ app' = Tail(app)),
           \A i \in Id : task[i].pc = "done" => task'[i].pc = "done"
    PROVE  TerminalIsLast'
<1>0. \A x \in DOMAIN app : app[x].id \in Id0
  BY QueuedIds
<1>1. CASE app' = app
  BY <1>0, <1>1, SessionAssumption DEF TerminalIsLast, Terminal, Id, Id0
<1>2. CASE app # <<>> /\ app' = Tail(app)
  <2> SUFFICES ASSUME NEW k \in DOMAIN app', app'[k].id # 0, app'[k].type \in Terminal
               PROVE  /\ task'[app'[k].id].pc = "done"
                      /\ \A n \in DOMAIN app' : n > k => app'[n].id # app'[k].id
    BY DEF TerminalIsLast, Terminal
  <2> DEFINE L == Len(app)
  <2>1. /\ DOMAIN app = 1..L /\ L \in Nat \ {0} /\ DOMAIN app' = 1..(L - 1)
        /\ \A x \in 1..(L - 1) : app'[x] = app[x + 1]
    BY <1>2, HandledFirst, Zenon
  <2> HIDE DEF L
  <2>2. k + 1 \in 1..L /\ app'[k] = app[k + 1]
    BY <2>1
  <2>3. /\ app[k + 1].id \in Id /\ task[app[k + 1].id].pc = "done"
        /\ \A n \in 1..L : n > k + 1 => app[n].id # app[k + 1].id
    <3>1. k + 1 \in DOMAIN app /\ app[k + 1].id # 0 /\ app[k + 1].type \in Terminal
      BY <2>1, <2>2
    <3>2. app[k + 1].id \in Id
      BY <1>0, <3>1, SessionAssumption DEF Id, Id0
    <3> QED BY <2>1, <3>1, <3>2 DEF TerminalIsLast
  <2>4. ASSUME NEW n \in DOMAIN app', n > k PROVE app'[n].id # app'[k].id
    <3>1. n + 1 \in 1..L /\ app'[n] = app[n + 1] /\ n + 1 > k + 1
      BY <2>1, <2>4
    <3> QED BY <2>2, <2>3, <3>1
  <2> QED BY <2>2, <2>3, <2>4
<1> QED BY <1>1, <1>2

\* The handlers take one message and spawn at most a task that follows the thread.
LEMMA AppStepTakes ==
    ASSUME TypeOK, AppStep
    PROVE  TasksGrow /\ app # <<>> /\ app' = Tail(app)
<1>1. app # <<>> /\ app' = Tail(app)
  BY DEF AppStep, HandleCreated, HandleCreateFailed, HandleStreamEvent, HandleFailed,
         HandleFinished, HandleIdle, HandleNotice, Receiving
<1>2. CASE UNCHANGED task
  BY <1>1, <1>2 DEF TasksGrow
<1>3. CASE HandleFinished /\ task' # task
  <2>1. PICK th : OpenStream(NewTask("probe", th, 0, NoPrompt), "Following")
    BY <1>3 DEF HandleFinished, Follows, FollowThread
  <2>2. ASSUME NEW t, t = NewTask("probe", th, 0, NoPrompt) PROVE TasksGrow
    <3>1. t.pc \notin Ended /\ t.turn = 0
      BY <2>2 DEF NewTask, Ended
    <3> QED BY <2>1, <2>2, <3>1, OpenStreamGrows
  <2> QED BY <1>1, <2>2
<1> QED
  BY <1>2, <1>3 DEF AppStep, HandleCreated, HandleCreateFailed, HandleStreamEvent, HandleFailed,
         HandleFinished, HandleIdle, HandleNotice, taskVars

LEMMA DoneStaysDone ==
    ASSUME TypeOK, Kept, Next
    PROVE  \A i \in Id : task[i].pc = "done" => task'[i].pc = "done"
<1>1. CASE TasksGrow
  BY <1>1 DEF TasksGrow
<1>2. CASE UNCHANGED task
  BY <1>2
<1>3. ASSUME NEW i \in Id, TaskStep(i)
      PROVE  \A k \in Id : task[k].pc = "done" => task'[k].pc = "done"
  BY <1>3, TaskMoves DEF Ended
<1>4. ASSUME NEW j \in jobs, JobStep(j) PROVE UNCHANGED task
  BY <1>4, JobStepSays
<1>5. ServerStep => UNCHANGED task
  BY DEF ServerStep, TurnOver, OtherClient, taskVars
<1> QED BY <1>1, <1>2, <1>3, <1>4, <1>5, UserFetchGrows, AppStepTakes DEF Next

LEMMA NextLast ==
    ASSUME SessionInv, TerminalIsLast, [Next]_vars
    PROVE  TerminalIsLast'
<1>0. TypeOK /\ Kept
  BY DEF SessionInv, Kept
<1>1. CASE UNCHANGED vars
  BY <1>1 DEF vars, taskVars, TerminalIsLast, Terminal
<1>2. Next => \A i \in Id : task[i].pc = "done" => task'[i].pc = "done"
  BY <1>0, DoneStaysDone
<1>3. CASE UserStep \/ FetchStep \/ AppStep \/ ServerStep
  <2>1. app' = app \/ (app # <<>> /\ app' = Tail(app))
    BY <1>0, <1>3, UserFetchGrows, AppStepTakes DEF ServerStep, TurnOver, OtherClient
  <2> QED BY <1>0, <1>2, <1>3, <2>1, QueueLast DEF Next
<1>4. ASSUME NEW i \in Id, TaskStep(i) PROVE TerminalIsLast'
  <2>1. Next
    BY <1>4 DEF Next
  <2>2. task[i].pc \notin Ended /\ i # 0 /\ i \in Id0
    BY <1>0, <1>4, TaskMoves, SessionAssumption DEF Id, Id0
  <2>3. CASE app' = app
    BY <1>0, <1>2, <2>1, <2>3, QueueLast
  <2>4. CASE \E m : /\ Post(m) /\ m.id = i
                    /\ m.type \in Terminal => task'[i].pc = "done"
    BY <1>0, <1>2, <2>1, <2>2, <2>4, PostLast DEF Ended
  <2>5. CASE \E m : Post(m) /\ m.id = 0
    BY <1>0, <1>2, <2>1, <2>5, PostLast, SessionAssumption DEF Id0
  <2> QED BY <1>0, <1>4, <2>3, <2>4, <2>5, TaskStepSays DEF TaskSays
<1>5. ASSUME NEW j \in jobs, JobStep(j) PROVE TerminalIsLast'
  <2>1. Next
    BY <1>5 DEF Next
  <2>2. PICK m : Post(m) /\ m.id = 0
    BY <1>5, JobStepSays
  <2> QED BY <1>0, <1>2, <2>1, <2>2, PostLast, SessionAssumption DEF Id0
<1> QED BY <1>1, <1>3, <1>4, <1>5 DEF Next

\* A task's closing message is its last: the UI handles nothing of a stream after it
\* was told how the stream ended.
THEOREM ClosingMessageIsLast == Spec => []TerminalIsLast
<1>1. Init => TerminalIsLast
  BY DEF Init, TerminalIsLast
<1> QED BY <1>1, NextLast, SessionInvariant, PTL DEF Spec

(***************************************************************************)
(* WaitingIsBacked.                                                        *)
(***************************************************************************)
\* The message k of the channel is followed by one that closes stream i.
ClosedBy(k, i) == \E n \in DOMAIN app : n > k /\ app[n].id = i /\ app[n].type \in Terminal

\* A waiting stream bears the id of its task and no turn yet, so that the task's
\* closing message applies to it.
WaitsForTask == stream.status \in Waiting => stream.id # 0 /\ stream.turn = 0

\* No message makes a stream wait but the one of a new session, and its task is
\* either running or has its closing message behind it.
QueueBacked ==
    \A k \in DOMAIN app :
        /\ app[k].status \notin Waiting
        /\ app[k].type = "created" =>
             /\ app[k].id # 0
             /\ task[app[k].id].pc \notin Ended \/ ClosedBy(k, app[k].id)

\* The inductive invariant of WaitingIsBacked.
WaitInv == WaitsForTask /\ QueueBacked /\ WaitingIsBacked

\* What is running goes on, which is so whenever the UI acts.
TasksRun == \A i \in Id : task[i].pc \notin Ended => task'[i].pc \notin Ended

LEMMA GrownRuns == TasksGrow => TasksRun
BY DEF TasksGrow, TasksRun, Ended

\* Task i has its closing message on the channel after the step.
TellsNext(i) == \E k \in DOMAIN app' : app'[k].id = i /\ app'[k].type \in Terminal

\* The stream shown after a user's step or a fetch is backed if the one before was.
LEMMA MovedWaits ==
    ASSUME TypeOK, WaitInv, TasksRun, StreamMoved, UNCHANGED app
    PROVE  WaitInv'
<1>0. stream.id \in Id0 /\ \A i \in Id0 : i # 0 => i \in Id
  BY SessionAssumption DEF TypeOK, StreamTypes, Streams, Id0, Id
<1>1. WaitsForTask'
  BY <1>0, SessionAssumption DEF WaitInv, WaitsForTask, StreamMoved, Id
<1>2. QueueBacked'
  <2> SUFFICES ASSUME NEW k \in DOMAIN app
               PROVE  /\ app[k].status \notin Waiting
                      /\ app[k].type = "created" =>
                           /\ app[k].id # 0
                           /\ task'[app[k].id].pc \notin Ended \/ ClosedBy(k, app[k].id)
    BY DEF QueueBacked, Waiting, Ended, ClosedBy, Terminal
  <2>1. app[k].id \in Id0
    BY QueuedIds
  <2> QED BY <1>0, <2>1 DEF TasksRun, WaitInv, QueueBacked
<1>3. WaitingIsBacked'
  <2> SUFFICES ASSUME stream'.status \in Waiting
               PROVE  task'[stream'.id].pc \notin Ended \/ NoticeQueued(stream'.id)
    BY DEF WaitingIsBacked, NoticeQueued, Ended, Terminal, Waiting
  <2>1. CASE stream' = stream
    <3>1. stream.id \in Id
      BY <1>0, <2>1 DEF WaitInv, WaitsForTask
    <3> QED BY <2>1, <3>1 DEF TasksRun, WaitInv, WaitingIsBacked, Waiting
  <2> QED BY <2>1 DEF StreamMoved
<1> QED BY <1>1, <1>2, <1>3 DEF WaitInv

\* A message behind the stream's back: what a task or a one-shot task posts.
LEMMA PostWaits ==
    ASSUME TypeOK, WaitInv, UNCHANGED stream, NEW m, Post(m), m.status \notin Waiting,
           m.type = "created" => m.id # 0 /\ task'[m.id].pc \notin Ended,
           \A i \in Id : task[i].pc \notin Ended =>
               \/ task'[i].pc \notin Ended
               \/ m.id = i /\ m.type \in Terminal
               \/ task[i].pc = "create",
           EventsMatchTask
    PROVE  WaitInv'
<1> DEFINE L == Len(app)
<1>1. /\ DOMAIN app' = 1..(L + 1) /\ DOMAIN app = 1..L /\ L \in Nat
      /\ \A x \in 1..L : app'[x] = app[x]
      /\ app'[L + 1] = m
  BY PostedLast
<1> HIDE DEF L
<1> DEFINE Going(i) == \/ task'[i].pc \notin Ended
                       \/ m.id = i /\ m.type \in Terminal
<1>2. \A i \in Id : task[i].pc \notin Ended \cup {"create"} => Going(i)
  OBVIOUS
<1>2a. stream.id # 0 => task[stream.id].pc # "create"
  BY DEF EventsMatchTask, OnTask
<1>2b. \A k \in DOMAIN app : app[k].id # 0 => task[app[k].id].pc # "create"
  BY DEF EventsMatchTask, OnTask
<1> HIDE DEF Going
<1>0. stream.id \in Id0 /\ \A i \in Id0 : i # 0 => i \in Id
  BY SessionAssumption DEF TypeOK, StreamTypes, Streams, Id0, Id
<1>3. WaitsForTask'
  BY DEF WaitInv, WaitsForTask, Waiting
<1>4. QueueBacked'
  <2> SUFFICES ASSUME NEW k \in 1..(L + 1)
               PROVE  /\ app'[k].status \notin Waiting
                      /\ app'[k].type = "created" =>
                           /\ app'[k].id # 0
                           /\ \/ task'[app'[k].id].pc \notin Ended
                              \/ \E n \in 1..(L + 1) : n > k /\ app'[n].id = app'[k].id
                                                       /\ app'[n].type \in Terminal
    BY <1>1 DEF QueueBacked, Waiting, Ended, ClosedBy, Terminal
  <2>1. CASE k = L + 1
    BY <1>1, <2>1
  <2>2. CASE k \in 1..L
    <3>1. /\ app'[k] = app[k] /\ app[k].status \notin Waiting /\ app[k].id \in Id0
      BY <1>1, <2>2, QueuedIds DEF WaitInv, QueueBacked
    <3>2. SUFFICES ASSUME app[k].type = "created"
                   PROVE  /\ app[k].id # 0
                          /\ \/ task'[app[k].id].pc \notin Ended
                             \/ \E n \in 1..(L + 1) : n > k /\ app'[n].id = app[k].id
                                                       /\ app'[n].type \in Terminal
      BY <3>1
    <3>3. app[k].id \in Id /\ (task[app[k].id].pc \notin Ended \/ ClosedBy(k, app[k].id))
      BY <1>0, <1>1, <2>2, <3>1, <3>2 DEF WaitInv, QueueBacked
    <3>4. CASE ClosedBy(k, app[k].id)
      BY <1>1, <2>2, <3>3, <3>4, SessionAssumption DEF ClosedBy, Id
    <3>5. CASE task[app[k].id].pc \notin Ended
      <4>1. Going(app[k].id)
        BY <1>1, <1>2, <1>2b, <2>2, <3>3, <3>5, SessionAssumption DEF Id
      <4> QED BY <1>1, <2>2, <3>3, <4>1, SessionAssumption DEF Going, Id
    <3> QED BY <3>3, <3>4, <3>5
  <2> QED BY <1>1, <2>1, <2>2
<1>5. WaitingIsBacked'
  <2> SUFFICES ASSUME stream.status \in Waiting
               PROVE  \/ task'[stream.id].pc \notin Ended
                      \/ \E n \in 1..(L + 1) : app'[n].id = stream.id
                                               /\ app'[n].type \in Terminal
    BY <1>1 DEF WaitingIsBacked, NoticeQueued, Ended, Terminal, Waiting
  <2>1. stream.id \in Id /\ (task[stream.id].pc \notin Ended \/ NoticeQueued(stream.id))
    BY <1>0 DEF WaitInv, WaitsForTask, WaitingIsBacked, Waiting
  <2>2. CASE NoticeQueued(stream.id)
    BY <1>1, <2>2 DEF NoticeQueued
  <2>3. CASE task[stream.id].pc \notin Ended
    <3>1. Going(stream.id)
      BY <1>2, <1>2a, <2>1, <2>3, SessionAssumption DEF Id
    <3> QED BY <1>1, <3>1 DEF Going
  <2> QED BY <2>1, <2>2, <2>3
<1> QED BY <1>3, <1>4, <1>5 DEF WaitInv

\* Taking the first message loses nothing that the others need.
LEMMA TailBacked ==
    ASSUME TypeOK, WaitInv, TasksRun, app # <<>>, app' = Tail(app)
    PROVE  /\ QueueBacked'
           /\ \A i \in Id : NoticeQueued(i) =>
                TellsNext(i) \/ (Head(app).id = i /\ Head(app).type \in Terminal)
           /\ \A i \in Id : ClosedBy(1, i) => TellsNext(i)
<1> DEFINE L == Len(app)
<1>1. /\ Head(app) = app[1] /\ DOMAIN app = 1..L /\ L \in Nat \ {0}
      /\ DOMAIN app' = 1..(L - 1) /\ \A x \in 1..(L - 1) : app'[x] = app[x + 1]
  BY HandledFirst
<1> HIDE DEF L
<1>0. \A i \in Id0 : i # 0 => i \in Id
  BY SessionAssumption DEF Id0, Id
<1>2. \A n \in 1..L : n > 1 => n - 1 \in 1..(L - 1) /\ app'[n - 1] = app[n]
  <2> TAKE n \in 1..L
  <2> HAVE n > 1
  <2>1. n - 1 \in 1..(L - 1) /\ (n - 1) + 1 = n
    BY <1>1
  <2> QED BY <1>1, <2>1
<1>3. QueueBacked'
  <2> SUFFICES ASSUME NEW k \in 1..(L - 1)
               PROVE  /\ app'[k].status \notin Waiting
                      /\ app'[k].type = "created" =>
                           /\ app'[k].id # 0
                           /\ \/ task'[app'[k].id].pc \notin Ended
                              \/ \E n \in 1..(L - 1) : n > k /\ app'[n].id = app'[k].id
                                                       /\ app'[n].type \in Terminal
    BY <1>1 DEF QueueBacked, Waiting, Ended, ClosedBy, Terminal
  <2>1. k + 1 \in 1..L /\ app'[k] = app[k + 1]
    BY <1>1
  <2>2. app[k + 1].status \notin Waiting /\ app[k + 1].id \in Id0
    BY <1>1, <2>1, QueuedIds DEF WaitInv, QueueBacked
  <2>3. SUFFICES ASSUME app[k + 1].type = "created"
                 PROVE  /\ app[k + 1].id # 0
                        /\ \/ task'[app[k + 1].id].pc \notin Ended
                           \/ \E n \in 1..(L - 1) : n > k /\ app'[n].id = app[k + 1].id
                                                    /\ app'[n].type \in Terminal
    BY <2>1, <2>2
  <2>4. /\ app[k + 1].id \in Id
        /\ task[app[k + 1].id].pc \notin Ended \/ ClosedBy(k + 1, app[k + 1].id)
    BY <1>0, <1>1, <2>1, <2>2, <2>3 DEF WaitInv, QueueBacked
  <2>5. CASE task[app[k + 1].id].pc \notin Ended
    BY <2>4, <2>5, SessionAssumption DEF TasksRun, Id
  <2>6. CASE ClosedBy(k + 1, app[k + 1].id)
    <3>1. PICK n \in 1..L : n > k + 1 /\ app[n].id = app[k + 1].id /\ app[n].type \in Terminal
      BY <1>1, <2>6 DEF ClosedBy
    <3>2. n > 1 /\ n - 1 > k
      BY <1>1, <3>1
    <3>3. PICK q \in 1..(L - 1) : q > k /\ app'[q] = app[n]
      BY <1>2, <3>2
    <3>4. app[k + 1].id # 0
      BY <2>4, SessionAssumption DEF Id
    <3> QED BY <3>1, <3>3, <3>4
  <2> QED BY <2>4, <2>5, <2>6
<1>4. ASSUME NEW i \in Id, NEW n \in 1..L, n > 1, app[n].id = i, app[n].type \in Terminal
      PROVE  TellsNext(i)
  <2>1. n - 1 \in DOMAIN app' /\ app'[n - 1].id = i /\ app'[n - 1].type \in Terminal
    BY <1>1, <1>2, <1>4
  <2> QED BY <2>1 DEF TellsNext
<1>5. ASSUME NEW i \in Id, NoticeQueued(i)
      PROVE  TellsNext(i) \/ (Head(app).id = i /\ Head(app).type \in Terminal)
  <2>1. PICK n \in 1..L : app[n].id = i /\ app[n].type \in Terminal
    BY <1>1, <1>5 DEF NoticeQueued
  <2> QED BY <1>1, <1>4, <2>1
<1>6. ASSUME NEW i \in Id, ClosedBy(1, i) PROVE TellsNext(i)
  <2>1. PICK n \in 1..L : n > 1 /\ app[n].id = i /\ app[n].type \in Terminal
    BY <1>1, <1>6 DEF ClosedBy
  <2> QED BY <1>4, <2>1
<1> QED BY <1>3, <1>5, <1>6

\* A handler that leaves a waiting stream as it is did not take its closing message.
LEMMA HandledWaits ==
    ASSUME TypeOK, WaitInv, TasksRun, app # <<>>, app' = Tail(app),
           \/ /\ stream' = stream
              /\ stream.status \in Waiting =>
                   Head(app).type \notin Terminal \/ Head(app).id # stream.id
           \/ stream'.status \notin Waiting
           \/ /\ stream'.id \in Id /\ stream'.turn = 0
              /\ task'[stream'.id].pc \notin Ended \/ TellsNext(stream'.id)
    PROVE  WaitInv'
<1>0. stream.id \in Id0 /\ \A i \in Id0 : i # 0 => i \in Id
  BY SessionAssumption DEF TypeOK, StreamTypes, Streams, Id0, Id
<1>1. QueueBacked'
  BY TailBacked
<1>2. WaitsForTask' /\ WaitingIsBacked'
  <2>1. CASE /\ stream' = stream /\ stream.status \in Waiting
             /\ Head(app).type \notin Terminal \/ Head(app).id # stream.id
    <3>1. /\ stream.id \in Id /\ stream.turn = 0
          /\ task[stream.id].pc \notin Ended \/ NoticeQueued(stream.id)
      BY <1>0, <2>1 DEF WaitInv, WaitsForTask, WaitingIsBacked, Waiting
    <3>2. task'[stream.id].pc \notin Ended \/ TellsNext(stream.id)
      BY <2>1, <3>1, TailBacked DEF TasksRun
    <3> QED BY <2>1, <3>1, <3>2, SessionAssumption
            DEF WaitsForTask, WaitingIsBacked, NoticeQueued, TellsNext, Ended, Terminal, Id
  <2>2. CASE stream'.status \notin Waiting
    BY <2>2 DEF WaitsForTask, WaitingIsBacked, Waiting
  <2>3. CASE /\ stream'.id \in Id /\ stream'.turn = 0
             /\ task'[stream'.id].pc \notin Ended \/ TellsNext(stream'.id)
    BY <2>3, SessionAssumption
       DEF WaitsForTask, WaitingIsBacked, NoticeQueued, TellsNext, Ended, Terminal, Id
  <2> QED BY <2>1, <2>2, <2>3
<1> QED BY <1>1, <1>2 DEF WaitInv

LEMMA AppStepWaits ==
    ASSUME TypeOK, EventsMatchTask, WaitInv, AppStep
    PROVE  WaitInv'
<1> USE DEF Waiting, Terminal
<1> DEFINE m == Head(app)
<1>0. TasksRun /\ app # <<>> /\ app' = Tail(app)
  BY AppStepTakes, GrownRuns
<1>1. m = app[1] /\ 1 \in DOMAIN app /\ m \in Msgs /\ m.id \in Id0
  BY <1>0, HandledFirst, QueuedIds
<1>2. OnTask(m) /\ OnTask(stream) /\ m.status \notin Waiting
  BY <1>1 DEF EventsMatchTask, WaitInv, QueueBacked
<1>3. stream \in Streams /\ stream.id \in Id0
  BY DEF TypeOK, StreamTypes, Streams
<1>4. stream.id # 0 /\ m.id = stream.id => m.thread = stream.thread
  BY <1>2 DEF OnTask
<1>5. stream.status \in Waiting => stream.id # 0 /\ stream.turn = 0
  BY DEF WaitInv, WaitsForTask
<1> DEFINE Left == /\ stream' = stream
                   /\ stream.status \in Waiting =>
                        m.type \notin Terminal \/ m.id # stream.id
           Stopped == stream'.status \notin Waiting
<1>6. Left \/ Stopped => WaitInv'
  BY <1>0, HandledWaits
<1>7. Ends(m) => Left \/ Stopped
  <2> SUFFICES ASSUME NEW pv \in Previews, EndStream(m, pv)
               PROVE  Left \/ Stopped
    BY DEF Ends
  <2>1. CASE Applies(m, pv)
    BY <1>2, <1>3, <2>1 DEF EndStream, Streams
  <2>2. CASE ~Applies(m, pv)
    <3>1. stream.status \in Waiting => m.id # stream.id
      BY <1>4, <1>5, <2>2 DEF Applies
    <3> QED BY <2>2, <3>1 DEF EndStream
  <2> QED BY <2>1, <2>2
<1>8. m.type \in {"created", "createFailed", "notice"} => m.type \notin Terminal
  OBVIOUS
<1> HIDE DEF Left, Stopped, m
<1>9. CASE HandleCreated
  <2>1. /\ m.type = "created" /\ stream'.id = m.id /\ stream'.turn = 0 /\ UNCHANGED task
    BY <1>9 DEF HandleCreated, Receiving, taskVars, m
  <2>2. m.id # 0 /\ (task[m.id].pc \notin Ended \/ ClosedBy(1, m.id))
    BY <1>1, <2>1 DEF WaitInv, QueueBacked
  <2>3. m.id \in Id
    BY <1>1, <2>2, SessionAssumption DEF Id, Id0
  <2>4. ClosedBy(1, m.id) => TellsNext(m.id)
    BY <1>0, <2>3, TailBacked
  <2>5. task'[stream'.id].pc \notin Ended \/ TellsNext(stream'.id)
    BY <2>1, <2>2, <2>4
  <2> QED BY <1>0, <2>1, <2>3, <2>5, HandledWaits
<1>10. CASE HandleCreateFailed \/ HandleNotice
  <2>1. stream' = stream /\ m.type \notin Terminal
    BY <1>10 DEF HandleCreateFailed, HandleNotice, Receiving, streamVars, m
  <2> QED BY <1>6, <2>1 DEF Left
<1>11. CASE HandleStreamEvent
  <2>1. m.type \notin Terminal
    BY <1>11 DEF HandleStreamEvent, Receiving, m
  <2>2. stream' = stream \/ stream' = StreamAfter(m)
    BY <1>11 DEF HandleStreamEvent, m
  <2>3. StreamAfter(m).status = m.status
    BY DEF StreamAfter
  <2> QED BY <1>2, <1>6, <2>1, <2>2, <2>3 DEF Left, Stopped
<1>12. CASE HandleFailed
  BY <1>6, <1>7, <1>12 DEF HandleFailed, Ends, m
<1>13. CASE HandleFinished
  <2>1. CASE Ends(m)
    BY <1>6, <1>7, <2>1
  <2>2. CASE Follows(m)
    <3>1. OpenStream(NewTask("probe", m.thread, 0, NoPrompt), "Following")
      BY <2>2 DEF Follows, FollowThread
    <3>2. ASSUME NEW t, t = NewTask("probe", m.thread, 0, NoPrompt)
          PROVE  stream'.id \in Id /\ stream'.turn = 0 /\ task'[stream'.id].pc \notin Ended
      <4>1. t.pc \notin Ended /\ t.turn = 0 /\ t.pc = "probe"
        BY <3>2 DEF NewTask, Ended
      <4>2. nextId + 1 \in Id /\ task'[nextId + 1] = t
        BY <3>1, <3>2, <4>1, SpawnGrows DEF OpenStream
      <4>3. stream'.id = nextId + 1 /\ stream'.turn = t.turn
        BY <3>1, <3>2 DEF OpenStream
      <4> QED BY <4>1, <4>2, <4>3
    <3> QED BY <1>0, <3>2, HandledWaits
  <2> QED BY <1>13, <2>1, <2>2 DEF HandleFinished, Ends, Follows, m
<1>14. CASE HandleIdle
  <2>1. CASE stream.id = m.id /\ stream.thread = m.thread
    BY <1>3, <1>6, <1>14, <2>1 DEF HandleIdle, Stopped, Streams, m
  <2>2. CASE ~(stream.id = m.id /\ stream.thread = m.thread)
    <3>1. stream' = stream
      BY <1>14, <2>2 DEF HandleIdle, m
    <3>2. stream.status \in Waiting => m.id # stream.id
      BY <1>4, <1>5, <2>2
    <3> QED BY <1>6, <3>1, <3>2 DEF Left
  <2> QED BY <2>1, <2>2
<1> QED BY <1>9, <1>10, <1>11, <1>12, <1>13, <1>14 DEF AppStep

LEMMA NextWaits ==
    ASSUME SessionInv, WaitInv, [Next]_vars
    PROVE  WaitInv'
<1>0. TypeOK /\ Kept /\ EventsMatchTask
  BY DEF SessionInv, Kept
<1>1. CASE UserStep \/ FetchStep
  BY <1>0, <1>1, UserFetchGrows, GrownRuns, MovedWaits
<1>2. CASE UNCHANGED vars \/ ServerStep
  <2>1. UNCHANGED <<stream, task, app>>
    BY <1>2 DEF vars, streamVars, taskVars, ServerStep, TurnOver, OtherClient
  <2> QED BY <1>0, <2>1, MovedWaits DEF TasksRun, StreamMoved
<1>3. CASE AppStep
  BY <1>0, <1>3, AppStepWaits
<1>4. ASSUME NEW i \in Id, TaskStep(i) PROVE WaitInv'
  <2>1. stream' = stream
    BY <1>4, TaskFrame DEF streamVars
  <2>2. \A k \in Id : k # i => task'[k] = task[k]
    BY <1>0, <1>4, TaskMoves
  <2>3. i # 0
    BY DEF Id
  <2>4. CASE app' = app /\ task'[i].pc \notin Ended
    <3>1. \A k \in Id : task[k].pc \notin Ended => task'[k].pc \notin Ended
      BY <2>2, <2>4
    <3> QED BY <1>0, <2>1, <2>4, <3>1, MovedWaits DEF TasksRun, StreamMoved
  <2>5. CASE \E m : /\ Post(m) /\ m.id = i /\ m.status \notin Waiting
                    /\ m.type \in Terminal => task'[i].pc = "done"
                    /\ m.type \notin Terminal => task'[i].pc \notin Ended
    BY <1>0, <2>1, <2>2, <2>3, <2>5, PostWaits DEF Terminal
  <2>6. CASE \E m : /\ Post(m) /\ m.id = 0 /\ m.status \notin Waiting
                    /\ m.type = "createFailed" /\ task[i].pc = "create"
    <3>1. PICK m : /\ Post(m) /\ m.id = 0 /\ m.status \notin Waiting
                   /\ m.type = "createFailed" /\ task[i].pc = "create"
      BY <2>6
    <3> QED BY <1>0, <2>1, <2>2, <3>1, PostWaits
  <2> QED BY <1>0, <1>4, <2>4, <2>5, <2>6, TaskStepSays DEF TaskSays
<1>5. ASSUME NEW j \in jobs, JobStep(j) PROVE WaitInv'
  BY <1>0, <1>5, JobStepSays, PostWaits DEF streamVars
<1> QED BY <1>1, <1>2, <1>3, <1>4, <1>5 DEF Next

\* The UI never waits on a task that has nothing left to say.
THEOREM WaitIsBacked == Spec => []WaitingIsBacked
<1>1. Init => WaitInv
  BY DEF Init, WaitInv, WaitsForTask, QueueBacked, WaitingIsBacked, Waiting, NoStream
<1>2. WaitInv => WaitingIsBacked
  BY DEF WaitInv
<1> QED BY <1>1, <1>2, NextWaits, SessionInvariant, PTL DEF Spec

(***************************************************************************)
(* PromptOnce.                                                             *)
(***************************************************************************)
\* Task i is to start a turn with message p; message k of its channel is p.
Holds(i, p) == task[i].prompt = p /\ task[i].pc \in {"create", "start"}
Queued(i, k, p) == k \in DOMAIN ctl[i] /\ ctl[i][k] = Submit(p)

InTask(p) == \E i \in Id : Holds(i, p)
InCtl(p)  == \E i \in Id : \E k \in Nat : Queued(i, k, p)
InJob(p)  == \E j \in jobs : j.prompt = p

\* A message is in one place of one kind: not submitted yet, with a task that starts a
\* turn, on a task's channel, with a one-shot task, or given to a turn.
OneOfEach(p) ==
    /\ \A i, j \in Id : Holds(i, p) /\ Holds(j, p) => i = j
    /\ \A i, j \in Id : \A k, n \in Nat : Queued(i, k, p) /\ Queued(j, n, p) => i = j /\ k = n
    /\ \A x, y \in jobs : x.prompt = p /\ y.prompt = p => x = y
    /\ Len(ran[p]) <= 1

OneKind(p) ==
    /\ p \in unsent => ~InTask(p) /\ ~InCtl(p) /\ ~InJob(p) /\ ran[p] = <<>>
    /\ InTask(p) => ~InCtl(p) /\ ~InJob(p) /\ ran[p] = <<>>
    /\ InCtl(p) => ~InJob(p) /\ ran[p] = <<>>
    /\ InJob(p) => ran[p] = <<>>

\* The inductive invariant of PromptOnce.
Once(p) == OneOfEach(p) /\ OneKind(p)
OnceInv == \A p \in Prompt : Once(p)

\* A message that the step does not move stays in its place, though the channel it is
\* on may be shortened by d[i] in front.
LEMMA StaysPut ==
    ASSUME NEW p \in Prompt, Once(p), NEW d \in [Id -> {0, 1}],
           p \in unsent' => p \in unsent,
           \A i \in Id : Holds(i, p)' => Holds(i, p),
           \A i \in Id : \A k \in Nat : Queued(i, k, p)' => Queued(i, k + d[i], p),
           \A j \in jobs' : j.prompt = p => j \in jobs,
           ran'[p] = ran[p]
    PROVE  Once(p)'
<1>1. InTask(p)' => InTask(p)
  BY DEF InTask
<1>2. InCtl(p)' => InCtl(p)
  <2>1. \A i \in Id : \A k \in Nat : k + d[i] \in Nat
    OBVIOUS
  <2> QED BY <2>1 DEF InCtl
<1>3. InJob(p)' => InJob(p)
  BY DEF InJob
<1>4. OneKind(p)'
  BY <1>1, <1>2, <1>3 DEF Once, OneKind
<1>5. \A i, j \in Id : \A k, n \in Nat : Queued(i, k, p)' /\ Queued(j, n, p)' => i = j /\ k = n
  <2> TAKE i \in Id, j \in Id
  <2> TAKE k \in Nat, n \in Nat
  <2> HAVE Queued(i, k, p)' /\ Queued(j, n, p)'
  <2>1. d[i] \in {0, 1} /\ d[j] \in {0, 1} /\ k + d[i] \in Nat /\ n + d[j] \in Nat
    OBVIOUS
  <2>2. Queued(i, k + d[i], p) /\ Queued(j, n + d[j], p)
    OBVIOUS
  <2>3. i = j /\ k + d[i] = n + d[j]
    BY <2>1, <2>2 DEF Once, OneOfEach
  <2> QED BY <2>1, <2>3
<1>6. OneOfEach(p)'
  BY <1>5 DEF Once, OneOfEach
<1> QED BY <1>4, <1>6 DEF Once

\* A message that leaves its place is given to a turn, or lost with a failure that is
\* reported.
LEMMA Leaves ==
    ASSUME TypeOK, NEW p \in Prompt, ran[p] = <<>>, p \notin unsent',
           \A i \in Id : ~Holds(i, p)',
           \A i \in Id : \A k \in Nat : ~Queued(i, k, p)',
           \A j \in jobs' : j.prompt # p,
           ran'[p] = ran[p] \/ \E n : ran'[p] = Append(ran[p], n)
    PROVE  Once(p)'
<1>1. ~InTask(p)' /\ ~InCtl(p)' /\ ~InJob(p)'
  BY DEF InTask, InCtl, InJob
<1>2. Len(ran'[p]) <= 1
  <2>1. CASE ran'[p] = <<>>
    BY <2>1
  <2>2. ASSUME NEW n, ran'[p] = Append(<<>>, n) PROVE Len(ran'[p]) <= 1
    BY <2>2
  <2> QED BY <2>1, <2>2
<1>3. OneOfEach(p)'
  BY <1>2 DEF OneOfEach
<1> QED BY <1>1, <1>3 DEF Once, OneKind

\* Submitting puts a message in one place.
LEMMA Placed ==
    ASSUME NEW p \in Prompt, Once(p), p \in unsent, p \notin unsent', ran'[p] = ran[p],
           \A i, j \in Id : Holds(i, p)' /\ Holds(j, p)' => i = j,
           \A i, j \in Id : \A k, n \in Nat :
               Queued(i, k, p)' /\ Queued(j, n, p)' => i = j /\ k = n,
           \A x, y \in jobs' : x.prompt = p /\ y.prompt = p => x = y,
           InTask(p)' => ~InCtl(p)' /\ ~InJob(p)',
           InCtl(p)' => ~InJob(p)'
    PROVE  Once(p)'
<1>1. ran'[p] = <<>>
  BY DEF Once, OneKind
<1>2. OneOfEach(p)'
  BY <1>1 DEF OneOfEach
<1> QED BY <1>1, <1>2 DEF Once, OneKind

\* What a turn/start or an attempt at one does to the record of the turns given.
GivenOnlyTo(q) ==
    /\ \A p \in Prompt : p # q => ran'[p] = ran[p]
    /\ q \in Prompt => ran'[q] = ran[q] \/ \E n : ran'[q] = Append(ran[q], n)

LEMMA AttemptGives ==
    ASSUME TypeOK, NEW th, NEW q,
           Attempted(th, q) \/ \E n \in 1..MaxTurn : ServerRuns(th, q, n)
    PROVE  GivenOnlyTo(q)
<1>1. ran \in [Prompt -> Seq(1..MaxTurn)]
  BY DEF TypeOK, ServerTypes
<1>2. CASE UNCHANGED ran
  BY <1>2 DEF GivenOnlyTo
<1>3. ASSUME NEW n \in 1..MaxTurn, ServerRuns(th, q, n) PROVE GivenOnlyTo(q)
  BY <1>1, <1>3 DEF ServerRuns, GivenOnlyTo
<1> QED BY <1>2, <1>3 DEF Attempted

LEMMA SteerGives ==
    ASSUME TypeOK, NEW j \in jobs, Steered(j)
    PROVE  GivenOnlyTo(j.prompt)
<1>1. ran \in [Prompt -> Seq(1..MaxTurn)]
  BY DEF TypeOK, ServerTypes
<1> QED BY <1>1 DEF Steered, GivenOnlyTo

\* The channels after a detach, a prompt or a read.
LEMMA SubmitIsOne == \A p, q : Submit(p) = Submit(q) => p = q
BY DEF Submit

LEMMA DetachQueues ==
    ASSUME TypeOK, ctl' = CtlAfterDetach, NEW i \in Id, NEW k \in Nat, NEW p, Queued(i, k, p)'
    PROVE  Queued(i, k, p)
<1>1. ctl[i] \in Seq(Ctls) /\ ctl \in [Id -> Seq(Ctls)]
  BY DEF TypeOK, TaskTypes
<1>2. CASE ctl'[i] = ctl[i]
  BY <1>2 DEF Queued
<1>3. CASE ctl'[i] = Append(ctl[i], Detach)
  <2>1. Submit(p) # Detach
    BY DEF Submit, Detach
  <2>2. k \in DOMAIN ctl'[i] /\ ctl'[i][k] = Submit(p)
    BY DEF Queued
  <2>3. k \in 1..(Len(ctl[i]) + 1)
    BY <1>1, <1>3, <2>2
  <2>4. k # Len(ctl[i]) + 1
    BY <1>1, <1>3, <2>1, <2>2
  <2>5. k \in DOMAIN ctl[i] /\ ctl[i][k] = ctl'[i][k]
    BY <1>1, <1>3, <2>3, <2>4
  <2> QED BY <2>2, <2>5 DEF Queued
<1>4. ctl'[i] = ctl[i] \/ ctl'[i] = Append(ctl[i], Detach)
  BY <1>1 DEF CtlAfterDetach
<1> QED BY <1>2, <1>3, <1>4

LEMMA SubmitQueues ==
    ASSUME TypeOK, NEW q, control # 0,
           ctl' = [ctl EXCEPT ![control] = Append(@, Submit(q))],
           NEW i \in Id, NEW k \in Nat, NEW p, Queued(i, k, p)'
    PROVE  Queued(i, k, p) \/ (p = q /\ i = control /\ k = Len(ctl[control]) + 1)
<1>1. ctl[i] \in Seq(Ctls) /\ ctl \in [Id -> Seq(Ctls)]
  BY DEF TypeOK, TaskTypes
<1>2. CASE i # control
  BY <1>1, <1>2 DEF Queued
<1>3. CASE i = control
  <2>1. ctl'[i] = Append(ctl[i], Submit(q))
    BY <1>1, <1>3
  <2>2. k \in DOMAIN ctl'[i] /\ ctl'[i][k] = Submit(p)
    BY DEF Queued
  <2>3. k \in 1..(Len(ctl[i]) + 1)
    BY <1>1, <2>1, <2>2
  <2>4. CASE k = Len(ctl[i]) + 1
    BY <1>1, <1>3, <2>1, <2>2, <2>4, SubmitIsOne
  <2>5. CASE k \in 1..Len(ctl[i])
    BY <1>1, <2>1, <2>2, <2>5 DEF Queued
  <2> QED BY <1>1, <2>3, <2>4, <2>5
<1> QED BY <1>2, <1>3

LEMMA ReadQueues ==
    ASSUME TypeOK, NEW i \in Id, ctl[i] # <<>>, ctl' = [ctl EXCEPT ![i] = Tail(@)],
           NEW l \in Id, NEW k \in Nat, NEW p, Queued(l, k, p)'
    PROVE  Queued(l, k + (IF l = i THEN 1 ELSE 0), p) /\ k # 0
<1>1. ctl[l] \in Seq(Ctls) /\ ctl \in [Id -> Seq(Ctls)]
  BY DEF TypeOK, TaskTypes
<1>2. CASE l # i
  <2>1. k \in DOMAIN ctl[l] /\ Queued(l, k, p)
    BY <1>1, <1>2 DEF Queued
  <2> QED BY <1>1, <1>2, <2>1
<1>3. CASE l = i
  <2>1. ctl'[i] = Tail(ctl[i])
    BY <1>1, <1>3
  <2>2. k \in DOMAIN ctl'[i] /\ ctl'[i][k] = Submit(p)
    BY <1>3 DEF Queued
  <2>3. k # 0 /\ k + 1 \in DOMAIN ctl[i] /\ ctl[i][k + 1] = ctl'[i][k]
    BY <1>1, <1>3, <2>1, <2>2
  <2> QED BY <1>3, <2>2, <2>3 DEF Queued
<1> QED BY <1>2, <1>3

\* Nothing is moved by what leaves the messages, the channels and the records alone.
NoMove ==
    /\ UNCHANGED <<unsent, ran>>
    /\ \A i \in Id : \A p \in Prompt : Holds(i, p)' => Holds(i, p)
    /\ \A i \in Id : \A k \in Nat : \A p \in Prompt : Queued(i, k, p)' => Queued(i, k, p)
    /\ \A j \in jobs' : j.prompt \in Prompt => j \in jobs

LEMMA NoMoveOnce ==
    ASSUME OnceInv, NoMove
    PROVE  OnceInv'
<1> SUFFICES ASSUME NEW p \in Prompt PROVE Once(p)'
  BY DEF OnceInv
<1> DEFINE d == [i \in Id |-> 0]
<1>1. d \in [Id -> {0, 1}] /\ \A i \in Id : d[i] = 0
  OBVIOUS
<1> HIDE DEF d
<1>2. \A i \in Id : \A k \in Nat : Queued(i, k, p)' => Queued(i, k + d[i], p)
  BY <1>1 DEF NoMove
<1>3. Once(p)
  BY DEF OnceInv
<1>4. /\ p \in unsent' => p \in unsent
      /\ ran'[p] = ran[p]
      /\ \A i \in Id : Holds(i, p)' => Holds(i, p)
      /\ \A j \in jobs' : j.prompt = p => j \in jobs
  BY DEF NoMove
<1> QED BY <1>1, <1>2, <1>3, <1>4, StaysPut

\* Spawning a task that has no message, or leaving the tasks alone.
LEMMA SpawnHolds ==
    ASSUME TypeOK, NEW t, SpawnTask(t),
           NEW i \in Id, NEW p \in Prompt, Holds(i, p)'
    PROVE  Holds(i, p) \/ (i = nextId + 1 /\ t.prompt = p)
<1>1. task \in [Id -> Tasks] /\ task' = [task EXCEPT ![nextId + 1] = t]
  BY DEF TypeOK, TaskTypes, SpawnTask
<1>2. CASE i # nextId + 1
  BY <1>1, <1>2 DEF Holds
<1>3. CASE i = nextId + 1
  BY <1>1, <1>3 DEF Holds
<1> QED BY <1>2, <1>3

LEMMA NoPromptSpawn ==
    ASSUME TypeOK, NEW pc, NEW th, NEW n, SpawnTask(NewTask(pc, th, n, NoPrompt))
    PROVE  \A i \in Id : \A p \in Prompt : Holds(i, p)' => Holds(i, p)
<1>1. ASSUME NEW t, t = NewTask(pc, th, n, NoPrompt)
      PROVE  \A i \in Id : \A p \in Prompt : Holds(i, p)' => Holds(i, p)
  <2>1. t.prompt = NoPrompt /\ SpawnTask(t)
    BY <1>1 DEF NewTask
  <2> QED BY <2>1, SpawnHolds, SessionAssumption
<1> QED BY <1>1

\* What the user does but for submitting, the fetches, the handlers and the servers.
LEMMA QuietUserStep ==
    ASSUME TypeOK,
           \/ \E th \in Thread : MoveSelection(th)
           \/ OpenDetail \/ CloseDetail \/ LeaveByHelp \/ OpenCompose \/ OpenNewSession
           \/ ToggleCompose \/ CancelCompose \/ AskInterrupt \/ Interrupt \/ LaunchCodex
    PROVE  NoMove
<1>1. UNCHANGED <<unsent, ran, task>>
  BY DEF MoveSelection, OpenDetail, CloseDetail, LeaveByHelp, OpenCompose, OpenNewSession,
         ToggleCompose, CancelCompose, AskInterrupt, Interrupt, LaunchCodex,
         taskVars, serverVars, userVars
<1>2. ctl' = ctl \/ ctl' = CtlAfterDetach
  BY DEF MoveSelection, OpenDetail, CloseDetail, LeaveByHelp, OpenCompose, OpenNewSession,
         ToggleCompose, CancelCompose, AskInterrupt, Interrupt, LaunchCodex,
         taskVars, DropStream,
         DetachStream
<1>3. \A i \in Id : \A k \in Nat : \A p \in Prompt : Queued(i, k, p)' => Queued(i, k, p)
  BY <1>2, DetachQueues DEF Queued
<1>4. \A j \in jobs' : j.prompt \in Prompt => j \in jobs
  <2>1. CASE Interrupt
    BY <2>1, SessionAssumption DEF Interrupt
  <2>2. CASE jobs' = jobs
    BY <2>2
  <2> QED
    BY <2>1, <2>2 DEF MoveSelection, OpenDetail, CloseDetail, LeaveByHelp, OpenCompose,
       OpenNewSession, ToggleCompose, CancelCompose, AskInterrupt, LaunchCodex, taskVars
<1>5. \A i \in Id : \A p \in Prompt : Holds(i, p)' => Holds(i, p)
  BY <1>1 DEF Holds
<1> QED BY <1>1, <1>3, <1>4, <1>5 DEF NoMove

LEMMA QuietOtherStep ==
    ASSUME TypeOK, FetchStep \/ AppStep \/ ServerStep \/ UNCHANGED vars
    PROVE  NoMove
<1>1. CASE FetchStep
  <2>1. UNCHANGED <<unsent, ran, jobs>> /\ (ctl' = ctl \/ ctl' = CtlAfterDetach)
    BY <1>1 DEF FetchStep, BrowserLoaded, DetailLoaded, AutoAttachDetail, serverVars, userVars
  <2>2. \/ UNCHANGED task
        \/ \E pc, th, n : SpawnTask(NewTask(pc, th, n, NoPrompt))
    BY <1>1 DEF FetchStep, BrowserLoaded, DetailLoaded, AutoAttachDetail, OpenStream
  <2>3. \A i \in Id : \A p \in Prompt : Holds(i, p)' => Holds(i, p)
    BY <2>2, NoPromptSpawn DEF Holds
  <2>4. \A i \in Id : \A k \in Nat : \A p \in Prompt : Queued(i, k, p)' => Queued(i, k, p)
    BY <2>1, DetachQueues DEF Queued
  <2> QED BY <2>1, <2>3, <2>4 DEF NoMove
<1>2. CASE AppStep
  <2>1. UNCHANGED <<unsent, ran, jobs, ctl>>
    BY <1>2 DEF AppStep, HandleCreated, HandleCreateFailed, HandleStreamEvent, HandleFailed,
           HandleFinished, HandleIdle, HandleNotice, taskVars, serverVars, userVars
  <2>2. \/ UNCHANGED task
        \/ \E pc, th, n : SpawnTask(NewTask(pc, th, n, NoPrompt))
    BY <1>2 DEF AppStep, HandleCreated, HandleCreateFailed, HandleStreamEvent, HandleFailed,
           HandleFinished, HandleIdle, HandleNotice, taskVars, Follows, FollowThread, OpenStream
  <2>3. \A i \in Id : \A p \in Prompt : Holds(i, p)' => Holds(i, p)
    BY <2>2, NoPromptSpawn DEF Holds
  <2> QED BY <2>1, <2>3 DEF NoMove, Queued
<1>3. CASE ServerStep \/ UNCHANGED vars
  BY <1>3 DEF ServerStep, TurnOver, OtherClient, vars, taskVars, serverVars, userVars, NoMove,
              Holds, Queued
<1> QED BY <1>1, <1>2, <1>3

\* A submitted message leaves the user for one place.
LEMMA SubmitOnce ==
    ASSUME TypeOK, OnceInv, NEW q \in Prompt,
           SubmitSend(q) \/ SubmitNoWait(q) \/ SubmitNewSession(q) \/ SubmitSteer(q)
    PROVE  OnceInv'
<1>1. q \in unsent /\ unsent' = unsent \ {q} /\ ran' = ran
  BY DEF SubmitSend, SubmitNoWait, SubmitNewSession, SubmitSteer, Submitting, serverVars
<1>2. Once(q) /\ ~InTask(q) /\ ~InCtl(q) /\ ~InJob(q)
  BY <1>1 DEF OnceInv, Once, OneKind
<1>3. ASSUME \A i \in Id : \A p \in Prompt : Holds(i, p)' => Holds(i, p) \/ p = q,
             \A i \in Id : \A k \in Nat : \A p \in Prompt :
                 Queued(i, k, p)' => Queued(i, k, p) \/ p = q,
             \A j \in jobs' : j.prompt \in Prompt => j \in jobs \/ j.prompt = q
      PROVE  \A p \in Prompt \ {q} : Once(p)'
  <2> SUFFICES ASSUME NEW p \in Prompt, p # q PROVE Once(p)'
    OBVIOUS
  <2> DEFINE d == [i \in Id |-> 0]
  <2>1. d \in [Id -> {0, 1}] /\ \A i \in Id : d[i] = 0
    OBVIOUS
  <2> HIDE DEF d
  <2>2. \A i \in Id : \A k \in Nat : Queued(i, k, p)' => Queued(i, k + d[i], p)
    BY <1>3, <2>1
  <2>3. Once(p)
    BY DEF OnceInv
  <2>4. /\ p \in unsent' => p \in unsent
        /\ ran'[p] = ran[p]
        /\ \A i \in Id : Holds(i, p)' => Holds(i, p)
        /\ \A j \in jobs' : j.prompt = p => j \in jobs
    BY <1>1, <1>3
  <2> QED BY <2>1, <2>2, <2>3, <2>4, StaysPut
<1>4. CASE \/ SubmitNoWait(q) \/ SubmitSteer(q)
           \/ SubmitSend(q) /\ jobs' = jobs \cup {SendJob(q)} /\ UNCHANGED <<task, ctl>>
  <2>1. UNCHANGED <<task, ctl>>
    BY <1>4 DEF SubmitNoWait, SubmitSteer
  <2>2. PICK x : jobs' = jobs \cup {x} /\ x.prompt = q
    <3>1. /\ SendJob(q).prompt = q
          /\ [op |-> "steer", thread |-> draft.thread, turn |-> draft.turn,
              prompt |-> q].prompt = q
      BY DEF SendJob
    <3> QED BY <1>4, <3>1 DEF SubmitNoWait, SubmitSteer
  <2>3. \A p \in Prompt \ {q} : Once(p)'
    BY <1>3, <2>1, <2>2 DEF Holds, Queued
  <2>4. \A i \in Id : ~Holds(i, q)' /\ \A k \in Nat : ~Queued(i, k, q)'
    BY <1>2, <2>1 DEF InTask, InCtl, Holds, Queued
  <2>5. \A j \in jobs' : j.prompt = q => j = x
    BY <1>2, <2>2 DEF InJob
  <2>6. ~InTask(q)' /\ ~InCtl(q)'
    BY <2>4 DEF InTask, InCtl
  <2>7. Once(q)'
    BY <1>1, <1>2, <2>4, <2>5, <2>6, Placed
  <2> QED BY <2>3, <2>7 DEF OnceInv
<1>5. CASE SubmitSend(q) /\ ctl' = [ctl EXCEPT ![control] = Append(@, Submit(q))]
                         /\ control # 0 /\ UNCHANGED <<task, jobs>>
  <2>1. \A i \in Id : \A k \in Nat : \A p \in Prompt :
          Queued(i, k, p)' =>
            Queued(i, k, p) \/ (p = q /\ i = control /\ k = Len(ctl[control]) + 1)
    BY <1>5, SubmitQueues
  <2>2. \A p \in Prompt \ {q} : Once(p)'
    BY <1>3, <1>5, <2>1 DEF Holds
  <2>3. \A i \in Id : \A k \in Nat :
          Queued(i, k, q)' => i = control /\ k = Len(ctl[control]) + 1
    BY <1>2, <2>1 DEF InCtl
  <2>4. (\A i \in Id : ~Holds(i, q)') /\ \A j \in jobs' : j.prompt # q
    BY <1>2, <1>5 DEF InTask, Holds, InJob
  <2>5. ~InTask(q)' /\ ~InJob(q)'
    BY <2>4 DEF InTask, InJob
  <2>6. Once(q)'
    BY <1>1, <1>2, <2>3, <2>4, <2>5, Placed
  <2> QED BY <2>2, <2>6 DEF OnceInv
<1>6. CASE /\ ctl' = CtlAfterDetach /\ UNCHANGED jobs
           /\ \E pc, th, n : SpawnTask(NewTask(pc, th, n, q))
  <2>1. \A i \in Id : \A k \in Nat : \A p \in Prompt : Queued(i, k, p)' => Queued(i, k, p)
    BY <1>6, DetachQueues
  <2>2. PICK pc, th, n : SpawnTask(NewTask(pc, th, n, q))
    BY <1>6
  <2>3. \A i \in Id : \A p \in Prompt :
          Holds(i, p)' => Holds(i, p) \/ (i = nextId + 1 /\ p = q)
    <3>1. ASSUME NEW t, t = NewTask(pc, th, n, q)
          PROVE  \A i \in Id : \A p \in Prompt :
                   Holds(i, p)' => Holds(i, p) \/ (i = nextId + 1 /\ p = q)
      <4>1. t.prompt = q /\ SpawnTask(t)
        BY <2>2, <3>1 DEF NewTask
      <4> QED BY <4>1, SpawnHolds
    <3> QED BY <3>1
  <2>4. \A p \in Prompt \ {q} : Once(p)'
    BY <1>3, <1>6, <2>1, <2>3
  <2>5. \A i \in Id : Holds(i, q)' => i = nextId + 1
    BY <1>2, <2>3 DEF InTask
  <2>6. /\ \A i \in Id : \A k \in Nat : ~Queued(i, k, q)'
        /\ \A j \in jobs' : j.prompt # q
    BY <1>2, <1>6, <2>1 DEF InCtl, InJob
  <2>7. ~InCtl(q)' /\ ~InJob(q)'
    BY <2>6 DEF InCtl, InJob
  <2>8. Once(q)'
    BY <1>1, <1>2, <2>5, <2>6, <2>7, Placed
  <2> QED BY <2>4, <2>8 DEF OnceInv
<1>7. SubmitNewSession(q) => /\ ctl' = CtlAfterDetach /\ UNCHANGED jobs
                             /\ \E pc, th, n : SpawnTask(NewTask(pc, th, n, q))
  BY DEF SubmitNewSession
<1>8. SubmitSend(q) =>
        \/ jobs' = jobs \cup {SendJob(q)} /\ UNCHANGED <<task, ctl>>
        \/ /\ ctl' = [ctl EXCEPT ![control] = Append(@, Submit(q))]
           /\ control # 0 /\ UNCHANGED <<task, jobs>>
        \/ /\ ctl' = CtlAfterDetach /\ UNCHANGED jobs
           /\ \E pc, th, n : SpawnTask(NewTask(pc, th, n, q))
  BY DEF SubmitSend, OpenStream
<1> QED BY <1>4, <1>5, <1>6, <1>7, <1>8

\* A task's step starts no message, and only its own channel is read.
LEMMA TaskHolds ==
    ASSUME TypeOK, NEW i \in Id, TaskStep(i), NEW k \in Id, NEW p \in Prompt, Holds(k, p)'
    PROVE  Holds(k, p)
<1>0. task \in [Id -> Tasks] /\ task[i] \in Tasks
  BY DEF TypeOK, TaskTypes
<1>1. CASE k # i
  BY <1>1, TaskMoves DEF Holds
<1>2. CASE k = i
  <2>1. /\ task'[i].prompt = task[i].prompt
        /\ task'[i].pc \in {"create", "start"} => task[i].pc \in {"create", "start"}
    <3>1. ASSUME NEW pc, task' = [task EXCEPT ![i].pc = pc], pc \notin {"create", "start"}
          PROVE  task'[i].prompt = task[i].prompt /\ task'[i].pc \notin {"create", "start"}
      BY <1>0, <3>1 DEF Tasks
    <3>2. CASE CreateThread(i)
      BY <1>0, <3>2 DEF CreateThread, Tasks
    <3>3. CASE CreateFails(i)
      BY <3>1, <3>3 DEF CreateFails
    <3>4. CASE StartTurn(i)
      BY <1>0, <3>4 DEF StartTurn, Tasks
    <3>5. CASE FindTurn(i)
      BY <1>0, <3>5 DEF FindTurn, Tasks
    <3>6. CASE ProbeGivesUp(i)
      BY <3>1, <3>6 DEF ProbeGivesUp
    <3>7. CASE Attach(i)
      BY <3>1, <3>7 DEF Attach
    <3>8. CASE ReadSubmit(i)
      BY <1>0, <3>8 DEF ReadSubmit, Tasks
    <3>9. CASE ReadDetach(i)
      <4>1. PICK pc \in {"leaving", "done"} : task' = [task EXCEPT ![i].pc = pc]
        BY <3>9 DEF ReadDetach
      <4> QED BY <3>1, <4>1
    <3>10. CASE Progress(i)
      BY <3>10 DEF Progress, taskVars
    <3>11. CASE TurnEnds(i)
      BY <3>1, <3>11 DEF TurnEnds
    <3>12. CASE Report(i)
      BY <3>1, <3>12 DEF Report
    <3>13. CASE TaskFails(i)
      BY <3>1, <3>13 DEF TaskFails
    <3> QED
      BY <3>2, <3>3, <3>4, <3>5, <3>6, <3>7, <3>8, <3>9, <3>10, <3>11, <3>12, <3>13 DEF TaskStep
  <2> QED BY <1>2, <2>1 DEF Holds
<1> QED BY <1>1, <1>2

\* What was not given to a turn by a step stays where it was, but for what a task has
\* read from its channel.
LEMMA OthersStay ==
    ASSUME TypeOK, OnceInv, UNCHANGED unsent,
           \A k \in Id : \A p \in Prompt : Holds(k, p)' => Holds(k, p),
           \/ ctl' = ctl
           \/ \E i \in Id : ctl[i] # <<>> /\ ctl' = [ctl EXCEPT ![i] = Tail(@)],
           jobs' \subseteq jobs
    PROVE  \A p \in Prompt : ran'[p] = ran[p] => Once(p)'
<1> SUFFICES ASSUME NEW p \in Prompt, ran'[p] = ran[p]
             PROVE  Once(p)'
  OBVIOUS
<1>0. Once(p) /\ (p \in unsent' => p \in unsent) /\ \A j \in jobs' : j.prompt = p => j \in jobs
  BY DEF OnceInv
<1>1. CASE ctl' = ctl
  <2> DEFINE d == [k \in Id |-> 0]
  <2>1. d \in [Id -> {0, 1}] /\ \A k \in Id : d[k] = 0
    OBVIOUS
  <2> HIDE DEF d
  <2>2. \A k \in Id : \A n \in Nat : Queued(k, n, p)' => Queued(k, n + d[k], p)
    BY <1>1, <2>1 DEF Queued
  <2> QED BY <1>0, <2>1, <2>2, StaysPut
<1>2. ASSUME NEW i \in Id, ctl[i] # <<>>, ctl' = [ctl EXCEPT ![i] = Tail(@)]
      PROVE  Once(p)'
  <2> DEFINE d == [k \in Id |-> IF k = i THEN 1 ELSE 0]
  <2>1. d \in [Id -> {0, 1}] /\ \A k \in Id : d[k] = (IF k = i THEN 1 ELSE 0)
    OBVIOUS
  <2> HIDE DEF d
  <2>2. \A k \in Id : \A n \in Nat : Queued(k, n, p)' => Queued(k, n + d[k], p)
    BY <1>2, <2>1, ReadQueues
  <2> QED BY <1>0, <2>1, <2>2, StaysPut
<1> QED BY <1>1, <1>2

\* A task that starts a turn, or fails to, no longer has the message.
LEMMA StartOnce ==
    ASSUME TypeOK, OnceInv, NEW i \in Id, StartTurn(i) \/ TaskFails(i)
    PROVE  OnceInv'
<1>0. TaskStep(i) /\ task[i] \in Tasks /\ task \in [Id -> Tasks]
  BY DEF TaskStep, TypeOK, TaskTypes
<1>1. \A k \in Id : \A p \in Prompt : Holds(k, p)' => Holds(k, p)
  BY <1>0, TaskHolds
<1>2. UNCHANGED <<unsent, jobs, ctl>>
  BY DEF StartTurn, TaskFails, userVars
<1>3. \A p \in Prompt : ran'[p] = ran[p] => Once(p)'
  BY <1>1, <1>2, OthersStay
<1>4. CASE UNCHANGED ran
  BY <1>3, <1>4 DEF OnceInv
<1>5. CASE task[i].pc = "start" /\ GivenOnlyTo(task[i].prompt)
  <2> DEFINE q == task[i].prompt
  <2>1. \A p \in Prompt : p # q => Once(p)'
    BY <1>3, <1>5 DEF GivenOnlyTo
  <2>2. ASSUME NEW p \in Prompt, p = q PROVE Once(p)'
    <3>1. Holds(i, p) /\ Once(p)
      BY <1>5, <2>2 DEF Holds, OnceInv
    <3>2. ~InCtl(p) /\ ~InJob(p) /\ ran[p] = <<>> /\ p \notin unsent
      BY <3>1 DEF InTask, Once, OneKind
    <3>3. task'[i].pc \notin {"create", "start"}
      BY <1>0 DEF StartTurn, TaskFails, Tasks
    <3>4. \A k \in Id : ~Holds(k, p)'
      BY <1>1, <3>1, <3>3 DEF Once, OneOfEach, Holds
    <3>5. /\ \A k \in Id : \A n \in Nat : ~Queued(k, n, p)'
          /\ \A j \in jobs' : j.prompt # p
      BY <1>2, <3>2 DEF InCtl, InJob, Queued
    <3>6. ran'[p] = ran[p] \/ \E n : ran'[p] = Append(ran[p], n)
      BY <1>5, <2>2 DEF GivenOnlyTo
    <3> QED BY <1>2, <3>2, <3>4, <3>5, <3>6, Leaves
  <2> QED BY <2>1, <2>2 DEF OnceInv
<1>6. UNCHANGED ran \/ (task[i].pc = "start" /\ GivenOnlyTo(task[i].prompt))
  <2>1. CASE StartTurn(i)
    <3>1. PICK n \in 1..MaxTurn :
            LET t == [task[i] EXCEPT !.pc = "wait", !.turn = n]
            IN  ServerRuns(t.thread, t.prompt, n)
      BY <2>1 DEF StartTurn
    <3>2. ServerRuns(task[i].thread, task[i].prompt, n)
      BY <1>0, <3>1 DEF Tasks
    <3> QED BY <2>1, <3>2, AttemptGives DEF StartTurn
  <2>2. CASE TaskFails(i)
    BY <2>2, AttemptGives DEF TaskFails
  <2> QED BY <2>1, <2>2
<1> QED BY <1>4, <1>5, <1>6

\* A task that reads a message from its channel has taken it off the channel.
LEMMA ReadOnce ==
    ASSUME TypeOK, OnceInv, NEW i \in Id, ReadSubmit(i)
    PROVE  OnceInv'
<1> DEFINE q == Head(ctl[i]).prompt
<1>0. /\ TaskStep(i) /\ UNCHANGED <<unsent, jobs>>
      /\ ctl[i] # <<>> /\ ctl' = [ctl EXCEPT ![i] = Tail(@)]
  BY DEF TaskStep, ReadSubmit
<1>1. \A k \in Id : \A p \in Prompt : Holds(k, p)' => Holds(k, p)
  BY <1>0, TaskHolds
<1>2. \A p \in Prompt : ran'[p] = ran[p] => Once(p)'
  BY <1>0, <1>1, OthersStay
<1>3. GivenOnlyTo(q)
  BY AttemptGives DEF ReadSubmit
<1>4. \A p \in Prompt : p # q => Once(p)'
  BY <1>2, <1>3 DEF GivenOnlyTo
<1>5. ASSUME NEW p \in Prompt, p = q PROVE Once(p)'
  <2>1. ctl[i] \in Seq(Ctls) /\ 1 \in DOMAIN ctl[i] /\ ctl[i][1] = Head(ctl[i])
    BY <1>0 DEF TypeOK, TaskTypes
  <2>2. ctl[i][1] \in Ctls
    BY <2>1
  <2>3. ctl[i][1] = Submit(p)
    BY <1>5, <2>1, <2>2 DEF ReadSubmit, Ctls, Submit
  <2>4. Queued(i, 1, p) /\ Once(p)
    BY <2>1, <2>3 DEF Queued, OnceInv
  <2>5. ~InTask(p) /\ ~InJob(p) /\ ran[p] = <<>> /\ p \notin unsent
    BY <2>4 DEF InCtl, Once, OneKind
  <2>6. ASSUME NEW k \in Id, NEW n \in Nat, Queued(k, n, p)' PROVE FALSE
    <3>1. Queued(k, n + (IF k = i THEN 1 ELSE 0), p) /\ n # 0
      BY <1>0, <2>6, ReadQueues
    <3>2. k = i /\ n + (IF k = i THEN 1 ELSE 0) = 1
      BY <2>4, <3>1 DEF Once, OneOfEach
    <3> QED BY <3>1, <3>2
  <2>7. (\A k \in Id : ~Holds(k, p)') /\ \A j \in jobs' : j.prompt # p
    BY <1>0, <1>1, <2>5 DEF InTask, InJob
  <2>8. ran'[p] = ran[p] \/ \E n : ran'[p] = Append(ran[p], n)
    BY <1>3, <1>5 DEF GivenOnlyTo
  <2> QED BY <1>0, <2>5, <2>6, <2>7, <2>8, Leaves
<1> QED BY <1>4, <1>5 DEF OnceInv

\* The other steps of a task leave the messages alone.
LEMMA TaskOnce ==
    ASSUME TypeOK, OnceInv, NEW i \in Id, TaskStep(i)
    PROVE  OnceInv'
<1>1. CASE StartTurn(i) \/ TaskFails(i) \/ ReadSubmit(i)
  BY <1>1, StartOnce, ReadOnce
<1>2. CASE ~(StartTurn(i) \/ TaskFails(i) \/ ReadSubmit(i))
  <2>1. UNCHANGED <<unsent, jobs, ran>>
    BY <1>2 DEF TaskStep, CreateThread, CreateFails, FindTurn, ProbeGivesUp, Attach, ReadDetach,
           Progress, TurnEnds, Report, taskVars, serverVars, userVars
  <2>2. ctl' = ctl \/ (ctl[i] # <<>> /\ ctl' = [ctl EXCEPT ![i] = Tail(@)])
    BY <1>2 DEF TaskStep, CreateThread, CreateFails, FindTurn, ProbeGivesUp, Attach, ReadDetach,
           Progress, TurnEnds, Report, taskVars
  <2>3. \A k \in Id : \A p \in Prompt : Holds(k, p)' => Holds(k, p)
    BY TaskHolds
  <2> QED BY <2>1, <2>2, <2>3, OthersStay DEF OnceInv
<1> QED BY <1>1, <1>2

\* A one-shot task is gone with its message.
LEMMA JobOnce ==
    ASSUME TypeOK, OnceInv, NEW j \in jobs, JobStep(j)
    PROVE  OnceInv'
<1> DEFINE q == j.prompt
<1>0. UNCHANGED <<unsent, task, ctl>> /\ jobs' = jobs \ {j}
  BY DEF JobStep, JobSends, JobSteers, JobFails, userVars
<1>1. \A k \in Id : \A p \in Prompt : Holds(k, p)' => Holds(k, p)
  BY <1>0 DEF Holds
<1>2. \A p \in Prompt : ran'[p] = ran[p] => Once(p)'
  BY <1>0, <1>1, OthersStay
<1>3. GivenOnlyTo(q)
  <2>1. CASE UNCHANGED ran
    BY <2>1 DEF GivenOnlyTo
  <2>2. CASE Steered(j)
    BY <2>2, SteerGives
  <2>3. CASE Attempted(j.thread, j.prompt) \/ \E n \in 1..MaxTurn : ServerRuns(j.thread, j.prompt, n)
    BY <2>3, AttemptGives
  <2> QED BY <2>1, <2>2, <2>3 DEF JobStep, JobSends, JobSteers, JobFails
<1>4. \A p \in Prompt : p # q => Once(p)'
  BY <1>2, <1>3 DEF GivenOnlyTo
<1>5. ASSUME NEW p \in Prompt, p = q PROVE Once(p)'
  <2>1. InJob(p) /\ Once(p)
    BY <1>5 DEF InJob, OnceInv
  <2>2. ~InTask(p) /\ ~InCtl(p) /\ ran[p] = <<>> /\ p \notin unsent
    BY <2>1 DEF Once, OneKind
  <2>3. \A x \in jobs' : x.prompt # p
    BY <1>0, <1>5, <2>1 DEF Once, OneOfEach
  <2>4. (\A k \in Id : ~Holds(k, p)') /\ \A k \in Id : \A n \in Nat : ~Queued(k, n, p)'
    BY <1>0, <2>2 DEF InTask, InCtl, Holds, Queued
  <2>5. ran'[p] = ran[p] \/ \E n : ran'[p] = Append(ran[p], n)
    BY <1>3, <1>5 DEF GivenOnlyTo
  <2> QED BY <1>0, <2>2, <2>3, <2>4, <2>5, Leaves
<1> QED BY <1>4, <1>5 DEF OnceInv

LEMMA NextOnce ==
    ASSUME TypeOK, OnceInv, [Next]_vars
    PROVE  OnceInv'
<1>1. CASE FetchStep \/ AppStep \/ ServerStep \/ UNCHANGED vars
  BY <1>1, QuietOtherStep, NoMoveOnce
<1>2. CASE UserStep
  BY <1>2, QuietUserStep, NoMoveOnce, SubmitOnce DEF UserStep
<1>3. CASE (\E i \in Id : TaskStep(i)) \/ \E j \in jobs : JobStep(j)
  BY <1>3, TaskOnce, JobOnce
<1> QED BY <1>1, <1>2, <1>3 DEF Next

\* Two places of a message are one.
LEMMA OnceIsOnce ==
    ASSUME TypeOK, OnceInv
    PROVE  PromptOnce
<1> SUFFICES ASSUME NEW p \in Prompt, NEW x \in Places(p), NEW y \in Places(p)
             PROVE  x = y
  BY DEF PromptOnce
<1> DEFINE Unsent(z) == p \in unsent /\ z = <<"unsent", 0, 0>>
           Task(z)   == \E i \in Id : Holds(i, p) /\ z = <<"task", i, 0>>
           Ctl(z)    == \E i \in Id : \E k \in Nat : Queued(i, k, p) /\ z = <<"ctl", i, k>>
           Job(z)    == \E j \in jobs : j.prompt = p /\ z = <<"job", j.thread, j.turn>>
           Ran(z)    == \E k \in DOMAIN ran[p] : z = <<"ran", k, 0>>
<1>1. ASSUME NEW z \in Places(p)
      PROVE  Unsent(z) \/ Task(z) \/ Ctl(z) \/ Job(z) \/ Ran(z)
  <2> DEFINE A == IF p \in unsent THEN {<<"unsent", 0, 0>>} ELSE {}
             B == {<<"task", i, 0>> : i \in {k \in Id : /\ task[k].prompt = p
                                               /\ task[k].pc \in {"create", "start"}}}
             C == UNION {{<<"ctl", i, k>> : k \in {n \in DOMAIN ctl[i] : ctl[i][n] = Submit(p)}}
                         : i \in Id}
             D == {<<"job", j.thread, j.turn>> : j \in {k \in jobs : k.prompt = p}}
             E == {<<"ran", k, 0>> : k \in DOMAIN ran[p]}
  <2>1. z \in A \cup B \cup C \cup D \cup E
    BY <1>1 DEF Places
  <2>2. z \in A => Unsent(z)
    OBVIOUS
  <2>3. z \in B => Task(z)
    BY DEF Holds
  <2>4. ASSUME z \in C PROVE Ctl(z)
    <3>1. PICK i \in Id :
            z \in {<<"ctl", i, k>> : k \in {n \in DOMAIN ctl[i] : ctl[i][n] = Submit(p)}}
      BY <2>4
    <3>2. PICK k \in DOMAIN ctl[i] : ctl[i][k] = Submit(p) /\ z = <<"ctl", i, k>>
      BY <3>1
    <3>3. k \in Nat
      BY <3>2 DEF TypeOK, TaskTypes
    <3> QED BY <3>2, <3>3 DEF Queued
  <2>5. z \in D => Job(z)
    OBVIOUS
  <2>6. z \in E => Ran(z)
    OBVIOUS
  <2> HIDE DEF A, B, C, D, E, Unsent, Task, Ctl, Job, Ran
  <2> QED BY <2>1, <2>2, <2>3, <2>4, <2>5, <2>6
<1>2. /\ Task(x) => InTask(p)
      /\ Ctl(x) => InCtl(p)
      /\ Job(x) => InJob(p)
      /\ Task(y) => InTask(p)
      /\ Ctl(y) => InCtl(p)
      /\ Job(y) => InJob(p)
  BY DEF InTask, InCtl, InJob
<1>3. ran[p] \in Seq(1..MaxTurn) /\ Len(ran[p]) <= 1
  BY DEF TypeOK, ServerTypes, OnceInv, Once, OneOfEach
<1>4. Ran(x) \/ Ran(y) => ran[p] # <<>>
  BY <1>3
<1>5. Once(p)
  BY DEF OnceInv
<1>6. /\ Unsent(x) /\ Unsent(y) => x = y
      /\ Task(x) /\ Task(y) => x = y
      /\ Ctl(x) /\ Ctl(y) => x = y
      /\ Job(x) /\ Job(y) => x = y
  BY <1>5 DEF Once, OneOfEach
<1>7. Ran(x) /\ Ran(y) => x = y
  BY <1>3
<1>8. Unsent(x) \/ Unsent(y) => p \in unsent
  OBVIOUS
<1> HIDE DEF Unsent, Task, Ctl, Job, Ran
<1> QED BY <1>1, <1>2, <1>4, <1>5, <1>6, <1>7, <1>8 DEF Once, OneKind

\* A message is handed over once, whichever way submit_compose chose and whatever failed.
THEOREM MessageOnce == Spec => []PromptOnce
<1>1. Init => OnceInv
  BY SessionAssumption DEF Init, OnceInv, Once, OneOfEach, OneKind, InTask, InCtl, InJob, Holds,
         Queued, NoTask
<1>2. TypeOK /\ OnceInv => PromptOnce
  BY OnceIsOnce
<1> QED BY <1>1, <1>2, NextOnce, TypeCorrect, PTL DEF Spec

=============================================================================
