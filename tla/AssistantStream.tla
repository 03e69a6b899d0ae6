-------------------------- MODULE AssistantStream ---------------------------
(***************************************************************************)
(* What the watcher of a turn shows of the agent's messages: the wait of   *)
(* turns.rs, from the resume or start that opens it to its outcome, over   *)
(* one connection that carries notifications and answers in order.         *)
(*                                                                         *)
(* The server names a message one way in notifications (LiveId) and        *)
(* another in snapshots (ItemId); AssistantResponses joins the two.  Text  *)
(* is a sequence of tokens.  The server names the message in every         *)
(* notification, declares it before its first delta, and sends one message *)
(* after the other; notifications of other turns, which change nothing,    *)
(* are left out, and so is the branch of resolve_live for deltas without a *)
(* name.                                                                   *)
(***************************************************************************)
EXTENDS Integers, SequencesExt

CONSTANTS
    Token,     \* what texts are made of
    MaxItem,   \* bound: agent messages of the turn
    MaxText,   \* bound: tokens of the turn's messages together
    MaxSubmit, \* bound: prompts queued during the wait
    MaxNet,    \* bound: frames on their way when the server sends a notification
    NoId,
    NoSnap

Text == BoundedSeq(Token, MaxText)

\* What a request is answered with.
Snapshots ==
    [listed : BOOLEAN, text : BoundedSeq(Text, MaxItem),
     status : {"inProgress", "completed", "interrupted"}]

LiveId(i) == <<"live", i>>
ItemId(i) == <<"item", i>>

Id == {LiveId(i) : i \in 1..MaxItem} \cup {ItemId(i) : i \in 1..MaxItem}

ASSUME StreamAssumption ==
    /\ MaxItem \in Nat
    /\ MaxText \in Nat
    /\ MaxSubmit \in Nat
    /\ MaxNet \in Nat
    /\ NoId \notin Id
    /\ NoSnap \notin Snapshots

VARIABLES
    turn,    \* (server) the turn: its messages, whether the last is open, its status
    link,    \* (server) is the connection subscribed, the request it is on, its snapshot
    net,     \* frames on their way to the client, in order
    phase,   \* where the wait is
    buffer,  \* notifications set aside while a request is under way
    shown,   \* AssistantResponses.items: what has been emitted
    outcome, \* how the wait ended
    submits, \* prompts queued so far
    hist     \* (history) what went wrong on the way, for the properties

vars == <<turn, link, net, phase, buffer, shown, outcome, submits, hist>>

Started(i)       == [kind |-> "started", item |-> i]
Delta(i, t)      == [kind |-> "delta", item |-> i, text |-> t]
Completed(i, t)  == [kind |-> "completed", item |-> i, text |-> t]
TurnCompleted(s) == [kind |-> "turnCompleted", status |-> s]
Answer(snap)     == [kind |-> "answer", snap |-> snap]
Nothing          == [kind |-> "nothing"]

Snapshot(listed, text, status) == [listed |-> listed, text |-> text, status |-> status]

-----------------------------------------------------------------------------
(***************************************************************************)
(* AssistantResponses.  An entry's cursor counts the tokens of a snapshot  *)
(* text that live deltas have replayed; NoCursor stands for None.          *)
(***************************************************************************)
NoCursor == -1

Entry(id, text, cursor) ==
    [item |-> id, live |-> NoId, poll |-> NoId, text |-> text, cursor |-> cursor]

Fresh(id) == Entry(id, <<>>, NoCursor)

Matches(e, id) == id \in {e.item, e.live, e.poll}

FindIndex(es, id) == SelectInSeq(es, LAMBDA e : Matches(e, id))

NoteStarted(es, id) == IF FindIndex(es, id) = 0 THEN Append(es, Fresh(id)) ELSE es

\* Mutation: a name never heard before is a new message.
ResolveLiveAsNew(es, id) ==
    LET known == FindIndex(es, id)
    IN  IF known # 0 THEN [list |-> es, at |-> known]
        ELSE [list |-> Append(es, Fresh(id)), at |-> Len(es) + 1]

\* The entries with one for id, and its place: the known one, else the last
\* seeded one that has no live name yet, else a new one.
ResolveLive(es, id) ==
    LET known == FindIndex(es, id)
        tail  == SelectLastInSeq(es, LAMBDA e : e.live = NoId /\ e.cursor # NoCursor)
    IN  IF known # 0 THEN [list |-> es, at |-> known]
        ELSE IF tail # 0 THEN [list |-> [es EXCEPT ![tail].live = id], at |-> tail]
        ELSE [list |-> Append(es, Fresh(id)), at |-> Len(es) + 1]

\* Mutation: the cursor is not dropped at the end of the known text.
TakeDeltaToTheEnd(e, delta) ==
    IF e.cursor # NoCursor /\ IsPrefix(delta, SubSeq(e.text, e.cursor + 1, Len(e.text)))
    THEN [e EXCEPT !.cursor = @ + Len(delta)]
    ELSE [e EXCEPT !.text = @ \o delta, !.cursor = NoCursor]

\* One entry and a delta: a replay of known text moves the cursor, anything
\* else is added, without the known part it starts with.
TakeDelta(e, delta) ==
    LET remaining == IF e.cursor = NoCursor THEN <<>>
                     ELSE SubSeq(e.text, e.cursor + 1, Len(e.text))
        replays   == remaining # <<>> /\ IsPrefix(delta, remaining)
        overlaps  == remaining # <<>> /\ IsPrefix(remaining, delta)
        fragment  == IF overlaps THEN SubSeq(delta, Len(remaining) + 1, Len(delta)) ELSE delta
        moved     == e.cursor + Len(delta)
    IN  IF replays
        THEN [e EXCEPT !.cursor = IF moved < Len(e.text) THEN moved ELSE NoCursor]
        ELSE [e EXCEPT !.text = @ \o fragment, !.cursor = NoCursor]

ApplyLiveDelta(es, id, delta) ==
    LET r == ResolveLive(es, id) IN [r.list EXCEPT ![r.at] = TakeDelta(@, delta)]

\* Mutation: a completion ends the replay and leaves the text as it was heard.
CompleteLiveAsHeard(es, id, text) ==
    LET r == ResolveLive(es, id) IN [r.list EXCEPT ![r.at] = [@ EXCEPT !.cursor = NoCursor]]

CompleteLive(es, id, text) ==
    LET r == ResolveLive(es, id)
    IN  [r.list EXCEPT ![r.at] = [@ EXCEPT !.text = text, !.cursor = NoCursor]]

\* A snapshot lists message p: it is the entry with that name, else the p-th
\* entry if it has no snapshot name yet, else a new entry.
SyncItem(es, p, text) ==
    LET id       == ItemId(p)
        known    == FindIndex(es, id)
        at       == IF known # 0 THEN known
                    ELSE IF p \in DOMAIN es /\ es[p].poll = NoId THEN p ELSE 0
        Named(e) == IF e.item # id /\ e.poll = NoId THEN [e EXCEPT !.poll = id] ELSE e
        Told(e)  == IF text = <<>> \/ text = e.text THEN e
                    ELSE [e EXCEPT !.text = text,
                                   !.cursor = IF @ = NoCursor THEN NoCursor ELSE 0]
    IN  IF at = 0 THEN Append(es, Entry(id, text, NoCursor))
        ELSE [es EXCEPT ![at] = Told(Named(@))]

SyncFromTurn(es, texts) ==
    LET known[p \in 0..Len(texts)] ==
            IF p = 0 THEN es ELSE SyncItem(known[p - 1], p, texts[p])
    IN  known[Len(texts)]

\* assistant_seed_from_thread_snapshot
Seed(texts) == [p \in DOMAIN texts |-> Entry(ItemId(p), texts[p], 0)]

-----------------------------------------------------------------------------
(***************************************************************************)
(* reconcile_replayed_deltas: of the deltas set aside during the resume,   *)
(* what the snapshot already says is cut off; nothing is left of a delta   *)
(* that it says in full.                                                   *)
(***************************************************************************)
ReplayedPrefixLen(existing, replayed) ==
    Max({n \in 0..Len(replayed) : IsSuffix(SubSeq(replayed, 1, n), existing)})

\* The entry a set-aside delta is about: one the seed or the buffer names,
\* else the last of the seed.
ReplayKey(seed, ns, id) ==
    IF \/ FindIndex(seed, id) # 0
       \/ \E n \in ToSet(ns) : n.kind = "started" /\ LiveId(n.item) = id
       \/ seed = <<>>
    THEN id ELSE Last(seed).item

\* Mutation: everything set aside is replayed.
ReconcileNothing(seed, ns) == ns

ReconcileReplayedDeltas(seed, ns) ==
    LET IsDelta(n)   == n.kind = "delta"
        Key(n)       == ReplayKey(seed, ns, LiveId(n.item))
        Said(key, k) == FlattenSeq([j \in 1..k |-> IF IsDelta(ns[j]) /\ Key(ns[j]) = key
                                                   THEN ns[j].text ELSE <<>>])
        Known(key)   == LET at == FindIndex(seed, key)
                        IN  IF at = 0 THEN <<>> ELSE seed[at].text
        Skip(key)    == ReplayedPrefixLen(Known(key), Said(key, Len(ns)))
        Cut(k)       == Max({0, Skip(Key(ns[k])) - Len(Said(Key(ns[k]), k - 1))})
    IN  [k \in DOMAIN ns |->
           IF ~IsDelta(ns[k]) THEN ns[k]
           ELSE IF Cut(k) >= Len(ns[k].text) THEN Nothing
           ELSE Delta(ns[k].item, SubSeq(ns[k].text, Cut(k) + 1, Len(ns[k].text)))]

-----------------------------------------------------------------------------
(***************************************************************************)
(* turn_event and process_turn_notification.                               *)
(***************************************************************************)
Apply(es, n) ==
    CASE n.kind = "started"   -> NoteStarted(es, LiveId(n.item))
      [] n.kind = "delta"     -> ApplyLiveDelta(es, LiveId(n.item), n.text)
      [] n.kind = "completed" -> CompleteLive(es, LiveId(n.item), n.text)
      [] OTHER                -> es

ApplyAll(es, ns) ==
    LET list[k \in 0..Len(ns)] == IF k = 0 THEN es ELSE Apply(list[k - 1], ns[k])
    IN  list[Len(ns)]

\* The status notifications end with; nothing follows the end of the turn.
StatusOf(ns) == IF ns # <<>> /\ Last(ns).kind = "turnCompleted"
                THEN Last(ns).status ELSE "inProgress"

\* The wait goes on with the entries es, or ends with the turn.
Settle(es, status) ==
    /\ shown' = es
    /\ IF status = "inProgress"
       THEN phase' = "waiting" /\ UNCHANGED outcome
       ELSE phase' = "over" /\ outcome' = status

-----------------------------------------------------------------------------
(***************************************************************************)
(* The server (external).  It answers a request from the state it has at   *)
(* some time after the request; the answer leaves later, and what happens  *)
(* in between is on the connection before it.                              *)
(***************************************************************************)
Running == phase # "over" /\ turn.status = "inProgress"

Captured == link.snap # NoSnap

Notify(n) ==
    /\ Len(net) < MaxNet
    /\ net' = IF link.sub THEN Append(net, n) ELSE net
    /\ hist' = [hist EXCEPT
         !.late = @ \/ (link.asked = "list" /\ Captured),
         !.straddled = @ \/ (n.kind = "started" /\ link.sub /\ link.asked = "resume" /\ ~Captured)]
    /\ UNCHANGED <<link, phase, buffer, shown, outcome, submits>>

StartItem ==
    /\ Running /\ ~turn.open
    /\ Len(turn.text) < MaxItem
    /\ turn' = [turn EXCEPT !.text = Append(@, <<>>), !.open = TRUE]
    /\ Notify(Started(Len(turn.text) + 1))

Say ==
    /\ Running /\ turn.open
    /\ \E d \in BoundedSeq(Token, MaxText - Len(FlattenSeq(turn.text))) \ {<<>>} :
         /\ turn' = [turn EXCEPT !.text[Len(turn.text)] = @ \o d]
         /\ Notify(Delta(Len(turn.text), d))

CompleteItem ==
    /\ Running /\ turn.open
    /\ turn' = [turn EXCEPT !.open = FALSE]
    /\ Notify(Completed(Len(turn.text), Last(turn.text)))

\* A turn is completed between messages, interrupted at any time.  A start
\* joins a turn that runs.
EndTurn ==
    /\ Running
    /\ phase = "starting" => link.sub
    /\ \E s \in {"completed", "interrupted"} :
         /\ s = "completed" => ~turn.open
         /\ turn' = [turn EXCEPT !.status = s]
         /\ Notify(TurnCompleted(s))

\* A resume, or a start, makes the connection hear of the turn from here on.
Subscribe ==
    /\ link.asked # "none" /\ ~link.sub
    /\ link' = [link EXCEPT !.sub = TRUE]
    /\ hist' = [hist EXCEPT !.gap = @ \/ (link.asked = "start" /\ turn.text # <<>>)]
    /\ UNCHANGED <<turn, net, phase, buffer, shown, outcome, submits>>

\* The list holds the newest turns only, and a turn that still runs may be
\* missing from it.
Capture ==
    /\ link.asked # "none" /\ link.sub /\ ~Captured
    /\ \E listed \in IF link.asked = "list" THEN BOOLEAN ELSE {TRUE} :
         link' = [link EXCEPT !.snap = IF listed /\ link.asked # "start"
                                       THEN Snapshot(TRUE, turn.text, turn.status)
                                       ELSE Snapshot(FALSE, <<>>, "inProgress")]
    /\ UNCHANGED <<turn, net, phase, buffer, shown, outcome, submits, hist>>

SendAnswer ==
    /\ Captured
    /\ net' = Append(net, Answer(link.snap))
    /\ link' = [link EXCEPT !.asked = "none", !.snap = NoSnap]
    /\ UNCHANGED <<turn, phase, buffer, shown, outcome, submits, hist>>

-----------------------------------------------------------------------------
(***************************************************************************)
(* The client while a request is under way (RpcClient::request).           *)
(***************************************************************************)
Awaiting == phase \in {"attaching", "starting", "polling", "queueing"}

Ask(request) == link' = [link EXCEPT !.asked = request]

Arrived(kind) == net # <<>> /\ Head(net).kind = kind

\* A queued start collects notifications it never looks at.
SetAside ==
    /\ Awaiting /\ net # <<>> /\ ~Arrived("answer")
    /\ net' = Tail(net)
    /\ IF phase = "queueing"
       THEN hist' = [hist EXCEPT !.gap = TRUE] /\ UNCHANGED buffer
       ELSE buffer' = Append(buffer, Head(net)) /\ UNCHANGED hist
    /\ UNCHANGED <<turn, link, phase, shown, outcome, submits>>

TakeAnswer(p) ==
    /\ phase = p /\ Arrived("answer")
    /\ net' = Tail(net)
    /\ buffer' = <<>>
    /\ UNCHANGED <<turn, link, submits, hist>>

\* attach_turn: the seed, and what the snapshot does not say yet.
AttachAnswered ==
    /\ TakeAnswer("attaching")
    /\ LET seed  == Seed(Head(net).snap.text)
           early == ReconcileReplayedDeltas(seed, buffer)
       IN  Settle(ApplyAll(seed, early), StatusOf(early))

\* start_turn: what arrived with the answer.
StartAnswered ==
    /\ TakeAnswer("starting")
    /\ Settle(ApplyAll(<<>>, buffer), StatusOf(buffer))

\* Mutation: the snapshot is taken over before what arrived ahead of it.
PollAnsweredSnapshotFirst ==
    /\ TakeAnswer("polling")
    /\ Settle(ApplyAll(SyncFromTurn(shown, Head(net).snap.text), buffer), StatusOf(buffer))

\* Mutation: a poll never ends the wait.
PollAnsweredGoesOn ==
    /\ TakeAnswer("polling")
    /\ Settle(SyncFromTurn(ApplyAll(shown, buffer), Head(net).snap.text), StatusOf(buffer))

\* poll_turn_completion
PollAnswered ==
    /\ TakeAnswer("polling")
    /\ LET told == ApplyAll(shown, buffer)
           snap == Head(net).snap
       IN  IF StatusOf(buffer) = "inProgress" /\ snap.listed
           THEN Settle(SyncFromTurn(told, snap.text), snap.status)
           ELSE Settle(told, StatusOf(buffer))

QueueAnswered ==
    /\ TakeAnswer("queueing")
    /\ Settle(shown, "inProgress")

-----------------------------------------------------------------------------
(***************************************************************************)
(* The select of wait_for_turn_controlled and wait_for_turn.               *)
(***************************************************************************)
Receive ==
    /\ phase = "waiting" /\ net # <<>>
    /\ net' = Tail(net)
    /\ Settle(Apply(shown, Head(net)), StatusOf(<<Head(net)>>))
    /\ UNCHANGED <<turn, link, buffer, submits, hist>>

\* TurnControl::PollNow, or a tick after a quiet time: nothing bounds how
\* long the connection may be quiet, whatever the server has sent.
Poll ==
    /\ phase = "waiting"
    /\ phase' = "polling"
    /\ Ask("list")
    /\ UNCHANGED <<turn, net, buffer, shown, outcome, submits, hist>>

\* TurnControl::Submit
Submit ==
    /\ phase = "waiting"
    /\ submits < MaxSubmit
    /\ submits' = submits + 1
    /\ phase' = "queueing"
    /\ Ask("start")
    /\ UNCHANGED <<turn, net, buffer, shown, outcome, hist>>

EndWait(how) ==
    /\ phase' = "over"
    /\ outcome' = how
    /\ link' = [sub |-> FALSE, asked |-> "none", snap |-> NoSnap]
    /\ net' = <<>>
    /\ buffer' = <<>>
    /\ UNCHANGED <<turn, shown, submits, hist>>

\* TurnControl::Detach, a dropped sender, or Ctrl-C
Leave == phase = "waiting" /\ EndWait("left")

TimeOut == phase = "waiting" /\ EndWait("failed")

\* An error or the deadline of a request, or a closed connection.
ConnectionFails == phase # "over" /\ EndWait("failed")

-----------------------------------------------------------------------------
Init ==
    /\ turn = [text |-> <<>>, open |-> FALSE, status |-> "inProgress"]
    /\ \E p \in {"attaching", "starting"} :
         /\ phase = p
         /\ link = [sub |-> FALSE, snap |-> NoSnap,
                    asked |-> IF p = "attaching" THEN "resume" ELSE "start"]
    /\ net = <<>>
    /\ buffer = <<>>
    /\ shown = <<>>
    /\ outcome = "none"
    /\ submits = 0
    /\ hist = [gap |-> FALSE, straddled |-> FALSE, late |-> FALSE]

Server == StartItem \/ Say \/ CompleteItem \/ EndTurn \/ Subscribe \/ Capture \/ SendAnswer

Answered == AttachAnswered \/ StartAnswered \/ PollAnswered \/ QueueAnswered

Watch == SetAside \/ Answered \/ Receive

Next ==
    \/ Server
    \/ Watch
    \/ Poll
    \/ Submit
    \/ Leave
    \/ TimeOut
    \/ ConnectionFails

Spec == Init /\ [][Next]_vars

\* A request is answered, what has arrived is read, and a wait on a silent
\* connection polls; nothing makes the server go on with the turn, and the
\* order of the three is left open.  Such a step is enabled until the wait is
\* over, so this is its weak fairness, with ENABLED written out.
Progress == Subscribe \/ Capture \/ SendAnswer \/ Watch \/ Poll

FairSpec == Spec /\ ([]<>(phase = "over") \/ []<><<Progress>>_vars)

-----------------------------------------------------------------------------
(***************************************************************************)
(* Properties                                                              *)
(***************************************************************************)
\* Entries hold known names, and a cursor within their text; the wait has an
\* outcome exactly when it is over.
TypeOK ==
    /\ turn \in [text : BoundedSeq(Text, MaxItem), open : BOOLEAN,
                 status : {"inProgress", "completed", "interrupted"}]
    /\ link.asked \in {"none", "resume", "start", "list"}
    /\ link.snap \in Snapshots \cup {NoSnap}
    /\ phase = "waiting" => link.asked = "none"
    /\ \A k \in DOMAIN shown :
         /\ shown[k].item \in Id
         /\ {shown[k].live, shown[k].poll} \subseteq Id \cup {NoId}
         /\ shown[k].cursor \in {NoCursor, 0} \cup 1..(Len(shown[k].text) - 1)
    /\ outcome \in {"none", "completed", "interrupted", "left", "failed"}
    /\ phase = "over" <=> outcome # "none"
    /\ submits \in 0..MaxSubmit

\* The watcher heard the turn from the snapshot, or from the start, on.
Followed == ~hist.gap /\ ~hist.straddled

Names(e) == {e.item, e.live, e.poll} \ {NoId}
MessageOf(id) == id[2]

\* A message is shown by one entry and an entry shows one message: live and
\* snapshot names of one message meet in one entry, however notifications and
\* polls are ordered (the comment of AssistantResponse, turns.rs:80-84).
OneEntryPerMessage ==
    Followed =>
        \A k, l \in DOMAIN shown :
            \A a \in Names(shown[k]), b \in Names(shown[l]) :
                MessageOf(a) = MessageOf(b) <=> k = l

\* What the comment of AssistantResponse (turns.rs:80-84) says of every wait:
\* "downstream consumers never see one item under two ids".
Visible == {k \in DOMAIN shown : shown[k].text # <<>>}

NeverUnderTwoIds ==
    \A k, l \in Visible :
        \A a \in Names(shown[k]), b \in Names(shown[l]) :
            MessageOf(a) = MessageOf(b) => k = l

\* A turn that completes is reported with what was said in it, message by
\* message, unless a poll answered with an older state than what had been heard.
Said(texts) == SelectSeq(texts, LAMBDA t : t # <<>>)

FinalIsSaid ==
    (outcome = "completed" /\ Followed /\ ~hist.late) =>
        Said([k \in DOMAIN shown |-> shown[k].text]) = Said(turn.text)

\* No message repeats a token, so that overlaps are never ambiguous.
Plain == \A i \in DOMAIN turn.text : IsInjective(turn.text[i])

\* At every moment each entry shows the beginning of its message: no delta is
\* doubled, skipped or put after a hole, although a resume or a poll runs
\* while deltas arrive.
ShownIsPrefix ==
    (Followed /\ ~hist.late /\ Plain) =>
        \A k \in DOMAIN shown :
            LET i == MessageOf(shown[k].item)
            IN  i \in DOMAIN turn.text /\ IsPrefix(shown[k].text, turn.text[i])

\* What is shown is never taken back, of a turn that was heard whole, when no poll was
\* answered with an older state and no message repeats itself.
NothingTakenBack ==
    [][(Followed /\ ~hist.late /\ Plain)' =>
         \A k \in DOMAIN shown :
            k \in DOMAIN shown' /\ IsPrefix(shown[k].text, shown'[k].text)]_vars

\* The turn is over, and a poll is answered with a list of newer turns only.
Missed == turn.status # "inProgress" /\ Captured /\ link.asked = "list" /\ ~link.snap.listed

\* A wait ends after its turn has, even when the notification that says so was
\* dropped: the poll finds out, unless newer turns keep the turn out of its list
\* (poll_limit, turns.rs).
WaitEnds == (turn.status # "inProgress") ~> (phase = "over" \/ Missed)

=============================================================================
