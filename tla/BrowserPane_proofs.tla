--------------------------- MODULE BrowserPane_proofs -------------------------
(***************************************************************************)
(* What is proved of the thread browser, for any threads, servers, page    *)
(* size and queues: what is shown and neither awaited nor in error is as   *)
(* new as what the UI was told, deleted threads stay away, and whoever     *)
(* waits waits for something that is under way.                            *)
(***************************************************************************)
EXTENDS BrowserPane, FiniteSetTheorems, TLAPS

(***************************************************************************)
(* The types, in full: what is queued, under way and reported.             *)
(***************************************************************************)
Views    == [archived : BOOLEAN, found : BOOLEAN]
Cursors  == [current : Nat, next : Nat, back : Nat]
Sources  == [view : Views, cursor : Nat, vers : [Server -> Nat]]
Previews == [epoch : Nat, thread : {None} \cup Thread, loading : BOOLEAN, text : BOOLEAN,
             error : BOOLEAN]
Kinds    == {"archive", "unarchive", "delete", "rename"}
Modes    == [at : {"browser", "menu"}] \cup
            [at : {"dialog"}, kind : {"archive", "delete", "rename"}, thread : Thread]
Tasks    == [kind : Kinds, thread : Thread, at : {"called", "done"}, ver : Nat]

Requests == [kind : {"rows"}, epoch : Nat, view : Views, cursor : Nat] \cup
            [kind : {"load"}, thread : Thread]
Glances  == [kind : {"preview"}, epoch : Nat, thread : Thread]

RowEvents     == [type : {"rows"}, epoch : Nat, rows : Seq(Thread), next : Nat, back : Nat,
                  warning : BOOLEAN, source : Sources]
FailedEvents  == [type : {"rowsFailed"}, epoch : Nat]
ChangeEvents  == [type : Kinds \cup {"load"}, thread : Thread, ver : Nat]
PreviewEvents == [type : {"preview"}, epoch : Nat, thread : Thread, text : BOOLEAN] \cup
                 [type : {"previewFailed"}, epoch : Nat, thread : Thread]
Events        == RowEvents \cup FailedEvents \cup ChangeEvents \cup PreviewEvents

\* What a server answered: threads of its own.
PageOK(p, s) ==
    /\ p.ok \in BOOLEAN
    /\ p.ok => /\ p.rows \subseteq {th \in Thread : Home[th] = s}
               /\ p.next \in Nat /\ p.back \in Nat /\ p.ver \in Nat

JobOK ==
    /\ job.kind \in {"none", "rows", "load"}
    /\ job.kind = "rows" => /\ job.epoch \in Nat /\ job.view \in Views /\ job.cursor \in Nat
                            /\ DOMAIN job.got \subseteq Servers
                            /\ \A s \in DOMAIN job.got : PageOK(job.got[s], s)
    /\ job.kind = "load" => job.thread \in Thread

Once(list) == \A i, j \in DOMAIN list : list[i] = list[j] => i = j

Listable(list) == Once(list) /\ \A i \in DOMAIN list : list[i] \in Here

ScreenOK ==
    /\ multi \in BOOLEAN
    /\ rows \in Seq(Thread) /\ Listable(rows)
    /\ selected \in 1..(IF rows = <<>> THEN 1 ELSE Len(rows))
    /\ view \in Views /\ cursors \in Cursors /\ epoch \in Nat
    /\ loading \in BOOLEAN /\ error \in BOOLEAN /\ pane \in BOOLEAN
    /\ preview \in Previews /\ mode \in Modes /\ source \in Sources
    /\ gone \subseteq Thread

WorkOK ==
    /\ fetchQ \in Seq(Requests) /\ Len(fetchQ) <= FetchCap
    /\ previewQ \in Seq([epoch : Nat, thread : Thread]) /\ Len(previewQ) <= PreviewCap
    /\ JobOK /\ (glance # NoJob => glance \in Glances)
    /\ tasks \subseteq Tasks
    /\ events \in Seq(Events)
    /\ \A i \in DOMAIN events : events[i].type = "rows" => Listable(events[i].rows)

\* What the servers did, and what is said of it.
ServersOK ==
    /\ life \in [Thread -> {"open", "archived", "gone"}]
    /\ ver \in [Server -> Nat] /\ told \in [Server -> Nat]
    /\ \A s \in Server : told[s] <= ver[s]
    /\ \A t \in tasks : t.at = "done" =>
         t.ver <= ver[Home[t.thread]] /\ (t.kind = "delete" => life[t.thread] = "gone")
    /\ \A i \in DOMAIN events : events[i].type \in Kinds \cup {"load"} =>
         /\ events[i].ver <= ver[Home[events[i].thread]]
         /\ events[i].type = "delete" => life[events[i].thread] = "gone"
    /\ \A th \in gone : life[th] = "gone"

Typed == ScreenOK /\ WorkOK /\ ServersOK

(***************************************************************************)
(* What is under way with the number that is current is current.           *)
(***************************************************************************)
QueueCurrent ==
    \A i \in DOMAIN fetchQ : fetchQ[i].kind = "rows" =>
        /\ fetchQ[i].epoch <= epoch
        /\ fetchQ[i].epoch = epoch => fetchQ[i].view = view /\ fetchQ[i].cursor = cursors.current

JobCurrent ==
    job.kind = "rows" =>
        /\ job.epoch <= epoch
        /\ job.epoch = epoch =>
             /\ job.view = view /\ job.cursor = cursors.current
             /\ \A s \in DOMAIN job.got : job.got[s].ok =>
                  job.got[s].ver >= told[s] /\ job.got[s].rows \cap gone = {}

EventCurrent(e) ==
    e.type = "rows" =>
        /\ e.epoch <= epoch
        /\ e.epoch = epoch =>
             /\ e.source.view = view /\ e.source.cursor = cursors.current
             /\ \A i \in DOMAIN e.rows : e.rows[i] \notin gone
             /\ ~e.warning => \A s \in Servers : e.source.vers[s] >= told[s]

EventsCurrent == \A i \in DOMAIN events : EventCurrent(events[i])

RowsWait == loading =>
         \/ \E i \in DOMAIN fetchQ : fetchQ[i].kind = "rows" /\ fetchQ[i].epoch = epoch
         \/ job.kind = "rows" /\ job.epoch = epoch
         \/ \E i \in EventsOf("rows") \cup EventsOf("rowsFailed") : events[i].epoch = epoch

PreviewWait == preview.loading =>
         \/ previewQ # <<>> /\ previewQ[Len(previewQ)] = [epoch |-> preview.epoch, thread |-> preview.thread]
         \/ glance # NoJob /\ glance.epoch = preview.epoch /\ glance.thread = preview.thread
         \/ \E i \in EventsOf("preview") \cup EventsOf("previewFailed") :
              events[i].epoch = preview.epoch /\ events[i].thread = preview.thread

(***************************************************************************)
(* Sequences.                                                              *)
(***************************************************************************)
LEMMA AppendIs ==
    ASSUME NEW S, NEW s \in Seq(S), NEW x \in S
    PROVE  /\ Append(s, x) \in Seq(S) /\ Len(Append(s, x)) = Len(s) + 1
           /\ Len(s) + 1 \in DOMAIN Append(s, x) /\ Append(s, x)[Len(s) + 1] = x
           /\ Append(s, x) # <<>>
           /\ \A i \in DOMAIN s : i \in DOMAIN Append(s, x) /\ Append(s, x)[i] = s[i]
           /\ \A i \in DOMAIN Append(s, x) : i \in DOMAIN s \/ i = Len(s) + 1
OBVIOUS

LEMMA LastIs == ASSUME NEW S, NEW s \in Seq(S), s # <<>> PROVE s[Len(s)] \in S
OBVIOUS

LEMMA TailIs ==
    ASSUME NEW S, NEW s \in Seq(S), s # <<>>
    PROVE  /\ Tail(s) \in Seq(S) /\ Len(Tail(s)) = Len(s) - 1
           /\ 1 \in DOMAIN s /\ s[1] = Head(s) /\ Head(s) \in S
           /\ \A i \in DOMAIN Tail(s) : i + 1 \in DOMAIN s /\ Tail(s)[i] = s[i + 1]
           /\ \A j \in DOMAIN s : j = 1 \/ (j - 1 \in DOMAIN Tail(s) /\ s[j] = Tail(s)[j - 1])
OBVIOUS

(***************************************************************************)
(* Asking for pages and previews.                                          *)
(***************************************************************************)
\* What is left when a page was asked for.
PageAsked(v, c) ==
    /\ view' = v /\ cursors' \in Cursors /\ cursors'.current = c /\ source' = source
    /\ epoch' = epoch + 1 /\ loading' \in BOOLEAN /\ error' \in BOOLEAN
    /\ loading' \/ error'
    /\ fetchQ' \in Seq(Requests) /\ Len(fetchQ') <= FetchCap
    /\ \A i \in DOMAIN fetchQ' :
         \/ i \in DOMAIN fetchQ /\ fetchQ'[i] = fetchQ[i]
         \/ /\ fetchQ'[i].kind = "rows" /\ fetchQ'[i].epoch = epoch'
            /\ fetchQ'[i].view = v /\ fetchQ'[i].cursor = c
    /\ loading' => \E i \in DOMAIN fetchQ' : fetchQ'[i].kind = "rows" /\ fetchQ'[i].epoch = epoch'

LEMMA ScheduleIs ==
    ASSUME Typed, NEW v \in Views, NEW c \in Nat, Schedule(v, c)
    PROVE  PageAsked(v, c)
<1> DEFINE r == [kind |-> "rows", epoch |-> epoch + 1, view |-> v, cursor |-> c]
           q == Append(fetchQ, r)
           fits == QueueTakes(fetchQ, FetchCap)
<1>1. /\ fetchQ \in Seq(Requests) /\ Len(fetchQ) <= FetchCap /\ cursors \in Cursors /\ epoch \in Nat
      /\ FetchCap \in Nat
  BY BrowserAssumption DEF Typed, WorkOK, ScreenOK
<1>2. r \in Requests
  BY <1>1 DEF Requests
<1>3. /\ q \in Seq(Requests) /\ Len(q) = Len(fetchQ) + 1
      /\ Len(fetchQ) + 1 \in DOMAIN q /\ q[Len(fetchQ) + 1] = r
      /\ \A i \in DOMAIN q : i \in DOMAIN fetchQ \/ i = Len(fetchQ) + 1
      /\ \A i \in DOMAIN fetchQ : q[i] = fetchQ[i]
  BY <1>1, <1>2, AppendIs
<1>4. r.kind = "rows" /\ r.epoch = epoch + 1 /\ r.view = v /\ r.cursor = c
  OBVIOUS
<1>5. /\ epoch' = epoch + 1 /\ view' = v /\ cursors' = [cursors EXCEPT !.current = c]
      /\ loading' = fits /\ error' = ~fits /\ source' = source
      /\ fetchQ' = IF fits THEN q ELSE fetchQ
  BY DEF Schedule
<1>6. cursors' \in Cursors /\ cursors'.current = c
  BY <1>1, <1>5 DEF Cursors
<1>7. fits \in BOOLEAN /\ (fits => Len(fetchQ) < FetchCap)
  BY DEF QueueTakes
<1> HIDE DEF r, q, fits
<1>8. CASE fits
  <2>1. fetchQ' = q /\ loading' = TRUE /\ error' = FALSE
    BY <1>5, <1>7, <1>8
  <2>2. Len(fetchQ') <= FetchCap
    BY <1>1, <1>3, <1>7, <1>8, <2>1
  <2> QED BY <1>3, <1>4, <1>5, <1>6, <2>1, <2>2 DEF PageAsked
<1>9. CASE ~fits
  <2>1. fetchQ' = fetchQ /\ loading' = FALSE /\ error' = TRUE
    BY <1>5, <1>7, <1>9
  <2> QED BY <1>1, <1>5, <1>6, <2>1 DEF PageAsked
<1> QED BY <1>8, <1>9

\* What is left when the preview of the selected thread was asked for or not.
PreviewAsked(pv) ==
    /\ preview' \in Previews
    /\ previewQ' \in Seq([epoch : Nat, thread : Thread]) /\ Len(previewQ') <= PreviewCap
    /\ \/ preview' = pv /\ previewQ' = previewQ
       \/ /\ \E i \in DOMAIN rows' : preview'.thread = rows'[i]
          /\ preview'.loading =>
               previewQ' # <<>> /\ previewQ'[Len(previewQ')] =
                 [epoch |-> preview'.epoch, thread |-> preview'.thread]

LEMMA PreviewIs ==
    ASSUME Typed, NEW pv \in Previews, Preview(pv),
           rows' \in Seq(Thread), selected' \in 1..(IF rows' = <<>> THEN 1 ELSE Len(rows'))
    PROVE  PreviewAsked(pv)
<1> DEFINE th == SelectedIn(rows', selected')
           r == [epoch |-> pv.epoch + 1, thread |-> th]
           q == Append(previewQ, r)
           fits == QueueTakes(previewQ, PreviewCap)
<1>1. /\ previewQ \in Seq([epoch : Nat, thread : Thread]) /\ Len(previewQ) <= PreviewCap
      /\ PreviewCap \in Nat /\ pv.epoch \in Nat
  BY BrowserAssumption DEF Typed, WorkOK, Previews
<1>2. fits \in BOOLEAN /\ (fits => Len(previewQ) < PreviewCap)
  BY DEF QueueTakes
<1>3. CASE /\ pane' /\ mode'.at = "browser" /\ th # None /\ Wanted(pv, th)
           /\ preview' = Asked(pv, th, fits)
           /\ previewQ' = IF fits THEN q ELSE previewQ
  <2>1. rows' # <<>>
    BY <1>3 DEF SelectedIn
  <2>2. selected' \in DOMAIN rows' /\ th = rows'[selected'] /\ th \in Thread
    BY <2>1 DEF SelectedIn
  <2>3. r \in [epoch : Nat, thread : Thread]
    BY <1>1, <2>2
  <2>4. /\ q \in Seq([epoch : Nat, thread : Thread]) /\ Len(q) = Len(previewQ) + 1
        /\ q # <<>> /\ q[Len(q)] = r
    BY <1>1, <2>3, AppendIs
  <2>5. /\ preview'.thread = th /\ preview'.epoch = pv.epoch + 1 /\ preview'.loading = fits
        /\ preview' \in Previews
    BY <1>1, <1>2, <1>3, <2>2 DEF Asked, Previews
  <2>6. r = [epoch |-> preview'.epoch, thread |-> preview'.thread]
    BY <2>5
  <2> HIDE DEF r, q, fits, th
  <2>7. CASE fits
    <3>1. previewQ' = q
      BY <1>2, <1>3, <2>7
    <3>2. Len(previewQ') <= PreviewCap
      BY <1>1, <1>2, <2>4, <2>7, <3>1
    <3> QED BY <2>2, <2>4, <2>5, <2>6, <3>1, <3>2 DEF PreviewAsked
  <2>8. CASE ~fits
    <3>1. previewQ' = previewQ /\ preview'.loading = FALSE
      BY <1>2, <1>3, <2>5, <2>8
    <3> QED BY <1>1, <2>2, <2>5, <3>1 DEF PreviewAsked
  <2> QED BY <2>7, <2>8
<1>4. CASE preview' = pv /\ previewQ' = previewQ
  BY <1>1, <1>4 DEF PreviewAsked
<1> QED BY <1>3, <1>4 DEF Preview

(***************************************************************************)
(* The types: keys and the timer.                                          *)
(***************************************************************************)
\* What a key or the timer may do to the types.
LEMMA KeyTyped ==
    ASSUME Typed, UNCHANGED Elsewhere,
           rows' \in Seq(Thread), Listable(rows'),
           selected' \in 1..(IF rows' = <<>> THEN 1 ELSE Len(rows')),
           view' \in Views, cursors' \in Cursors, epoch' \in Nat,
           loading' \in BOOLEAN, error' \in BOOLEAN, pane' \in BOOLEAN,
           mode' \in Modes, source' = source,
           fetchQ' \in Seq(Requests), Len(fetchQ') <= FetchCap,
           preview' \in Previews,
           previewQ' \in Seq([epoch : Nat, thread : Thread]), Len(previewQ') <= PreviewCap,
           tasks' \subseteq Tasks, \A t \in tasks' : t \in tasks \/ t.at = "called"
    PROVE  Typed'
<1>1. UNCHANGED <<multi, job, glance, events, life, ver, told, gone>>
  BY DEF Elsewhere, serverVars
<1>2. Servers' = Servers /\ Here' = Here
  BY <1>1 DEF Servers, Here
<1>3. ScreenOK'
  BY <1>1, <1>2 DEF Typed, ScreenOK, Listable
<1>4. JobOK'
  BY <1>1, <1>2 DEF Typed, WorkOK, JobOK
<1>5. WorkOK'
  BY <1>1, <1>2, <1>4 DEF Typed, WorkOK, Listable
<1>6. ServersOK'
  BY <1>1 DEF Typed, ServersOK
<1> QED BY <1>3, <1>5, <1>6 DEF Typed

LEMMA NothingPreviewed == NoPreview \in Previews
BY DEF NoPreview, Previews, None

\* The keys and the timer, and what each does to the pages.
Keys ==
    \/ AskPage \/ MoveSelection \/ TogglePane \/ LoadKey \/ ChangeView \/ Leave \/ Return
    \/ \E kind \in {"archive", "delete", "rename"} : Ask(kind)
    \/ Confirm \/ Tick

Pager == AskPage \/ ChangeView \/ Tick

LEMMA PagerIs ==
    ASSUME Typed, Pager
    PROVE  /\ \E v \in Views, c \in Nat : PageAsked(v, c)
           /\ UNCHANGED <<rows, mode, pane, tasks, Elsewhere>>
           /\ selected' \in 1..(IF rows = <<>> THEN 1 ELSE Len(rows))
           /\ Preview(preview) \/ UNCHANGED <<preview, previewQ>>
<1>1. view \in Views /\ cursors \in Cursors /\ rows \in Seq(Thread)
      /\ selected \in 1..(IF rows = <<>> THEN 1 ELSE Len(rows))
  BY DEF Typed, ScreenOK
<1>2. cursors.current \in Nat /\ cursors.next \in Nat /\ cursors.back \in Nat /\ None \in Nat
  BY <1>1 DEF Cursors, None
<1>3. [view EXCEPT !.archived = ~@] \in Views /\ [view EXCEPT !.found = ~@] \in Views
  BY <1>1 DEF Views
<1>4. 1 \in 1..(IF rows = <<>> THEN 1 ELSE Len(rows))
  BY <1>1
<1>5. CASE AskPage
  <2>1. \E c \in Nat : Schedule(view, c)
    BY <1>2, <1>5 DEF AskPage, Refresh
  <2>2. \E v \in Views, c \in Nat : PageAsked(v, c)
    BY <1>1, <2>1, ScheduleIs
  <2> QED BY <1>1, <1>5, <2>2 DEF AskPage
<1>6. CASE ChangeView
  <2>1. \E v \in Views : Schedule(v, cursors.current)
    BY <1>3, <1>6 DEF ChangeView
  <2>2. \E v \in Views, c \in Nat : PageAsked(v, c)
    BY <1>2, <2>1, ScheduleIs
  <2>3. selected' = selected \/ selected' = 1
    BY <1>6 DEF ChangeView
  <2> QED BY <1>1, <1>4, <1>6, <2>2, <2>3 DEF ChangeView
<1>7. CASE Tick
  <2>1. \E v \in Views, c \in Nat : PageAsked(v, c)
    BY <1>1, <1>2, <1>7, ScheduleIs DEF Tick, Refresh
  <2>2. UNCHANGED <<rows, selected, mode, pane, preview, previewQ, tasks, Elsewhere>>
    BY <1>7 DEF Tick, previewVars
  <2> QED BY <1>1, <2>1, <2>2
<1> QED BY <1>5, <1>6, <1>7 DEF Pager

\* The other keys.
LEMMA KeyIs ==
    ASSUME Typed, Keys, ~Pager
    PROVE  /\ UNCHANGED <<rows, view, epoch, loading, error, cursors, source, Elsewhere>>
           /\ selected' \in 1..(IF rows = <<>> THEN 1 ELSE Len(rows))
           /\ fetchQ' = fetchQ \/ \E r \in Requests :
                r.kind = "load" /\ QueueTakes(fetchQ, FetchCap) /\ fetchQ' = Append(fetchQ, r)
           /\ pane' \in BOOLEAN /\ mode' \in Modes
           /\ tasks' \subseteq Tasks /\ \A t \in tasks' : t \in tasks \/ t.at = "called"
           /\ \E pv \in Previews : (pv = preview \/ pv = NoPreview) /\ Preview(pv)
<1>0. /\ mode \in Modes /\ tasks \subseteq Tasks /\ pane \in BOOLEAN /\ rows \in Seq(Thread)
      /\ selected \in 1..(IF rows = <<>> THEN 1 ELSE Len(rows)) /\ preview \in Previews
      /\ view \in Views
  BY DEF Typed, ScreenOK, WorkOK
<1>1. CASE MoveSelection
  <2>1. selected' \in DOMAIN rows
    BY <1>1 DEF MoveSelection
  <2>2. selected' \in 1..(IF rows = <<>> THEN 1 ELSE Len(rows))
    BY <1>0, <2>1
  <2> QED BY <1>0, <1>1, <2>2 DEF MoveSelection
<1>2. CASE TogglePane
  <2>1. UNCHANGED <<browserVars, fetchQ, tasks, Elsewhere>> /\ pane' = ~pane
    BY <1>2 DEF TogglePane
  <2>2. Preview(NoPreview) \/ Preview(preview)
    BY <1>0, <1>2 DEF TogglePane
  <2> QED BY <1>0, <2>1, <2>2, NothingPreviewed DEF browserVars
<1>3. CASE LoadKey
  <2>1. rows # <<>>
    BY <1>3 DEF LoadKey, Selected, SelectedIn
  <2>2. Selected \in Thread
    BY <1>0, <2>1 DEF Selected, SelectedIn
  <2> DEFINE r == [kind |-> "load", thread |-> Selected]
  <2>3. r \in Requests /\ r.kind = "load"
    BY <2>2 DEF Requests
  <2>4. fetchQ' = IF QueueTakes(fetchQ, FetchCap) THEN Append(fetchQ, r) ELSE fetchQ
    BY <1>3 DEF LoadKey
  <2> HIDE DEF r
  <2>5. UNCHANGED <<rows, selected, view, epoch, loading, error, cursors, mode, source, pane, tasks, Elsewhere>>
    BY <1>3 DEF LoadKey, browserVars
  <2>6. Preview(preview)
    BY <1>3 DEF LoadKey
  <2> QED BY <1>0, <2>3, <2>4, <2>5, <2>6
<1>4. CASE Leave \/ Return
  <2>1. UNCHANGED <<rows, selected, view, epoch, loading, error, cursors, source, pane, fetchQ,
                    tasks, Elsewhere>> /\ Preview(preview)
    BY <1>4 DEF Leave, Return
  <2>2. mode' = [at |-> "menu"] \/ mode' = [at |-> "browser"]
    BY <1>4 DEF Leave, Return, Browser
  <2>3. mode' \in Modes
    BY <2>2 DEF Modes
  <2> QED BY <1>0, <2>1, <2>3
<1>5. ASSUME NEW kind \in {"archive", "delete", "rename"}, Ask(kind)
      PROVE  /\ UNCHANGED <<rows, selected, view, epoch, loading, error, cursors, source, pane,
                            fetchQ, tasks, Elsewhere>> /\ Preview(preview)
             /\ mode' \in Modes
  <2>1. rows # <<>>
    BY <1>5 DEF Ask, Selected, SelectedIn
  <2>2. Selected \in Thread
    BY <1>0, <2>1 DEF Selected, SelectedIn
  <2>3. mode' = [at |-> "dialog", kind |-> kind, thread |-> Selected]
    BY <1>5 DEF Ask
  <2>4. mode' \in Modes
    BY <2>2, <2>3 DEF Modes
  <2> QED BY <1>5, <2>4 DEF Ask
<1>6. CASE Confirm
  <2>1. UNCHANGED <<rows, selected, view, epoch, loading, error, cursors, source, pane, fetchQ,
                    Elsewhere>> /\ Preview(preview)
    BY <1>6 DEF Confirm
  <2>2. mode' \in Modes
    BY <1>6 DEF Confirm, Browser, Modes
  <2>3. mode.kind \in {"archive", "delete", "rename"} /\ mode.thread \in Thread
    BY <1>0, <1>6 DEF Confirm, Modes
  <2> DEFINE t == [kind |-> Wish, thread |-> mode.thread, at |-> "called", ver |-> 0]
  <2>4. Wish \in Kinds
    BY <2>3 DEF Wish, Kinds
  <2>5. t \in Tasks /\ t.at = "called"
    BY <2>3, <2>4 DEF Tasks
  <2>6. tasks' = tasks \cup {t}
    BY <1>6 DEF Confirm
  <2> HIDE DEF t
  <2> QED BY <1>0, <2>1, <2>2, <2>5, <2>6
<1>7. CASE \E kind \in {"archive", "delete", "rename"} : Ask(kind)
  BY <1>0, <1>5, <1>7
<1> QED BY <1>1, <1>2, <1>3, <1>4, <1>6, <1>7 DEF Keys, Pager

LEMMA KeysTyped == ASSUME Typed, Keys PROVE Typed'
<1>0. /\ rows \in Seq(Thread) /\ Listable(rows) /\ view \in Views /\ cursors \in Cursors
      /\ epoch \in Nat /\ loading \in BOOLEAN /\ error \in BOOLEAN /\ pane \in BOOLEAN
      /\ mode \in Modes /\ tasks \subseteq Tasks /\ preview \in Previews
      /\ previewQ \in Seq([epoch : Nat, thread : Thread]) /\ Len(previewQ) <= PreviewCap
      /\ fetchQ \in Seq(Requests) /\ Len(fetchQ) <= FetchCap /\ FetchCap \in Nat
  BY BrowserAssumption DEF Typed, ScreenOK, WorkOK
<1>1. CASE Pager
  <2>1. /\ UNCHANGED <<rows, mode, pane, tasks, Elsewhere>>
        /\ selected' \in 1..(IF rows = <<>> THEN 1 ELSE Len(rows))
        /\ Preview(preview) \/ UNCHANGED <<preview, previewQ>>
    BY <1>1, PagerIs
  <2>2. PICK v \in Views, c \in Nat : PageAsked(v, c)
    BY <1>1, PagerIs
  <2>3. /\ view' \in Views /\ cursors' \in Cursors /\ epoch' \in Nat /\ source' = source
        /\ loading' \in BOOLEAN /\ error' \in BOOLEAN
        /\ fetchQ' \in Seq(Requests) /\ Len(fetchQ') <= FetchCap
    BY <1>0, <2>2 DEF PageAsked
  <2>4. rows' \in Seq(Thread) /\ selected' \in 1..(IF rows' = <<>> THEN 1 ELSE Len(rows'))
    BY <1>0, <2>1
  <2>5. /\ preview' \in Previews
        /\ previewQ' \in Seq([epoch : Nat, thread : Thread]) /\ Len(previewQ') <= PreviewCap
    <3>1. CASE Preview(preview)
      BY <1>0, <2>4, <3>1, PreviewIs DEF PreviewAsked
    <3>2. CASE UNCHANGED <<preview, previewQ>>
      BY <1>0, <3>2
    <3> QED BY <2>1, <3>1, <3>2
  <2>6. Listable(rows')
    BY <1>0, <2>1 DEF Listable
  <2> QED BY <1>0, <2>1, <2>3, <2>4, <2>5, <2>6, KeyTyped
<1>2. CASE ~Pager
  <2>1. /\ UNCHANGED <<rows, view, epoch, loading, error, cursors, source, Elsewhere>>
        /\ selected' \in 1..(IF rows = <<>> THEN 1 ELSE Len(rows))
        /\ pane' \in BOOLEAN /\ mode' \in Modes
        /\ tasks' \subseteq Tasks /\ \A t \in tasks' : t \in tasks \/ t.at = "called"
    BY <1>2, KeyIs
  <2>2. PICK pv \in Previews : Preview(pv)
    BY <1>2, KeyIs
  <2>3. fetchQ' = fetchQ \/ \E r \in Requests :
          r.kind = "load" /\ QueueTakes(fetchQ, FetchCap) /\ fetchQ' = Append(fetchQ, r)
    BY <1>2, KeyIs
  <2>4. fetchQ' \in Seq(Requests) /\ Len(fetchQ') <= FetchCap
    <3>1. CASE fetchQ' = fetchQ
      BY <1>0, <3>1
    <3>2. ASSUME NEW r \in Requests, QueueTakes(fetchQ, FetchCap), fetchQ' = Append(fetchQ, r)
          PROVE  fetchQ' \in Seq(Requests) /\ Len(fetchQ') <= FetchCap
      <4>1. Len(fetchQ) < FetchCap
        BY <3>2 DEF QueueTakes
      <4>2. fetchQ' \in Seq(Requests) /\ Len(fetchQ') = Len(fetchQ) + 1
        BY <1>0, <3>2, AppendIs
      <4> QED BY <1>0, <4>1, <4>2
    <3> QED BY <2>3, <3>1, <3>2
  <2>5. rows' \in Seq(Thread) /\ selected' \in 1..(IF rows' = <<>> THEN 1 ELSE Len(rows'))
    BY <1>0, <2>1
  <2>6. /\ preview' \in Previews
        /\ previewQ' \in Seq([epoch : Nat, thread : Thread]) /\ Len(previewQ') <= PreviewCap
    BY <2>2, <2>5, PreviewIs DEF PreviewAsked
  <2>7. Listable(rows')
    BY <1>0, <2>1 DEF Listable
  <2>8. /\ view' \in Views /\ cursors' \in Cursors /\ epoch' \in Nat /\ source' = source
        /\ loading' \in BOOLEAN /\ error' \in BOOLEAN
    BY <1>0, <2>1
  <2> QED BY <2>1, <2>4, <2>5, <2>6, <2>7, <2>8, KeyTyped
<1> QED BY <1>1, <1>2

(***************************************************************************)
(* The types: the servers, the tasks and the workers.                      *)
(***************************************************************************)
LEMMA ScreenKept ==
    ASSUME ScreenOK, UNCHANGED <<multi, browserVars, pane, preview, gone>>
    PROVE  ScreenOK' /\ Servers' = Servers /\ Here' = Here
BY DEF ScreenOK, browserVars, Listable, Servers, Here

LEMMA ChangedIs ==
    ASSUME Typed, NEW th \in Thread, NEW kind \in Kinds, Changed(th, kind), life[th] # "gone"
    PROVE  /\ life' \in [Thread -> {"open", "archived", "gone"}] /\ ver' \in [Server -> Nat]
           /\ Home[th] \in Server /\ ver'[Home[th]] = ver[Home[th]] + 1
           /\ \A s \in Server : ver[s] <= ver'[s]
           /\ \A x \in Thread : life[x] = "gone" => life'[x] = "gone"
           /\ kind = "delete" => life'[th] = "gone"
<1>1. life \in [Thread -> {"open", "archived", "gone"}] /\ ver \in [Server -> Nat]
      /\ Home \in [Thread -> Server]
  BY BrowserAssumption DEF Typed, ServersOK
<1>2. Home[th] \in Server /\ ver' = [ver EXCEPT ![Home[th]] = ver[Home[th]] + 1]
  BY <1>1 DEF Changed
<1>3. ver' \in [Server -> Nat] /\ ver'[Home[th]] = ver[Home[th]] + 1
      /\ \A s \in Server : ver[s] <= ver'[s]
  BY <1>1, <1>2
<1>4. CASE kind = "rename"
  <2>1. life' = life
    BY <1>4 DEF Changed
  <2> QED BY <1>1, <1>2, <1>3, <1>4, <2>1
<1>5. CASE kind # "rename"
  <2>1. life' = [life EXCEPT ![th] = Become[kind]]
    BY <1>5 DEF Changed
  <2>2. Become[kind] \in {"open", "archived", "gone"} /\ (kind = "delete" => Become[kind] = "gone")
    BY <1>5 DEF Become, Kinds
  <2> QED BY <1>1, <1>2, <1>3, <2>1, <2>2
<1> QED BY <1>4, <1>5

\* Nothing the servers said before is undone.
ServersMove ==
    /\ life' \in [Thread -> {"open", "archived", "gone"}] /\ ver' \in [Server -> Nat]
    /\ \A s \in Server : ver[s] <= ver'[s]
    /\ \A x \in Thread : life[x] = "gone" => life'[x] = "gone"

LEMMA ServersKept ==
    ASSUME Typed, ServersMove,
           UNCHANGED <<told, gone>>,
           tasks' \subseteq Tasks, events' \in Seq(Events),
           \A t \in tasks' : t \in tasks \/ (t.at = "done" =>
             t.ver <= ver'[Home[t.thread]] /\ (t.kind = "delete" => life'[t.thread] = "gone")),
           \A i \in DOMAIN events' :
             \/ \E j \in DOMAIN events : events'[i] = events[j]
             \/ events'[i].type \in Kinds \cup {"load"} =>
                  /\ events'[i].ver <= ver'[Home[events'[i].thread]]
                  /\ events'[i].type = "delete" => life'[events'[i].thread] = "gone"
    PROVE  ServersOK'
<1>1. /\ ver \in [Server -> Nat] /\ told \in [Server -> Nat] /\ Home \in [Thread -> Server]
      /\ tasks \subseteq Tasks /\ events \in Seq(Events) /\ gone \subseteq Thread /\ ServersOK
  BY BrowserAssumption DEF Typed, ServersOK, ScreenOK, WorkOK
<1>2. /\ life' \in [Thread -> {"open", "archived", "gone"}] /\ ver' \in [Server -> Nat]
      /\ \A s \in Server : ver[s] <= ver'[s]
      /\ \A x \in Thread : life[x] = "gone" => life'[x] = "gone"
      /\ told' = told /\ gone' = gone
  BY DEF ServersMove
<1>3. \A s \in Server : told'[s] <= ver'[s]
  <2> TAKE s \in Server
  <2>1. told[s] <= ver[s] /\ ver[s] <= ver'[s] /\ told[s] \in Nat /\ ver[s] \in Nat /\ ver'[s] \in Nat
    BY <1>1, <1>2 DEF ServersOK
  <2> QED BY <1>2, <2>1
<1>4. ASSUME NEW n \in Nat, NEW th \in Thread, n <= ver[Home[th]]
      PROVE  n <= ver'[Home[th]]
  <2>1. Home[th] \in Server /\ ver[Home[th]] \in Nat /\ ver'[Home[th]] \in Nat
    BY <1>1, <1>2
  <2>2. ver[Home[th]] <= ver'[Home[th]]
    BY <1>2, <2>1
  <2> QED BY <1>4, <2>1, <2>2
<1>5. \A t \in tasks' : t.at = "done" =>
        t.ver <= ver'[Home[t.thread]] /\ (t.kind = "delete" => life'[t.thread] = "gone")
  <2> TAKE t \in tasks'
  <2> HAVE t.at = "done"
  <2>1. CASE t \in tasks
    <3>1. t.ver \in Nat /\ t.thread \in Thread
      BY <1>1, <2>1 DEF Tasks
    <3>2. t.ver <= ver[Home[t.thread]] /\ (t.kind = "delete" => life[t.thread] = "gone")
      BY <1>1, <2>1 DEF ServersOK
    <3> QED BY <1>2, <1>4, <3>1, <3>2
  <2> QED BY <2>1
<1>6. \A i \in DOMAIN events' : events'[i].type \in Kinds \cup {"load"} =>
         /\ events'[i].ver <= ver'[Home[events'[i].thread]]
         /\ events'[i].type = "delete" => life'[events'[i].thread] = "gone"
  <2> TAKE i \in DOMAIN events'
  <2> HAVE events'[i].type \in Kinds \cup {"load"}
  <2>1. ASSUME NEW j \in DOMAIN events, events'[i] = events[j]
        PROVE  /\ events'[i].ver <= ver'[Home[events'[i].thread]]
               /\ events'[i].type = "delete" => life'[events'[i].thread] = "gone"
    <3> DEFINE e == events[j]
    <3>1. e \in Events /\ e.type \in Kinds \cup {"load"}
      BY <1>1, <2>1
    <3>2. e.ver \in Nat /\ e.thread \in Thread
      BY <3>1 DEF Events, RowEvents, FailedEvents, ChangeEvents, PreviewEvents, Kinds
    <3>3. e.ver <= ver[Home[e.thread]] /\ (e.type = "delete" => life[e.thread] = "gone")
      BY <1>1, <3>1 DEF ServersOK
    <3> HIDE DEF e
    <3>4. e.ver <= ver'[Home[e.thread]] /\ (e.type = "delete" => life'[e.thread] = "gone")
      BY <1>2, <1>4, <3>2, <3>3
    <3> QED BY <2>1, <3>4 DEF e
  <2> QED BY <2>1
<1>7. \A th \in gone' : life'[th] = "gone"
  BY <1>1, <1>2 DEF ServersOK
<1> QED BY <1>1, <1>2, <1>3, <1>5, <1>6, <1>7 DEF ServersOK

LEMMA ServersTyped ==
    ASSUME Typed,
           \/ \E t \in tasks : TaskActs(t)
           \/ \E th \in Thread, kind \in {"archive", "unarchive", "delete"} : OtherClient(th, kind)
    PROVE  Typed'
<1>0. /\ Typed /\ tasks \subseteq Tasks /\ events \in Seq(Events) /\ ver \in [Server -> Nat]
  BY DEF Typed, WorkOK, ServersOK
<1>1. ASSUME NEW t \in tasks, TaskActs(t)
      PROVE  Typed'
  <2>1. t.thread \in Thread /\ t.kind \in Kinds
    BY <1>0, <1>1 DEF Tasks
  <2>2. life[t.thread] # "gone" /\ Changed(t.thread, t.kind)
        /\ UNCHANGED <<UIVars, fetchQ, job, glance, events>>
    BY <1>1 DEF TaskActs
  <2> DEFINE n == ver[Home[t.thread]] + 1
             d == [t EXCEPT !.at = "done", !.ver = n]
  <2>3. ServersMove /\ ver'[Home[t.thread]] = n /\ (t.kind = "delete" => life'[t.thread] = "gone")
        /\ Home[t.thread] \in Server
    BY <2>1, <2>2, ChangedIs DEF ServersMove
  <2>4. n \in Nat
    BY <1>0, <2>3
  <2>5. t \in Tasks
    BY <1>0
  <2>6. d \in Tasks /\ d.ver = n /\ d.thread = t.thread /\ d.kind = t.kind
    BY <2>4, <2>5 DEF Tasks
  <2>7. tasks' = (tasks \ {t}) \cup {d}
    BY <1>1 DEF TaskActs
  <2> HIDE DEF d
  <2>8. tasks' \subseteq Tasks
    BY <1>0, <2>6, <2>7
  <2>9. \A u \in tasks' : u \in tasks \/ (u.at = "done" =>
          u.ver <= ver'[Home[u.thread]] /\ (u.kind = "delete" => life'[u.thread] = "gone"))
    BY <2>3, <2>4, <2>6, <2>7
  <2> HIDE DEF n
  <2>10. events' = events /\ UNCHANGED <<told, gone>>
    BY <2>2 DEF UIVars
  <2>11. events' \in Seq(Events) /\ \A i \in DOMAIN events' : \E j \in DOMAIN events : events'[i] = events[j]
    BY <1>0, <2>10
  <2>12. ServersOK'
    BY <2>3, <2>8, <2>9, <2>10, <2>11, ServersKept
  <2>13. ScreenOK' /\ Servers' = Servers /\ Here' = Here
    BY <2>2, ScreenKept DEF Typed, UIVars, previewVars
  <2>14. WorkOK'
    BY <2>2, <2>8, <2>13 DEF Typed, WorkOK, JobOK, Listable, UIVars, previewVars
  <2> QED BY <2>12, <2>13, <2>14 DEF Typed
<1>2. ASSUME NEW th \in Thread, NEW kind \in {"archive", "unarchive", "delete"}, OtherClient(th, kind)
      PROVE  Typed'
  <2>1. kind \in Kinds
    BY DEF Kinds
  <2>2. life[th] # "gone" /\ Changed(th, kind)
        /\ UNCHANGED <<UIVars, fetchQ, job, glance, tasks, events>>
    BY <1>2 DEF OtherClient
  <2>3. ServersMove
    BY <2>1, <2>2, ChangedIs DEF ServersMove
  <2>4. events' = events /\ tasks' = tasks /\ UNCHANGED <<told, gone>>
    BY <2>2 DEF UIVars
  <2>5. events' \in Seq(Events) /\ \A i \in DOMAIN events' : \E j \in DOMAIN events : events'[i] = events[j]
    BY <1>0, <2>4
  <2>6. ServersOK'
    BY <1>0, <2>3, <2>4, <2>5, ServersKept
  <2>7. ScreenOK' /\ Servers' = Servers /\ Here' = Here
    BY <2>2, ScreenKept DEF Typed, UIVars, previewVars
  <2>8. WorkOK'
    BY <2>2, <2>7 DEF Typed, WorkOK, JobOK, Listable, UIVars, previewVars
  <2> QED BY <2>6, <2>7, <2>8 DEF Typed
<1> QED BY <1>1, <1>2

(***************************************************************************)
(* The types: the workers and what they report.                            *)
(***************************************************************************)
\* One more event.
LEMMA Posted ==
    ASSUME Typed, NEW e \in Events, events' = Append(events, e)
    PROVE  /\ events' \in Seq(Events)
           /\ \A i \in DOMAIN events : i \in DOMAIN events' /\ events'[i] = events[i]
           /\ \A i \in DOMAIN events' : (i \in DOMAIN events /\ events'[i] = events[i]) \/ events'[i] = e
           /\ \E i \in DOMAIN events' : events'[i] = e
<1>1. events \in Seq(Events)
  BY DEF Typed, WorkOK
<1>2. /\ Append(events, e) \in Seq(Events)
      /\ Len(events) + 1 \in DOMAIN Append(events, e) /\ Append(events, e)[Len(events) + 1] = e
      /\ \A i \in DOMAIN events : i \in DOMAIN Append(events, e) /\ Append(events, e)[i] = events[i]
      /\ \A i \in DOMAIN Append(events, e) : i \in DOMAIN events \/ i = Len(events) + 1
  BY <1>1, AppendIs
<1> QED BY <1>2

\* What a worker or a task may do to the types.
LEMMA WorkerTyped ==
    ASSUME Typed, UNCHANGED <<multi, browserVars, pane, preview, gone, told, serverVars>>,
           fetchQ' \in Seq(Requests), Len(fetchQ') <= FetchCap,
           previewQ' \in Seq([epoch : Nat, thread : Thread]), Len(previewQ') <= PreviewCap,
           JobOK', glance' # NoJob => glance' \in Glances,
           tasks' \subseteq tasks,
           \/ events' = events
           \/ \E e \in Events :
                /\ events' = Append(events, e)
                /\ e.type = "rows" => Listable(e.rows)
                /\ e.type \in Kinds \cup {"load"} =>
                     /\ e.ver <= ver[Home[e.thread]]
                     /\ e.type = "delete" => life[e.thread] = "gone"
    PROVE  Typed'
<1>0. events \in Seq(Events) /\ tasks \subseteq Tasks /\ life' = life /\ ver' = ver
      /\ life \in [Thread -> {"open", "archived", "gone"}] /\ ver \in [Server -> Nat]
      /\ told' = told /\ gone' = gone
  BY DEF Typed, WorkOK, ServersOK, serverVars
<1>1. ServersMove
  BY <1>0 DEF ServersMove
<1>2. ScreenOK' /\ Servers' = Servers /\ Here' = Here
  BY ScreenKept DEF Typed
<1>3. \A i \in DOMAIN events : events[i].type = "rows" => Listable(events[i].rows)
  BY DEF Typed, WorkOK
<1>4. CASE events' = events
  <2>1. ServersOK'
    BY <1>0, <1>1, <1>4, ServersKept
  <2>2. \A i \in DOMAIN events' : events'[i].type = "rows" =>
        /\ Once(events'[i].rows)
        /\ \A k \in DOMAIN events'[i].rows : events'[i].rows[k] \in Here'
    BY <1>2, <1>3, <1>4 DEF Listable
  <2>3. WorkOK'
    BY <1>0, <1>4, <2>2 DEF WorkOK, Listable
  <2> QED BY <1>2, <2>1, <2>3 DEF Typed
<1>5. ASSUME NEW e \in Events, events' = Append(events, e),
             e.type = "rows" => Listable(e.rows),
             e.type \in Kinds \cup {"load"} =>
                     /\ e.ver <= ver[Home[e.thread]]
                     /\ e.type = "delete" => life[e.thread] = "gone"
      PROVE  Typed'
  <2>1. /\ events' \in Seq(Events)
        /\ \A i \in DOMAIN events' : (i \in DOMAIN events /\ events'[i] = events[i]) \/ events'[i] = e
    BY <1>5, Posted
  <2>2. \A i \in DOMAIN events' :
             \/ \E j \in DOMAIN events : events'[i] = events[j]
             \/ events'[i].type \in Kinds \cup {"load"} =>
                  /\ events'[i].ver <= ver'[Home[events'[i].thread]]
                  /\ events'[i].type = "delete" => life'[events'[i].thread] = "gone"
    BY <1>0, <1>5, <2>1
  <2>3. ServersOK'
    BY <1>0, <1>1, <2>1, <2>2, ServersKept
  <2>4. \A i \in DOMAIN events' : events'[i].type = "rows" => Listable(events'[i].rows)
    BY <1>3, <1>5, <2>1
  <2>5. \A i \in DOMAIN events' : events'[i].type = "rows" =>
        /\ Once(events'[i].rows)
        /\ \A k \in DOMAIN events'[i].rows : events'[i].rows[k] \in Here'
    BY <1>2, <2>4 DEF Listable
  <2>6. WorkOK'
    BY <1>0, <2>1, <2>5 DEF WorkOK, Listable
  <2> QED BY <1>2, <2>3, <2>6 DEF Typed
<1> QED BY <1>4, <1>5

LEMMA ReportsTyped == ASSUME Typed, NEW t \in tasks, TaskReports(t) PROVE Typed'
<1>1. /\ UNCHANGED <<UIVars, fetchQ, job, glance, serverVars>> /\ tasks' \subseteq tasks
  BY DEF TaskReports
<1>2. UNCHANGED <<multi, browserVars, pane, preview, previewQ, gone, told, serverVars, fetchQ, job, glance>>
  BY <1>1 DEF UIVars, previewVars
<1>3. /\ fetchQ \in Seq(Requests) /\ Len(fetchQ) <= FetchCap
      /\ previewQ \in Seq([epoch : Nat, thread : Thread]) /\ Len(previewQ) <= PreviewCap
      /\ JobOK /\ (glance # NoJob => glance \in Glances)
  BY DEF Typed, WorkOK
<1>4. JobOK'
  BY <1>2, <1>3 DEF JobOK, Servers
<1>5. CASE events' = events
  BY <1>1, <1>2, <1>3, <1>4, <1>5, WorkerTyped
<1>6. CASE t.at = "done" /\ events' = Append(events, [type |-> t.kind, thread |-> t.thread, ver |-> t.ver])
  <2> DEFINE e == [type |-> t.kind, thread |-> t.thread, ver |-> t.ver]
  <2>1. t \in Tasks /\ t.ver <= ver[Home[t.thread]] /\ (t.kind = "delete" => life[t.thread] = "gone")
    BY <1>6 DEF Typed, WorkOK, ServersOK
  <2>2. e \in Events /\ e.type # "rows"
    BY <2>1 DEF Tasks, Events, ChangeEvents, Kinds
  <2>3. e.ver <= ver[Home[e.thread]] /\ (e.type = "delete" => life[e.thread] = "gone")
    BY <2>1
  <2>4. events' = Append(events, e)
    BY <1>6
  <2> HIDE DEF e
  <2> QED BY <1>1, <1>2, <1>3, <1>4, <2>2, <2>3, <2>4, WorkerTyped
<1> QED BY <1>5, <1>6 DEF TaskReports

\* The request that is taken.
LEMMA TakenIs ==
    ASSUME Typed, TakeJob
    PROVE  /\ fetchQ \in Seq(Requests) /\ fetchQ # <<>> /\ fetchQ' = Tail(fetchQ)
           /\ fetchQ' \in Seq(Requests) /\ Len(fetchQ') <= FetchCap
           /\ fetchQ[1] \in Requests /\ 1 \in DOMAIN fetchQ
           /\ \A i \in DOMAIN fetchQ' : i + 1 \in DOMAIN fetchQ /\ fetchQ'[i] = fetchQ[i + 1]
           /\ \A j \in DOMAIN fetchQ : j = 1 \/ (j - 1 \in DOMAIN fetchQ' /\ fetchQ[j] = fetchQ'[j - 1])
           /\ fetchQ[1].kind = "rows" => job' = PageJob(fetchQ[1], <<>>)
           /\ fetchQ[1].kind = "load" => job' = fetchQ[1]
<1>1. fetchQ \in Seq(Requests) /\ Len(fetchQ) <= FetchCap /\ FetchCap \in Nat
  BY BrowserAssumption DEF Typed, WorkOK
<1>2. fetchQ # <<>> /\ fetchQ' = Tail(fetchQ)
      /\ job' = IF Head(fetchQ).kind = "rows" THEN PageJob(Head(fetchQ), <<>>) ELSE Head(fetchQ)
  BY DEF TakeJob
<1>3. /\ Tail(fetchQ) \in Seq(Requests) /\ Len(Tail(fetchQ)) = Len(fetchQ) - 1
      /\ 1 \in DOMAIN fetchQ /\ fetchQ[1] = Head(fetchQ) /\ Head(fetchQ) \in Requests
      /\ \A i \in DOMAIN Tail(fetchQ) : i + 1 \in DOMAIN fetchQ /\ Tail(fetchQ)[i] = fetchQ[i + 1]
      /\ \A j \in DOMAIN fetchQ : j = 1 \/ (j - 1 \in DOMAIN Tail(fetchQ) /\ fetchQ[j] = Tail(fetchQ)[j - 1])
  BY <1>1, <1>2, TailIs
<1>4. Len(fetchQ') <= FetchCap
  BY <1>1, <1>2, <1>3
<1> QED BY <1>1, <1>2, <1>3, <1>4

LEMMA NoAnswers == DOMAIN <<>> = {}
OBVIOUS

LEMMA TakeTyped == ASSUME Typed, TakeJob PROVE Typed'
<1>1. UNCHANGED <<multi, browserVars, pane, preview, previewQ, gone, told, serverVars, glance, tasks, events>>
  BY DEF TakeJob, UIVars, previewVars
<1>2. /\ fetchQ' \in Seq(Requests) /\ Len(fetchQ') <= FetchCap /\ fetchQ[1] \in Requests
      /\ fetchQ[1].kind = "rows" => job' = PageJob(fetchQ[1], <<>>)
      /\ fetchQ[1].kind = "load" => job' = fetchQ[1]
  BY TakenIs
<1>3. JobOK'
  <2> DEFINE r == fetchQ[1]
  <2>1. r \in Requests
    BY <1>2
  <2>2. CASE r.kind = "rows"
    <3>1. job' = PageJob(r, <<>>)
      BY <1>2, <2>2
    <3>2. r.epoch \in Nat /\ r.view \in Views /\ r.cursor \in Nat
      BY <2>1, <2>2 DEF Requests
    <3>3. job'.kind = "rows" /\ job'.epoch = r.epoch /\ job'.view = r.view /\ job'.cursor = r.cursor
          /\ job'.got = <<>>
      BY <3>1 DEF PageJob
    <3> QED BY <3>2, <3>3, NoAnswers DEF JobOK
  <2>3. CASE r.kind = "load"
    <3>1. job'.kind = "load" /\ job'.thread \in Thread
      BY <1>2, <2>1, <2>3 DEF Requests
    <3> QED BY <3>1 DEF JobOK
  <2> QED BY <2>1, <2>2, <2>3 DEF Requests
<1>4. /\ previewQ \in Seq([epoch : Nat, thread : Thread]) /\ Len(previewQ) <= PreviewCap
      /\ (glance # NoJob => glance \in Glances)
  BY DEF Typed, WorkOK
<1> QED BY <1>1, <1>2, <1>3, <1>4, WorkerTyped

\* A page holds threads of its server that are not deleted.
LEMMA PageIs ==
    ASSUME Typed, NEW s \in Servers, NEW v \in Views, NEW c \in Nat
    PROVE  /\ PageOK(PageOf(s, v, c), s) /\ PageOf(s, v, c).ver = ver[s]
           /\ PageOf(s, v, c).rows \cap gone = {}
<1> DEFINE p == PageOf(s, v, c)
           n == IF c = None THEN 1 ELSE c
<1>1. s \in Server /\ ver[s] \in Nat
  BY BrowserAssumption DEF Servers, Typed, ServersOK
<1>2. n \in Nat
  BY DEF None
<1>3. /\ p.ok = TRUE /\ p.ver = ver[s] /\ p.rows \subseteq Listed(s, v)
      /\ p.next \in {n + 1, None} /\ p.back \in {n - 1, None} /\ (n <= 1 => p.back = None)
  BY <1>2 DEF PageOf
<1>4. p.next \in Nat /\ p.back \in Nat
  BY <1>2, <1>3 DEF None
<1>5. Listed(s, v) \subseteq {th \in Thread : Home[th] = s}
  BY DEF Listed
<1>6. Listed(s, v) \cap gone = {}
  BY DEF Listed, Typed, ServersOK
<1> HIDE DEF p
<1> QED BY <1>1, <1>3, <1>4, <1>5, <1>6 DEF PageOK, p

\* What the servers answered so far.
LEMMA ReadIs ==
    ASSUME Typed, NEW s \in Server, ReadServer(s)
    PROVE  /\ job.kind = "rows" /\ job'.kind = "rows" /\ s \in Servers
           /\ job'.epoch = job.epoch /\ job'.view = job.view /\ job'.cursor = job.cursor
           /\ DOMAIN job'.got = DOMAIN job.got \cup {s}
           /\ \A x \in DOMAIN job.got : x # s => job'.got[x] = job.got[x]
           /\ PageOK(job'.got[s], s)
           /\ job'.got[s].ok => job'.got[s].ver = ver[s] /\ job'.got[s].rows \cap gone = {}
<1>1. job.kind = "rows" /\ s \in Servers
  BY DEF ReadServer
<1>2. job.view \in Views /\ job.cursor \in Nat
  BY <1>1 DEF Typed, WorkOK, JobOK
<1>3. PICK page \in {PageOf(s, job.view, job.cursor), [ok |-> FALSE]} :
        job' = PageJob(job, With(job.got, s, page))
  BY DEF ReadServer
<1>4. PageOK(page, s) /\ (page.ok => page.ver = ver[s] /\ page.rows \cap gone = {})
  <2>1. CASE page = PageOf(s, job.view, job.cursor)
    BY <1>1, <1>2, <2>1, PageIs
  <2>2. CASE page = [ok |-> FALSE]
    <3>1. page.ok = FALSE
      BY <2>2
    <3> QED BY <3>1 DEF PageOK
  <2> QED BY <2>1, <2>2
<1> HIDE DEF PageOK
<1>5. /\ job'.kind = "rows" /\ job'.epoch = job.epoch /\ job'.view = job.view
      /\ job'.cursor = job.cursor /\ job'.got = With(job.got, s, page)
  BY <1>3 DEF PageJob
<1>6. /\ DOMAIN job'.got = DOMAIN job.got \cup {s} /\ job'.got[s] = page
      /\ \A x \in DOMAIN job.got : x # s => job'.got[x] = job.got[x]
  BY <1>5 DEF With
<1> QED BY <1>1, <1>4, <1>5, <1>6

LEMMA ReadTyped == ASSUME Typed, NEW s \in Server, ReadServer(s) PROVE Typed'
<1>1. UNCHANGED <<multi, browserVars, pane, preview, previewQ, gone, told, serverVars, fetchQ,
                  glance, tasks, events>>
  BY DEF ReadServer, UIVars, previewVars
<1>2. /\ fetchQ \in Seq(Requests) /\ Len(fetchQ) <= FetchCap
      /\ previewQ \in Seq([epoch : Nat, thread : Thread]) /\ Len(previewQ) <= PreviewCap
      /\ JobOK /\ (glance # NoJob => glance \in Glances)
  BY DEF Typed, WorkOK
<1>3. JobOK'
  <2>1. Servers' = Servers
    BY <1>1 DEF Servers
  <2>2. \A x \in DOMAIN job'.got : x \in Servers /\ PageOK(job'.got[x], x)
    <3> TAKE x \in DOMAIN job'.got
    <3>1. CASE x = s
      BY <3>1, ReadIs
    <3>2. CASE x # s
      <4>1. x \in DOMAIN job.got /\ job'.got[x] = job.got[x]
        BY <3>2, ReadIs
      <4>2. x \in Servers /\ PageOK(job.got[x], x)
        BY <1>2, <4>1, ReadIs DEF JobOK
      <4> QED BY <4>1, <4>2
    <3> QED BY <3>1, <3>2
  <2>3. job.epoch \in Nat /\ job.view \in Views /\ job.cursor \in Nat
    BY <1>2, ReadIs DEF JobOK
  <2>4. /\ job'.kind = "rows" /\ job'.epoch \in Nat /\ job'.view \in Views /\ job'.cursor \in Nat
        /\ DOMAIN job'.got \subseteq Servers'
    BY <2>1, <2>2, <2>3, ReadIs
  <2> HIDE DEF PageOK
  <2>5. \A x \in DOMAIN job'.got : PageOK(job'.got[x], x)
    BY <2>2
  <2> QED BY <2>4, <2>5 DEF JobOK, PageOK
<1> QED BY <1>1, <1>2, <1>3, WorkerTyped

\* The event the fetch worker reports a page with.
RowsReport(e) ==
    /\ e \in Events /\ e.type \in {"rows", "rowsFailed"} /\ e.epoch = job.epoch
    /\ events' = Append(events, e)
    /\ e.type = "rows" =>
         /\ Listable(e.rows)
         /\ e.source.view = job.view /\ e.source.cursor = job.cursor
         /\ \A i \in DOMAIN e.rows : \E s \in Servers : job.got[s].ok /\ e.rows[i] \in job.got[s].rows
         /\ ~e.warning => \A s \in Servers : job.got[s].ok /\ e.source.vers[s] = job.got[s].ver

LEMMA AnsweredIs ==
    ASSUME Typed, RowsAnswered
    PROVE  /\ job.kind = "rows" /\ DOMAIN job.got = Servers /\ job' = NoJob
           /\ \E e \in Events : RowsReport(e)
<1>1. job.kind = "rows" /\ DOMAIN job.got = Servers /\ job' = NoJob
  BY DEF RowsAnswered
<1>2. /\ job.epoch \in Nat /\ job.view \in Views /\ job.cursor \in Nat
      /\ \A s \in Servers : PageOK(job.got[s], s)
  BY <1>1 DEF Typed, WorkOK, JobOK
<1>3. CASE \E s \in Servers : job.got[s].ok
  <2> DEFINE page == Merged(job.got)
             good == {s \in Servers : job.got[s].ok}
  <2>1. PICK order \in Orders(page.rows) :
          events' = Append(events, [type |-> "rows", epoch |-> job.epoch, rows |-> order,
                      next |-> page.next, back |-> page.back, warning |-> page.warning,
                      source |-> [view |-> job.view, cursor |-> job.cursor, vers |-> page.vers]])
    BY <1>3 DEF RowsAnswered
  <2> DEFINE src == [view |-> job.view, cursor |-> job.cursor, vers |-> page.vers]
             e == [type |-> "rows", epoch |-> job.epoch, rows |-> order,
                      next |-> page.next, back |-> page.back, warning |-> page.warning,
                      source |-> src]
  <2>2. /\ page.rows = UNION {job.got[s].rows : s \in good} /\ page.warning = (good # Servers)
        /\ page.next = (IF multi THEN None ELSE job.got[Main].next)
        /\ page.back = (IF multi THEN None ELSE job.got[Main].back)
        /\ page.vers = [s \in Server |-> IF s \in good THEN job.got[s].ver ELSE 0]
    BY DEF Merged
  <2>3. Servers \subseteq Server /\ Main \in Servers
    BY BrowserAssumption DEF Servers
  <2>4. \A s \in good : /\ job.got[s].rows \subseteq {th \in Thread : Home[th] = s}
                        /\ job.got[s].next \in Nat /\ job.got[s].back \in Nat /\ job.got[s].ver \in Nat
    BY <1>2 DEF PageOK
  <2>5. page.next \in Nat /\ page.back \in Nat
    <3>1. CASE multi
      BY <2>2, <3>1 DEF None
    <3>2. CASE ~multi
      <4>1. Main \in good
        BY <1>3, <3>2 DEF Servers
      <4> QED BY <2>2, <2>4, <3>2, <4>1
    <3> QED BY <3>1, <3>2
  <2>6. page.vers \in [Server -> Nat] /\ page.warning \in BOOLEAN
    BY <2>2, <2>4
  <2>7. src \in Sources
    BY <1>2, <2>6 DEF Sources
  <2>8. page.rows \subseteq Here
    BY <2>2, <2>4 DEF Here
  <2>9. Cardinality(page.rows) \in Nat
    <3>1. IsFiniteSet(Thread) /\ page.rows \subseteq Thread
      BY <2>8, BrowserAssumption DEF Here
    <3>2. IsFiniteSet(page.rows)
      BY <3>1, FS_Subset
    <3> QED BY <3>2, FS_CardinalityType
  <2>10. order \in [1..Cardinality(page.rows) -> page.rows] /\ Once(order)
    BY <2>1 DEF Orders, Once
  <2>11. order \in Seq(Thread) /\ Listable(order)
    BY <2>8, <2>9, <2>10 DEF Listable, Here
  <2>12. \A i \in DOMAIN order : \E s \in Servers : job.got[s].ok /\ order[i] \in job.got[s].rows
    BY <2>2, <2>10
  <2>13. ~page.warning => \A s \in Servers : job.got[s].ok /\ page.vers[s] = job.got[s].ver
    BY <2>2, <2>3
  <2>14. events' = Append(events, e)
    BY <2>1
  <2> HIDE DEF page, good
  <2>15. e \in RowEvents
    BY <1>2, <2>5, <2>6, <2>7, <2>11 DEF RowEvents
  <2>16. /\ e.type = "rows" /\ e.epoch = job.epoch /\ e.rows = order /\ e.warning = page.warning
         /\ e.source.view = job.view /\ e.source.cursor = job.cursor /\ e.source.vers = page.vers
    OBVIOUS
  <2> HIDE DEF e, src
  <2>17. e \in Events
    BY <2>15 DEF Events
  <2>18. RowsReport(e)
    BY <2>11, <2>12, <2>13, <2>14, <2>16, <2>17 DEF RowsReport
  <2> QED BY <1>1, <2>17, <2>18
<1>4. CASE ~\E s \in Servers : job.got[s].ok
  <2> DEFINE e == [type |-> "rowsFailed", epoch |-> job.epoch]
  <2>1. events' = Append(events, e)
    BY <1>4 DEF RowsAnswered
  <2>2. e \in FailedEvents
    BY <1>2 DEF FailedEvents
  <2>3. e.type = "rowsFailed" /\ e.epoch = job.epoch
    OBVIOUS
  <2> HIDE DEF e
  <2>4. e \in Events
    BY <2>2 DEF Events
  <2>5. RowsReport(e)
    BY <2>1, <2>3, <2>4 DEF RowsReport
  <2> QED BY <1>1, <2>4, <2>5
<1> QED BY <1>3, <1>4

LEMMA NoJobOK == ASSUME job' = NoJob PROVE JobOK'
<1>1. job'.kind = "none"
  BY DEF NoJob
<1> QED BY <1>1 DEF JobOK

LEMMA AnsweredTyped == ASSUME Typed, RowsAnswered PROVE Typed'
<1>1. UNCHANGED <<multi, browserVars, pane, preview, previewQ, gone, told, serverVars, fetchQ,
                  glance, tasks>>
  BY DEF RowsAnswered, UIVars, previewVars
<1>2. /\ fetchQ \in Seq(Requests) /\ Len(fetchQ) <= FetchCap
      /\ previewQ \in Seq([epoch : Nat, thread : Thread]) /\ Len(previewQ) <= PreviewCap
      /\ JobOK /\ (glance # NoJob => glance \in Glances)
  BY DEF Typed, WorkOK
<1>3. PICK e \in Events : RowsReport(e)
  BY AnsweredIs
<1>4. events' = Append(events, e) /\ (e.type = "rows" => Listable(e.rows))
      /\ e.type \notin Kinds \cup {"load"}
  BY <1>3 DEF RowsReport, Kinds
<1>5. JobOK'
  BY AnsweredIs, NoJobOK
<1> QED BY <1>1, <1>2, <1>3, <1>4, <1>5, WorkerTyped

\* The events of the other workers.
LEMMA LoadedIs ==
    ASSUME Typed, ThreadAnswered
    PROVE  /\ job' = NoJob /\ job.kind = "load"
           /\ \/ events' = events
              \/ \E e \in Events : /\ e.type = "load" /\ events' = Append(events, e)
                                   /\ e.ver <= ver[Home[e.thread]]
<1>1. job' = NoJob /\ job.kind = "load"
  BY DEF ThreadAnswered
<1>2. job.thread \in Thread
  BY <1>1 DEF Typed, WorkOK, JobOK
<1>3. ver[Home[job.thread]] \in Nat
  BY <1>2, BrowserAssumption DEF Typed, ServersOK
<1> DEFINE e == [type |-> "load", thread |-> job.thread, ver |-> ver[Home[job.thread]]]
<1>4. e \in Events /\ e.type = "load" /\ e.ver <= ver[Home[e.thread]]
  BY <1>2, <1>3 DEF Events, ChangeEvents
<1>5. events' = events \/ events' = Append(events, e)
  BY DEF ThreadAnswered
<1> HIDE DEF e
<1> QED BY <1>1, <1>4, <1>5

LEMMA LoadedTyped == ASSUME Typed, ThreadAnswered PROVE Typed'
<1>1. UNCHANGED <<multi, browserVars, pane, preview, previewQ, gone, told, serverVars, fetchQ,
                  glance, tasks>>
  BY DEF ThreadAnswered, UIVars, previewVars
<1>2. /\ fetchQ \in Seq(Requests) /\ Len(fetchQ) <= FetchCap
      /\ previewQ \in Seq([epoch : Nat, thread : Thread]) /\ Len(previewQ) <= PreviewCap
      /\ (glance # NoJob => glance \in Glances)
  BY DEF Typed, WorkOK
<1>3. JobOK'
  BY LoadedIs, NoJobOK
<1>4. \/ events' = events
      \/ \E e \in Events :
                /\ events' = Append(events, e)
                /\ e.type = "rows" => Listable(e.rows)
                /\ e.type \in Kinds \cup {"load"} =>
                     /\ e.ver <= ver[Home[e.thread]]
                     /\ e.type = "delete" => life[e.thread] = "gone"
  BY LoadedIs
<1> QED BY <1>1, <1>2, <1>3, <1>4, WorkerTyped

LEMMA GlanceIs ==
    ASSUME Typed, TakePreview
    PROVE  /\ previewQ # <<>> /\ previewQ' = <<>> /\ glance' \in Glances /\ glance' # NoJob
           /\ glance'.epoch = previewQ[Len(previewQ)].epoch
           /\ glance'.thread = previewQ[Len(previewQ)].thread
<1>1. previewQ \in Seq([epoch : Nat, thread : Thread]) /\ previewQ # <<>>
  BY DEF Typed, WorkOK, TakePreview
<1> DEFINE r == previewQ[Len(previewQ)]
<1>2. r \in [epoch : Nat, thread : Thread]
  BY <1>1, LastIs
<1>3. glance' = [kind |-> "preview", epoch |-> r.epoch, thread |-> r.thread] /\ previewQ' = <<>>
  BY DEF TakePreview
<1> HIDE DEF r
<1>4. /\ glance' \in Glances /\ glance'.kind = "preview" /\ glance'.epoch = r.epoch
      /\ glance'.thread = r.thread
  BY <1>2, <1>3 DEF Glances
<1>5. NoJob.kind = "none"
  BY DEF NoJob
<1> QED BY <1>1, <1>3, <1>4, <1>5 DEF r

LEMMA GlanceTyped == ASSUME Typed, TakePreview PROVE Typed'
<1>1. UNCHANGED <<multi, browserVars, pane, preview, gone, told, serverVars, fetchQ,
                  job, tasks, events>>
  BY DEF TakePreview
<1>2. /\ fetchQ \in Seq(Requests) /\ Len(fetchQ) <= FetchCap /\ JobOK /\ PreviewCap \in Nat
  BY BrowserAssumption DEF Typed, WorkOK
<1>3. JobOK'
  BY <1>1, <1>2 DEF JobOK, Servers
<1>4. previewQ' \in Seq([epoch : Nat, thread : Thread]) /\ Len(previewQ') <= PreviewCap
  BY <1>2, GlanceIs
<1> QED BY <1>1, <1>2, <1>3, <1>4, GlanceIs, WorkerTyped

LEMMA PreviewedIs ==
    ASSUME Typed, PreviewAnswered
    PROVE  /\ glance # NoJob /\ glance' = NoJob
           /\ \E e \in Events : /\ e.type \in {"preview", "previewFailed"}
                                /\ e.epoch = glance.epoch /\ e.thread = glance.thread
                                /\ events' = Append(events, e)
<1>1. glance # NoJob /\ glance' = NoJob
  BY DEF PreviewAnswered
<1>2. glance \in Glances
  BY <1>1 DEF Typed, WorkOK
<1>3. glance.epoch \in Nat /\ glance.thread \in Thread
  BY <1>2 DEF Glances
<1> DEFINE a == [type |-> "preview", epoch |-> glance.epoch,
                 thread |-> glance.thread, text |-> glance.thread \notin Silent]
           b == [type |-> "previewFailed", epoch |-> glance.epoch, thread |-> glance.thread]
<1>4. a \in Events /\ b \in Events
  BY <1>3 DEF Events, PreviewEvents
<1>5. /\ a.type = "preview" /\ a.epoch = glance.epoch /\ a.thread = glance.thread
      /\ b.type = "previewFailed" /\ b.epoch = glance.epoch /\ b.thread = glance.thread
  OBVIOUS
<1>6. events' = Append(events, a) \/ events' = Append(events, b)
  BY DEF PreviewAnswered
<1> HIDE DEF a, b
<1> QED BY <1>1, <1>4, <1>5, <1>6

LEMMA PreviewedTyped == ASSUME Typed, PreviewAnswered PROVE Typed'
<1>1. UNCHANGED <<multi, browserVars, pane, preview, previewQ, gone, told, serverVars, fetchQ,
                  job, tasks>>
  BY DEF PreviewAnswered, UIVars, previewVars
<1>2. /\ fetchQ \in Seq(Requests) /\ Len(fetchQ) <= FetchCap /\ JobOK
      /\ previewQ \in Seq([epoch : Nat, thread : Thread]) /\ Len(previewQ) <= PreviewCap
  BY DEF Typed, WorkOK
<1>3. JobOK'
  BY <1>1, <1>2 DEF JobOK, Servers
<1>4. \E e \in Events :
                /\ events' = Append(events, e)
                /\ e.type = "rows" => Listable(e.rows)
                /\ e.type \in Kinds \cup {"load"} =>
                     /\ e.ver <= ver[Home[e.thread]]
                     /\ e.type = "delete" => life[e.thread] = "gone"
  BY PreviewedIs DEF Kinds
<1>5. glance' = NoJob
  BY PreviewedIs
<1> QED BY <1>1, <1>2, <1>3, <1>4, <1>5, WorkerTyped

(***************************************************************************)
(* The types: the events.                                                  *)
(***************************************************************************)
LEMMA WithoutIs ==
    ASSUME NEW list \in Seq(Thread), Listable(list), NEW th
    PROVE  /\ Without(list, th) \in Seq(Thread) /\ Listable(Without(list, th))
           /\ \A i \in DOMAIN Without(list, th) :
                Without(list, th)[i] # th /\ \E j \in DOMAIN list : Without(list, th)[i] = list[j]
<1> DEFINE at == CHOOSE i \in DOMAIN list : list[i] = th
           pos(i) == IF i < at THEN i ELSE i + 1
           left == [i \in 1..(Len(list) - 1) |-> list[pos(i)]]
<1>1. CASE \E i \in DOMAIN list : list[i] = th
  <2>1. at \in DOMAIN list /\ list[at] = th
    BY <1>1
  <2>2. Without(list, th) = left
    BY <1>1 DEF Without
  <2>3. Len(list) \in Nat /\ DOMAIN list = 1..Len(list) /\ at \in 1..Len(list) /\ at \in Nat
    BY <2>1
  <2> HIDE DEF at
  <2>4. \A i \in 1..(Len(list) - 1) : pos(i) \in DOMAIN list /\ pos(i) # at
    BY <2>3
  <2>5. \A i, j \in 1..(Len(list) - 1) : pos(i) = pos(j) => i = j
    BY <2>3
  <2>6. \A i \in 1..(Len(list) - 1) : list[pos(i)] # th
    BY <2>1, <2>4 DEF Listable, Once
  <2> HIDE DEF pos
  <2>7. DOMAIN left = 1..(Len(list) - 1) /\ \A i \in 1..(Len(list) - 1) : left[i] = list[pos(i)]
    OBVIOUS
  <2>8. Len(list) - 1 \in Nat
    BY <2>3
  <2>9. left \in Seq(Thread)
    BY <2>4, <2>8
  <2>10. Listable(left)
    BY <2>4, <2>5, <2>7 DEF Listable, Once
  <2>11. \A i \in DOMAIN left : left[i] # th /\ \E j \in DOMAIN list : left[i] = list[j]
    BY <2>4, <2>6, <2>7
  <2> HIDE DEF left
  <2> QED BY <2>2, <2>9, <2>10, <2>11
<1>2. CASE ~\E i \in DOMAIN list : list[i] = th
  BY <1>2 DEF Without
<1> QED BY <1>1, <1>2

LEMMA SelectionIs ==
    ASSUME NEW list \in Seq(Thread), NEW i \in Nat, i >= 1
    PROVE  /\ Follow(list) \in 1..(IF list = <<>> THEN 1 ELSE Len(list))
           /\ Clamp(i, list) \in 1..(IF list = <<>> THEN 1 ELSE Len(list))
<1>1. Len(list) \in Nat /\ DOMAIN list = 1..Len(list) /\ (list # <<>> => Len(list) >= 1)
  OBVIOUS
<1>2. Clamp(i, list) \in 1..(IF list = <<>> THEN 1 ELSE Len(list))
  BY <1>1 DEF Clamp
<1> DEFINE at == {k \in DOMAIN list : list[k] = Selected}
<1>3. CASE at = {}
  <2>1. Follow(list) = 1
    BY <1>3 DEF Follow
  <2> QED BY <1>1, <1>2, <2>1
<1>4. CASE at # {}
  <2>1. Follow(list) = CHOOSE k \in at : TRUE
    BY <1>4 DEF Follow
  <2>2. Follow(list) \in at
    BY <1>4, <2>1
  <2>3. Follow(list) \in 1..Len(list) /\ list # <<>>
    BY <1>1, <2>2
  <2> QED BY <1>2, <2>3
<1> QED BY <1>3, <1>4

LEMMA EventFields ==
    ASSUME NEW e \in Events
    PROVE  /\ e.type \in Kinds \cup {"rows", "rowsFailed", "load", "preview", "previewFailed"}
           /\ e.type = "rows" => /\ e.epoch \in Nat /\ e.rows \in Seq(Thread)
                                 /\ e.next \in Nat /\ e.back \in Nat /\ e.warning \in BOOLEAN
                                 /\ e.source \in Sources
           /\ e.type = "rowsFailed" => e.epoch \in Nat
           /\ e.type \in Kinds \cup {"load"} => e.thread \in Thread /\ e.ver \in Nat
           /\ e.type \in {"preview", "previewFailed"} => e.epoch \in Nat /\ e.thread \in Thread
           /\ e.type = "preview" => e.text \in BOOLEAN
<1>1. CASE e \in RowEvents
  BY <1>1 DEF RowEvents, Kinds
<1>2. CASE e \in FailedEvents
  BY <1>2 DEF FailedEvents, Kinds
<1>3. CASE e \in ChangeEvents
  BY <1>3 DEF ChangeEvents, Kinds
<1>4. CASE e \in PreviewEvents
  BY <1>4 DEF PreviewEvents, Kinds
<1> QED BY <1>1, <1>2, <1>3, <1>4 DEF Events

\* The preview once an event was taken.
LEMMA PreviewAfterIs ==
    ASSUME Typed, NEW e \in Events
    PROVE  /\ PreviewAfter(e) \in Previews
           /\ PreviewAfter(e).thread = preview.thread \/ PreviewAfter(e).thread = None
           /\ PreviewAfter(e).loading =>
                /\ PreviewAfter(e) = preview
                /\ ~(e.type \in {"preview", "previewFailed"} /\ Answers(e))
           /\ e.type = "delete" => PreviewAfter(e).thread # e.thread
<1>1. preview \in Previews
  BY DEF Typed, ScreenOK
<1>2. preview.epoch \in Nat /\ preview.thread \in {None} \cup Thread /\ preview.loading \in BOOLEAN
      /\ preview.text \in BOOLEAN /\ preview.error \in BOOLEAN
  BY <1>1 DEF Previews
<1>3. CASE e.type = "preview" /\ Answers(e)
  <2>1. PreviewAfter(e) = [preview EXCEPT !.loading = FALSE, !.text = preview.text \/ e.text, !.error = FALSE]
    BY <1>3 DEF PreviewAfter
  <2>2. e.text \in BOOLEAN
    BY <1>3, EventFields
  <2>3. preview.text \/ e.text \in BOOLEAN
    BY <1>2, <2>2
  <2>4. PreviewAfter(e) \in Previews /\ PreviewAfter(e).thread = preview.thread
        /\ PreviewAfter(e).loading = FALSE
    BY <1>1, <1>2, <2>1, <2>3 DEF Previews
  <2> QED BY <1>3, <2>4
<1>4. CASE e.type = "previewFailed" /\ Answers(e)
  <2>1. PreviewAfter(e) = [preview EXCEPT !.loading = FALSE, !.error = TRUE]
    BY <1>4 DEF PreviewAfter
  <2>2. PreviewAfter(e) \in Previews /\ PreviewAfter(e).thread = preview.thread
        /\ PreviewAfter(e).loading = FALSE
    BY <1>1, <1>2, <2>1 DEF Previews
  <2> QED BY <1>4, <2>2
<1>5. CASE ~(e.type \in {"preview", "previewFailed"} /\ Answers(e))
  <2>1. PreviewAfter(e) = Forget(e)
    BY <1>5 DEF PreviewAfter
  <2>2. CASE e.type \in {"delete", "load"} /\ preview.thread = e.thread
    <3>1. PreviewAfter(e) = NoPreview
      BY <2>1, <2>2 DEF Forget
    <3>2. NoPreview.thread = None /\ NoPreview.loading = FALSE
      BY DEF NoPreview
    <3>3. e.thread \in Thread /\ None \notin Thread
      BY <2>2, EventFields, BrowserAssumption DEF Kinds, None
    <3> QED BY <3>1, <3>2, <3>3, NothingPreviewed
  <2>3. CASE ~(e.type \in {"delete", "load"} /\ preview.thread = e.thread)
    <3>1. PreviewAfter(e) = preview
      BY <2>1, <2>3 DEF Forget
    <3> QED BY <1>1, <1>5, <2>3, <3>1
  <2> QED BY <2>2, <2>3
<1> QED BY <1>3, <1>4, <1>5

\* The event that is taken, and those that are left.
LEMMA HandledIs ==
    ASSUME Typed, HandleEvent
    PROVE  /\ events \in Seq(Events) /\ events # <<>> /\ 1 \in DOMAIN events
           /\ Head(events) = events[1] /\ events[1] \in Events
           /\ events' \in Seq(Events)
           /\ \A i \in DOMAIN events' : i + 1 \in DOMAIN events /\ events'[i] = events[i + 1]
           /\ \A j \in DOMAIN events : j = 1 \/ (j - 1 \in DOMAIN events' /\ events[j] = events'[j - 1])
           /\ UNCHANGED <<multi, job, glance, tasks, life, ver, pane>>
           /\ Preview(PreviewAfter(events[1]))
<1>1. events \in Seq(Events)
  BY DEF Typed, WorkOK
<1>2. events # <<>> /\ events' = Tail(events) /\ UNCHANGED <<multi, job, glance, tasks, life, ver, pane>>
      /\ Preview(PreviewAfter(Head(events)))
  BY DEF HandleEvent, serverVars
<1>3. /\ Tail(events) \in Seq(Events) /\ Len(Tail(events)) = Len(events) - 1
      /\ 1 \in DOMAIN events /\ events[1] = Head(events) /\ Head(events) \in Events
      /\ \A i \in DOMAIN Tail(events) : i + 1 \in DOMAIN events /\ Tail(events)[i] = events[i + 1]
      /\ \A j \in DOMAIN events : j = 1 \/ (j - 1 \in DOMAIN Tail(events) /\ events[j] = Tail(events)[j - 1])
  BY <1>1, <1>2, TailIs
<1> QED BY <1>1, <1>2, <1>3

\* What it does to the screen: new rows, nothing but the wait, or a change.
NewRows(e) ==
    /\ e.type = "rows" /\ e.epoch = epoch
    /\ rows' = e.rows /\ selected' = Follow(e.rows)
    /\ cursors' = [cursors EXCEPT !.next = e.next, !.back = e.back]
    /\ loading' = FALSE /\ error' = e.warning /\ source' = e.source
    /\ UNCHANGED <<view, epoch, mode, fetchQ, told, gone>>

SameRows(e) ==
    /\ e.type \in {"rows", "rowsFailed", "preview", "previewFailed"}
    /\ e.type = "rows" => e.epoch # epoch
    /\ \/ UNCHANGED <<loading, error>>
          /\ (e.type = "rowsFailed" => e.epoch # epoch)
       \/ loading' = FALSE /\ error' = TRUE
    /\ UNCHANGED <<rows, selected, cursors, source, view, epoch, mode, fetchQ, told, gone>>

ChangedRows(e) ==
    /\ e.type \in Kinds \cup {"load"}
    /\ rows' = rows \/ rows' = Without(rows, e.thread)
    /\ e.type = "delete" => rows' = Without(rows, e.thread)
    /\ selected' = Clamp(selected, rows')
    /\ PageAsked(view, cursors.current)
    /\ told' = [told EXCEPT ![Home[e.thread]] = IF e.ver > @ THEN e.ver ELSE @]
    /\ gone' = IF e.type = "delete" THEN gone \cup {e.thread} ELSE gone
    /\ mode' = mode

LEMMA EffectIs ==
    ASSUME Typed, HandleEvent
    PROVE  NewRows(events[1]) \/ SameRows(events[1]) \/ ChangedRows(events[1])
<1> DEFINE e == events[1]
<1>0. e \in Events /\ Head(events) = e
  BY HandledIs
<1>1. \/ e.type = "rows" /\ SetRows(e) /\ UNCHANGED <<told, gone>>
      \/ e.type = "rowsFailed" /\ SetError(e) /\ UNCHANGED <<told, gone>>
      \/ e.type \in {"archive", "unarchive", "delete", "rename", "load"} /\ ApplyChange(e)
      \/ e.type \in {"preview", "previewFailed"} /\ UNCHANGED <<browserVars, fetchQ, told, gone>>
  BY <1>0 DEF HandleEvent
<1>2. view \in Views /\ cursors.current \in Nat
  BY DEF Typed, ScreenOK, Cursors
<1> HIDE DEF e
<1>3. CASE e.type = "rows" /\ SetRows(e) /\ UNCHANGED <<told, gone>>
  <2>1. CASE e.epoch = epoch
    BY <1>3, <2>1 DEF SetRows, Current, NewRows, e
  <2>2. CASE e.epoch # epoch
    <3>1. UNCHANGED <<browserVars, fetchQ>>
      BY <1>3, <2>2 DEF SetRows, Current
    <3>2. SameRows(e)
      BY <1>3, <2>2, <3>1 DEF SameRows, browserVars
    <3> QED BY <3>2 DEF e
  <2> QED BY <2>1, <2>2
<1>4. CASE e.type = "rowsFailed" /\ SetError(e) /\ UNCHANGED <<told, gone>>
  <2>1. SameRows(e)
    BY <1>4 DEF SetError, Current, SameRows
  <2> QED BY <2>1 DEF e
<1>5. CASE e.type \in {"archive", "unarchive", "delete", "rename", "load"} /\ ApplyChange(e)
  <2>1. PageAsked(view, cursors.current)
    BY <1>2, <1>5, ScheduleIs DEF ApplyChange, AfterChange, Refresh
  <2>2. ChangedRows(e)
    BY <1>5, <2>1 DEF ApplyChange, ChangedRows, Leaves, Kinds
  <2> QED BY <2>2 DEF e
<1>6. CASE e.type \in {"preview", "previewFailed"} /\ UNCHANGED <<browserVars, fetchQ, told, gone>>
  <2>1. SameRows(e)
    BY <1>6 DEF SameRows, browserVars
  <2> QED BY <2>1 DEF e
<1> QED BY <1>1, <1>3, <1>4, <1>5, <1>6

LEMMA EventTyped == ASSUME Typed, HandleEvent PROVE Typed' /\ PreviewAsked(PreviewAfter(events[1]))
<1> DEFINE e == events[1]
<1>0. /\ e \in Events /\ 1 \in DOMAIN events
      /\ UNCHANGED <<multi, job, glance, tasks, life, ver, pane>>
      /\ Preview(PreviewAfter(e))
      /\ events' \in Seq(Events)
      /\ \A i \in DOMAIN events' : i + 1 \in DOMAIN events /\ events'[i] = events[i + 1]
  BY HandledIs
<1>1. NewRows(e) \/ SameRows(e) \/ ChangedRows(e)
  BY EffectIs
<1>2. /\ rows \in Seq(Thread) /\ Listable(rows) /\ view \in Views /\ cursors \in Cursors
      /\ epoch \in Nat /\ loading \in BOOLEAN /\ error \in BOOLEAN
      /\ selected \in 1..(IF rows = <<>> THEN 1 ELSE Len(rows)) /\ selected \in Nat /\ selected >= 1
      /\ source \in Sources /\ gone \subseteq Thread
      /\ fetchQ \in Seq(Requests) /\ Len(fetchQ) <= FetchCap
  BY DEF Typed, ScreenOK, WorkOK
<1>3. /\ e.type = "rows" => /\ Listable(e.rows) /\ e.rows \in Seq(Thread)
                            /\ e.next \in Nat /\ e.back \in Nat /\ e.warning \in BOOLEAN
                            /\ e.source \in Sources
      /\ e.type \in Kinds \cup {"load"} =>
           /\ e.thread \in Thread /\ e.ver \in Nat /\ e.ver <= ver[Home[e.thread]]
           /\ e.type = "delete" => life[e.thread] = "gone"
  BY <1>0, EventFields DEF Typed, WorkOK, ServersOK
<1> HIDE DEF e
<1>4. /\ rows' \in Seq(Thread) /\ Listable(rows')
      /\ selected' \in 1..(IF rows' = <<>> THEN 1 ELSE Len(rows'))
      /\ view' \in Views /\ cursors' \in Cursors /\ epoch' \in Nat
      /\ loading' \in BOOLEAN /\ error' \in BOOLEAN /\ source' \in Sources
      /\ fetchQ' \in Seq(Requests) /\ Len(fetchQ') <= FetchCap /\ gone' \subseteq Thread /\ mode' = mode
  <2>1. CASE NewRows(e)
    <3>1. rows' \in Seq(Thread) /\ Listable(rows')
      BY <1>3, <2>1 DEF NewRows, Listable
    <3>2. selected' \in 1..(IF rows' = <<>> THEN 1 ELSE Len(rows'))
      BY <1>2, <1>3, <2>1, SelectionIs DEF NewRows
    <3>3. cursors' \in Cursors
      BY <1>2, <1>3, <2>1 DEF NewRows, Cursors
    <3> QED BY <1>2, <1>3, <2>1, <3>1, <3>2, <3>3 DEF NewRows
  <2>2. CASE SameRows(e)
    <3>1. Listable(rows')
      BY <1>2, <2>2 DEF SameRows, Listable
    <3> QED BY <1>2, <2>2, <3>1 DEF SameRows
  <2>3. CASE ChangedRows(e)
    <3>1. rows' \in Seq(Thread) /\ Listable(rows')
      <4>1. CASE rows' = rows
        BY <1>2, <4>1 DEF Listable
      <4>2. CASE rows' = Without(rows, e.thread)
        BY <1>2, <4>2, WithoutIs DEF Listable
      <4> QED BY <2>3, <4>1, <4>2 DEF ChangedRows
    <3>2. selected' \in 1..(IF rows' = <<>> THEN 1 ELSE Len(rows'))
      BY <1>2, <2>3, <3>1, SelectionIs DEF ChangedRows
    <3>3. gone' \subseteq Thread /\ mode' = mode
      BY <1>2, <1>3, <2>3 DEF ChangedRows, Kinds
    <3>4. PageAsked(view, cursors.current)
      BY <2>3 DEF ChangedRows
    <3> QED BY <1>2, <3>1, <3>2, <3>3, <3>4 DEF PageAsked
  <2> QED BY <1>1, <2>1, <2>2, <2>3
<1>5. PreviewAfter(e) \in Previews
  BY <1>0, PreviewAfterIs
<1>6. PreviewAsked(PreviewAfter(e))
  BY <1>0, <1>4, <1>5, PreviewIs
<1>7. Servers' = Servers /\ Here' = Here
  BY <1>0 DEF Servers, Here
<1>8. Once(rows') /\ \A i \in DOMAIN rows' : rows'[i] \in Here'
  BY <1>4, <1>7 DEF Listable
<1>9. ScreenOK'
  BY <1>0, <1>4, <1>6, <1>8 DEF ScreenOK, Typed, PreviewAsked, Listable
<1>10. \A i \in DOMAIN events' : events'[i].type = "rows" =>
         Once(events'[i].rows) /\ \A k \in DOMAIN events'[i].rows : events'[i].rows[k] \in Here'
  <2>1. \A i \in DOMAIN events : events[i].type = "rows" => Listable(events[i].rows)
    BY DEF Typed, WorkOK
  <2> QED BY <1>0, <1>7, <2>1 DEF Listable
<1>11. JobOK'
  BY <1>0, <1>7 DEF Typed, WorkOK, JobOK
<1>12. WorkOK'
  BY <1>0, <1>4, <1>6, <1>10, <1>11 DEF WorkOK, Typed, PreviewAsked, Listable
<1>13. ServersOK'
  <2>1. /\ ver \in [Server -> Nat] /\ told \in [Server -> Nat] /\ Home \in [Thread -> Server]
        /\ ServersOK /\ \A s \in Server : told[s] <= ver[s]
    BY BrowserAssumption DEF Typed, ServersOK
  <2>2. \A i \in DOMAIN events' : events'[i].type \in Kinds \cup {"load"} =>
         /\ events'[i].ver <= ver[Home[events'[i].thread]]
         /\ events'[i].type = "delete" => life[events'[i].thread] = "gone"
    <3>1. \A j \in DOMAIN events : events[j].type \in Kinds \cup {"load"} =>
            /\ events[j].ver <= ver[Home[events[j].thread]]
            /\ events[j].type = "delete" => life[events[j].thread] = "gone"
      BY <2>1 DEF ServersOK
    <3> TAKE i \in DOMAIN events'
    <3>2. i + 1 \in DOMAIN events /\ events'[i] = events[i + 1]
      BY <1>0
    <3> QED BY <3>1, <3>2
  <2>3. told' \in [Server -> Nat] /\ (\A s \in Server : told'[s] <= ver[s])
        /\ \A th \in gone' : life[th] = "gone"
    <3>1. CASE UNCHANGED <<told, gone>>
      BY <2>1, <3>1 DEF ServersOK, Typed
    <3>2. CASE ChangedRows(e)
      <4>1. /\ told' = [told EXCEPT ![Home[e.thread]] = IF e.ver > told[Home[e.thread]] THEN e.ver ELSE told[Home[e.thread]]]
            /\ gone' = IF e.type = "delete" THEN gone \cup {e.thread} ELSE gone
            /\ e.type \in Kinds \cup {"load"}
        BY <3>2 DEF ChangedRows
      <4>2. Home[e.thread] \in Server /\ e.ver \in Nat /\ e.ver <= ver[Home[e.thread]]
        BY <1>3, <2>1, <4>1
      <4>3. told' \in [Server -> Nat] /\ \A s \in Server : told'[s] <= ver[s]
        <5> DEFINE s0 == Home[e.thread]
                   n == IF e.ver > told[s0] THEN e.ver ELSE told[s0]
        <5>1. s0 \in Server /\ told[s0] \in Nat /\ told[s0] <= ver[s0] /\ e.ver <= ver[s0]
          BY <2>1, <4>2
        <5>2. n \in Nat /\ n <= ver[s0]
          BY <4>2, <5>1
        <5>3. told' = [told EXCEPT ![s0] = n]
          BY <4>1
        <5> HIDE DEF n, s0
        <5> QED BY <2>1, <5>1, <5>2, <5>3
      <4>4. \A th \in gone' : life[th] = "gone"
        BY <1>3, <2>1, <4>1 DEF ServersOK
      <4> QED BY <4>3, <4>4
    <3> QED BY <1>1, <3>1, <3>2 DEF NewRows, SameRows
  <2> QED BY <1>0, <2>1, <2>2, <2>3 DEF ServersOK
<1> QED BY <1>6, <1>9, <1>12, <1>13 DEF Typed, e

(***************************************************************************)
(* The pages.                                                              *)
(***************************************************************************)
PagesInv == QueueCurrent /\ JobCurrent /\ EventsCurrent /\ RowsAreCurrent /\ RowsWait

\* A request makes everything that is under way old.
LEMMA AskedCurrent ==
    ASSUME Typed, PagesInv, NEW v \in Views, NEW c \in Nat, PageAsked(v, c),
           job' = job, multi' = multi,
           \A i \in DOMAIN events' : \E j \in DOMAIN events : events'[i] = events[j]
    PROVE  PagesInv'
<1>0. epoch \in Nat /\ epoch' = epoch + 1 /\ view' = v /\ cursors'.current = c
  BY DEF Typed, ScreenOK, PageAsked
<1>1. ASSUME NEW i \in DOMAIN fetchQ', fetchQ'[i].kind = "rows"
      PROVE  /\ fetchQ'[i].epoch <= epoch'
             /\ fetchQ'[i].epoch = epoch' => fetchQ'[i].view = view' /\ fetchQ'[i].cursor = cursors'.current
  <2>1. CASE i \in DOMAIN fetchQ /\ fetchQ'[i] = fetchQ[i]
    <3>1. fetchQ[i] \in Requests /\ fetchQ[i].epoch <= epoch
      BY <1>1, <2>1 DEF PagesInv, QueueCurrent, Typed, WorkOK
    <3>2. fetchQ[i].epoch \in Nat
      BY <1>1, <2>1, <3>1 DEF Requests
    <3> QED BY <1>0, <2>1, <3>1, <3>2
  <2>2. CASE /\ fetchQ'[i].kind = "rows" /\ fetchQ'[i].epoch = epoch'
             /\ fetchQ'[i].view = v /\ fetchQ'[i].cursor = c
    BY <1>0, <2>2
  <2> QED BY <2>1, <2>2 DEF PageAsked
<1>2. QueueCurrent'
  BY <1>1 DEF QueueCurrent
<1>3. JobCurrent'
  <2>1. job.kind = "rows" => job.epoch <= epoch /\ job.epoch \in Nat
    BY DEF PagesInv, JobCurrent, Typed, WorkOK, JobOK
  <2>2. job.kind = "rows" => job.epoch <= epoch' /\ job.epoch # epoch'
    BY <1>0, <2>1
  <2> QED BY <2>2 DEF JobCurrent
<1>4. EventsCurrent'
  <2> SUFFICES ASSUME NEW i \in DOMAIN events' PROVE EventCurrent(events[i])'
    BY DEF EventsCurrent
  <2>1. PICK j \in DOMAIN events : events'[i] = events[j]
    OBVIOUS
  <2>2. events[j] \in Events /\ EventCurrent(events[j])
    BY DEF Typed, WorkOK, PagesInv, EventsCurrent
  <2>3. events[j].type = "rows" => events[j].epoch <= epoch /\ events[j].epoch \in Nat
    BY <2>2, EventFields DEF EventCurrent
  <2>4. events[j].type = "rows" => events[j].epoch <= epoch' /\ events[j].epoch # epoch'
    BY <1>0, <2>3
  <2> QED BY <2>1, <2>4 DEF EventCurrent
<1>5. RowsAreCurrent'
  BY DEF RowsAreCurrent, PageAsked
<1>6. RowsWait'
  BY DEF RowsWait, PageAsked
<1> QED BY <1>2, <1>3, <1>4, <1>5, <1>6 DEF PagesInv

\* A step that asks for no page, and reports none.
LEMMA StillCurrent ==
    ASSUME Typed, PagesInv,
           UNCHANGED <<multi, view, epoch, loading, error, cursors, source, told, gone>>,
           fetchQ' = fetchQ \/ \E r \in Requests : r.kind = "load" /\ fetchQ' = Append(fetchQ, r),
           job' = job \/ (job.kind # "rows" /\ job'.kind # "rows"),
           events' = events \/ \E e \in Events :
               e.type \notin {"rows", "rowsFailed"} /\ events' = Append(events, e)
    PROVE  PagesInv'
<1>0. Servers' = Servers
  BY DEF Servers
<1>1. /\ \A i \in DOMAIN fetchQ : i \in DOMAIN fetchQ' /\ fetchQ'[i] = fetchQ[i]
      /\ \A i \in DOMAIN fetchQ' : (i \in DOMAIN fetchQ /\ fetchQ'[i] = fetchQ[i]) \/ fetchQ'[i].kind = "load"
  <2>1. ASSUME NEW r \in Requests, r.kind = "load", fetchQ' = Append(fetchQ, r)
        PROVE  /\ \A i \in DOMAIN fetchQ : i \in DOMAIN fetchQ' /\ fetchQ'[i] = fetchQ[i]
               /\ \A i \in DOMAIN fetchQ' :
                    (i \in DOMAIN fetchQ /\ fetchQ'[i] = fetchQ[i]) \/ fetchQ'[i].kind = "load"
    <3>1. fetchQ \in Seq(Requests)
      BY DEF Typed, WorkOK
    <3> QED BY <2>1, <3>1, AppendIs
  <2> QED BY <2>1
<1>2. /\ \A i \in DOMAIN events : i \in DOMAIN events' /\ events'[i] = events[i]
      /\ \A i \in DOMAIN events' : \/ i \in DOMAIN events /\ events'[i] = events[i]
                                   \/ events'[i].type \notin {"rows", "rowsFailed"}
  <2>1. ASSUME NEW e \in Events, e.type \notin {"rows", "rowsFailed"}, events' = Append(events, e)
        PROVE  /\ \A i \in DOMAIN events : i \in DOMAIN events' /\ events'[i] = events[i]
               /\ \A i \in DOMAIN events' : \/ i \in DOMAIN events /\ events'[i] = events[i]
                                            \/ events'[i].type \notin {"rows", "rowsFailed"}
    BY <2>1, Posted
  <2> QED BY <2>1
<1>3. QueueCurrent'
  BY <1>1 DEF PagesInv, QueueCurrent
<1>4. JobCurrent'
  BY DEF PagesInv, JobCurrent
<1>5. EventsCurrent'
  <2> SUFFICES ASSUME NEW i \in DOMAIN events' PROVE EventCurrent(events[i])'
    BY DEF EventsCurrent
  <2>1. CASE i \in DOMAIN events /\ events'[i] = events[i]
    <3>1. EventCurrent(events[i])
      BY <2>1 DEF PagesInv, EventsCurrent
    <3> QED BY <1>0, <2>1, <3>1 DEF EventCurrent
  <2>2. CASE events'[i].type \notin {"rows", "rowsFailed"}
    BY <2>2 DEF EventCurrent
  <2> QED BY <1>2, <2>1, <2>2
<1>6. RowsAreCurrent'
  BY <1>0 DEF PagesInv, RowsAreCurrent
<1>7. RowsWait'
  <2> SUFFICES ASSUME loading
               PROVE  \/ \E i \in DOMAIN fetchQ' : fetchQ'[i].kind = "rows" /\ fetchQ'[i].epoch = epoch'
                      \/ job'.kind = "rows" /\ job'.epoch = epoch'
                      \/ \E i \in DOMAIN events' :
                           events'[i].type \in {"rows", "rowsFailed"} /\ events'[i].epoch = epoch'
    BY DEF RowsWait, EventsOf
  <2>1. \/ \E i \in DOMAIN fetchQ : fetchQ[i].kind = "rows" /\ fetchQ[i].epoch = epoch
        \/ job.kind = "rows" /\ job.epoch = epoch
        \/ \E i \in DOMAIN events : events[i].type \in {"rows", "rowsFailed"} /\ events[i].epoch = epoch
    BY DEF PagesInv, RowsWait, EventsOf
  <2> QED BY <1>1, <1>2, <2>1
<1> QED BY <1>3, <1>4, <1>5, <1>6, <1>7 DEF PagesInv

LEMMA TakeCurrent == ASSUME Typed, PagesInv, TakeJob PROVE PagesInv'
<1>0. /\ UNCHANGED <<multi, view, epoch, loading, error, cursors, source, told, gone, events>>
      /\ job = NoJob
  BY DEF TakeJob, UIVars, browserVars
<1>1. /\ fetchQ[1] \in Requests /\ 1 \in DOMAIN fetchQ
      /\ \A i \in DOMAIN fetchQ' : i + 1 \in DOMAIN fetchQ /\ fetchQ'[i] = fetchQ[i + 1]
      /\ \A j \in DOMAIN fetchQ : j = 1 \/ (j - 1 \in DOMAIN fetchQ' /\ fetchQ[j] = fetchQ'[j - 1])
      /\ fetchQ[1].kind = "rows" => job' = PageJob(fetchQ[1], <<>>)
      /\ fetchQ[1].kind = "load" => job' = fetchQ[1]
  BY TakenIs
<1>2. Servers' = Servers /\ job.kind = "none"
  BY <1>0 DEF Servers, NoJob
<1>3. /\ fetchQ[1].kind = "rows" => /\ job'.kind = "rows" /\ job'.epoch = fetchQ[1].epoch
                                    /\ job'.view = fetchQ[1].view /\ job'.cursor = fetchQ[1].cursor
                                    /\ DOMAIN job'.got = {}
      /\ fetchQ[1].kind # "rows" => job'.kind = "load"
  BY <1>1, NoAnswers DEF PageJob, Requests
<1>4. QueueCurrent'
  BY <1>0, <1>1 DEF PagesInv, QueueCurrent
<1>5. JobCurrent'
  BY <1>0, <1>1, <1>3 DEF PagesInv, QueueCurrent, JobCurrent
<1>6. EventsCurrent'
  BY <1>0, <1>2 DEF PagesInv, EventsCurrent, EventCurrent
<1>7. RowsAreCurrent'
  BY <1>0, <1>2 DEF PagesInv, RowsAreCurrent
<1>8. RowsWait'
  <2> SUFFICES ASSUME loading
               PROVE  \/ \E i \in DOMAIN fetchQ' : fetchQ'[i].kind = "rows" /\ fetchQ'[i].epoch = epoch
                      \/ job'.kind = "rows" /\ job'.epoch = epoch
                      \/ \E i \in DOMAIN events :
                           events[i].type \in {"rows", "rowsFailed"} /\ events[i].epoch = epoch
    BY <1>0 DEF RowsWait, EventsOf
  <2>1. \/ \E i \in DOMAIN fetchQ : fetchQ[i].kind = "rows" /\ fetchQ[i].epoch = epoch
        \/ \E i \in DOMAIN events : events[i].type \in {"rows", "rowsFailed"} /\ events[i].epoch = epoch
    BY <1>2 DEF PagesInv, RowsWait, EventsOf
  <2>2. ASSUME NEW i \in DOMAIN fetchQ, fetchQ[i].kind = "rows", fetchQ[i].epoch = epoch
        PROVE  \/ \E k \in DOMAIN fetchQ' : fetchQ'[k].kind = "rows" /\ fetchQ'[k].epoch = epoch
               \/ job'.kind = "rows" /\ job'.epoch = epoch
    BY <1>1, <1>3, <2>2
  <2> QED BY <2>1, <2>2
<1> QED BY <1>4, <1>5, <1>6, <1>7, <1>8 DEF PagesInv

LEMMA ReadCurrent == ASSUME Typed, PagesInv, NEW s \in Server, ReadServer(s) PROVE PagesInv'
<1>0. UNCHANGED <<multi, view, epoch, loading, error, cursors, source, told, gone, events, fetchQ>>
  BY DEF ReadServer, UIVars, browserVars
<1>1. /\ job.kind = "rows" /\ job'.kind = "rows"
      /\ job'.epoch = job.epoch /\ job'.view = job.view /\ job'.cursor = job.cursor
      /\ DOMAIN job'.got = DOMAIN job.got \cup {s}
      /\ \A x \in DOMAIN job.got : x # s => job'.got[x] = job.got[x]
      /\ job'.got[s].ok => job'.got[s].ver = ver[s] /\ job'.got[s].rows \cap gone = {}
  BY ReadIs
<1>2. Servers' = Servers
  BY <1>0 DEF Servers
<1>3. told[s] <= ver[s] /\ ver[s] \in Nat /\ told[s] \in Nat
  BY DEF Typed, ServersOK
<1>4. JobCurrent'
  <2>1. job.epoch <= epoch
    BY <1>1 DEF PagesInv, JobCurrent
  <2>2. ASSUME job.epoch = epoch
        PROVE  /\ job.view = view /\ job.cursor = cursors.current
               /\ \A x \in DOMAIN job'.got : job'.got[x].ok =>
                    job'.got[x].ver >= told[x] /\ job'.got[x].rows \cap gone = {}
    <3>1. /\ job.view = view /\ job.cursor = cursors.current
          /\ \A x \in DOMAIN job.got : job.got[x].ok =>
               job.got[x].ver >= told[x] /\ job.got[x].rows \cap gone = {}
      BY <1>1, <2>2 DEF PagesInv, JobCurrent
    <3>2. job'.got[s].ok => job'.got[s].ver >= told[s] /\ job'.got[s].rows \cap gone = {}
      BY <1>1, <1>3
    <3> QED BY <1>1, <3>1, <3>2
  <2> QED BY <1>0, <1>1, <2>1, <2>2 DEF JobCurrent
<1>5. QueueCurrent' /\ EventsCurrent' /\ RowsAreCurrent'
  BY <1>0, <1>2 DEF PagesInv, QueueCurrent, EventsCurrent, EventCurrent, RowsAreCurrent
<1>6. RowsWait'
  BY <1>0, <1>1 DEF PagesInv, RowsWait, EventsOf
<1> QED BY <1>4, <1>5, <1>6 DEF PagesInv

LEMMA AnsweredCurrent == ASSUME Typed, PagesInv, RowsAnswered PROVE PagesInv'
<1>0. UNCHANGED <<multi, view, epoch, loading, error, cursors, source, told, gone, fetchQ>>
  BY DEF RowsAnswered, UIVars, browserVars
<1>1. Servers' = Servers
  BY <1>0 DEF Servers
<1>2. job.kind = "rows" /\ DOMAIN job.got = Servers /\ job'.kind = "none"
  BY AnsweredIs DEF NoJob
<1>3. PICK e \in Events : RowsReport(e)
  BY AnsweredIs
<1>4. /\ \A i \in DOMAIN events : i \in DOMAIN events' /\ events'[i] = events[i]
      /\ \A i \in DOMAIN events' : (i \in DOMAIN events /\ events'[i] = events[i]) \/ events'[i] = e
      /\ \E i \in DOMAIN events' : events'[i] = e
  BY <1>3, Posted DEF RowsReport
<1>5. EventCurrent(e)
  <2> SUFFICES ASSUME e.type = "rows"
               PROVE  /\ e.epoch <= epoch
                      /\ e.epoch = epoch =>
                         /\ e.source.view = view /\ e.source.cursor = cursors.current
                         /\ \A i \in DOMAIN e.rows : e.rows[i] \notin gone
                         /\ ~e.warning => \A s \in Servers : e.source.vers[s] >= told[s]
    BY DEF EventCurrent
  <2>1. /\ e.epoch = job.epoch /\ e.source.view = job.view /\ e.source.cursor = job.cursor
        /\ \A i \in DOMAIN e.rows : \E s \in Servers : job.got[s].ok /\ e.rows[i] \in job.got[s].rows
        /\ ~e.warning => \A s \in Servers : job.got[s].ok /\ e.source.vers[s] = job.got[s].ver
    BY <1>3 DEF RowsReport
  <2>2. /\ job.epoch <= epoch
        /\ job.epoch = epoch =>
             /\ job.view = view /\ job.cursor = cursors.current
             /\ \A s \in Servers : job.got[s].ok =>
                  job.got[s].ver >= told[s] /\ job.got[s].rows \cap gone = {}
    BY <1>2 DEF PagesInv, JobCurrent
  <2> QED BY <2>1, <2>2
<1>6. EventsCurrent'
  <2> SUFFICES ASSUME NEW i \in DOMAIN events' PROVE EventCurrent(events[i])'
    BY DEF EventsCurrent
  <2>1. \E x : events'[i] = x /\ EventCurrent(x)
    BY <1>4, <1>5 DEF PagesInv, EventsCurrent
  <2> QED BY <1>0, <1>1, <2>1 DEF EventCurrent
<1>7. QueueCurrent' /\ RowsAreCurrent' /\ JobCurrent'
  BY <1>0, <1>1, <1>2 DEF PagesInv, QueueCurrent, JobCurrent, RowsAreCurrent
<1>8. RowsWait'
  <2>1. e.type \in {"rows", "rowsFailed"} /\ e.epoch = job.epoch
    BY <1>3 DEF RowsReport
  <2> SUFFICES ASSUME loading
               PROVE  \/ \E i \in DOMAIN fetchQ : fetchQ[i].kind = "rows" /\ fetchQ[i].epoch = epoch
                      \/ \E i \in DOMAIN events' :
                           events'[i].type \in {"rows", "rowsFailed"} /\ events'[i].epoch = epoch
    BY <1>0 DEF RowsWait, EventsOf
  <2>2. \/ \E i \in DOMAIN fetchQ : fetchQ[i].kind = "rows" /\ fetchQ[i].epoch = epoch
        \/ job.epoch = epoch
        \/ \E i \in DOMAIN events : events[i].type \in {"rows", "rowsFailed"} /\ events[i].epoch = epoch
    BY DEF PagesInv, RowsWait, EventsOf
  <2> QED BY <1>4, <2>1, <2>2
<1> QED BY <1>6, <1>7, <1>8 DEF PagesInv

LEMMA EventPages == ASSUME Typed, PagesInv, HandleEvent PROVE PagesInv'
<1> DEFINE e == events[1]
<1>0. /\ e \in Events /\ 1 \in DOMAIN events
      /\ multi' = multi /\ job' = job
      /\ \A i \in DOMAIN events' : i + 1 \in DOMAIN events /\ events'[i] = events[i + 1]
      /\ \A j \in DOMAIN events : j = 1 \/ (j - 1 \in DOMAIN events' /\ events[j] = events'[j - 1])
  BY HandledIs
<1>1. Servers' = Servers
  BY <1>0 DEF Servers
<1>2. \A i \in DOMAIN events' : \E j \in DOMAIN events : events'[i] = events[j]
  BY <1>0
<1>3. EventCurrent(e)
  BY <1>0 DEF PagesInv, EventsCurrent
<1>4. NewRows(e) \/ SameRows(e) \/ ChangedRows(e)
  BY EffectIs
<1> HIDE DEF e
<1>5. CASE ChangedRows(e)
  <2>1. PageAsked(view, cursors.current)
    BY <1>5 DEF ChangedRows
  <2>2. view \in Views /\ cursors.current \in Nat
    BY DEF Typed, ScreenOK, Cursors
  <2> QED BY <1>0, <1>2, <2>1, <2>2, AskedCurrent
<1>6. CASE NewRows(e) \/ SameRows(e)
  <2>0. UNCHANGED <<view, epoch, told, gone, fetchQ>> /\ cursors'.current = cursors.current
    <3>1. cursors \in Cursors
      BY DEF Typed, ScreenOK
    <3> QED BY <1>6, <3>1 DEF NewRows, SameRows, Cursors
  <2>1. QueueCurrent' /\ JobCurrent'
    BY <1>0, <2>0 DEF PagesInv, QueueCurrent, JobCurrent
  <2>2. EventsCurrent'
    <3> SUFFICES ASSUME NEW i \in DOMAIN events' PROVE EventCurrent(events[i])'
      BY DEF EventsCurrent
    <3>1. \E x : events'[i] = x /\ EventCurrent(x)
      BY <1>2 DEF PagesInv, EventsCurrent
    <3> QED BY <1>1, <2>0, <3>1 DEF EventCurrent
  <2>3. RowsAreCurrent'
    <3>1. CASE NewRows(e)
      <4>1. source' = e.source /\ error' = e.warning /\ e.type = "rows" /\ e.epoch = epoch
        BY <3>1 DEF NewRows
      <4> QED BY <1>1, <1>3, <2>0, <4>1 DEF EventCurrent, RowsAreCurrent
    <3>2. CASE SameRows(e)
      <4>1. source' = source /\ (UNCHANGED <<loading, error>> \/ error' = TRUE)
        BY <3>2 DEF SameRows
      <4> QED BY <1>1, <2>0, <4>1 DEF PagesInv, RowsAreCurrent
    <3> QED BY <1>6, <3>1, <3>2
  <2>4. RowsWait'
    <3> SUFFICES ASSUME loading'
                 PROVE  \/ \E i \in DOMAIN fetchQ : fetchQ[i].kind = "rows" /\ fetchQ[i].epoch = epoch
                        \/ job.kind = "rows" /\ job.epoch = epoch
                        \/ \E i \in DOMAIN events' :
                             events'[i].type \in {"rows", "rowsFailed"} /\ events'[i].epoch = epoch
      BY <1>0, <2>0 DEF RowsWait, EventsOf
    <3>1. /\ loading /\ (e.type \in {"rows", "rowsFailed"} => e.epoch # epoch)
      BY <1>6 DEF NewRows, SameRows
    <3>2. \/ \E i \in DOMAIN fetchQ : fetchQ[i].kind = "rows" /\ fetchQ[i].epoch = epoch
          \/ job.kind = "rows" /\ job.epoch = epoch
          \/ \E i \in DOMAIN events : events[i].type \in {"rows", "rowsFailed"} /\ events[i].epoch = epoch
      BY <3>1 DEF PagesInv, RowsWait, EventsOf
    <3>3. ASSUME NEW i \in DOMAIN events, events[i].type \in {"rows", "rowsFailed"}, events[i].epoch = epoch
          PROVE  \E k \in DOMAIN events' :
                   events'[k].type \in {"rows", "rowsFailed"} /\ events'[k].epoch = epoch
      <4>1. i # 1
        BY <3>1, <3>3 DEF e
      <4> QED BY <1>0, <3>3, <4>1
    <3> QED BY <3>2, <3>3
  <2> QED BY <2>1, <2>2, <2>3, <2>4 DEF PagesInv
<1> QED BY <1>4, <1>5, <1>6

(***************************************************************************)
(* Deleted threads.                                                        *)
(***************************************************************************)
LEMMA PreviewGone ==
    ASSUME NEW pv, PreviewAsked(pv), GoneStaysGone, gone' = gone,
           \A th \in gone : pv.thread # th /\ \A i \in DOMAIN rows' : rows'[i] # th
    PROVE  GoneStaysGone'
BY DEF PreviewAsked, GoneStaysGone, RowSet

LEMMA KeysGone == ASSUME Typed, GoneStaysGone, Keys PROVE GoneStaysGone'
<1>0. \A th \in gone : preview.thread # th /\ NoPreview.thread # th /\ \A i \in DOMAIN rows : rows[i] # th
  <2>1. gone \subseteq Thread /\ None \notin Thread
    BY BrowserAssumption DEF Typed, ScreenOK, None
  <2> QED BY <2>1 DEF GoneStaysGone, RowSet, NoPreview
<1>1. CASE Pager
  <2>1. UNCHANGED <<rows, gone>> /\ (Preview(preview) \/ UNCHANGED <<preview, previewQ>>)
        /\ selected' \in 1..(IF rows = <<>> THEN 1 ELSE Len(rows))
    BY <1>1, PagerIs DEF Elsewhere
  <2>2. CASE Preview(preview)
    <3>1. preview \in Previews /\ rows' \in Seq(Thread)
          /\ selected' \in 1..(IF rows' = <<>> THEN 1 ELSE Len(rows'))
      BY <2>1 DEF Typed, ScreenOK
    <3>2. PreviewAsked(preview)
      BY <2>2, <3>1, PreviewIs
    <3> QED BY <1>0, <2>1, <3>2, PreviewGone
  <2>3. CASE UNCHANGED <<preview, previewQ>>
    BY <2>1, <2>3 DEF GoneStaysGone, RowSet
  <2> QED BY <2>1, <2>2, <2>3
<1>2. CASE ~Pager
  <2>1. UNCHANGED <<rows, gone>>
        /\ selected' \in 1..(IF rows = <<>> THEN 1 ELSE Len(rows))
    BY <1>2, KeyIs DEF Elsewhere
  <2>2. PICK pv \in Previews : (pv = preview \/ pv = NoPreview) /\ Preview(pv)
    BY <1>2, KeyIs
  <2>3. rows' \in Seq(Thread) /\ selected' \in 1..(IF rows' = <<>> THEN 1 ELSE Len(rows'))
    BY <2>1 DEF Typed, ScreenOK
  <2>4. PreviewAsked(pv)
    BY <2>2, <2>3, PreviewIs
  <2> QED BY <1>0, <2>1, <2>2, <2>4, PreviewGone
<1> QED BY <1>1, <1>2

LEMMA EventGone == ASSUME Typed, PagesInv, GoneStaysGone, HandleEvent PROVE GoneStaysGone'
<1> DEFINE e == events[1]
           pv == PreviewAfter(e)
<1>0. e \in Events /\ EventCurrent(e) /\ PreviewAsked(pv)
  BY HandledIs, EventTyped DEF PagesInv, EventsCurrent
<1>1. NewRows(e) \/ SameRows(e) \/ ChangedRows(e)
  BY EffectIs
<1>2. /\ pv.thread = preview.thread \/ pv.thread = None
      /\ e.type = "delete" => pv.thread # e.thread
  BY <1>0, PreviewAfterIs
<1>3. gone \subseteq Thread /\ None \notin Thread
  BY BrowserAssumption DEF Typed, ScreenOK, None
<1> HIDE DEF e, pv
<1>4. \A th \in gone : pv.thread # th /\ \A i \in DOMAIN rows : rows[i] # th
  BY <1>2, <1>3 DEF GoneStaysGone, RowSet
<1>5. CASE NewRows(e)
  <2>1. gone' = gone /\ \A th \in gone : \A i \in DOMAIN rows' : rows'[i] # th
    BY <1>0, <1>5 DEF NewRows, EventCurrent
  <2> QED BY <1>0, <1>4, <2>1, PreviewGone
<1>6. CASE SameRows(e)
  <2>1. gone' = gone /\ rows' = rows
    BY <1>6 DEF SameRows
  <2> QED BY <1>0, <1>4, <2>1, PreviewGone
<1>7. CASE ChangedRows(e)
  <2>1. rows \in Seq(Thread) /\ Listable(rows)
    BY DEF Typed, ScreenOK
  <2>2. \A i \in DOMAIN Without(rows, e.thread) :
          Without(rows, e.thread)[i] # e.thread /\ \E j \in DOMAIN rows : Without(rows, e.thread)[i] = rows[j]
    BY <2>1, WithoutIs
  <2>3. \A th \in gone' : pv.thread # th /\ \A i \in DOMAIN rows' : rows'[i] # th
    <3>1. CASE e.type = "delete"
      <4>1. rows' = Without(rows, e.thread) /\ gone' = gone \cup {e.thread}
        BY <1>7, <3>1 DEF ChangedRows
      <4> QED BY <1>2, <1>4, <2>2, <3>1, <4>1
    <3>2. CASE e.type # "delete"
      <4>1. gone' = gone /\ (rows' = rows \/ rows' = Without(rows, e.thread))
        BY <1>7, <3>2 DEF ChangedRows
      <4> QED BY <1>4, <2>2, <4>1
    <3> QED BY <3>1, <3>2
  <2>4. preview' = pv \/ \E i \in DOMAIN rows' : preview'.thread = rows'[i]
    BY <1>0 DEF PreviewAsked
  <2> QED BY <2>3, <2>4 DEF GoneStaysGone, RowSet
<1> QED BY <1>1, <1>5, <1>6, <1>7

(***************************************************************************)
(* The wait for the preview.                                               *)
(***************************************************************************)
\* What a wait may be backed by.
Queued(pv)  == previewQ # <<>> /\ previewQ[Len(previewQ)] = [epoch |-> pv.epoch, thread |-> pv.thread]
Served(pv)  == glance # NoJob /\ glance.epoch = pv.epoch /\ glance.thread = pv.thread
AnswerOf(i, pv) ==
    /\ i \in DOMAIN events /\ events[i].type \in {"preview", "previewFailed"}
    /\ events[i].epoch = pv.epoch /\ events[i].thread = pv.thread

LEMMA PreviewWaitIs ==
    PreviewWait <=> (preview.loading => Queued(preview) \/ Served(preview) \/ \E i : AnswerOf(i, preview))
BY DEF PreviewWait, Queued, Served, AnswerOf, EventsOf

LEMMA PreviewWaitNext ==
    PreviewWait' <=> (preview'.loading =>
       \/ previewQ' # <<>> /\ previewQ'[Len(previewQ')] = [epoch |-> preview'.epoch, thread |-> preview'.thread]
       \/ glance' # NoJob /\ glance'.epoch = preview'.epoch /\ glance'.thread = preview'.thread
       \/ \E i \in DOMAIN events' : /\ events'[i].type \in {"preview", "previewFailed"}
                                    /\ events'[i].epoch = preview'.epoch
                                    /\ events'[i].thread = preview'.thread)
BY DEF PreviewWait, EventsOf

\* A preview that is asked for anew is queued last.
LEMMA AskedWait ==
    ASSUME NEW pv, PreviewAsked(pv),
           pv.loading => \/ Queued(pv)
                         \/ glance' # NoJob /\ glance'.epoch = pv.epoch /\ glance'.thread = pv.thread
                         \/ \E i \in DOMAIN events' : /\ events'[i].type \in {"preview", "previewFailed"}
                                                      /\ events'[i].epoch = pv.epoch
                                                      /\ events'[i].thread = pv.thread
    PROVE  PreviewWait'
<1>1. CASE preview' = pv /\ previewQ' = previewQ
  BY <1>1, PreviewWaitNext DEF Queued
<1>2. CASE preview'.loading => previewQ' # <<>> /\ previewQ'[Len(previewQ')] =
                 [epoch |-> preview'.epoch, thread |-> preview'.thread]
  BY <1>2, PreviewWaitNext
<1> QED BY <1>1, <1>2 DEF PreviewAsked

LEMMA KeysWait == ASSUME Typed, PreviewWait, Keys PROVE PreviewWait'
<1>0. /\ UNCHANGED <<glance, events>>
      /\ rows' \in Seq(Thread) /\ selected' \in 1..(IF rows' = <<>> THEN 1 ELSE Len(rows'))
      /\ \/ UNCHANGED <<preview, previewQ>>
         \/ \E pv \in Previews : (pv = preview \/ pv = NoPreview) /\ Preview(pv)
  <2>1. rows \in Seq(Thread) /\ preview \in Previews
    BY DEF Typed, ScreenOK
  <2>2. CASE Pager
    BY <2>1, <2>2, PagerIs DEF Elsewhere
  <2>3. CASE ~Pager
    BY <2>1, <2>3, KeyIs DEF Elsewhere
  <2> QED BY <2>2, <2>3
<1>1. preview.loading => Queued(preview) \/ Served(preview) \/ \E i : AnswerOf(i, preview)
  BY PreviewWaitIs
<1>2. CASE UNCHANGED <<preview, previewQ>>
  BY <1>0, <1>2 DEF PreviewWait, EventsOf
<1>3. ASSUME NEW pv \in Previews, pv = preview \/ pv = NoPreview, Preview(pv)
      PROVE  PreviewWait'
  <2>1. PreviewAsked(pv)
    BY <1>0, <1>3, PreviewIs
  <2>2. CASE pv = preview
    BY <1>0, <1>1, <2>1, <2>2, AskedWait DEF Served, AnswerOf
  <2>3. CASE pv = NoPreview
    <3>1. pv.loading = FALSE
      BY <2>3 DEF NoPreview
    <3> QED BY <2>1, <3>1, AskedWait
  <2> QED BY <1>3, <2>2, <2>3
<1> QED BY <1>0, <1>2, <1>3

\* A step that leaves the preview alone, and reports it or something else.
LEMMA StillWait ==
    ASSUME Typed, PreviewWait, UNCHANGED <<preview, previewQ, glance>>,
           events' = events \/ \E e \in Events : events' = Append(events, e)
    PROVE  PreviewWait'
<1>1. \A i \in DOMAIN events : i \in DOMAIN events' /\ events'[i] = events[i]
  BY Posted
<1>2. preview.loading => Queued(preview) \/ Served(preview) \/ \E i : AnswerOf(i, preview)
  BY PreviewWaitIs
<1> QED BY <1>1, <1>2, PreviewWaitNext DEF Queued, Served, AnswerOf

LEMMA GlanceWait == ASSUME Typed, PreviewWait, TakePreview PROVE PreviewWait'
<1>1. UNCHANGED <<preview, events>> /\ glance = NoJob
  BY DEF TakePreview
<1>2. preview.loading => Queued(preview) \/ \E i : AnswerOf(i, preview)
  BY <1>1, PreviewWaitIs DEF Served
<1>3. Queued(preview) => glance' # NoJob /\ glance'.epoch = preview.epoch /\ glance'.thread = preview.thread
  BY GlanceIs DEF Queued
<1> QED BY <1>1, <1>2, <1>3, PreviewWaitNext DEF AnswerOf

LEMMA PreviewedWait == ASSUME Typed, PreviewWait, PreviewAnswered PROVE PreviewWait'
<1>1. UNCHANGED <<preview, previewQ>>
  BY DEF PreviewAnswered, UIVars, previewVars
<1>2. PICK e \in Events : /\ e.type \in {"preview", "previewFailed"}
                          /\ e.epoch = glance.epoch /\ e.thread = glance.thread
                          /\ events' = Append(events, e)
  BY PreviewedIs
<1>3. /\ \A i \in DOMAIN events : i \in DOMAIN events' /\ events'[i] = events[i]
      /\ \E i \in DOMAIN events' : events'[i] = e
  BY <1>2, Posted
<1>4. preview.loading => Queued(preview) \/ Served(preview) \/ \E i : AnswerOf(i, preview)
  BY PreviewWaitIs
<1>5. Served(preview) => \E i \in DOMAIN events' : /\ events'[i].type \in {"preview", "previewFailed"}
                                                   /\ events'[i].epoch = preview.epoch
                                                   /\ events'[i].thread = preview.thread
  BY <1>2, <1>3 DEF Served
<1> QED BY <1>1, <1>3, <1>4, <1>5, PreviewWaitNext DEF Queued, AnswerOf

LEMMA EventWait == ASSUME Typed, PreviewWait, HandleEvent PROVE PreviewWait'
<1> DEFINE e == events[1]
           pv == PreviewAfter(e)
<1>0. /\ e \in Events /\ PreviewAsked(pv) /\ glance' = glance
      /\ \A j \in DOMAIN events : j = 1 \/ (j - 1 \in DOMAIN events' /\ events[j] = events'[j - 1])
  BY HandledIs, EventTyped
<1>1. pv.loading => pv = preview /\ ~(e.type \in {"preview", "previewFailed"} /\ Answers(e))
  BY <1>0, PreviewAfterIs
<1>2. preview.loading => Queued(preview) \/ Served(preview) \/ \E i : AnswerOf(i, preview)
  BY PreviewWaitIs
<1>3. ASSUME pv.loading, NEW i, AnswerOf(i, preview)
      PROVE  \E k \in DOMAIN events' : /\ events'[k].type \in {"preview", "previewFailed"}
                                       /\ events'[k].epoch = preview.epoch
                                       /\ events'[k].thread = preview.thread
  <2>1. i # 1
    BY <1>1, <1>3 DEF AnswerOf, Answers
  <2> QED BY <1>0, <1>3, <2>1 DEF AnswerOf
<1> HIDE DEF e, pv
<1> QED BY <1>0, <1>1, <1>2, <1>3, AskedWait DEF Served

(***************************************************************************)
(* The invariant and the theorems.                                         *)
(***************************************************************************)
PaneInv == Typed /\ PagesInv /\ GoneStaysGone /\ PreviewWait

LEMMA PaneInit == Init => PaneInv
<1> SUFFICES ASSUME Init PROVE PaneInv
  OBVIOUS
<1> DEFINE r == [kind |-> "rows", epoch |-> 1, view |-> view, cursor |-> None]
<1>1. /\ multi \in BOOLEAN /\ rows = <<>> /\ selected = 1
      /\ view = [archived |-> FALSE, found |-> FALSE]
      /\ epoch = 1 /\ loading = TRUE /\ error = FALSE
      /\ cursors = [current |-> None, next |-> None, back |-> None]
      /\ pane \in BOOLEAN /\ preview = NoPreview /\ mode = [at |-> "browser"]
      /\ fetchQ = <<r>> /\ job = NoJob /\ previewQ = <<>> /\ glance = NoJob
      /\ tasks = {} /\ events = <<>>
      /\ life = [th \in Thread |-> "open"]
      /\ ver = [s \in Server |-> 0] /\ told = [s \in Server |-> 0] /\ gone = {}
      /\ source = [view |-> view, cursor |-> None, vers |-> [s \in Server |-> 0]]
  BY DEF Init, Browser
<1>2. view \in Views /\ cursors \in Cursors /\ None \in Nat /\ cursors.current = None
  BY <1>1 DEF Views, Cursors, None
<1>3. source \in Sources
  BY <1>1, <1>2 DEF Sources
<1>4. mode \in Modes /\ preview \in Previews
  BY <1>1, NothingPreviewed DEF Modes
<1>5. Listable(rows)
  BY <1>1 DEF Listable, Once
<1>6. ScreenOK
  <2>1. rows \in Seq(Thread) /\ gone \subseteq Thread
    BY <1>1
  <2>2. selected \in 1..(IF rows = <<>> THEN 1 ELSE Len(rows))
    BY <1>1
  <2>3. epoch \in Nat /\ loading \in BOOLEAN /\ error \in BOOLEAN
    BY <1>1
  <2> QED BY <1>1, <1>2, <1>3, <1>4, <1>5, <2>1, <2>2, <2>3 DEF ScreenOK
<1>7. r \in Requests /\ r.kind = "rows" /\ r.epoch = 1 /\ r.view = view /\ r.cursor = None
  BY <1>2 DEF Requests
<1> HIDE DEF r
<1>8. fetchQ \in Seq(Requests) /\ Len(fetchQ) = 1 /\ DOMAIN fetchQ = {1} /\ fetchQ[1] = r
  BY <1>1, <1>7
<1>9. Len(fetchQ) <= FetchCap /\ Len(previewQ) <= PreviewCap
  BY <1>1, <1>8, BrowserAssumption
<1>10. JobOK
  BY <1>1 DEF JobOK, NoJob
<1>11. WorkOK
  BY <1>1, <1>8, <1>9, <1>10 DEF WorkOK
<1>12. ServersOK
  BY <1>1 DEF ServersOK
<1>13. PagesInv
  <2>1. QueueCurrent
    BY <1>1, <1>2, <1>7, <1>8 DEF QueueCurrent
  <2>2. JobCurrent
    BY <1>1 DEF JobCurrent, NoJob
  <2>3. EventsCurrent /\ RowsAreCurrent
    BY <1>1 DEF EventsCurrent, RowsAreCurrent
  <2>4. RowsWait
    BY <1>1, <1>7, <1>8 DEF RowsWait
  <2> QED BY <2>1, <2>2, <2>3, <2>4 DEF PagesInv
<1>14. GoneStaysGone
  BY <1>1 DEF GoneStaysGone
<1>15. PreviewWait
  BY <1>1 DEF PreviewWait, NoPreview
<1> QED BY <1>6, <1>11, <1>12, <1>13, <1>14, <1>15 DEF PaneInv, Typed

\* The steps of the workers, the tasks and the servers leave the screen as it is.
LEMMA BehindTheScreen ==
    ASSUME Typed, PagesInv, GoneStaysGone, PreviewWait,
           \/ \E t \in tasks : TaskActs(t) \/ TaskReports(t)
           \/ \E th \in Thread, kind \in {"archive", "unarchive", "delete"} : OtherClient(th, kind)
           \/ TakeJob \/ RowsAnswered \/ ThreadAnswered \/ TakePreview \/ PreviewAnswered
           \/ \E s \in Server : ReadServer(s)
    PROVE  PaneInv'
<1>1. UNCHANGED <<rows, gone, preview, multi, view, epoch, loading, error, cursors, source, told>>
  BY DEF TaskActs, TaskReports, OtherClient, TakeJob, RowsAnswered, ThreadAnswered, TakePreview,
         PreviewAnswered, ReadServer, UIVars, browserVars, previewVars
<1>2. GoneStaysGone'
  BY <1>1 DEF GoneStaysGone, RowSet
<1>3. CASE \/ \E t \in tasks : TaskActs(t)
           \/ \E th \in Thread, kind \in {"archive", "unarchive", "delete"} : OtherClient(th, kind)
  <2>1. UNCHANGED <<fetchQ, job, events, previewQ, glance>>
    BY <1>3 DEF TaskActs, OtherClient, UIVars, previewVars
  <2> QED BY <1>1, <1>2, <1>3, <2>1, ServersTyped, StillCurrent, StillWait DEF PaneInv
<1>4. ASSUME NEW t \in tasks, TaskReports(t)
      PROVE  PaneInv'
  <2> DEFINE e == [type |-> t.kind, thread |-> t.thread, ver |-> t.ver]
  <2>1. UNCHANGED <<fetchQ, job, previewQ, glance>> /\ (events' = events \/ events' = Append(events, e))
    BY <1>4 DEF TaskReports, UIVars, previewVars
  <2>2. t \in Tasks
    BY DEF Typed, WorkOK
  <2>3. e \in Events /\ e.type \notin {"rows", "rowsFailed"}
    BY <2>2 DEF Tasks, Events, ChangeEvents, Kinds
  <2> HIDE DEF e
  <2> QED BY <1>1, <1>2, <1>4, <2>1, <2>3, ReportsTyped, StillCurrent, StillWait DEF PaneInv
<1>5. CASE TakeJob
  <2>1. UNCHANGED <<events, previewQ, glance>>
    BY <1>5 DEF TakeJob, UIVars, previewVars
  <2> QED BY <1>1, <1>2, <1>5, <2>1, TakeTyped, TakeCurrent, StillWait DEF PaneInv
<1>6. CASE RowsAnswered
  <2>1. UNCHANGED <<previewQ, glance>>
    BY <1>6 DEF RowsAnswered, UIVars, previewVars
  <2>2. \E e \in Events : events' = Append(events, e)
    BY <1>6, AnsweredIs DEF RowsReport
  <2> QED BY <1>1, <1>2, <1>6, <2>1, <2>2, AnsweredTyped, AnsweredCurrent, StillWait DEF PaneInv
<1>7. CASE ThreadAnswered
  <2>1. UNCHANGED <<fetchQ, previewQ, glance>>
    BY <1>7 DEF ThreadAnswered, UIVars, previewVars
  <2>2. job.kind # "rows" /\ job'.kind # "rows"
    BY <1>7, LoadedIs DEF NoJob
  <2>3. events' = events \/ \E e \in Events : e.type = "load" /\ events' = Append(events, e)
    BY <1>7, LoadedIs
  <2>4. PagesInv'
    BY <1>1, <2>1, <2>2, <2>3, StillCurrent
  <2> QED BY <1>1, <1>2, <1>7, <2>1, <2>3, <2>4, LoadedTyped, StillWait DEF PaneInv
<1>8. CASE TakePreview
  <2>1. UNCHANGED <<fetchQ, job, events>>
    BY <1>8 DEF TakePreview
  <2> QED BY <1>1, <1>2, <1>8, <2>1, GlanceTyped, GlanceWait, StillCurrent DEF PaneInv
<1>9. CASE PreviewAnswered
  <2>1. UNCHANGED <<fetchQ, job>>
    BY <1>9 DEF PreviewAnswered, UIVars, previewVars
  <2>2. \E e \in Events : e.type \notin {"rows", "rowsFailed"} /\ events' = Append(events, e)
    BY <1>9, PreviewedIs
  <2>3. PagesInv'
    BY <1>1, <2>1, <2>2, StillCurrent
  <2> QED BY <1>2, <1>9, <2>3, PreviewedTyped, PreviewedWait DEF PaneInv
<1>10. ASSUME NEW s \in Server, ReadServer(s)
       PROVE  PaneInv'
  <2>1. UNCHANGED <<events, previewQ, glance>>
    BY <1>10 DEF ReadServer, UIVars, previewVars
  <2> QED BY <1>1, <1>2, <1>10, <2>1, ReadTyped, ReadCurrent, StillWait DEF PaneInv
<1> QED BY <1>3, <1>4, <1>5, <1>6, <1>7, <1>8, <1>9, <1>10

LEMMA KeysHold == ASSUME PaneInv, Keys PROVE PaneInv'
<1>0. Typed /\ PagesInv /\ GoneStaysGone /\ PreviewWait
  BY DEF PaneInv
<1>1. Typed' /\ GoneStaysGone' /\ PreviewWait'
  BY <1>0, KeysTyped, KeysGone, KeysWait
<1>2. PagesInv'
  <2>1. CASE Pager
    <3>1. UNCHANGED <<job, multi, events>>
      BY <1>0, <2>1, PagerIs DEF Elsewhere
    <3>2. PICK v \in Views, c \in Nat : PageAsked(v, c)
      BY <1>0, <2>1, PagerIs
    <3> QED BY <1>0, <3>1, <3>2, AskedCurrent
  <2>2. CASE ~Pager
    <3>1. /\ UNCHANGED <<view, epoch, loading, error, cursors, source, multi, job, events, told, gone>>
          /\ fetchQ' = fetchQ \/ \E r \in Requests : r.kind = "load" /\ fetchQ' = Append(fetchQ, r)
      BY <1>0, <2>2, KeyIs DEF Elsewhere
    <3> QED BY <1>0, <3>1, StillCurrent
  <2> QED BY <2>1, <2>2
<1> QED BY <1>1, <1>2 DEF PaneInv

LEMMA PaneNext == PaneInv /\ [Next]_vars => PaneInv'
<1> SUFFICES ASSUME PaneInv, [Next]_vars PROVE PaneInv'
  OBVIOUS
<1>0. Typed /\ PagesInv /\ GoneStaysGone /\ PreviewWait
  BY DEF PaneInv
<1>1. CASE Keys
  BY <1>1, KeysHold
<1>2. CASE \/ \E t \in tasks : TaskActs(t) \/ TaskReports(t)
           \/ \E th \in Thread, kind \in {"archive", "unarchive", "delete"} : OtherClient(th, kind)
           \/ TakeJob \/ RowsAnswered \/ ThreadAnswered \/ TakePreview \/ PreviewAnswered
           \/ \E s \in Server : ReadServer(s)
  BY <1>0, <1>2, BehindTheScreen
<1>3. CASE HandleEvent
  BY <1>0, <1>3, EventTyped, EventPages, EventGone, EventWait DEF PaneInv
<1>4. CASE UNCHANGED vars
  <2>1. /\ UNCHANGED <<multi, rows, selected, view, epoch, loading, error, cursors, mode, source, pane,
                    preview, previewQ, fetchQ, job, glance, tasks, events, life, ver, told, gone>>
    BY <1>4 DEF vars, browserVars, previewVars, serverVars
  <2>2. Servers' = Servers /\ Here' = Here
    BY <2>1 DEF Servers, Here
  <2>3. Typed'
    BY <1>0, <2>1, <2>2 DEF Typed, ScreenOK, WorkOK, JobOK, ServersOK, Listable
  <2>4. PagesInv'
    BY <1>0, <2>1, StillCurrent
  <2>5. GoneStaysGone' /\ PreviewWait'
    BY <1>0, <2>1, StillWait DEF GoneStaysGone, RowSet
  <2> QED BY <2>3, <2>4, <2>5 DEF PaneInv
<1> QED BY <1>1, <1>2, <1>3, <1>4 DEF Next, Keys

LEMMA PaneInvHolds == Spec => []PaneInv
<1> QED BY PaneInit, PaneNext, PTL DEF Spec

\* The types, and nobody waits for rows or a preview that is not under way, whatever
\* the queues drop (mod.rs, schedule_browser_page and
\* schedule_selected_preview_if_needed).
THEOREM BrowserHolds == Spec => []BrowserInv
<1>1. PaneInv => BrowserInv
  <2> SUFFICES ASSUME PaneInv PROVE BrowserInv
    OBVIOUS
  <2>1. TypeOK
    BY DEF PaneInv, Typed, ScreenOK, WorkOK, ServersOK, TypeOK, Listable, Once, RowSet, Views, Previews
  <2>2. WaitsAreBacked
    BY DEF PaneInv, PagesInv, RowsWait, PreviewWait, WaitsAreBacked
  <2> QED BY <2>1, <2>2 DEF BrowserInv
<1> QED BY <1>1, PaneInvHolds, PTL

\* Rows that are shown as current are: of the view and page that is shown, and read
\* after every change the UI was told of (state.rs, set_browser_rows).
THEOREM RowsHold == Spec => []RowsAreCurrent
<1>1. PaneInv => RowsAreCurrent
  BY DEF PaneInv, PagesInv
<1> QED BY <1>1, PaneInvHolds, PTL

\* A thread that was removed as deleted does not come back (mod.rs,
\* remove_deleted_thread_from_state; state.rs, set_browser_rows).
THEOREM DeletedHold == Spec => []GoneStaysGone
<1>1. PaneInv => GoneStaysGone
  BY DEF PaneInv
<1> QED BY <1>1, PaneInvHolds, PTL

=============================================================================
