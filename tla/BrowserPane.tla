----------------------------- MODULE BrowserPane -----------------------------
(***************************************************************************)
(* The thread browser: its rows, the selection and the preview, the fetch  *)
(* worker that reads one page from every server, the preview worker, and   *)
(* the tasks that archive, delete and rename threads while the servers     *)
(* change under them.  Of a row only the thread is kept, of a preview only *)
(* whether it has text; streams and the open detail are modelled elsewhere.*)
(***************************************************************************)
EXTENDS Integers, Sequences, FiniteSets

CONSTANTS
    Thread,      \* the threads there may be: numbers, newest first
    Server,      \* the configured servers
    Main,        \* the server of a TUI with one server
    Home,        \* the server of each thread
    Matching,    \* the threads the search query finds
    Silent,      \* the threads without messages
    Limit,       \* rows on a page
    FetchCap,    \* the capacity of the queue of the fetch worker
    PreviewCap,  \* the capacity of the queue of the preview worker
    MaxDeeds     \* bound: keys, timers and changes by other clients, for one server and several

ASSUME BrowserAssumption ==
    /\ Thread \subseteq Nat \ {0} /\ IsFiniteSet(Thread)
    /\ Home \in [Thread -> Server] /\ Main \in Server
    /\ Matching \subseteq Thread /\ Silent \subseteq Thread
    /\ Limit \in Nat \ {0} /\ FetchCap \in Nat \ {0} /\ PreviewCap \in Nat \ {0}
    /\ MaxDeeds \in [BOOLEAN -> Nat]

VARIABLES
    multi,     \* several servers are configured
    rows,      \* the threads listed
    selected,  \* the index of the selected row
    view,      \* what is listed: archived threads or not, all or those found
    epoch,     \* the number of the last page asked for
    loading,   \* an answer is awaited
    error,     \* the last page could not be loaded in full
    cursors,   \* of the current page, the next and the previous; 0 is none
    pane,      \* the preview pane is shown
    preview,   \* the thread previewed, and its number, state and text
    mode,      \* the browser, a menu, or a dialog about a thread
    fetchQ, job,      \* what the fetch worker was asked for, and is at
    previewQ, glance, \* what the preview worker was asked for, and is at
    tasks,     \* archive, delete and rename tasks under way
    events,    \* the application events not handled yet
    life,      \* (server) open, archived or gone
    ver,       \* (server) the number of changes made to its threads
    told,      \* the last change of each server the UI was told of
    gone,      \* the threads the UI was told are deleted
    source,    \* the view, cursor and changes the rows were read from
    deeds

browserVars == <<rows, selected, view, epoch, loading, error, cursors, mode, source>>
previewVars == <<pane, preview, previewQ>>
serverVars  == <<life, ver>>
vars == <<multi, browserVars, previewVars, fetchQ, job, glance, tasks, events, serverVars,
          told, gone, deeds>>

None       == 0
NoJob      == [kind |-> "none"]
NoPreview  == [epoch |-> 0, thread |-> None, loading |-> FALSE, text |-> FALSE, error |-> FALSE]
Servers    == IF multi THEN Server ELSE {Main}
Here       == {th \in Thread : Home[th] \in Servers}
RowSet     == {rows[i] : i \in DOMAIN rows}
SelectedIn(list, i) == IF list = <<>> THEN None ELSE list[i]
Selected   == SelectedIn(rows, selected)
Clamp(i, list) == IF i <= Len(list) \/ list = <<>> THEN (IF list = <<>> THEN 1 ELSE i) ELSE Len(list)

-----------------------------------------------------------------------------
(* Asking for pages and previews.                                          *)

\* Mutation: the queue has no bound.
QueueTakesAll(queue, cap) == TRUE

QueueTakes(queue, cap) == Len(queue) < cap

\* A page is asked for; when the queue is full this is an error.
Schedule(v, cursor) ==
    LET request == [kind |-> "rows", epoch |-> epoch + 1, view |-> v, cursor |-> cursor]
        fits    == QueueTakes(fetchQ, FetchCap)
    IN  /\ epoch' = epoch + 1
        /\ view' = v
        /\ cursors' = [cursors EXCEPT !.current = cursor]
        /\ loading' = fits
        /\ error' = ~fits
        /\ fetchQ' = IF fits THEN Append(fetchQ, request) ELSE fetchQ
        /\ UNCHANGED source

Refresh == Schedule(view, cursors.current)

\* A preview that is shown, awaited or failed is not asked for again.
Wanted(pv, th) ==
    ~(pv.thread = th /\ (pv.loading \/ pv.text \/ pv.error))

Asked(pv, th, fits) ==
    [epoch |-> pv.epoch + 1, thread |-> th, loading |-> fits, text |-> FALSE, error |-> ~fits]

\* After every key and event the preview of the selected thread is asked for.
Preview(pv) ==
    LET th   == SelectedIn(rows', selected')
        fits == QueueTakes(previewQ, PreviewCap)
    IN  IF pane' /\ mode'.at = "browser" /\ th # None /\ Wanted(pv, th)
        THEN /\ preview' = Asked(pv, th, fits)
             /\ previewQ' = IF fits THEN Append(previewQ, [epoch |-> pv.epoch + 1, thread |-> th])
                            ELSE previewQ
        ELSE preview' = pv /\ UNCHANGED previewQ

-----------------------------------------------------------------------------
(* The keys.                                                               *)

Browser == [at |-> "browser"]

Deed == deeds < MaxDeeds[multi] /\ deeds' = deeds + 1

Key(at) == Deed /\ mode.at = at

Elsewhere == <<multi, job, glance, events, serverVars, told, gone>>

\* The keys that only ask for a page.
AskPage ==
    /\ Key("browser")
    /\ \/ Refresh
       \/ Schedule(view, None)
       \/ cursors.next # None /\ Schedule(view, cursors.next)
       \/ cursors.back # None /\ Schedule(view, cursors.back)
    /\ UNCHANGED <<rows, selected, mode, pane, tasks, Elsewhere>>
    /\ Preview(preview)

MoveSelection ==
    /\ Key("browser")
    /\ \E i \in {selected - 1, selected + 1} \cap DOMAIN rows : selected' = i
    /\ UNCHANGED <<rows, view, epoch, loading, error, cursors, mode, source, pane, fetchQ,
                   tasks, Elsewhere>>
    /\ Preview(preview)

TogglePane ==
    /\ Key("browser")
    /\ pane' = ~pane
    /\ UNCHANGED <<browserVars, fetchQ, tasks, Elsewhere>>
    /\ Preview(IF pane THEN NoPreview ELSE preview)

\* The thread is loaded by the fetch worker; a full queue drops the request.
LoadKey ==
    /\ Key("browser") /\ Selected # None
    /\ fetchQ' = IF QueueTakes(fetchQ, FetchCap)
                 THEN Append(fetchQ, [kind |-> "load", thread |-> Selected]) ELSE fetchQ
    /\ UNCHANGED <<browserVars, pane, tasks, Elsewhere>>
    /\ Preview(preview)

\* The filter menu and the search input keep the cursor of the page they leave.
ChangeView ==
    /\ Key("browser")
    /\ \/ Schedule([view EXCEPT !.archived = ~@], cursors.current) /\ UNCHANGED selected
       \/ Schedule([view EXCEPT !.found = ~@], cursors.current) /\ selected' = 1
    /\ UNCHANGED <<rows, mode, pane, tasks, Elsewhere>>
    /\ Preview(preview)

\* Any other screen.
Leave ==
    /\ Key("browser")
    /\ mode' = [at |-> "menu"]
    /\ UNCHANGED <<rows, selected, view, epoch, loading, error, cursors, source, pane, fetchQ,
                   tasks, Elsewhere>>
    /\ Preview(preview)

Return ==
    /\ mode.at # "browser"
    /\ mode' = Browser
    /\ UNCHANGED <<rows, selected, view, epoch, loading, error, cursors, source, pane, fetchQ,
                   tasks, deeds, Elsewhere>>
    /\ Preview(preview)

\* The dialog keeps the thread, whatever happens to the rows.
Ask(kind) ==
    /\ Key("browser") /\ Selected # None
    /\ mode' = [at |-> "dialog", kind |-> kind, thread |-> Selected]
    /\ UNCHANGED <<rows, selected, view, epoch, loading, error, cursors, source, pane, fetchQ,
                   tasks, Elsewhere>>
    /\ Preview(preview)

\* Archiving an archived thread brings it back.
Wish == IF mode.kind = "archive" /\ view.archived THEN "unarchive" ELSE mode.kind

Confirm ==
    /\ mode.at = "dialog"
    /\ tasks' = tasks \cup {[kind |-> Wish, thread |-> mode.thread, at |-> "called", ver |-> 0]}
    /\ mode' = Browser
    /\ UNCHANGED <<rows, selected, view, epoch, loading, error, cursors, source, pane, fetchQ,
                   deeds, Elsewhere>>
    /\ Preview(preview)

\* The timer refreshes the rows when no page is awaited, and no preview.
Tick ==
    /\ Deed
    /\ ~loading
    /\ Refresh
    /\ UNCHANGED <<rows, selected, mode, previewVars, tasks, Elsewhere>>

-----------------------------------------------------------------------------
(* The servers and the workers.                                            *)

Become == [archive |-> "archived", unarchive |-> "open", delete |-> "gone"]

Changed(th, kind) ==
    /\ life' = IF kind = "rename" THEN life ELSE [life EXCEPT ![th] = Become[kind]]
    /\ ver' = [ver EXCEPT ![Home[th]] = @ + 1]

UIVars == <<multi, browserVars, previewVars, told, gone>>

OtherClient(th, kind) ==
    /\ Deed
    /\ th \in Here /\ life[th] # "gone"
    /\ Changed(th, kind)
    /\ UNCHANGED <<UIVars, fetchQ, job, glance, tasks, events>>

TaskActs(t) ==
    /\ t.at = "called" /\ life[t.thread] # "gone"
    /\ Changed(t.thread, t.kind)
    /\ tasks' = (tasks \ {t}) \cup {[t EXCEPT !.at = "done", !.ver = ver[Home[t.thread]] + 1]}
    /\ UNCHANGED <<UIVars, deeds, fetchQ, job, glance, events>>

\* The answer of a call that was made may be lost; a failure shows a notice.
TaskReports(t) ==
    /\ tasks' = tasks \ {t}
    /\ \/ t.at = "done" /\ events' = Append(events, [type |-> t.kind, thread |-> t.thread, ver |-> t.ver])
       \/ UNCHANGED events
    /\ UNCHANGED <<UIVars, deeds, fetchQ, job, glance, serverVars>>

\* The order in which threads were updated is not modelled.
Orders(S) == {f \in [1..Cardinality(S) -> S] : \A i, j \in DOMAIN f : f[i] = f[j] => i = j}

Listed(s, v) ==
    {th \in Thread : /\ Home[th] = s
                     /\ life[th] = IF v.archived THEN "archived" ELSE "open"
                     /\ v.found => th \in Matching}

Rank(th, S) == Cardinality({x \in S : x <= th})

\* A cursor is the number of a page, counted from 2.
PageOf(s, v, cursor) ==
    LET all == Listed(s, v)
        n   == IF cursor = None THEN 1 ELSE cursor
    IN  [ok   |-> TRUE,
         rows |-> {th \in all : Rank(th, all) > (n - 1) * Limit /\ Rank(th, all) <= n * Limit},
         next |-> IF Cardinality(all) > n * Limit THEN n + 1 ELSE None,
         back |-> IF n > 1 THEN n - 1 ELSE None,
         ver  |-> ver[s]]

\* A request for a page, and what the servers answered so far.
PageJob(request, got) ==
    [kind |-> "rows", epoch |-> request.epoch, view |-> request.view, cursor |-> request.cursor,
     got |-> got]

TakeJob ==
    /\ job = NoJob /\ fetchQ # <<>>
    /\ job' = IF Head(fetchQ).kind = "rows" THEN PageJob(Head(fetchQ), <<>>) ELSE Head(fetchQ)
    /\ fetchQ' = Tail(fetchQ)
    /\ UNCHANGED <<UIVars, deeds, glance, tasks, events, serverVars>>

With(got, s, page) == [x \in DOMAIN got \cup {s} |-> IF x = s THEN page ELSE got[x]]

\* The servers are asked at once and answer when they do.
ReadServer(s) ==
    /\ job.kind = "rows" /\ s \in Servers \ DOMAIN job.got
    /\ \E page \in {PageOf(s, job.view, job.cursor), [ok |-> FALSE]} :
         job' = PageJob(job, With(job.got, s, page))
    /\ UNCHANGED <<UIVars, deeds, fetchQ, glance, tasks, events, serverVars>>

\* The rows of the servers that answered, with a warning if some did not.
Merged(got) ==
    LET good == {s \in Servers : got[s].ok}
    IN  [rows |-> UNION {got[s].rows : s \in good},
         warning |-> good # Servers,
         next |-> IF multi THEN None ELSE got[Main].next,
         back |-> IF multi THEN None ELSE got[Main].back,
         vers |-> [s \in Server |-> IF s \in good THEN got[s].ver ELSE 0]]

RowsAnswered ==
    /\ job.kind = "rows" /\ DOMAIN job.got = Servers
    /\ IF \E s \in Servers : job.got[s].ok
       THEN LET page == Merged(job.got)
            IN  \E order \in Orders(page.rows) :
                  events' = Append(events, [type |-> "rows", epoch |-> job.epoch, rows |-> order,
                      next |-> page.next, back |-> page.back, warning |-> page.warning,
                      source |-> [view |-> job.view, cursor |-> job.cursor, vers |-> page.vers]])
       ELSE events' = Append(events, [type |-> "rowsFailed", epoch |-> job.epoch])
    /\ job' = NoJob
    /\ UNCHANGED <<UIVars, deeds, fetchQ, glance, tasks, serverVars>>

ThreadAnswered ==
    /\ job.kind = "load"
    /\ \/ /\ life[job.thread] # "gone"
          /\ events' = Append(events, [type |-> "load", thread |-> job.thread,
                                       ver |-> ver[Home[job.thread]]])
       \/ UNCHANGED events
    /\ job' = NoJob
    /\ UNCHANGED <<UIVars, deeds, fetchQ, glance, tasks, serverVars>>

\* The worker drops all but the newest request.
TakePreview ==
    /\ glance = NoJob /\ previewQ # <<>>
    /\ glance' = [kind |-> "preview", epoch |-> previewQ[Len(previewQ)].epoch,
                  thread |-> previewQ[Len(previewQ)].thread]
    /\ previewQ' = <<>>
    /\ UNCHANGED <<multi, browserVars, pane, preview, told, gone, deeds, fetchQ, job, tasks, events,
                   serverVars>>

PreviewAnswered ==
    /\ glance # NoJob
    /\ \/ /\ life[glance.thread] # "gone"
          /\ events' = Append(events, [type |-> "preview", epoch |-> glance.epoch,
                 thread |-> glance.thread, text |-> glance.thread \notin Silent])
       \/ events' = Append(events, [type |-> "previewFailed", epoch |-> glance.epoch,
                                    thread |-> glance.thread])
    /\ glance' = NoJob
    /\ UNCHANGED <<UIVars, deeds, fetchQ, job, tasks, serverVars>>

-----------------------------------------------------------------------------
(* The events.                                                             *)

\* Mutation: answers are taken in the order they come.
CurrentAlways(n) == TRUE

Current(n) == n = epoch

\* The selection follows its thread; a thread that is not listed loses it.
Follow(list) ==
    LET at == {i \in DOMAIN list : list[i] = Selected}
    IN  IF at = {} THEN 1 ELSE CHOOSE i \in at : TRUE

SetRows(e) ==
    IF Current(e.epoch)
    THEN /\ rows' = e.rows
         /\ selected' = Follow(e.rows)
         /\ cursors' = [cursors EXCEPT !.next = e.next, !.back = e.back]
         /\ loading' = FALSE
         /\ error' = e.warning
         /\ source' = e.source
         /\ UNCHANGED <<view, epoch, mode, fetchQ>>
    ELSE UNCHANGED <<browserVars, fetchQ>>

SetError(e) ==
    /\ IF Current(e.epoch) THEN loading' = FALSE /\ error' = TRUE ELSE UNCHANGED <<loading, error>>
    /\ UNCHANGED <<rows, selected, view, epoch, cursors, mode, source, fetchQ>>

\* Mutation: only the rows are updated.
AfterChangeNothing == UNCHANGED <<view, epoch, loading, error, cursors, fetchQ, source>>

\* After a change of the user's own the rows are read again.
AfterChange == Refresh

\* No list holds a thread twice.
Without(list, th) ==
    LET at == CHOOSE i \in DOMAIN list : list[i] = th
    IN  IF \E i \in DOMAIN list : list[i] = th
        THEN [i \in 1..(Len(list) - 1) |-> list[IF i < at THEN i ELSE i + 1]] ELSE list

\* A deleted thread leaves the rows, and so does one that is archived or brought
\* back when the other ones are listed; the index of the selection stays.
Leaves(e) ==
    \/ e.type = "delete"
    \/ e.type = "archive" /\ ~view.archived
    \/ e.type = "unarchive" /\ view.archived

ApplyChange(e) ==
    /\ rows' = IF Leaves(e) THEN Without(rows, e.thread) ELSE rows
    /\ selected' = Clamp(selected, rows')
    /\ AfterChange
    /\ told' = [told EXCEPT ![Home[e.thread]] = IF e.ver > @ THEN e.ver ELSE @]
    /\ gone' = IF e.type = "delete" THEN gone \cup {e.thread} ELSE gone
    /\ UNCHANGED mode

\* A deleted or loaded thread is previewed anew, from number 0.
Forget(e) ==
    IF e.type \in {"delete", "load"} /\ preview.thread = e.thread THEN NoPreview ELSE preview

Answers(e) == preview.epoch = e.epoch /\ preview.thread = e.thread

\* Mutation: a failed preview stays as it was.
PreviewAfterNoError(e) ==
    IF e.type = "preview" /\ Answers(e)
    THEN [preview EXCEPT !.loading = FALSE, !.text = e.text, !.error = FALSE]
    ELSE IF e.type \in {"preview", "previewFailed"} THEN preview ELSE Forget(e)

\* Text that is shown stays until newer text replaces it.
PreviewAfter(e) ==
    IF e.type = "preview" /\ Answers(e)
    THEN [preview EXCEPT !.loading = FALSE, !.text = @ \/ e.text, !.error = FALSE]
    ELSE IF e.type = "previewFailed" /\ Answers(e)
    THEN [preview EXCEPT !.loading = FALSE, !.error = TRUE]
    ELSE Forget(e)

HandleEvent ==
    /\ events # <<>>
    /\ events' = Tail(events)
    /\ LET e == Head(events)
       IN  /\ \/ e.type = "rows" /\ SetRows(e) /\ UNCHANGED <<told, gone>>
              \/ e.type = "rowsFailed" /\ SetError(e) /\ UNCHANGED <<told, gone>>
              \/ e.type \in {"archive", "unarchive", "delete", "rename", "load"} /\ ApplyChange(e)
              \/ e.type \in {"preview", "previewFailed"}
                 /\ UNCHANGED <<browserVars, fetchQ, told, gone>>
           /\ UNCHANGED pane
           /\ Preview(PreviewAfter(e))
    /\ UNCHANGED <<multi, job, glance, tasks, serverVars, deeds>>

-----------------------------------------------------------------------------
\* The TUI starts by asking for the first page.
Init ==
    /\ multi \in BOOLEAN
    /\ rows = <<>> /\ selected = 1
    /\ view = [archived |-> FALSE, found |-> FALSE]
    /\ epoch = 1 /\ loading = TRUE /\ error = FALSE
    /\ cursors = [current |-> None, next |-> None, back |-> None]
    /\ pane \in BOOLEAN /\ preview = NoPreview /\ mode = Browser
    /\ fetchQ = <<[kind |-> "rows", epoch |-> 1, view |-> view, cursor |-> None]>>
    /\ job = NoJob /\ previewQ = <<>> /\ glance = NoJob
    /\ tasks = {} /\ events = <<>>
    /\ life = [th \in Thread |-> "open"]
    /\ ver = [s \in Server |-> 0] /\ told = [s \in Server |-> 0]
    /\ gone = {}
    /\ source = [view |-> view, cursor |-> None, vers |-> [s \in Server |-> 0]]
    /\ deeds = 0

Next ==
    \/ AskPage \/ MoveSelection \/ TogglePane \/ LoadKey \/ ChangeView \/ Leave \/ Return
    \/ \E kind \in {"archive", "delete", "rename"} : Ask(kind)
    \/ Confirm \/ Tick
    \/ TakeJob \/ RowsAnswered \/ ThreadAnswered \/ TakePreview \/ PreviewAnswered
    \/ \E s \in Server : ReadServer(s)
    \/ \E t \in tasks : TaskActs(t) \/ TaskReports(t)
    \/ \E th \in Thread, kind \in {"archive", "unarchive", "delete"} : OtherClient(th, kind)
    \/ HandleEvent

Spec == Init /\ [][Next]_vars

-----------------------------------------------------------------------------
(* Properties.                                                             *)

\* The types.  The queues keep within their capacity, the selection within the
\* rows, and no thread is listed twice.
TypeOK ==
    /\ Len(fetchQ) <= FetchCap /\ Len(previewQ) <= PreviewCap
    /\ selected \in 1..(IF rows = <<>> THEN 1 ELSE Len(rows))
    /\ RowSet \subseteq Here /\ \A i, j \in DOMAIN rows : rows[i] = rows[j] => i = j
    /\ view \in [archived : BOOLEAN, found : BOOLEAN]
    /\ preview.thread \in {None} \cup Thread
    /\ \A s \in Server : told[s] <= ver[s]

EventsOf(type) == {i \in DOMAIN events : events[i].type = type}

\* Whoever waits for rows or for a preview waits for a request that is queued,
\* is being served or has been answered, although the queues drop requests and
\* the numbers of previews start again.
WaitsAreBacked ==
    /\ loading =>
         \/ \E i \in DOMAIN fetchQ : fetchQ[i].kind = "rows" /\ fetchQ[i].epoch = epoch
         \/ job.kind = "rows" /\ job.epoch = epoch
         \/ \E i \in EventsOf("rows") \cup EventsOf("rowsFailed") : events[i].epoch = epoch
    /\ preview.loading =>
         \/ previewQ # <<>> /\ previewQ[Len(previewQ)] = [epoch |-> preview.epoch, thread |-> preview.thread]
         \/ glance # NoJob /\ glance.epoch = preview.epoch /\ glance.thread = preview.thread
         \/ \E i \in EventsOf("preview") \cup EventsOf("previewFailed") :
              events[i].epoch = preview.epoch /\ events[i].thread = preview.thread

\* The types, and nobody waits for nothing (mod.rs, schedule_browser_page and
\* schedule_selected_preview_if_needed).
BrowserInv == TypeOK /\ WaitsAreBacked

\* Rows that are neither awaited nor in error are those of the view and page that
\* is shown, read from each server after every change the UI was told of.
RowsAreCurrent ==
    ~loading /\ ~error =>
        /\ source.view = view /\ source.cursor = cursors.current
        /\ \A s \in Servers : source.vers[s] >= told[s]

\* A thread the UI has removed as deleted does not come back: an answer from
\* before the deletion, under way when it was reported, is not shown.
GoneStaysGone == \A th \in gone : th \notin RowSet /\ preview.thread # th

\* The preview is lazy: a thread whose preview has come is not asked for again
\* while it stays selected and nothing changed it.
PreviewIsLazy ==
    [][\A th \in Thread :
         /\ EventsOf("preview") # {} /\ Head(events).type = "preview" /\ events' = Tail(events)
         /\ Answers(Head(events)) /\ preview.thread = th
         => ~(preview'.thread = th /\ preview'.loading)]_vars

=============================================================================
