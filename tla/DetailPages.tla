----------------------------- MODULE DetailPages -----------------------------
(***************************************************************************)
(* The detail view and its pages.  The TUI asks for pages of a thread's    *)
(* turns over a bounded queue that one fetch worker serves in order; every *)
(* request carries the epoch of the view, and the answer is applied only   *)
(* if the view still has it.  A page replaces the transcript, extends it   *)
(* at the top or at the bottom; gg and G load pages until there are no     *)
(* more.  While a live stream owns the thread the answers must leave the   *)
(* transcript alone.  Of a message only its turn is kept, and the turns of *)
(* a thread are numbered in their order.                                   *)
(***************************************************************************)
EXTENDS Integers, Sequences, FiniteSets

CONSTANTS
    Thread,
    NoStream,    \* no stream delivers
    NoDetail,    \* the view is closed
    NoCursor,
    History,     \* the number of turns each thread has at first
    MaxTurn,     \* bound: turns of a thread
    PageLimit,   \* DETAIL_TURN_LIMIT
    JumpLimit,   \* DETAIL_JUMP_TURN_LIMIT
    QueueMax,    \* the capacity of the fetch queue
    MaxOps,      \* bound: keys, ticks and events of streams
    Features     \* bound: which of them happen

ASSUME PagesAssumption ==
    /\ MaxTurn \in Nat /\ QueueMax \in Nat \ {0} /\ MaxOps \in Nat
    /\ History \in [Thread -> 1..MaxTurn]
    /\ PageLimit \in Nat \ {0} /\ JumpLimit \in Nat \ {0}
    /\ NoCursor \notin [side : {"older", "newer"}, of : Nat]

VARIABLES
    detail,    \* state.detail
    mode,      \* the browser, the detail view, a prompt over it, or the help
    jump,      \* pending_detail_jump
    stream,    \* the delivering stream: its thread, and whether a snapshot comes
    requests,  \* the fetch queue
    replies,   \* the answers on their way to the TUI
    hist,      \* (server) the number of turns of each thread
    ops        \* the events that happened so far

viewVars == <<detail, mode, jump>>
vars == <<viewVars, stream, requests, replies, hist, ops>>

Turn == 1..MaxTurn

\* Where a page begins: just older or just newer than a turn.
Older(n) == [side |-> "older", of |-> n]
Newer(n) == [side |-> "newer", of |-> n]
OlderCursors == {Older(n) : n \in Turn}
NewerCursors == {Newer(n) : n \in Turn}
Cursors == OlderCursors \cup NewerCursors

NoPage == [turns |-> <<>>, next |-> NoCursor, back |-> NoCursor, seen |-> 0]

\* The view.  Four fields are not the code's: whether its last request found the
\* queue full, when it was opened, how much of the history the last page that set
\* its newer cursor knew, and whether it may have a gap: a page was dropped under a
\* stream, or was asked for by an earlier view.
NewDetail(th, cursor) ==
    [thread |-> th, epoch |-> 0, loading |-> FALSE, unsent |-> FALSE,
     shown |-> <<>>, local |-> {}, next |-> NoCursor, back |-> NoCursor,
     current |-> cursor, born |-> ops, seen |-> 0, gap |-> FALSE]

Op(feature) == feature \in Features /\ ops < MaxOps /\ ops' = ops + 1

(***************************************************************************)
(* The server (external): the turns at a cursor and the cursors at both    *)
(* ends of them.                                                           *)
(***************************************************************************)
Page(th, cursor, limit) ==
    LET n == hist[th]
        bounds ==
            CASE cursor = NoCursor -> [lo |-> n - limit + 1, hi |-> n]
              [] cursor # NoCursor /\ cursor.side = "older" ->
                   [lo |-> cursor.of - limit, hi |-> cursor.of - 1]
              [] OTHER -> [lo |-> cursor.of + 1, hi |-> cursor.of + limit]
        lo == IF bounds.lo < 1 THEN 1 ELSE bounds.lo
        hi == IF bounds.hi > n THEN n ELSE bounds.hi
    IN  IF lo > hi THEN [NoPage EXCEPT !.seen = n]
        ELSE [turns |-> [i \in 1..(hi - lo + 1) |-> lo + i - 1],
              next  |-> IF lo > 1 THEN Older(lo) ELSE NoCursor,
              back  |-> IF hi < n THEN Newer(hi) ELSE NoCursor,
              seen  |-> n]

\* A server whose cursor does not advance.
StuckPage(cursor) ==
    [NoPage EXCEPT !.next = IF cursor.side = "older" THEN cursor ELSE NoCursor,
                   !.back = IF cursor.side = "newer" THEN cursor ELSE NoCursor]

\* stream_owns_thread_content
Owns(d) == stream # NoStream /\ d # NoDetail /\ stream.thread = d.thread

(***************************************************************************)
(* Asking for pages.                                                       *)
(***************************************************************************)
Fits == Len(requests) < QueueMax

\* Mutation: a request that does not fit in the queue leaves the view waiting.
AskingAlways(d, th, cursor) ==
    [IF d # NoDetail /\ d.thread = th THEN d ELSE NewDetail(th, cursor) EXCEPT
        !.epoch = IF d = NoDetail THEN 1 ELSE d.epoch + 1,
        !.loading = TRUE, !.current = cursor]

\* The view d after a page of a thread is asked for; a request that does not fit
\* in the queue has failed.
Asking(d, th, cursor) ==
    [IF d # NoDetail /\ d.thread = th THEN d ELSE NewDetail(th, cursor) EXCEPT
        !.epoch = IF d = NoDetail THEN 1 ELSE d.epoch + 1,
        !.loading = Fits, !.unsent = ~Fits, !.current = cursor]

\* schedule_detail_page_with_limit: the mode is the detail's from now on.
SchedulePage(d, th, cursor, direction, limit) ==
    /\ detail' = Asking(d, th, cursor)
    /\ requests' = IF ~Fits THEN requests
                   ELSE Append(requests, [thread |-> th, epoch |-> detail'.epoch,
                                          cursor |-> cursor, direction |-> direction,
                                          limit |-> limit, born |-> detail'.born])
    /\ mode' = "detail"

\* A page that replaces the transcript ends a jump.
Load(th, cursor) ==
    /\ SchedulePage(detail, th, cursor, "replace", PageLimit)
    /\ jump' = "none"

\* schedule_detail_refresh_for_server
Refresh == Load(detail.thread, detail.current)

\* schedule_pending_detail_jump, for the view d, the jump j and the mode m that it
\* finds: the next page towards the start or the end, until there is none.
GoOn(d, j, m) ==
    LET c == IF j = "start" THEN d.next ELSE d.back
        waits == d # NoDetail /\ j # "none" /\ d.loading
        done  == d = NoDetail \/ j = "none" \/ c \in {NoCursor, d.current}
    IN  IF waits \/ done
        THEN /\ detail' = d /\ mode' = m
             /\ jump' = IF waits THEN j ELSE "none"
             /\ UNCHANGED requests
        ELSE /\ SchedulePage(d, d.thread, c,
                             IF j = "start" THEN "older" ELSE "newer", JumpLimit)
             /\ jump' = j

(***************************************************************************)
(* Keys and the tick.                                                      *)
(***************************************************************************)
Key(feature) == Op(feature) /\ UNCHANGED <<stream, replies, hist>>

\* Enter in the browser
Open(th) == mode = "browser" /\ Load(th, NoCursor) /\ Key("open")

\* Esc in the detail view: unlink_detail_session
Close ==
    /\ mode = "detail" /\ detail # NoDetail
    /\ detail' = NoDetail
    /\ mode' = "browser"
    /\ stream' = IF Owns(detail) THEN NoStream ELSE stream
    /\ Op("close")
    /\ UNCHANGED <<jump, requests, replies, hist>>

\* A prompt over the detail view, and back; the help, which leads to the browser
\* and leaves the view as it is.
Overlay ==
    /\ detail # NoDetail
    /\ \/ mode = "detail" /\ mode' \in {"overlay", "help"}
       \/ mode = "overlay" /\ mode' = "detail"
       \/ mode = "help" /\ mode' = "browser"
    /\ Key("overlay")
    /\ UNCHANGED <<detail, jump, requests>>

\* r, unless a stream runs
RefreshKey ==
    mode = "detail" /\ detail # NoDetail /\ stream = NoStream /\ Refresh /\ Key("refresh")

\* R
ReloadKey ==
    mode = "detail" /\ detail # NoDetail /\ Load(detail.thread, NoCursor) /\ Key("refresh")

\* k, the arrow or the wheel at the top: schedule_detail_older_if_available
ScrollUp ==
    /\ mode \in {"detail", "overlay"} /\ detail # NoDetail
    /\ ~detail.loading
    /\ detail.next \notin {NoCursor, detail.current}
    /\ SchedulePage(detail, detail.thread, detail.next, "older", PageLimit)
    /\ UNCHANGED jump
    /\ Key("scroll")

\* gg, Home, G and End
JumpTo(edge) ==
    mode = "detail" /\ detail # NoDetail /\ GoOn(detail, edge, mode) /\ Key("jump")

\* detail_follow_refresh_thread, after five seconds
Tick ==
    /\ mode = "detail" /\ detail # NoDetail /\ stream = NoStream /\ ~detail.loading
    /\ Refresh
    /\ Key("tick")

(***************************************************************************)
(* The worker.                                                             *)
(***************************************************************************)
Failed(r) == [ok |-> FALSE, epoch |-> r.epoch, thread |-> r.thread,
              direction |-> r.direction, cursor |-> r.cursor, born |-> r.born,
              page |-> NoPage]

Loaded(r, page) == [Failed(r) EXCEPT !.ok = TRUE, !.page = page]

\* One request at a time, in order; any of them may fail.
Serve ==
    /\ requests # <<>>
    /\ requests' = Tail(requests)
    /\ LET r == Head(requests)
       IN  \E a \in {Loaded(r, Page(r.thread, r.cursor, r.limit)), Failed(r)}
                    \cup IF r.direction = "replace" THEN {}
                         ELSE {Loaded(r, StuckPage(r.cursor))} :
             replies' = Append(replies, a)
    /\ UNCHANGED <<viewVars, stream, hist, ops>>

(***************************************************************************)
(* The answers.                                                            *)
(***************************************************************************)
SeqSet(s) == {s[i] : i \in 1..Len(s)}

\* The members of s that are in S, in their order.
Only(s, S) ==
    LET at      == {i \in 1..Len(s) : s[i] \in S}
        rank(i) == Cardinality({j \in at : j <= i})
    IN  [n \in 1..Cardinality(at) |-> s[CHOOSE i \in at : rank(i) = n]]

\* append_unique_messages
Merge(s, t) == s \o Only(t, Turn \ SeqSet(s))

Either(new, old) == IF new = NoCursor THEN old ELSE new

\* Under a stream only the metadata of a refresh is adopted.
Adopts(d, a) == d.thread = a.thread /\ d.shown # <<>> /\ Owns(d)

\* Mutation: a refresh keeps the cursors of the view.
ReplaceKeepingCursors(d, a) ==
    [NewDetail(a.thread, a.cursor) EXCEPT
        !.epoch = a.epoch, !.shown = a.page.turns, !.seen = a.page.seen,
        !.born = d.born,
        !.next = d.next, !.back = d.back]

\* replace_detail: local messages that are not in the page yet stay.
Replace(d, a) ==
    LET same == d.thread = a.thread
        kept == IF same THEN Only(d.shown, d.local) ELSE <<>>
    IN  IF Adopts(d, a)
        THEN [d EXCEPT !.loading = FALSE]
        ELSE [NewDetail(a.thread, a.cursor) EXCEPT
                 !.epoch = a.epoch, !.shown = Merge(a.page.turns, kept),
                 !.local = SeqSet(kept) \ SeqSet(a.page.turns),
                 !.born = d.born, !.gap = d.born # a.born,
                 !.next = a.page.next, !.back = a.page.back, !.seen = a.page.seen]

\* Mutation: under a stream a page is added to the transcript as well, and its messages
\* have other ids than those the stream showed.
ExtendTwice(d, a) ==
    LET older == a.direction = "older"
        p     == a.page
    IN  IF d.thread # a.thread THEN d
        ELSE [d EXCEPT
                 !.shown = IF Owns(d) /\ older THEN p.turns \o @
                           ELSE IF Owns(d) THEN @ \o p.turns
                           ELSE IF older THEN Merge(p.turns, @) ELSE Merge(@, p.turns),
                 !.gap = @ \/ d.born # a.born,
                 !.next = IF older THEN p.next ELSE Either(p.next, @),
                 !.back = IF older THEN Either(p.back, @) ELSE p.back,
                 !.seen = IF older THEN @ ELSE p.seen,
                 !.current = a.cursor, !.loading = FALSE]

\* extend_detail_older and extend_detail_newer: under a stream the cursors
\* advance and the messages of the page are dropped.
Extend(d, a) ==
    LET older == a.direction = "older"
        p     == a.page
        more  == SeqSet(p.turns) \ SeqSet(d.shown)
    IN  IF d.thread # a.thread THEN d
        ELSE [d EXCEPT
                 !.shown = IF Owns(d) THEN @
                           ELSE IF older THEN Merge(p.turns, @) ELSE Merge(@, p.turns),
                 !.gap = @ \/ (Owns(d) /\ more # {}) \/ d.born # a.born,
                 !.next = IF older THEN p.next ELSE Either(p.next, @),
                 !.back = IF older THEN Either(p.back, @) ELSE p.back,
                 !.seen = IF older THEN @ ELSE p.seen,
                 !.current = a.cursor, !.loading = FALSE]

\* DetailLoaded: an answer of another epoch is ignored, a page that replaces the
\* transcript closes what is not a prompt over it, and a jump goes on.
AnswerLoaded(a) ==
    LET current == detail # NoDetail /\ detail.epoch = a.epoch
        shows   == current /\ a.direction = "replace" /\ ~(Adopts(detail, a))
        keeps   == mode \in {"detail", "overlay"} /\ detail.thread = a.thread
    IN  GoOn(IF ~current THEN detail
             ELSE IF a.direction = "replace" THEN Replace(detail, a)
             ELSE Extend(detail, a),
             jump,
             IF shows /\ ~keeps THEN "detail" ELSE mode)

\* auto_attach_open_detail_thread_if_active, after every page that replaces, if
\* the server said that a turn runs.
AutoAttach(a) ==
    \/ UNCHANGED stream
    \/ /\ "stream" \in Features
       /\ a.ok /\ a.direction = "replace"
       /\ detail' # NoDetail /\ mode' = "detail" /\ ~detail'.loading
       /\ ~Owns(detail')
       /\ stream' = [thread |-> detail'.thread, fresh |-> TRUE]

\* Mutation: an error leaves the jump pending.
SetErrorJumping(a) ==
    /\ detail' = IF detail = NoDetail \/ detail.epoch # a.epoch THEN detail
                 ELSE [detail EXCEPT !.loading = FALSE]
    /\ UNCHANGED <<jump, mode, requests>>

\* set_detail_error
SetError(a) ==
    /\ IF detail = NoDetail \/ detail.epoch # a.epoch THEN UNCHANGED <<detail, jump>>
       ELSE /\ detail' = [detail EXCEPT !.loading = FALSE]
            /\ jump' = "none"
    /\ UNCHANGED <<mode, requests>>

Answer ==
    /\ replies # <<>>
    /\ replies' = Tail(replies)
    /\ LET first == Head(replies)
       IN  (IF first.ok THEN AnswerLoaded(first) ELSE SetError(first)) /\ AutoAttach(first)
    /\ UNCHANGED <<hist, ops>>

(***************************************************************************)
(* Streams, of which only the turns they show are kept, and other clients. *)
(***************************************************************************)
\* A prompt that is sent, or an attach, from the view or from the browser.
StreamStarts(th) ==
    /\ \/ mode = "browser"
       \/ mode \in {"detail", "overlay"} /\ detail # NoDetail /\ detail.thread = th
    /\ stream' \in [thread : {th}, fresh : BOOLEAN]
    /\ Op("stream")
    /\ UNCHANGED <<viewVars, requests, replies, hist>>

\* The snapshot of an attach: the whole history, without cursors.
Snapshot ==
    /\ stream # NoStream /\ stream.fresh
    /\ stream' = [stream EXCEPT !.fresh = FALSE]
    /\ LET n == hist[stream.thread]
           kept == Only(detail.shown, {m \in detail.local : m > n})
       IN  IF Owns(detail)
           THEN /\ detail' = [detail EXCEPT
                      !.shown = [i \in 1..n |-> i] \o kept,
                      !.local = SeqSet(kept), !.loading = FALSE,
                      !.next = NoCursor, !.back = NoCursor, !.seen = n,
                      !.gap = FALSE]
                /\ mode' = IF mode \in {"detail", "overlay"} THEN mode ELSE "detail"
           ELSE UNCHANGED <<detail, mode>>
    /\ Op("stream")
    /\ UNCHANGED <<jump, requests, replies, hist>>

\* The stream shows the next turn; a prompt sent from here is local until a page
\* holds it.
LiveTurn ==
    /\ stream # NoStream /\ ~stream.fresh
    /\ hist[stream.thread] < MaxTurn
    /\ hist' = [hist EXCEPT ![stream.thread] = @ + 1]
    /\ \E sent \in {{}, {hist'[stream.thread]}} :
         detail' = IF ~Owns(detail) THEN detail
                   ELSE [detail EXCEPT !.shown = Append(@, hist'[stream.thread]),
                                       !.local = @ \cup sent]
    /\ Op("stream")
    /\ UNCHANGED <<mode, jump, stream, requests, replies>>

\* StreamFinished: an open view of its thread is refreshed.
StreamEnds ==
    /\ stream # NoStream
    /\ stream' = NoStream
    /\ IF Owns(detail) THEN Refresh ELSE UNCHANGED <<viewVars, requests>>
    /\ Op("stream")
    /\ UNCHANGED <<replies, hist>>

\* Another client adds a turn.
TurnElsewhere(th) ==
    /\ hist[th] < MaxTurn
    /\ hist' = [hist EXCEPT ![th] = @ + 1]
    /\ Op("elsewhere")
    /\ UNCHANGED <<viewVars, stream, requests, replies>>

(***************************************************************************)
(* The specification.                                                      *)
(***************************************************************************)
Init ==
    /\ detail = NoDetail /\ mode = "browser" /\ jump = "none"
    /\ stream = NoStream
    /\ requests = <<>> /\ replies = <<>>
    /\ hist = History
    /\ ops = 0

User ==
    \/ \E th \in Thread : Open(th) \/ StreamStarts(th)
    \/ Close
    \/ Overlay
    \/ RefreshKey
    \/ ReloadKey
    \/ ScrollUp
    \/ \E edge \in {"start", "end"} : JumpTo(edge)

Next ==
    \/ User
    \/ Tick
    \/ Serve
    \/ Answer
    \/ Snapshot
    \/ LiveTurn
    \/ StreamEnds
    \/ \E th \in Thread : TurnElsewhere(th)

Spec == Init /\ [][Next]_vars

\* The worker and the TUI's loop go on; nobody has to press a key.
FairSpec == Spec /\ WF_vars(Serve) /\ WF_vars(Answer)

(***************************************************************************)
(* Properties.                                                             *)
(***************************************************************************)
Details ==
    [thread : Thread, epoch : Nat, loading : BOOLEAN, unsent : BOOLEAN,
     shown : Seq(Turn), local : SUBSET Turn, next : OlderCursors \cup {NoCursor},
     back : NewerCursors \cup {NoCursor}, current : Cursors \cup {NoCursor},
     born : 0..MaxOps, seen : 0..MaxTurn, gap : BOOLEAN]

Pages ==
    [turns : Seq(Turn), next : OlderCursors \cup {NoCursor},
     back : NewerCursors \cup {NoCursor}, seen : 0..MaxTurn]

Directions == {"replace", "older", "newer"}

Requests ==
    [thread : Thread, epoch : Nat, cursor : Cursors \cup {NoCursor},
     direction : Directions, limit : {PageLimit, JumpLimit}, born : 0..MaxOps]

Answers ==
    [ok : BOOLEAN, epoch : Nat, thread : Thread, cursor : Cursors \cup {NoCursor},
     direction : Directions, born : 0..MaxOps, page : Pages]

TypeOK ==
    /\ detail \in Details \cup {NoDetail}
    /\ mode \in {"browser", "detail", "overlay", "help"}
    /\ jump \in {"none", "start", "end"}
    /\ stream \in [thread : Thread, fresh : BOOLEAN] \cup {NoStream}
    /\ requests \in Seq(Requests) /\ Len(requests) <= QueueMax
    /\ replies \in Seq(Answers)
    /\ ops \in 0..MaxOps
    /\ hist \in [Thread -> Turn]

\* Who waits is waited for: a view that loads has an answer of its epoch under way,
\* and a jump an answer that takes it on, unless its request found the queue full.
WaitIsBacked ==
    LET pending == SeqSet(requests) \cup SeqSet(replies)
    IN  detail # NoDetail =>
            /\ detail.loading =>
                   \E r \in pending : r.epoch = detail.epoch /\ r.thread = detail.thread
            /\ jump # "none" => pending # {} \/ detail.unsent

\* The types, and nobody waits for nothing (mod.rs, schedule_detail_page_with_limit).
PagesInv == TypeOK /\ WaitIsBacked

\* No turn of the history is lost between the cursors: what the view does not show
\* lies beyond one of them, unless the view may have a gap.
CursorsCover ==
    detail # NoDetail /\ detail.shown # <<>> /\ ~detail.gap =>
        \A n \in 1..detail.seen :
            \/ n \in SeqSet(detail.shown)
            \/ detail.next # NoCursor /\ detail.next.side = "older" /\ n < detail.next.of
            \/ detail.back # NoCursor /\ detail.back.side = "newer" /\ n > detail.back.of

\* While a stream owns the transcript nothing takes a turn from it or shows one twice,
\* and an answer leaves it as it is, unless it was empty (state.rs,
\* stream_owns_thread_content).
StreamOwnsContent ==
    [][Owns(detail) /\ detail' # NoDetail /\ detail'.thread = detail.thread =>
         /\ SeqSet(detail.shown) \subseteq SeqSet(detail'.shown)
         /\ \A i, j \in DOMAIN detail'.shown : detail'.shown[i] = detail'.shown[j] => i = j
         /\ Answer /\ detail.shown # <<>> => detail'.shown = detail.shown]_vars

\* A jump ends, also with a server whose cursors do not advance, unless the view is
\* closed or a request found the queue full.
JumpEnds ==
    jump # "none" ~> jump = "none" \/ detail = NoDetail \/ detail.unsent

\* README: "Detail views refresh in place while open", and scrolling up "preserves
\* the current view".
RefreshKeepsTranscript ==
    [][Answer /\ detail # NoDetail /\ detail' # NoDetail /\ detail'.thread = detail.thread =>
         SeqSet(detail.shown) \subseteq SeqSet(detail'.shown)]_vars

\* README: "Opening a thread loads a small recent turn window": of that thread.
AnswersKeepThread ==
    [][Answer /\ detail # NoDetail => detail'.thread = detail.thread]_vars

=============================================================================
