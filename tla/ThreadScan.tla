----------------------------- MODULE ThreadScan -----------------------------
(***************************************************************************)
(* The listing of threads page by page: the scan for threads changed since *)
(* a time, which the server cannot filter, and the search with the local   *)
(* filters of the browser, which asks that scan for one batch after the    *)
(* other.  While a scan goes on, other clients change and delete threads.  *)
(***************************************************************************)
EXTENDS Integers, Sequences, SequencesExt, FiniteSets

CONSTANTS
    Thread,      \* the threads, numbered in the order they were created
    Matching,    \* those the local filters let through
    MaxLimit,    \* bound: the rows that are asked for
    MaxChanges   \* bound: the changes other clients make

ASSUME ScanAssumption ==
    /\ Thread \subseteq Nat \ {0} /\ IsFiniteSet(Thread) /\ Matching \subseteq Thread
    /\ MaxLimit \in Nat /\ MaxChanges \in Nat

VARIABLES
    request,   \* what was asked for
    start,     \* and behind which cursor of an earlier answer
    scan,      \* where the scan is: its cursor, what it has found
    updated,   \* (server) when each thread was last changed, 0 once deleted
    changed    \* the threads changed or deleted since the scan began

scanVars == <<request, start, scan, updated, changed>>

NoCursor == 0

\* "default" leaves the order to the server.  The time 0 is no filter.
Requests ==
    [method : {"list"}, sort : {"default", "created", "updated"}, asc : BOOLEAN,
     since : 0..Cardinality(Thread), limit : 1..MaxLimit, local : {FALSE}]
    \cup
    [method : {"search"}, sort : {"default"}, asc : {FALSE},
     since : 0..Cardinality(Thread), limit : 1..MaxLimit, local : BOOLEAN]

\* Of a batch, left is what it still needs and got what it has; found is the answer.
\* tick changes with every page.
NewScan(limit) ==
    [at |-> "reading", cursor |-> NoCursor, left |-> limit, got |-> <<>>, found |-> <<>>,
     next |-> NoCursor, tick |-> FALSE]

Idle == [NewScan(0) EXCEPT !.at = "idle"]

-----------------------------------------------------------------------------
(* The server (external).  A cursor is the place of the last row of a page *)
(* in the order of the request.                                            *)

Place(th) ==
    LET n == IF request.sort = "updated" THEN updated[th] ELSE th
    IN  IF request.asc THEN n ELSE -n

\* The rows behind a cursor.
Behind(cursor) == {th \in Thread : updated[th] # 0 /\ (cursor = NoCursor \/ Place(th) > cursor)}

\* Some of the first of them, in order.
FirstRows(cursor, limit) ==
    {rows \in BoundedSeq(Behind(cursor), limit) :
       /\ \A i, j \in DOMAIN rows : i < j => Place(rows[i]) < Place(rows[j])
       /\ \A th \in Behind(cursor) \ Range(rows), i \in DOMAIN rows : Place(rows[i]) < Place(th)}

\* A page may be short of the limit, and the last one may have a cursor; an empty
\* one may repeat the cursor it was asked for.
Pages(cursor, limit) ==
    LET first == FirstRows(cursor, limit)
    IN  {[rows |-> r, next |-> Place(Last(r))] : r \in first \ {<<>>}}
        \cup {[rows |-> r, next |-> NoCursor] : r \in {f \in first : Behind(cursor) \subseteq Range(f)}}
        \cup {[rows |-> <<>>, next |-> c] : c \in {cursor} \ {NoCursor}}

-----------------------------------------------------------------------------
(* The scan.                                                               *)

Newer(th) == updated[th] >= request.since

\* Mutation: every page is taken to be newest first.
NewestFirstAlways == TRUE

\* Only then does an older row end the scan.
NewestFirst == request.sort = "updated" /\ ~request.asc

\* A page has no more rows than are still needed, so that its cursor passes over
\* none of them.
PageLimit == scan.left

\* The rows at some of the places of a sequence, and its first n.
Picked(rows, places) ==
    LET rank(i) == Cardinality({j \in places : j <= i})
    IN  [n \in 1..Cardinality(places) |-> rows[CHOOSE i \in places : rank(i) = n]]

Truncated(rows, n) == IF Len(rows) <= n THEN rows ELSE SubSeq(rows, 1, n)

\* The rows of a page that count, and whether an older one ended them.
Taken(rows) ==
    LET new == {i \in DOMAIN rows : IF NewestFirst THEN \A j \in 1..i : Newer(rows[j])
                                                   ELSE Newer(rows[i])}
    IN  [rows |-> Truncated(Picked(rows, new), scan.left),
         boundary |-> NewestFirst /\ \E i \in DOMAIN rows : ~Newer(rows[i])]

\* Mutation: a cursor that is repeated is followed.
RepeatsNever(next) == FALSE

Repeats(next) == next = scan.cursor

\* Mutation: the rows of a page go before those of the pages before it.
KeptBefore(rows) == rows \o scan.got

\* The rows of a batch, in the order they came.
Kept(rows) == scan.got \o rows

\* The batch after a page: without a time to compare with it is one page.
Batch(page) ==
    LET t    == Taken(page.rows)
        left == scan.left - Len(t.rows)
    IN  IF request.since = 0
        THEN [got |-> page.rows, left |-> 0, ends |-> TRUE]
        ELSE [got |-> Kept(t.rows), left |-> left,
              ends |-> t.boundary \/ left = 0 \/ page.next = NoCursor \/ Repeats(page.next)]

Filtered(rows) ==
    IF request.local THEN Picked(rows, {i \in DOMAIN rows : rows[i] \in Matching}) ELSE rows

\* A search with local filters goes on until it has enough rows, and answers without
\* a cursor, so that none is ever given to it.
AfterPage(page) ==
    LET b     == Batch(page)
        found == scan.found \o Filtered(b.got)
        more  == request.local /\ page.next # NoCursor /\ Len(found) < request.limit
    IN  IF ~b.ends
        THEN [scan EXCEPT !.cursor = page.next, !.left = b.left, !.got = b.got, !.tick = ~@]
        ELSE IF more
        THEN [NewScan(request.limit) EXCEPT
                !.cursor = page.next, !.found = found, !.tick = ~scan.tick]
        ELSE [Idle EXCEPT
                !.at = "done",
                !.found = IF request.local THEN Truncated(found, request.limit) ELSE found,
                !.next = IF request.local THEN NoCursor ELSE page.next]

ReadPage ==
    /\ scan.at = "reading"
    /\ \E page \in Pages(scan.cursor, PageLimit) : scan' = AfterPage(page)
    /\ UNCHANGED <<request, start, updated, changed>>

\* What was found before a page that fails is dropped.
PageFails ==
    /\ scan.at = "reading"
    /\ scan' = [Idle EXCEPT !.at = "failed"]
    /\ UNCHANGED <<request, start, updated, changed>>

-----------------------------------------------------------------------------
(* The other clients.                                                      *)

\* Each change comes at a time of its own, after those before it.
Change(th) ==
    /\ scan.at = "reading" /\ Cardinality(changed) < MaxChanges /\ th \notin changed
    /\ updated[th] # 0
    /\ \E time \in {0, Cardinality(Thread) + Cardinality(changed) + 1} :
         updated' = [updated EXCEPT ![th] = time]
    /\ changed' = changed \cup {th}
    /\ UNCHANGED <<request, start, scan>>

Begin ==
    /\ scan.at = "idle"
    /\ scan' = [NewScan(request.limit) EXCEPT !.cursor = start]
    /\ UNCHANGED <<request, start, updated, changed>>

ScanInit ==
    /\ request \in Requests
    /\ scan = Idle
    /\ updated \in {f \in [Thread -> 1..Cardinality(Thread)] :
                      \A a, b \in Thread : f[a] = f[b] => a = b}
    /\ start \in {NoCursor} \cup (IF request.local THEN {} ELSE {Place(th) : th \in Thread})
    /\ changed = {}

ScanNext == Begin \/ ReadPage \/ PageFails \/ \E th \in Thread : Change(th)

ScanSpec == ScanInit /\ [][ScanNext]_scanVars

\* Every request has a deadline.
FairScanSpec == ScanSpec /\ WF_scanVars(ReadPage \/ PageFails)

-----------------------------------------------------------------------------
(* Properties.                                                             *)

\* The threads behind the cursor that was given.
FromStart(th) == start = NoCursor \/ Place(th) > start

\* A thread that stayed as it was and that the request asks for is in the answer,
\* or behind the cursor that was returned; a search with local filters, which
\* returns none, has as many rows before it as were asked for
\* (session.rs, scan_since_filtered; mod.rs, search_threads_with_local_filters).
ScanSkipsNothing ==
    scan.at = "done" =>
      \A th \in Thread \ changed :
        Newer(th) /\ FromStart(th) /\ (request.local => th \in Matching) =>
          \/ th \in Range(scan.found)
          \/ scan.next # NoCursor /\ Place(th) > scan.next
          \/ /\ request.local /\ Len(scan.found) = request.limit
             /\ \A i \in DOMAIN scan.found :
                  scan.found[i] \in changed \/ Place(scan.found[i]) < Place(th)

\* The answer has a thread that stayed as it was at most once, in the order of the
\* request and only when it asks for it; it is behind the cursor that was given and
\* not behind the one that is returned, so that the listing that goes on there does
\* not have it again (session.rs, scan_since_filtered).
ScanListsOnce ==
    scan.at = "done" =>
      /\ \A i, j \in DOMAIN scan.found :
           i < j /\ scan.found[i] \notin changed /\ scan.found[j] \notin changed =>
             Place(scan.found[i]) < Place(scan.found[j])
      /\ \A th \in Range(scan.found) \ changed :
           /\ Newer(th) /\ FromStart(th) /\ (request.local => th \in Matching)
           /\ scan.next # NoCursor => Place(th) <= scan.next

\* A scan that asks for another page has come further in the listing, whatever pages
\* the server sends, so that it asks for none twice (session.rs, the check of the
\* cursor in scan_since_filtered).
CursorMovesOn ==
    [][scan.at = "reading" /\ scan'.at = "reading" /\ ~request.local =>
         /\ scan'.cursor # NoCursor
         /\ scan.cursor = NoCursor \/ scan'.cursor > scan.cursor]_scan

\* A scan ends, even when the server repeats a cursor (session.rs, the check of the
\* cursor in scan_since_filtered); the search with local filters has no such check.
ScanEnds == scan.at = "reading" /\ ~request.local ~> scan.at \in {"done", "failed"}

=============================================================================
