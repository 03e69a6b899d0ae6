-------------------------- MODULE DetailPages_proofs --------------------------
(***************************************************************************)
(* What is proved of the detail view, for any threads, histories, page     *)
(* sizes and queue: who waits is waited for, no turn is lost between the   *)
(* cursors, and no answer takes from a stream what it shows.  The parts of *)
(* the invariant speak of a view d, a fetch queue q, answers s, the        *)
(* histories h and the number o of events, because a step may change the   *)
(* view twice: by an answer, and by what is asked for next.                *)
(***************************************************************************)
EXTENDS DetailPages, FiniteSetTheorems, TLAPS

Modes == {"browser", "detail", "overlay", "help"}
Jumps == {"none", "start", "end"}
Streams == [thread : Thread, fresh : BOOLEAN]

(***************************************************************************)
(* Cursors and pages agree with the history they were read from, which     *)
(* only grows.                                                             *)
(***************************************************************************)
CursorFits(th, c, h) ==
    \/ c = NoCursor
    \/ c \in OlderCursors /\ 2 <= c.of /\ c.of <= h[th]
    \/ c \in NewerCursors /\ c.of < h[th]

AskFits(r, h) ==
    /\ CursorFits(r.thread, r.cursor, h)
    /\ r.direction = "older" => r.cursor \in OlderCursors
    /\ r.direction = "newer" => r.cursor \in NewerCursors

Once(s) == \A i, j \in DOMAIN s : s[i] = s[j] => i = j

\* The page holds the turns from lo to hi, and says whether there are more.
Spans(p, lo, hi) ==
    /\ lo <= hi /\ hi <= p.seen
    /\ Once(p.turns) /\ SeqSet(p.turns) = lo..hi
    /\ p.next = IF lo > 1 THEN Older(lo) ELSE NoCursor
    /\ p.back = IF hi < p.seen THEN Newer(hi) ELSE NoCursor

\* A page of a server whose cursor does not advance.
Stuck(a) ==
    /\ a.direction # "replace" /\ a.page.turns = <<>> /\ a.page.seen = 0
    /\ a.page.next = IF a.direction = "older" THEN a.cursor ELSE NoCursor
    /\ a.page.back = IF a.direction = "newer" THEN a.cursor ELSE NoCursor

\* A page beyond which lies what it was asked from, or one that is stuck.
PageFits(a, h) ==
    /\ a.page.seen <= h[a.thread]
    /\ \/ \E lo, hi \in Turn : /\ Spans(a.page, lo, hi)
                               /\ a.direction = "older" => hi < a.page.seen
                               /\ a.direction = "newer" => lo > 1
       \/ Stuck(a)

ViewFits(d, h) ==
    /\ CursorFits(d.thread, d.next, h)
    /\ CursorFits(d.thread, d.back, h)
    /\ CursorFits(d.thread, d.current, h)
    /\ d.seen <= h[d.thread]
    /\ Once(d.shown) /\ SeqSet(d.shown) \subseteq 1..h[d.thread]

(***************************************************************************)
(* A view asks once per epoch, so an answer of this view and epoch is the  *)
(* one that is awaited.                                                    *)
(***************************************************************************)
Differ(p, r) == p.born # r.born \/ p.epoch # r.epoch

Timely(r, d, o) ==
    r.born < o /\ (d # NoDetail /\ r.born = d.born => r.epoch <= d.epoch)

Apart(q, s) ==
    /\ \A i, j \in DOMAIN q : i # j => Differ(q[i], q[j])
    /\ \A i, j \in DOMAIN s : i # j => Differ(s[i], s[j])
    /\ \A i \in DOMAIN s, j \in DOMAIN q : Differ(s[i], q[j])

(***************************************************************************)
(* What the view does not show lies beyond a cursor; and what was asked    *)
(* for begins where the view ends.                                         *)
(***************************************************************************)
Beyond(d, n) == d.back # NoCursor /\ n > d.back.of

Shows(d, n) == n \in SeqSet(d.shown) \/ Beyond(d, n)

Covers(d) ==
    ~d.gap => \A n \in 1..d.seen : Shows(d, n) \/ (d.next # NoCursor /\ n < d.next.of)

Own(d, r) == r.born = d.born /\ r.epoch = d.epoch /\ r.thread = d.thread

Adjoins(d, r) ==
    d # NoDetail /\ ~d.gap /\ r.direction = "older" /\ Own(d, r)
        => \A n \in 1..d.seen : n >= r.cursor.of => Shows(d, n)

(***************************************************************************)
(* The invariant.                                                          *)
(***************************************************************************)
Flies(r, d, h, o) == AskFits(r, h) /\ Timely(r, d, o) /\ Adjoins(d, r)

Traffic(d, q, s, h, o) ==
    /\ q \in Seq(Requests) /\ s \in Seq(Answers) /\ Len(q) <= QueueMax
    /\ h \in [Thread -> Turn] /\ o \in 0..MaxOps
    /\ \A i \in DOMAIN q : Flies(q[i], d, h, o)
    /\ \A i \in DOMAIN s : Flies(s[i], d, h, o) /\ (s[i].ok => PageFits(s[i], h))
    /\ Apart(q, s)

View(d, h, o) ==
    /\ d \in Details \cup {NoDetail}
    /\ d # NoDetail => ViewFits(d, h) /\ d.born < o /\ Covers(d)

\* A view that waits, or whose jump does, has an answer of its epoch under way.
Answered(d, q, s) ==
    \/ \E i \in DOMAIN q : q[i].epoch = d.epoch /\ q[i].thread = d.thread
    \/ \E i \in DOMAIN s : s[i].epoch = d.epoch /\ s[i].thread = d.thread

Backed(d, j, q, s) ==
    d # NoDetail /\ (d.loading \/ (j # "none" /\ ~d.unsent)) => Answered(d, q, s)

ViewInv ==
    /\ mode \in Modes /\ jump \in Jumps /\ stream \in Streams \cup {NoStream}
    /\ Traffic(detail, requests, replies, hist, ops)
    /\ View(detail, hist, ops)
    /\ Backed(detail, jump, requests, replies)

(***************************************************************************)
(* Sequences: what is kept of one, and what is merged into another.        *)
(***************************************************************************)
LEMMA AppendIs ==
    ASSUME NEW S, NEW s \in Seq(S), NEW x \in S
    PROVE  /\ Append(s, x) \in Seq(S) /\ Len(Append(s, x)) = Len(s) + 1
           /\ Len(s) + 1 \in DOMAIN Append(s, x) /\ Append(s, x)[Len(s) + 1] = x
           /\ \A i \in DOMAIN s : i \in DOMAIN Append(s, x) /\ Append(s, x)[i] = s[i]
           /\ \A i \in DOMAIN Append(s, x) : i \in DOMAIN s \/ i = Len(s) + 1
OBVIOUS

LEMMA TailIs ==
    ASSUME NEW S, NEW s \in Seq(S), s # <<>>
    PROVE  /\ Tail(s) \in Seq(S) /\ Len(Tail(s)) = Len(s) - 1
           /\ 1 \in DOMAIN s /\ s[1] = Head(s) /\ Head(s) \in S
           /\ \A i \in DOMAIN Tail(s) : /\ i + 1 \in DOMAIN s /\ Tail(s)[i] = s[i + 1]
                                        /\ i + 1 # 1
           /\ \A j \in DOMAIN s : j = 1 \/ (j - 1 \in DOMAIN Tail(s) /\ s[j] = Tail(s)[j - 1])
OBVIOUS

Rank(A, i) == Cardinality({j \in A : j <= i})

\* The ranks in a set of numbers are the numbers up to its size, each once.
LEMMA RankIs ==
    ASSUME NEW A \in SUBSET Nat, IsFiniteSet(A)
    PROVE  /\ Cardinality(A) \in Nat
           /\ \A i \in A : Rank(A, i) \in 1..Cardinality(A)
           /\ \A i, k \in A : Rank(A, i) = Rank(A, k) => i = k
           /\ \A n \in 1..Cardinality(A) : \E i \in A : Rank(A, i) = n
<1> DEFINE Upto(i) == {j \in A : j <= i}
           c == Cardinality(A)
           r == [i \in A |-> Rank(A, i)]
<1>1. c \in Nat
  BY FS_CardinalityType
<1>2. ASSUME NEW i \in A
      PROVE  IsFiniteSet(Upto(i)) /\ Rank(A, i) \in 1..c
  <2>1. Upto(i) \in SUBSET A /\ i \in Upto(i)
    OBVIOUS
  <2>2. IsFiniteSet(Upto(i)) /\ Cardinality(Upto(i)) <= c
    BY <2>1, FS_Subset
  <2>3. Cardinality(Upto(i)) \in Nat /\ Cardinality(Upto(i)) # 0
    BY <2>1, <2>2, FS_CardinalityType, FS_EmptySet
  <2> QED BY <1>1, <2>2, <2>3 DEF Rank
<1>3. ASSUME NEW i \in A, NEW k \in A, i < k
      PROVE  Rank(A, i) # Rank(A, k)
  <2>0. \A j \in A \cup {i, k} : j \in Int
    OBVIOUS
  <2>a. \A j \in A : j <= i => j <= k
    BY <1>3, <2>0
  <2>b. k <= k /\ ~(k <= i)
    BY <1>3, <2>0
  <2>1. Upto(i) \in SUBSET Upto(k) /\ k \in Upto(k) /\ k \notin Upto(i)
    BY <2>a, <2>b
  <2>2. IsFiniteSet(Upto(k)) /\ IsFiniteSet(Upto(i))
    BY <1>2
  <2>3. Cardinality(Upto(k)) # Cardinality(Upto(i))
    BY <2>1, <2>2, FS_Subset
  <2> QED BY <2>3 DEF Rank
<1>4. \A i, k \in A : Rank(A, i) = Rank(A, k) => i = k
  <2> SUFFICES ASSUME NEW i \in A, NEW k \in A, i # k PROVE Rank(A, i) # Rank(A, k)
    OBVIOUS
  <2>1. i < k \/ k < i
    OBVIOUS
  <2> QED BY <2>1, <1>3
<1>5. r \in Injection(A, 1..c)
  BY <1>2, <1>4 DEF Injection, IsInjective
<1>6. IsFiniteSet(1..c) /\ Cardinality(1..c) = c
  BY <1>1, FS_Interval
<1>7. r \in Surjection(A, 1..c)
  BY <1>5, <1>6, FS_Injection
<1>8. \A n \in 1..c : \E i \in A : Rank(A, i) = n
  BY <1>7 DEF Surjection
<1> QED BY <1>1, <1>2, <1>4, <1>8

LEMMA OnlyIs ==
    ASSUME NEW T, NEW s \in Seq(T), NEW S
    PROVE  /\ Only(s, S) \in Seq(T)
           /\ SeqSet(Only(s, S)) = SeqSet(s) \cap S
           /\ Once(s) => Once(Only(s, S))
<1> DEFINE at == {i \in 1..Len(s) : s[i] \in S}
           Pick(n) == CHOOSE i \in at : Rank(at, i) = n
           t == [n \in 1..Cardinality(at) |-> s[Pick(n)]]
<1>1. at \in SUBSET Nat /\ IsFiniteSet(at) /\ at \subseteq DOMAIN s
  <2>1. IsFiniteSet(1..Len(s))
    BY FS_Interval
  <2> QED BY <2>1, FS_Subset
<1>2. Only(s, S) = t
  BY DEF Only, Rank
<1>3. \A n \in 1..Cardinality(at) : Pick(n) \in at /\ Rank(at, Pick(n)) = n
  BY <1>1, RankIs
<1>4. \A i \in at : Pick(Rank(at, i)) = i
  <2> SUFFICES ASSUME NEW i \in at PROVE Pick(Rank(at, i)) = i
    OBVIOUS
  <2>1. Rank(at, i) \in 1..Cardinality(at)
    BY <1>1, RankIs
  <2>2. Pick(Rank(at, i)) \in at /\ Rank(at, Pick(Rank(at, i))) = Rank(at, i)
    BY <1>3, <2>1
  <2>3. \A j, k \in at : Rank(at, j) = Rank(at, k) => j = k
    BY <1>1, RankIs
  <2> HIDE DEF Pick
  <2> QED BY <2>2, <2>3
<1>5. Cardinality(at) \in Nat /\ \A i \in at : Rank(at, i) \in 1..Cardinality(at)
  BY <1>1, RankIs
<1> HIDE DEF Pick
<1>6. t \in Seq(T) /\ Len(t) = Cardinality(at) /\ DOMAIN t = 1..Cardinality(at)
  <2>1. \A n \in 1..Cardinality(at) : s[Pick(n)] \in T
    BY <1>1, <1>3
  <2> QED BY <1>5, <2>1
<1>7. SeqSet(t) \subseteq SeqSet(s) \cap S
  <2> SUFFICES ASSUME NEW n \in 1..Cardinality(at) PROVE s[Pick(n)] \in SeqSet(s) \cap S
    BY <1>6 DEF SeqSet
  <2>1. Pick(n) \in at
    BY <1>3
  <2> QED BY <2>1 DEF SeqSet
<1>8. SeqSet(s) \cap S \subseteq SeqSet(t)
  <2> SUFFICES ASSUME NEW i \in 1..Len(s), s[i] \in S PROVE s[i] \in SeqSet(t)
    BY DEF SeqSet
  <2>1. i \in at
    OBVIOUS
  <2>2. Rank(at, i) \in 1..Cardinality(at) /\ Pick(Rank(at, i)) = i
    BY <2>1, <1>4, <1>5
  <2>3. t[Rank(at, i)] = s[i]
    BY <2>2
  <2> QED BY <2>2, <2>3, <1>6 DEF SeqSet
<1>9. ASSUME Once(s) PROVE Once(t)
  <2> SUFFICES ASSUME NEW n \in 1..Cardinality(at), NEW m \in 1..Cardinality(at), t[n] = t[m]
               PROVE  n = m
    BY <1>6 DEF Once
  <2>1. Pick(n) \in DOMAIN s /\ Pick(m) \in DOMAIN s /\ s[Pick(n)] = s[Pick(m)]
    BY <1>1, <1>3
  <2>2. Pick(n) = Pick(m)
    BY <1>9, <2>1 DEF Once
  <2>3. Rank(at, Pick(n)) = n /\ Rank(at, Pick(m)) = m
    BY <1>3
  <2> QED BY <2>2, <2>3
<1> QED BY <1>2, <1>6, <1>7, <1>8, <1>9

LEMMA SeqSetIs ==
    ASSUME NEW T, NEW s \in Seq(T)
    PROVE  /\ SeqSet(s) \subseteq T
           /\ \A i \in DOMAIN s : s[i] \in SeqSet(s)
           /\ s # <<>> => SeqSet(s) # {}
BY DEF SeqSet

LEMMA EmptyIs == <<>> \in Seq(Turn) /\ Once(<<>>) /\ SeqSet(<<>>) = {}
BY DEF Once, SeqSet

LEMMA JoinIs ==
    ASSUME NEW T, NEW s \in Seq(T), NEW t \in Seq(T)
    PROVE  /\ s \o t \in Seq(T)
           /\ SeqSet(s \o t) = SeqSet(s) \cup SeqSet(t)
           /\ Once(s) /\ Once(t) /\ SeqSet(s) \cap SeqSet(t) = {} => Once(s \o t)
<1> DEFINE u == s \o t
<1>1. /\ u \in Seq(T) /\ Len(u) = Len(s) + Len(t) /\ DOMAIN u = 1..(Len(s) + Len(t))
      /\ \A i \in 1..Len(s) : i \in DOMAIN u /\ u[i] = s[i]
      /\ \A i \in 1..Len(t) : Len(s) + i \in DOMAIN u /\ u[Len(s) + i] = t[i]
      /\ \A i \in DOMAIN u : i \in 1..Len(s) \/ (i > Len(s) /\ i - Len(s) \in 1..Len(t)
                                                 /\ u[i] = t[i - Len(s)])
  OBVIOUS
<1> HIDE DEF u
<1>2. SeqSet(u) = SeqSet(s) \cup SeqSet(t)
  <2>1. SeqSet(u) \subseteq SeqSet(s) \cup SeqSet(t)
    BY <1>1 DEF SeqSet
  <2>2. SeqSet(s) \subseteq SeqSet(u)
    BY <1>1 DEF SeqSet
  <2>3. SeqSet(t) \subseteq SeqSet(u)
    BY <1>1 DEF SeqSet
  <2> QED BY <2>1, <2>2, <2>3
<1>3. ASSUME Once(s), Once(t), SeqSet(s) \cap SeqSet(t) = {} PROVE Once(u)
  <2> SUFFICES ASSUME NEW i \in DOMAIN u, NEW j \in DOMAIN u, u[i] = u[j] PROVE i = j
    BY DEF Once
  <2>1. CASE i \in 1..Len(s) /\ j \in 1..Len(s)
    BY <1>1, <1>3, <2>1 DEF Once
  <2>2. CASE i \in 1..Len(s) /\ j \notin 1..Len(s)
    <3>1. u[i] \in SeqSet(s) /\ u[j] \in SeqSet(t)
      BY <1>1, <2>2 DEF SeqSet
    <3> QED BY <1>3, <3>1
  <2>3. CASE i \notin 1..Len(s) /\ j \in 1..Len(s)
    <3>1. u[i] \in SeqSet(t) /\ u[j] \in SeqSet(s)
      BY <1>1, <2>3 DEF SeqSet
    <3> QED BY <1>3, <3>1
  <2>4. CASE i \notin 1..Len(s) /\ j \notin 1..Len(s)
    <3>1. i - Len(s) \in DOMAIN t /\ j - Len(s) \in DOMAIN t
          /\ t[i - Len(s)] = t[j - Len(s)]
      BY <1>1, <2>4
    <3>2. i - Len(s) = j - Len(s)
      BY <1>3, <3>1 DEF Once
    <3> QED BY <1>1, <3>2
  <2> QED BY <2>1, <2>2, <2>3, <2>4
<1> QED BY <1>1, <1>2, <1>3 DEF u

\* append_unique_messages: nothing is lost and nothing comes twice.
LEMMA MergeIs ==
    ASSUME NEW s \in Seq(Turn), NEW t \in Seq(Turn)
    PROVE  /\ Merge(s, t) \in Seq(Turn)
           /\ SeqSet(Merge(s, t)) = SeqSet(s) \cup SeqSet(t)
           /\ Once(s) /\ Once(t) => Once(Merge(s, t))
<1> DEFINE S == Turn \ SeqSet(s)
           k == Only(t, S)
<1>1. /\ k \in Seq(Turn) /\ SeqSet(k) = SeqSet(t) \cap S
      /\ Once(t) => Once(k)
  BY OnlyIs
<1>2. SeqSet(t) \subseteq Turn
  BY SeqSetIs
<1>3. Merge(s, t) = s \o k
  BY DEF Merge
<1> HIDE DEF k
<1> QED BY <1>1, <1>2, <1>3, JoinIs

(***************************************************************************)
(* What is on its way, when the view, the history or the events change.    *)
(***************************************************************************)
\* The fields that requests and answers share.
Ask(r) == r.epoch \in Nat /\ r.born \in 0..MaxOps /\ r.thread \in Thread
          /\ r.cursor \in Cursors \cup {NoCursor} /\ r.direction \in Directions

LEMMA AsksAre == (\A r \in Requests : Ask(r)) /\ (\A r \in Answers : Ask(r))
BY DEF Requests, Answers, Ask

LEMMA AskFitsGrows ==
    ASSUME NEW h \in [Thread -> Turn], NEW k \in [Thread -> Turn],
           \A th \in Thread : h[th] <= k[th],
           NEW r, Ask(r), AskFits(r, h)
    PROVE  AskFits(r, k)
<1>1. h[r.thread] \in Nat /\ k[r.thread] \in Nat /\ h[r.thread] <= k[r.thread]
  BY PagesAssumption DEF Ask, Turn
<1>2. r.cursor \in OlderCursors \cup NewerCursors => r.cursor.of \in Nat
  BY PagesAssumption DEF OlderCursors, NewerCursors, Older, Newer, Turn
<1> QED BY <1>1, <1>2 DEF AskFits, CursorFits

LEMMA PageFitsGrows ==
    ASSUME NEW h \in [Thread -> Turn], NEW k \in [Thread -> Turn],
           \A th \in Thread : h[th] <= k[th],
           NEW a \in Answers, PageFits(a, h)
    PROVE  PageFits(a, k)
<1>1. h[a.thread] \in Nat /\ k[a.thread] \in Nat /\ h[a.thread] <= k[a.thread]
  BY PagesAssumption DEF Answers, Turn
<1>2. a.page.seen \in Nat
  BY PagesAssumption DEF Answers, Pages
<1>3. a.page.seen <= k[a.thread]
  BY <1>1, <1>2 DEF PageFits
<1> QED BY <1>3 DEF PageFits

LEMMA Carried ==
    ASSUME NEW d, NEW e, NEW q, NEW s, NEW h, NEW k, NEW o, NEW u,
           Traffic(d, q, s, h, o),
           k \in [Thread -> Turn], \A th \in Thread : h[th] <= k[th], u \in 0..MaxOps,
           ASSUME NEW r, Ask(r), Flies(r, d, h, o) PROVE Flies(r, e, k, u)
    PROVE  Traffic(e, q, s, k, u)
<1>1. /\ q \in Seq(Requests) /\ s \in Seq(Answers) /\ Len(q) <= QueueMax /\ Apart(q, s)
      /\ h \in [Thread -> Turn]
  BY DEF Traffic
<1>2. ASSUME NEW i \in DOMAIN q PROVE Flies(q[i], e, k, u)
  <2>1. Ask(q[i]) /\ Flies(q[i], d, h, o)
    BY <1>1, AsksAre DEF Traffic
  <2> QED BY <2>1
<1>3. ASSUME NEW i \in DOMAIN s
      PROVE  Flies(s[i], e, k, u) /\ (s[i].ok => PageFits(s[i], k))
  <2>1. s[i] \in Answers /\ Ask(s[i]) /\ Flies(s[i], d, h, o) /\ (s[i].ok => PageFits(s[i], h))
    BY <1>1, AsksAre DEF Traffic
  <2> QED BY <2>1, <1>1, PageFitsGrows
<1> QED BY <1>1, <1>2, <1>3 DEF Traffic

\* The first answer leaves; the others differ from it.
LEMMA Popped ==
    ASSUME NEW d, NEW e, NEW q, NEW s, NEW h, NEW o,
           Traffic(d, q, s, h, o), s # <<>>,
           ASSUME NEW r, Ask(r), Differ(Head(s), r), Flies(r, d, h, o)
           PROVE  Flies(r, e, h, o)
    PROVE  Traffic(e, q, Tail(s), h, o)
<1>1. /\ q \in Seq(Requests) /\ s \in Seq(Answers) /\ Len(q) <= QueueMax /\ Apart(q, s)
      /\ h \in [Thread -> Turn] /\ o \in 0..MaxOps
  BY DEF Traffic
<1> DEFINE t == Tail(s)
<1>2. /\ t \in Seq(Answers) /\ 1 \in DOMAIN s /\ s[1] = Head(s)
      /\ \A i \in DOMAIN t : i + 1 \in DOMAIN s /\ t[i] = s[i + 1] /\ i + 1 # 1
      /\ \A i, j \in DOMAIN t : i # j => i + 1 # j + 1
  BY <1>1, TailIs
<1> HIDE DEF t
<1>3. ASSUME NEW i \in DOMAIN q PROVE Flies(q[i], e, h, o)
  <2>1. Ask(q[i]) /\ Flies(q[i], d, h, o)
    BY <1>1, AsksAre DEF Traffic
  <2>2. Differ(Head(s), q[i])
    BY <1>1, <1>2 DEF Apart
  <2> QED BY <2>1, <2>2
<1>4. ASSUME NEW i \in DOMAIN t
      PROVE  Flies(t[i], e, h, o) /\ (t[i].ok => PageFits(t[i], h))
  <2>1. Ask(s[i + 1]) /\ Flies(s[i + 1], d, h, o) /\ (s[i + 1].ok => PageFits(s[i + 1], h))
    BY <1>1, <1>2, AsksAre DEF Traffic
  <2>2. Differ(Head(s), s[i + 1])
    BY <1>1, <1>2 DEF Apart
  <2> QED BY <2>1, <2>2, <1>2
<1>5. Apart(q, t)
  BY <1>1, <1>2 DEF Apart
<1> QED BY <1>1, <1>2, <1>3, <1>4, <1>5 DEF Traffic, t

LEMMA DropFirst ==
    ASSUME NEW d, NEW q, NEW s, NEW h, NEW o, Traffic(d, q, s, h, o), s # <<>>
    PROVE  Traffic(d, q, Tail(s), h, o)
BY Popped

(***************************************************************************)
(* Asking for a page.                                                      *)
(***************************************************************************)
LEMMA NewDetailIs ==
    ASSUME NEW th \in Thread, NEW c \in Cursors \cup {NoCursor}, ops \in 0..MaxOps
    PROVE  NewDetail(th, c) \in Details
BY PagesAssumption DEF NewDetail, Details

LEMMA AskingIs ==
    ASSUME NEW d \in Details \cup {NoDetail}, NEW th \in Thread,
           NEW c \in Cursors \cup {NoCursor}, ops \in 0..MaxOps, NEW e, e = Asking(d, th, c)
    PROVE  /\ e \in Details
           /\ e.thread = th /\ e.current = c /\ e.loading = Fits /\ e.unsent = ~Fits
           /\ d # NoDetail /\ d.thread = th =>
                /\ e.epoch = d.epoch + 1 /\ e.born = d.born /\ e.gap = d.gap
                /\ e.shown = d.shown /\ e.local = d.local /\ e.next = d.next
                /\ e.back = d.back /\ e.seen = d.seen
           /\ ~(d # NoDetail /\ d.thread = th) =>
                /\ e.born = ops /\ e.shown = <<>> /\ e.next = NoCursor
                /\ e.back = NoCursor /\ e.seen = 0
<1>1. Fits \in BOOLEAN
  BY DEF Fits
<1> HIDE DEF Fits
<1>2. CASE d # NoDetail /\ d.thread = th
  <2> DEFINE k == d.epoch + 1
             w == ~Fits
  <2>1. d \in Details
    BY <1>2
  <2>2. k \in Nat /\ w \in BOOLEAN
    BY <2>1 DEF Details
  <2>3. e = [d EXCEPT !.epoch = k, !.loading = Fits, !.unsent = w, !.current = c]
    BY <1>2 DEF Asking
  <2> HIDE DEF k, w
  <2>4. e \in Details
    BY <1>1, <2>1, <2>2, <2>3 DEF Details
  <2>5. /\ e.epoch = k /\ e.loading = Fits /\ e.unsent = w /\ e.current = c
        /\ e.thread = d.thread /\ e.born = d.born /\ e.gap = d.gap
        /\ e.shown = d.shown /\ e.local = d.local /\ e.next = d.next
        /\ e.back = d.back /\ e.seen = d.seen
    BY <2>1, <2>3 DEF Details
  <2> QED BY <1>2, <2>4, <2>5 DEF k, w
<1>3. CASE ~(d # NoDetail /\ d.thread = th)
  <2> DEFINE n == NewDetail(th, c)
             k == IF d = NoDetail THEN 1 ELSE d.epoch + 1
  <2>1. n \in Details
    BY NewDetailIs
  <2>2. k \in Nat
    BY DEF Details
  <2>3. e = [n EXCEPT !.epoch = k, !.loading = Fits, !.unsent = ~Fits, !.current = c]
    BY <1>3 DEF Asking
  <2>4. /\ n.thread = th /\ n.born = ops /\ n.shown = <<>> /\ n.next = NoCursor
        /\ n.back = NoCursor /\ n.seen = 0
    BY DEF NewDetail
  <2> HIDE DEF n, k
  <2> QED BY <1>1, <1>3, <2>1, <2>2, <2>3, <2>4, Zenon DEF Details
<1> QED BY <1>2, <1>3

\* schedule_detail_page_with_limit: what was on its way belongs to an earlier epoch
\* or to an earlier view, and what is asked for now begins where the view ends.
LEMMA Schedules ==
    ASSUME NEW d, NEW s, NEW j, NEW th \in Thread, NEW c \in Cursors \cup {NoCursor},
           NEW dir \in Directions, NEW lim \in {PageLimit, JumpLimit},
           Traffic(d, requests, s, hist, ops), View(d, hist, ops),
           SchedulePage(d, th, c, dir, lim),
           ops' \in 0..MaxOps, ops' = ops \/ ops' = ops + 1,
           (d # NoDetail /\ d.thread = th) \/ ops' = ops + 1,
           CursorFits(th, c, hist),
           dir = "older" => d # NoDetail /\ d.thread = th /\ c = d.next /\ c \in OlderCursors,
           dir = "newer" => c \in NewerCursors
    PROVE  /\ Traffic(detail', requests', s, hist, ops')
           /\ View(detail', hist, ops')
           /\ Backed(detail', j, requests', s)
           /\ mode' = "detail"
<1> DEFINE same == d # NoDetail /\ d.thread = th
           n == [thread |-> th, epoch |-> detail'.epoch, cursor |-> c, direction |-> dir,
                 limit |-> lim, born |-> detail'.born]
           e == detail'
           q == requests'
<1>1. /\ requests \in Seq(Requests) /\ s \in Seq(Answers) /\ Len(requests) <= QueueMax
      /\ hist \in [Thread -> Turn] /\ ops \in 0..MaxOps /\ ops' \in 0..MaxOps /\ ops \in Nat
      /\ d \in Details \cup {NoDetail}
      /\ Apart(requests, s)
  BY PagesAssumption DEF Traffic, View
<1>2. e = Asking(d, th, c) /\ mode' = "detail"
      /\ q = IF ~Fits THEN requests ELSE Append(requests, n)
  BY DEF SchedulePage
<1>3. /\ e \in Details
      /\ e.thread = th /\ e.current = c /\ e.loading = Fits /\ e.unsent = ~Fits
      /\ same =>
           /\ e.epoch = d.epoch + 1 /\ e.born = d.born /\ e.gap = d.gap
           /\ e.shown = d.shown /\ e.local = d.local /\ e.next = d.next
           /\ e.back = d.back /\ e.seen = d.seen
      /\ ~same =>
           /\ e.born = ops /\ e.shown = <<>> /\ e.next = NoCursor
           /\ e.back = NoCursor /\ e.seen = 0
  <2>1. \A x : x = Asking(d, th, c) =>
           /\ x \in Details
           /\ x.thread = th /\ x.current = c /\ x.loading = Fits /\ x.unsent = ~Fits
           /\ same =>
                /\ x.epoch = d.epoch + 1 /\ x.born = d.born /\ x.gap = d.gap
                /\ x.shown = d.shown /\ x.local = d.local /\ x.next = d.next
                /\ x.back = d.back /\ x.seen = d.seen
           /\ ~same =>
                /\ x.born = ops /\ x.shown = <<>> /\ x.next = NoCursor
                /\ x.back = NoCursor /\ x.seen = 0
    BY <1>1, AskingIs, Zenon
  <2> QED BY <1>2, <2>1
<1> HIDE DEF e, q
<1>4. same => d \in Details /\ d.epoch \in Nat /\ d.born \in Nat /\ ops' >= ops
              /\ d.born < ops
  BY <1>1, PagesAssumption DEF Details, View
<1>a. e.epoch \in Nat /\ e.born \in 0..MaxOps /\ e.born < ops' /\ e.born <= ops
  BY <1>1, <1>3, <1>4 DEF Details
<1>5. ASSUME NEW r, Ask(r), Flies(r, d, hist, ops)
      PROVE  Differ(r, e) /\ Flies(r, e, hist, ops')
  <2>1. r.epoch \in Nat /\ r.born \in Nat /\ r.born < ops
        /\ (d # NoDetail /\ r.born = d.born => r.epoch <= d.epoch)
    BY <1>5 DEF Ask, Flies, Timely
  <2>2. (r.born = e.born => r.epoch < e.epoch) /\ r.born < ops'
    BY <2>1, <1>1, <1>3, <1>4
  <2>3. Differ(r, e) /\ Timely(r, e, ops')
    BY <2>1, <2>2, <1>a DEF Differ, Timely
  <2>4. Adjoins(e, r)
    BY <2>3 DEF Adjoins, Own, Differ
  <2> QED BY <1>5, <2>3, <2>4 DEF Flies
<1>6. Traffic(e, requests, s, hist, ops')
  <2>1. \A th2 \in Thread : hist[th2] <= hist[th2]
    BY <1>1, PagesAssumption DEF Turn
  <2> QED BY <1>1, <1>5, <2>1, Carried
<1>7. n \in Requests /\ n.epoch = e.epoch /\ n.born = e.born /\ n.thread = th
      /\ n.cursor = c /\ n.direction = dir
  BY <1>1, <1>a DEF Requests, e
<1> HIDE DEF n
<1>8. Flies(n, e, hist, ops')
  <2>1. AskFits(n, hist)
    BY <1>7 DEF AskFits
  <2>2. Timely(n, e, ops')
    BY <1>7, <1>a DEF Timely
  <2>3. Adjoins(e, n)
    <3> SUFFICES ASSUME ~e.gap, dir = "older", NEW k \in 1..e.seen, k >= c.of
                 PROVE  Shows(e, k)
      BY <1>7 DEF Adjoins
    <3>1. same /\ c = d.next /\ c \in OlderCursors /\ ~d.gap /\ k \in 1..d.seen
      BY <1>3
    <3>2. Covers(d)
      BY <3>1, <1>1 DEF View
    <3>3. Shows(d, k) \/ k < c.of
      BY <3>1, <3>2 DEF Covers
    <3>4. c.of \in Nat /\ k \in Int
      BY <3>1, PagesAssumption DEF OlderCursors, Older, Turn
    <3>5. Shows(d, k)
      BY <3>3, <3>4
    <3> QED BY <3>1, <3>5, <1>3 DEF Shows, Beyond
  <2> QED BY <2>1, <2>2, <2>3 DEF Flies
<1>9. Traffic(e, q, s, hist, ops')
  <2>1. CASE ~Fits
    BY <2>1, <1>2, <1>6
  <2>2. CASE Fits
    <3>1. q = Append(requests, n) /\ Len(requests) < QueueMax
      BY <2>2, <1>2 DEF Fits
    <3> DEFINE m == Len(requests) + 1
    <3>2. /\ q \in Seq(Requests) /\ Len(q) = m /\ m \in DOMAIN q /\ q[m] = n
          /\ \A i \in DOMAIN requests : i \in DOMAIN q /\ q[i] = requests[i]
          /\ \A i \in DOMAIN q : i \in DOMAIN requests \/ i = m
      BY <3>1, <1>1, <1>7, AppendIs
    <3>3. m <= QueueMax
      BY <3>1, <1>1, PagesAssumption
    <3> HIDE DEF m
    <3>4. ASSUME NEW i \in DOMAIN q PROVE Flies(q[i], e, hist, ops')
      BY <3>2, <1>8, <1>6 DEF Traffic
    <3>5. \A i \in DOMAIN requests : Differ(requests[i], e)
      BY <1>1, <1>5, AsksAre DEF Traffic
    <3>6. \A i \in DOMAIN s : Differ(s[i], e)
      BY <1>1, <1>5, AsksAre DEF Traffic
    <3>7. \A i \in DOMAIN requests : Differ(requests[i], n) /\ Differ(n, requests[i])
      BY <3>5, <1>7 DEF Differ
    <3>8. \A i \in DOMAIN s : Differ(s[i], n)
      BY <3>6, <1>7 DEF Differ
    <3>9. Apart(q, s)
      BY <3>2, <3>7, <3>8, <1>1 DEF Apart
    <3> QED BY <3>2, <3>3, <3>4, <3>9, <1>1, <1>6 DEF Traffic
  <2> QED BY <2>1, <2>2
<1>10. View(e, hist, ops')
  <2>1. CASE same
    <3>1. ViewFits(d, hist) /\ Covers(d)
      BY <2>1 DEF View
    <3>2. ViewFits(e, hist)
      BY <3>1, <2>1, <1>3 DEF ViewFits
    <3>3. Covers(e)
      BY <3>1, <2>1, <1>3 DEF Covers, Shows, Beyond
    <3> QED BY <3>2, <3>3, <1>3, <1>a DEF View
  <2>2. CASE ~same
    <3>1. hist[th] \in Nat
      BY <1>1, PagesAssumption DEF Turn
    <3>2. Once(e.shown) /\ SeqSet(e.shown) = {}
      BY <2>2, <1>3 DEF Once, SeqSet
    <3>3. ViewFits(e, hist)
      BY <3>1, <3>2, <2>2, <1>3 DEF ViewFits, CursorFits
    <3>4. Covers(e)
      BY <2>2, <1>3 DEF Covers
    <3> QED BY <3>3, <3>4, <1>3, <1>a DEF View
  <2> QED BY <2>1, <2>2
<1>11. Backed(e, j, q, s)
  <2>1. CASE ~Fits
    BY <2>1, <1>3 DEF Backed
  <2>2. CASE Fits
    <3>1. q = Append(requests, n)
      BY <2>2, <1>2
    <3>2. Len(requests) + 1 \in DOMAIN q /\ q[Len(requests) + 1] = n
      BY <3>1, <1>1, <1>7, AppendIs
    <3>3. \E i \in DOMAIN q : q[i].epoch = e.epoch /\ q[i].thread = e.thread
      BY <3>2, <1>3, <1>7
    <3> QED BY <3>3 DEF Backed, Answered
  <2> QED BY <2>1, <2>2
<1> QED BY <1>2, <1>9, <1>10, <1>11 DEF e, q

\* schedule_pending_detail_jump, from a view that waits only for what is on its way.
LEMMA GoesOn ==
    ASSUME NEW d, NEW s, NEW j \in Jumps, NEW m \in Modes,
           Traffic(d, requests, s, hist, ops), View(d, hist, ops),
           d # NoDetail /\ d.loading => Answered(d, requests, s),
           GoOn(d, j, m), ops' \in 0..MaxOps, ops' = ops \/ ops' = ops + 1
    PROVE  /\ Traffic(detail', requests', s, hist, ops')
           /\ View(detail', hist, ops')
           /\ Backed(detail', jump', requests', s)
           /\ mode' \in Modes /\ jump' \in Jumps
<1> DEFINE c == IF j = "start" THEN d.next ELSE d.back
           waits == d # NoDetail /\ j # "none" /\ d.loading
           done == d = NoDetail \/ j = "none" \/ c \in {NoCursor, d.current}
           dir == IF j = "start" THEN "older" ELSE "newer"
<1>1. hist \in [Thread -> Turn] /\ ops \in 0..MaxOps /\ d \in Details \cup {NoDetail}
      /\ \A th \in Thread : hist[th] <= hist[th]
  BY PagesAssumption DEF Traffic, View, Turn
<1>2. CASE waits \/ done
  <2>1. /\ detail' = d /\ mode' = m /\ requests' = requests
        /\ jump' = IF waits THEN j ELSE "none"
    BY <1>2 DEF GoOn
  <2>2. ASSUME NEW r, Ask(r), Flies(r, d, hist, ops) PROVE Flies(r, d, hist, ops')
    <3>1. r.born \in Nat /\ ops \in Nat /\ ops' \in Nat /\ ops' >= ops
      BY <2>2, <1>1 DEF Ask
    <3> QED BY <2>2, <3>1 DEF Flies, Timely
  <2>3. Traffic(d, requests, s, hist, ops')
    BY <1>1, <2>2, Carried
  <2>4. View(d, hist, ops')
    <3>1. d # NoDetail => d.born \in Nat /\ ops \in Nat /\ ops' >= ops
      BY <1>1 DEF Details
    <3> QED BY <3>1, <1>1 DEF View
  <2>5. Backed(d, IF waits THEN j ELSE "none", requests, s)
    BY DEF Backed
  <2> QED BY <2>1, <2>3, <2>4, <2>5 DEF Jumps
<1>3. CASE ~(waits \/ done)
  <2>1. SchedulePage(d, d.thread, c, dir, JumpLimit) /\ jump' = j
    BY <1>3 DEF GoOn
  <2>2. d # NoDetail /\ d \in Details /\ d.thread \in Thread
    BY <1>1, <1>3 DEF Details
  <2>3. /\ c \in Cursors \cup {NoCursor} /\ CursorFits(d.thread, c, hist)
        /\ (dir = "older" => c = d.next /\ c \in OlderCursors)
        /\ (dir = "newer" => c \in NewerCursors)
    <3>1. CursorFits(d.thread, d.next, hist) /\ CursorFits(d.thread, d.back, hist)
      BY <2>2 DEF View, ViewFits
    <3>2. d.next \in OlderCursors \cup {NoCursor} /\ d.back \in NewerCursors \cup {NoCursor}
      BY <2>2 DEF Details
    <3>3. c # NoCursor
      BY <1>3
    <3> QED BY <3>1, <3>2, <3>3 DEF Cursors
  <2>4. dir \in Directions /\ JumpLimit \in {PageLimit, JumpLimit}
    BY DEF Directions
  <2> HIDE DEF c, dir
  <2>5. /\ Traffic(detail', requests', s, hist, ops')
        /\ View(detail', hist, ops')
        /\ Backed(detail', j, requests', s)
        /\ mode' = "detail"
    BY <2>1, <2>2, <2>3, <2>4, Schedules
  <2> QED BY <2>1, <2>5 DEF Modes
<1> QED BY <1>2, <1>3

(***************************************************************************)
(* The worker's answers.                                                   *)
(***************************************************************************)
LEMMA AnswerIs ==
    ASSUME NEW r \in Requests, NEW p \in Pages, NEW a, a \in {Loaded(r, p), Failed(r)}
    PROVE  /\ a \in Answers
           /\ a.epoch = r.epoch /\ a.thread = r.thread /\ a.born = r.born
           /\ a.direction = r.direction /\ a.cursor = r.cursor
           /\ a.ok => a.page = p
<1>1. NoPage \in Pages
  BY PagesAssumption DEF NoPage, Pages
<1> HIDE DEF NoPage
<1>2. Failed(r) \in Answers
  BY <1>1 DEF Failed, Requests, Answers
<1>3. Loaded(r, p) \in Answers
  BY <1>2 DEF Loaded, Answers
<1>4. ASSUME a = Failed(r)
      PROVE  /\ a.epoch = r.epoch /\ a.thread = r.thread /\ a.born = r.born
             /\ a.direction = r.direction /\ a.cursor = r.cursor /\ a.ok = FALSE
  BY <1>4 DEF Failed
<1>5. ASSUME a = Loaded(r, p)
      PROVE  /\ a.epoch = r.epoch /\ a.thread = r.thread /\ a.born = r.born
             /\ a.direction = r.direction /\ a.cursor = r.cursor /\ a.page = p
  BY <1>5 DEF Failed, Loaded
<1> QED BY <1>2, <1>3, <1>4, <1>5

LEMMA PageIs ==
    ASSUME NEW r \in Requests, hist \in [Thread -> Turn], AskFits(r, hist)
    PROVE  LET a == Loaded(r, Page(r.thread, r.cursor, r.limit))
           IN  a \in Answers /\ PageFits(a, hist)
<1> DEFINE c == r.cursor
           limit == r.limit
           n == hist[r.thread]
           bounds ==
               CASE c = NoCursor -> [lo |-> n - limit + 1, hi |-> n]
                 [] c # NoCursor /\ c.side = "older" -> [lo |-> c.of - limit, hi |-> c.of - 1]
                 [] OTHER -> [lo |-> c.of + 1, hi |-> c.of + limit]
           lo == IF bounds.lo < 1 THEN 1 ELSE bounds.lo
           hi == IF bounds.hi > n THEN n ELSE bounds.hi
           p == [turns |-> [i \in 1..(hi - lo + 1) |-> lo + i - 1],
                 next  |-> IF lo > 1 THEN Older(lo) ELSE NoCursor,
                 back  |-> IF hi < n THEN Newer(hi) ELSE NoCursor,
                 seen  |-> n]
           q == Page(r.thread, c, limit)
           a == Loaded(r, q)
<1>1. /\ n \in Turn /\ n \in Nat /\ n >= 1 /\ MaxTurn \in Nat /\ n <= MaxTurn
      /\ limit \in Nat /\ limit >= 1
      /\ r.direction \in Directions
  BY PagesAssumption DEF Requests, Turn
<1>2. q = IF lo > hi THEN [NoPage EXCEPT !.seen = n] ELSE p
  BY DEF Page
<1>3. \/ c = NoCursor /\ bounds = [lo |-> n - limit + 1, hi |-> n] /\ r.direction = "replace"
      \/ /\ c # NoCursor /\ c \in OlderCursors /\ c.of \in Nat /\ 2 <= c.of /\ c.of <= n
         /\ bounds = [lo |-> c.of - limit, hi |-> c.of - 1] /\ r.direction # "newer"
      \/ /\ c # NoCursor /\ c \in NewerCursors /\ c.of \in Nat /\ 1 <= c.of /\ c.of < n
         /\ bounds = [lo |-> c.of + 1, hi |-> c.of + limit] /\ r.direction # "older"
  <2>1. \A x \in OlderCursors : x # NoCursor /\ x.side = "older" /\ x.of \in Nat /\ x.of >= 1
    BY PagesAssumption DEF OlderCursors, Older, Turn
  <2>2. \A x \in NewerCursors : x # NoCursor /\ x.side = "newer" /\ x.of \in Nat /\ x.of >= 1
    BY PagesAssumption DEF NewerCursors, Newer, Turn
  <2> QED BY <1>1, <2>1, <2>2 DEF AskFits, CursorFits, Directions
<1> HIDE DEF bounds
<1>4. /\ lo \in Nat /\ hi \in Nat /\ 1 <= lo /\ lo <= hi /\ hi <= n
      /\ r.direction = "older" => hi < n
      /\ r.direction = "newer" => lo > 1
  BY <1>1, <1>3
<1> HIDE DEF lo, hi, n, c, limit
<1>5. q = p
  BY <1>2, <1>4
<1>6. lo \in Turn /\ hi \in Turn /\ n \in 0..MaxTurn
  BY <1>1, <1>4 DEF Turn
<1> DEFINE t == [i \in 1..(hi - lo + 1) |-> lo + i - 1]
<1>7. /\ t \in Seq(Turn) /\ DOMAIN t = 1..(hi - lo + 1) /\ Len(t) = hi - lo + 1
      /\ Once(t) /\ SeqSet(t) = lo..hi
  <2>1. hi - lo + 1 \in Nat
    BY <1>4
  <2>2. \A i \in 1..(hi - lo + 1) : lo + i - 1 \in Turn /\ lo + i - 1 \in lo..hi
    BY <1>1, <1>4 DEF Turn
  <2>3. t \in Seq(Turn) /\ DOMAIN t = 1..(hi - lo + 1) /\ Len(t) = hi - lo + 1
    BY <2>1, <2>2
  <2>4. Once(t)
    <3> SUFFICES ASSUME NEW i \in 1..(hi - lo + 1), NEW j \in 1..(hi - lo + 1), t[i] = t[j]
                 PROVE  i = j
      BY <2>3 DEF Once
    <3> QED BY <1>4
  <2>5. \A k \in lo..hi : k - lo + 1 \in 1..(hi - lo + 1) /\ t[k - lo + 1] = k
    BY <1>4
  <2>6. SeqSet(t) \subseteq lo..hi
    BY <2>2, <2>3 DEF SeqSet
  <2>7. lo..hi \subseteq SeqSet(t)
    BY <2>3, <2>5 DEF SeqSet
  <2> QED BY <2>3, <2>4, <2>6, <2>7
<1>8. /\ p.turns = t /\ p.seen = n
      /\ p.next = IF lo > 1 THEN Older(lo) ELSE NoCursor
      /\ p.back = IF hi < n THEN Newer(hi) ELSE NoCursor
  OBVIOUS
<1>9. p \in Pages
  BY <1>6, <1>7 DEF Pages, OlderCursors, NewerCursors
<1> HIDE DEF p, t, q
<1>10. Spans(p, lo, hi)
  BY <1>4, <1>7, <1>8 DEF Spans
<1>11. a \in Answers /\ a.page = p /\ a.thread = r.thread /\ a.direction = r.direction
  <2>1. a \in Answers
    BY <1>5, <1>9, AnswerIs
  <2>2. a.thread = r.thread /\ a.direction = r.direction
    BY <1>5, <1>9, AnswerIs
  <2> QED BY <1>5, <2>1, <2>2 DEF Loaded, Failed
<1>12. a.page.seen <= hist[a.thread]
  BY <1>1, <1>8, <1>11 DEF n
<1>13. a.direction = "older" => hi < a.page.seen
  BY <1>4, <1>8, <1>11
<1>14. a.direction = "newer" => lo > 1
  BY <1>4, <1>11
<1> HIDE DEF a
<1>15. PageFits(a, hist)
  BY <1>6, <1>10, <1>11, <1>12, <1>13, <1>14 DEF PageFits
<1> QED BY <1>11, <1>15 DEF a, q, c, limit

LEMMA StuckIs ==
    ASSUME NEW r \in Requests, hist \in [Thread -> Turn], AskFits(r, hist),
           r.direction # "replace"
    PROVE  LET a == Loaded(r, StuckPage(r.cursor))
           IN  a \in Answers /\ PageFits(a, hist)
<1> DEFINE c == r.cursor
           p == StuckPage(c)
           a == Loaded(r, p)
<1>1. \/ r.direction = "older" /\ c \in OlderCursors /\ c.side = "older"
      \/ r.direction = "newer" /\ c \in NewerCursors /\ c.side = "newer"
  BY DEF AskFits, Requests, Directions, OlderCursors, NewerCursors, Older, Newer
<1> DEFINE f == IF c.side = "older" THEN c ELSE NoCursor
           g == IF c.side = "newer" THEN c ELSE NoCursor
<1>2. /\ f \in OlderCursors \cup {NoCursor} /\ g \in NewerCursors \cup {NoCursor}
      /\ f = IF r.direction = "older" THEN c ELSE NoCursor
      /\ g = IF r.direction = "newer" THEN c ELSE NoCursor
  BY <1>1
<1>a. p = [NoPage EXCEPT !.next = f, !.back = g]
  BY DEF StuckPage
<1>b. NoPage \in Pages /\ NoPage.turns = <<>> /\ NoPage.seen = 0
  BY PagesAssumption DEF NoPage, Pages
<1> HIDE DEF f, g, p
<1>3. p \in Pages /\ p.turns = <<>> /\ p.seen = 0 /\ p.next = f /\ p.back = g
  BY <1>2, <1>a, <1>b DEF Pages
<1>4. a \in Answers /\ a.page = p /\ a.thread = r.thread /\ a.direction = r.direction
      /\ a.cursor = c
  BY <1>3, AnswerIs DEF Loaded, Failed
<1>5. Stuck(a)
  BY <1>2, <1>3, <1>4 DEF Stuck
<1>6. a.page.seen <= hist[a.thread]
  BY <1>3, <1>4, PagesAssumption DEF Requests, Turn
<1> QED BY <1>4, <1>5, <1>6 DEF PageFits, p

(***************************************************************************)
(* What an answer does to the view.                                        *)
(***************************************************************************)
LEMMA CursorsAre ==
    /\ \A x \in OlderCursors : x # NoCursor /\ x \notin NewerCursors /\ x.of \in Turn /\ x.of \in Nat
    /\ \A x \in NewerCursors : x # NoCursor /\ x \notin OlderCursors /\ x.of \in Turn /\ x.of \in Nat
    /\ \A n \in Turn : /\ Older(n) \in OlderCursors /\ Older(n).of = n
                       /\ Newer(n) \in NewerCursors /\ Newer(n).of = n
BY PagesAssumption DEF OlderCursors, NewerCursors, Older, Newer, Turn

\* The cursors of a page that holds the turns from lo to hi.
LEMMA SpansFit ==
    ASSUME NEW th \in Thread, hist \in [Thread -> Turn], NEW p \in Pages,
           NEW lo \in Turn, NEW hi \in Turn, Spans(p, lo, hi), p.seen <= hist[th]
    PROVE  /\ CursorFits(th, p.next, hist) /\ CursorFits(th, p.back, hist)
           /\ p.turns \in Seq(Turn) /\ Once(p.turns)
           /\ SeqSet(p.turns) \subseteq 1..hist[th]
           /\ \A k \in 1..p.seen : \/ k \in SeqSet(p.turns)
                                   \/ p.next # NoCursor /\ k < p.next.of
                                   \/ p.back # NoCursor /\ k > p.back.of
           /\ lo > 1 => p.next # NoCursor /\ p.next.of = lo
           /\ lo <= 1 => p.next = NoCursor
           /\ hi < p.seen => p.back # NoCursor /\ p.back.of = hi
<1>1. /\ lo \in Nat /\ hi \in Nat /\ 1 <= lo /\ p.seen \in Nat /\ hist[th] \in Nat
      /\ lo <= hi /\ hi <= p.seen /\ p.seen <= hist[th]
  BY PagesAssumption DEF Turn, Pages, Spans
<1>2. /\ p.next = IF lo > 1 THEN Older(lo) ELSE NoCursor
      /\ p.back = IF hi < p.seen THEN Newer(hi) ELSE NoCursor
  BY DEF Spans
<1>3. lo > 1 => p.next # NoCursor /\ p.next.of = lo /\ p.next \in OlderCursors
  BY <1>2, CursorsAre
<1>4. hi < p.seen => p.back # NoCursor /\ p.back.of = hi /\ p.back \in NewerCursors
  BY <1>2, CursorsAre
<1>5. CursorFits(th, p.next, hist)
  BY <1>1, <1>2, <1>3 DEF CursorFits
<1>6. CursorFits(th, p.back, hist)
  BY <1>1, <1>2, <1>4 DEF CursorFits
<1>7. p.turns \in Seq(Turn) /\ Once(p.turns) /\ SeqSet(p.turns) = lo..hi
  BY DEF Pages, Spans
<1>8. ASSUME NEW k \in 1..p.seen
      PROVE  \/ k \in SeqSet(p.turns)
             \/ p.next # NoCursor /\ k < p.next.of
             \/ p.back # NoCursor /\ k > p.back.of
  <2>1. CASE k < lo
    BY <2>1, <1>1, <1>3
  <2>2. CASE k > hi
    BY <2>2, <1>1, <1>4
  <2>3. CASE lo <= k /\ k <= hi
    BY <2>3, <1>1, <1>7
  <2> QED BY <1>1, <2>1, <2>2, <2>3
<1> QED BY <1>1, <1>2, <1>3, <1>4, <1>5, <1>6, <1>7, <1>8

\* What follows for what else is on its way, when the answer a was applied to d.
LEMMA AnswerFlies ==
    ASSUME NEW d, NEW e, NEW r, NEW a, Ask(r), Differ(a, r), Flies(r, d, hist, ops),
           d # NoDetail, e.born = d.born, e.epoch = d.epoch, a.epoch = d.epoch,
           ~e.gap => a.born = d.born
    PROVE  Flies(r, e, hist, ops)
<1>1. Timely(r, e, ops)
  BY DEF Flies, Timely
<1>2. Adjoins(e, r)
  BY DEF Adjoins, Own, Differ
<1> QED BY <1>1, <1>2 DEF Flies

\* replace_detail: the page and what was local.
LEMMA Replaces ==
    ASSUME NEW d \in Details, NEW s, NEW a,
           Traffic(d, requests, s, hist, ops), View(d, hist, ops), d # NoDetail,
           s # <<>>, a = Head(s), a.ok, a.direction = "replace", a.epoch = d.epoch,
           NEW e, e = Replace(d, a)
    PROVE  /\ Traffic(e, requests, Tail(s), hist, ops) /\ View(e, hist, ops)
           /\ e \in Details /\ e.loading = FALSE
<1>1. /\ a \in Answers /\ AskFits(a, hist) /\ PageFits(a, hist)
      /\ hist \in [Thread -> Turn] /\ ops \in 0..MaxOps
      /\ ViewFits(d, hist) /\ d.born < ops /\ Covers(d)
  <2>1. s \in Seq(Answers) /\ hist \in [Thread -> Turn] /\ ops \in 0..MaxOps
    BY DEF Traffic
  <2>2. 1 \in DOMAIN s /\ s[1] = a /\ a \in Answers
    BY <2>1, TailIs
  <2> QED BY <2>1, <2>2 DEF Traffic, Flies, View
<1>2. CASE Adopts(d, a)
  <2>1. e = [d EXCEPT !.loading = FALSE]
    BY <1>2 DEF Replace
  <2>2. /\ e \in Details /\ e.loading = FALSE
        /\ e.thread = d.thread /\ e.epoch = d.epoch /\ e.born = d.born /\ e.gap = d.gap
        /\ e.shown = d.shown /\ e.next = d.next /\ e.back = d.back /\ e.seen = d.seen
        /\ e.current = d.current
    BY <2>1 DEF Details
  <2>3. ASSUME NEW r, Ask(r), Differ(Head(s), r), Flies(r, d, hist, ops)
        PROVE  Flies(r, e, hist, ops)
    BY <2>2, <2>3 DEF Flies, Timely, Adjoins, Own, Shows, Beyond
  <2>4. Traffic(e, requests, Tail(s), hist, ops)
    BY <2>3, Popped
  <2>5. View(e, hist, ops)
    BY <1>1, <2>2 DEF View, ViewFits, Covers, Shows, Beyond
  <2> QED BY <2>2, <2>4, <2>5
<1>3. CASE ~Adopts(d, a)
  <2> DEFINE same == d.thread = a.thread
             kept == IF same THEN Only(d.shown, d.local) ELSE <<>>
             p == a.page
             n == NewDetail(a.thread, a.cursor)
             m == Merge(p.turns, kept)
             l == SeqSet(kept) \ SeqSet(p.turns)
             g == d.born # a.born
  <2>1. e = [n EXCEPT !.epoch = a.epoch, !.shown = m, !.local = l, !.born = d.born, !.gap = g,
                      !.next = p.next, !.back = p.back, !.seen = p.seen]
    BY <1>3 DEF Replace
  <2>2. p \in Pages /\ a.thread \in Thread /\ a.cursor \in Cursors \cup {NoCursor}
        /\ a.epoch \in Nat /\ p.seen \in Nat /\ hist[a.thread] \in Nat
    BY <1>1, PagesAssumption DEF Answers, Pages, Turn
  <2>3. PICK lo \in Turn, hi \in Turn : Spans(p, lo, hi)
    BY <1>1 DEF PageFits, Stuck
  <2>4. p.seen <= hist[a.thread]
    BY <1>1 DEF PageFits
  <2>5. /\ CursorFits(a.thread, p.next, hist) /\ CursorFits(a.thread, p.back, hist)
        /\ p.turns \in Seq(Turn) /\ Once(p.turns) /\ SeqSet(p.turns) \subseteq 1..hist[a.thread]
        /\ \A k \in 1..p.seen : \/ k \in SeqSet(p.turns)
                                \/ p.next # NoCursor /\ k < p.next.of
                                \/ p.back # NoCursor /\ k > p.back.of
    BY <1>1, <2>2, <2>3, <2>4, SpansFit
  <2>6. d.shown \in Seq(Turn) /\ Once(d.shown)
        /\ SeqSet(d.shown) \subseteq 1..hist[d.thread]
    BY <1>1 DEF Details, ViewFits
  <2>7. /\ kept \in Seq(Turn) /\ Once(kept)
        /\ SeqSet(kept) \subseteq 1..hist[a.thread]
    <3>1. CASE same
      BY <3>1, <2>6, OnlyIs
    <3>2. CASE ~same
      <4>1. kept = <<>>
        BY <3>2
      <4> HIDE DEF kept
      <4> QED BY <4>1, EmptyIs
    <3> QED BY <3>1, <3>2
  <2> HIDE DEF kept
  <2>8. /\ m \in Seq(Turn) /\ Once(m)
        /\ SeqSet(m) = SeqSet(p.turns) \cup SeqSet(kept)
    BY <2>5, <2>7, MergeIs
  <2>9. l \in SUBSET Turn
    BY <2>7, SeqSetIs
  <2>10. n \in Details /\ n.thread = a.thread /\ n.current = a.cursor /\ n.loading = FALSE
    BY <1>1, <2>2, NewDetailIs DEF NewDetail
  <2>11. g \in BOOLEAN
    OBVIOUS
  <2>12. d.born \in 0..MaxOps
    BY DEF Details
  <2> DEFINE x == p.next
             y == p.back
             z == p.seen
  <2>a. x \in OlderCursors \cup {NoCursor} /\ y \in NewerCursors \cup {NoCursor}
        /\ z \in 0..MaxTurn
    BY <2>2 DEF Pages
  <2>b. e = [n EXCEPT !.epoch = a.epoch, !.shown = m, !.local = l, !.born = d.born, !.gap = g,
                      !.next = x, !.back = y, !.seen = z]
    BY <2>1
  <2> HIDE DEF m, l, n, g, p, x, y, z
  <2>c. e \in Details
    <3> DEFINE n1 == [n EXCEPT !.epoch = a.epoch, !.shown = m, !.local = l]
               n2 == [n1 EXCEPT !.born = d.born, !.gap = g]
               n3 == [n2 EXCEPT !.next = x, !.back = y, !.seen = z]
    <3>1. n1 \in Details
      BY <2>2, <2>8, <2>9, <2>10 DEF Details
    <3> HIDE DEF n1
    <3>2. n2 \in Details
      BY <3>1, <2>11, <2>12 DEF Details
    <3> HIDE DEF n2
    <3>3. n3 \in Details
      BY <3>2, <2>a DEF Details
    <3> QED BY <3>3, <2>b DEF n1, n2
  <2>d. /\ e.loading = FALSE
        /\ e.thread = a.thread /\ e.epoch = a.epoch /\ e.born = d.born /\ e.gap = g
        /\ e.shown = m /\ e.next = x /\ e.back = y /\ e.seen = z
        /\ e.current = a.cursor
    BY <2>10, <2>b, Zenon DEF Details
  <2>13. /\ e \in Details /\ e.loading = FALSE
         /\ e.thread = a.thread /\ e.epoch = a.epoch /\ e.born = d.born /\ e.gap = g
         /\ e.shown = m /\ e.next = p.next /\ e.back = p.back /\ e.seen = p.seen
         /\ e.current = a.cursor
    BY <2>c, <2>d DEF x, y, z
  <2>14. ASSUME NEW r, Ask(r), Differ(Head(s), r), Flies(r, d, hist, ops)
         PROVE  Flies(r, e, hist, ops)
    <3>1. e.epoch = d.epoch /\ (~e.gap => a.born = d.born)
      BY <2>13 DEF g
    <3> QED BY <2>13, <2>14, <3>1, AnswerFlies
  <2>15. Traffic(e, requests, Tail(s), hist, ops)
    BY <2>14, Popped
  <2>16. ViewFits(e, hist)
    <3>1. CursorFits(a.thread, a.cursor, hist)
      BY <1>1 DEF AskFits
    <3> QED BY <3>1, <2>4, <2>5, <2>7, <2>8, <2>13 DEF ViewFits
  <2>17. Covers(e)
    BY <2>5, <2>8, <2>13 DEF Covers, Shows, Beyond
  <2>18. View(e, hist, ops)
    BY <1>1, <2>13, <2>16, <2>17 DEF View
  <2> QED BY <2>13, <2>15, <2>18
<1> QED BY <1>2, <1>3

\* extend_detail_older and extend_detail_newer, for the thread of the view: what the
\* page holds is shown, or the view may have a gap.
LEMMA Extends ==
    ASSUME NEW d \in Details, NEW s, NEW a,
           Traffic(d, requests, s, hist, ops), View(d, hist, ops), d # NoDetail,
           s # <<>>, a = Head(s), a.ok, a.direction # "replace", a.epoch = d.epoch,
           a.thread = d.thread, NEW e, e = Extend(d, a)
    PROVE  /\ Traffic(e, requests, Tail(s), hist, ops) /\ View(e, hist, ops)
           /\ e \in Details /\ e.loading = FALSE
<1>1. /\ a \in Answers /\ AskFits(a, hist) /\ PageFits(a, hist) /\ Adjoins(d, a)
      /\ hist \in [Thread -> Turn] /\ ops \in 0..MaxOps
      /\ ViewFits(d, hist) /\ d.born < ops /\ Covers(d)
  <2>1. s \in Seq(Answers) /\ hist \in [Thread -> Turn] /\ ops \in 0..MaxOps
    BY DEF Traffic
  <2>2. 1 \in DOMAIN s /\ s[1] = a /\ a \in Answers
    BY <2>1, TailIs
  <2> QED BY <2>1, <2>2 DEF Traffic, Flies, View
<1> DEFINE older == a.direction = "older"
           p == a.page
           own == Owns(d)
           more == SeqSet(p.turns) \ SeqSet(d.shown)
           m == IF own THEN d.shown
                ELSE IF older THEN Merge(p.turns, d.shown) ELSE Merge(d.shown, p.turns)
           g == d.gap \/ (own /\ more # {}) \/ d.born # a.born
           x == IF older THEN p.next ELSE Either(p.next, d.next)
           y == IF older THEN Either(p.back, d.back) ELSE p.back
           z == IF older THEN d.seen ELSE p.seen
           th == a.thread
<1>2. e = [d EXCEPT !.shown = m, !.gap = g, !.next = x, !.back = y, !.seen = z,
                    !.current = a.cursor, !.loading = FALSE]
  BY DEF Extend
<1>3. /\ p \in Pages /\ th \in Thread /\ a.cursor \in Cursors \cup {NoCursor}
      /\ p.seen \in Nat /\ d.seen \in Nat /\ hist[th] \in Nat /\ th = d.thread
      /\ p.seen \in 0..MaxTurn /\ d.seen \in 0..MaxTurn
      /\ (older \/ a.direction = "newer")
      /\ p.turns \in Seq(Turn) /\ d.shown \in Seq(Turn)
      /\ own \in BOOLEAN /\ d.gap \in BOOLEAN /\ g \in BOOLEAN
      /\ p.next \in OlderCursors \cup {NoCursor} /\ p.back \in NewerCursors \cup {NoCursor}
      /\ d.next \in OlderCursors \cup {NoCursor} /\ d.back \in NewerCursors \cup {NoCursor}
  <2>1. own \in BOOLEAN
    BY DEF Owns
  <2> QED BY <1>1, <2>1, PagesAssumption DEF Answers, Pages, Turn, Details, Directions
<1>4. p.seen <= hist[th]
  BY <1>1 DEF PageFits
<1>5. Once(p.turns) /\ SeqSet(p.turns) \subseteq 1..hist[th]
      /\ CursorFits(th, p.next, hist) /\ CursorFits(th, p.back, hist)
  <2>1. CASE Stuck(a)
    <3>1. p.turns = <<>>
      BY <2>1 DEF Stuck
    <3>2. CursorFits(th, a.cursor, hist) /\ CursorFits(th, NoCursor, hist)
      BY <1>1 DEF AskFits, CursorFits
    <3>3. p.next \in {a.cursor, NoCursor} /\ p.back \in {a.cursor, NoCursor}
      BY <2>1 DEF Stuck
    <3> QED BY <3>1, <3>2, <3>3, EmptyIs
  <2>2. CASE ~Stuck(a)
    <3>1. PICK lo \in Turn, hi \in Turn : Spans(p, lo, hi)
      BY <1>1, <2>2 DEF PageFits
    <3> QED BY <1>1, <1>3, <1>4, <3>1, SpansFit
  <2> QED BY <2>1, <2>2
<1>6. /\ Once(d.shown) /\ SeqSet(d.shown) \subseteq 1..hist[th]
      /\ CursorFits(th, d.next, hist) /\ CursorFits(th, d.back, hist)
      /\ d.seen <= hist[th]
  BY <1>1, <1>3 DEF ViewFits
<1>7. /\ m \in Seq(Turn) /\ Once(m) /\ SeqSet(m) \subseteq 1..hist[th]
      /\ SeqSet(d.shown) \subseteq SeqSet(m)
      /\ ~g => SeqSet(p.turns) \subseteq SeqSet(m)
  <2>1. CASE own
    <3>1. ~g => SeqSet(p.turns) \subseteq SeqSet(d.shown)
      BY <2>1
    <3>2. m = d.shown
      BY <2>1
    <3> QED BY <3>1, <3>2, <1>3, <1>6
  <2>2. CASE ~own /\ older
    <3>1. m = Merge(p.turns, d.shown)
      BY <2>2
    <3>2. m \in Seq(Turn) /\ Once(m) /\ SeqSet(m) = SeqSet(p.turns) \cup SeqSet(d.shown)
      BY <3>1, <1>3, <1>5, <1>6, MergeIs
    <3> QED BY <3>2, <1>5, <1>6
  <2>3. CASE ~own /\ ~older
    <3>1. m = Merge(d.shown, p.turns)
      BY <2>3
    <3>2. m \in Seq(Turn) /\ Once(m) /\ SeqSet(m) = SeqSet(d.shown) \cup SeqSet(p.turns)
      BY <3>1, <1>3, <1>5, <1>6, MergeIs
    <3> QED BY <3>2, <1>5, <1>6
  <2> QED BY <2>1, <2>2, <2>3
<1>8. /\ x \in OlderCursors \cup {NoCursor} /\ y \in NewerCursors \cup {NoCursor}
      /\ CursorFits(th, x, hist) /\ CursorFits(th, y, hist)
  BY <1>3, <1>5, <1>6 DEF Either
<1>9. z \in 0..MaxTurn /\ z \in Nat /\ z <= hist[th]
  BY <1>3, <1>4, <1>6
<1>10. ~g => ~d.gap /\ a.born = d.born
  BY <1>3
<1> HIDE DEF m, g
<1>11. e \in Details
  <2> DEFINE n1 == [d EXCEPT !.shown = m, !.gap = g]
             n2 == [n1 EXCEPT !.next = x, !.back = y, !.seen = z]
             n3 == [n2 EXCEPT !.current = a.cursor, !.loading = FALSE]
  <2> HIDE DEF x, y, z
  <2>1. n1 \in Details
    BY <1>3, <1>7 DEF Details
  <2> HIDE DEF n1
  <2>2. n2 \in Details
    BY <2>1, <1>8, <1>9 DEF Details
  <2> HIDE DEF n2
  <2>3. n3 \in Details
    BY <2>2, <1>3 DEF Details
  <2> QED BY <2>3, <1>2 DEF n1, n2
<1>12. /\ e.loading = FALSE
       /\ e.thread = d.thread /\ e.epoch = d.epoch /\ e.born = d.born /\ e.gap = g
       /\ e.shown = m /\ e.next = x /\ e.back = y /\ e.seen = z
       /\ e.current = a.cursor
  <2> HIDE DEF x, y, z
  <2> QED BY <1>2 DEF Details
<1>13. ASSUME NEW r, Ask(r), Differ(Head(s), r), Flies(r, d, hist, ops)
       PROVE  Flies(r, e, hist, ops)
  BY <1>10, <1>12, <1>13, AnswerFlies
<1>14. Traffic(e, requests, Tail(s), hist, ops)
  BY <1>13, Popped
<1>15. ViewFits(e, hist)
  <2>1. CursorFits(th, a.cursor, hist)
    BY <1>1 DEF AskFits
  <2> HIDE DEF x, y, z
  <2> QED BY <2>1, <1>3, <1>7, <1>8, <1>9, <1>12 DEF ViewFits
<1>16. ASSUME ~g, NEW k \in 1..z PROVE Shows(e, k) \/ (x # NoCursor /\ k < x.of)
  <2> k \in Nat /\ k >= 1
    OBVIOUS
  <2>1. CASE Stuck(a) /\ older
    <3>1. x = a.cursor /\ y = d.back /\ z = d.seen /\ a.cursor \in OlderCursors
      BY <2>1, <1>1 DEF Stuck, Either, AskFits
    <3>2. x # NoCursor /\ x.of \in Nat
      BY <3>1, CursorsAre
    <3>3. CASE k >= a.cursor.of
      <4>1. Shows(d, k)
        BY <1>1, <1>3, <1>10, <1>16, <2>1, <3>1, <3>3 DEF Adjoins, Own
      <4> QED BY <4>1, <3>1, <1>7, <1>12 DEF Shows, Beyond
    <3> QED BY <3>1, <3>2, <3>3
  <2>2. CASE Stuck(a) /\ ~older
    BY <2>2 DEF Stuck
  <2>3. CASE ~Stuck(a)
    <3>1. PICK lo \in Turn, hi \in Turn : /\ Spans(p, lo, hi)
                                          /\ older => hi < p.seen
                                          /\ a.direction = "newer" => lo > 1
      BY <1>1, <2>3 DEF PageFits
    <3>2. /\ \A i \in 1..p.seen : \/ i \in SeqSet(p.turns)
                                  \/ p.next # NoCursor /\ i < p.next.of
                                  \/ p.back # NoCursor /\ i > p.back.of
          /\ lo > 1 => p.next # NoCursor /\ p.next.of = lo
          /\ lo <= 1 => p.next = NoCursor
          /\ hi < p.seen => p.back # NoCursor /\ p.back.of = hi
      BY <1>1, <1>3, <1>4, <3>1, SpansFit
    <3>3. SeqSet(p.turns) \subseteq SeqSet(m)
      BY <1>7, <1>16
    <3>4. CASE older
      <4>1. x = p.next /\ y = p.back /\ p.back # NoCursor /\ p.back.of = hi /\ hi < p.seen
        BY <3>1, <3>2, <3>4 DEF Either
      <4>2. hi \in Nat
        BY DEF Turn
      <4>3. k \in 1..p.seen \/ k > hi
        BY <1>3, <4>1, <4>2
      <4> QED BY <3>2, <3>3, <4>1, <4>3, <1>12 DEF Shows, Beyond
    <3>5. CASE ~older
      <4>1. x = p.next /\ y = p.back /\ z = p.seen
        BY <3>1, <3>2, <3>5, <1>3 DEF Either
      <4> QED BY <3>2, <3>3, <4>1, <1>12 DEF Shows, Beyond
    <3> QED BY <3>4, <3>5
  <2> QED BY <2>1, <2>2, <2>3
<1>17. Covers(e)
  <2> HIDE DEF x, y, z
  <2> QED BY <1>12, <1>16 DEF Covers
<1>18. View(e, hist, ops)
  BY <1>1, <1>11, <1>12, <1>15, <1>17 DEF View
<1> QED BY <1>11, <1>12, <1>14, <1>18

(***************************************************************************)
(* The steps.                                                              *)
(***************************************************************************)
\* A view that shows no less is as good as before, also when time goes on.
LEMMA Later ==
    ASSUME NEW d, NEW e, NEW q, NEW s, NEW h, NEW k, NEW o, NEW u,
           Traffic(d, q, s, h, o), View(d, h, o),
           k \in [Thread -> Turn], \A th \in Thread : h[th] <= k[th],
           u \in 0..MaxOps, o <= u,
           d = e \/ (/\ d \in Details /\ e \in Details /\ d # NoDetail
                     /\ e.thread = d.thread /\ e.epoch = d.epoch /\ e.born = d.born
                     /\ e.gap = d.gap /\ e.next = d.next /\ e.back = d.back /\ e.seen = d.seen
                     /\ e.current = d.current
                     /\ SeqSet(d.shown) \subseteq SeqSet(e.shown)
                     /\ Once(e.shown) /\ SeqSet(e.shown) \subseteq 1..k[e.thread])
    PROVE  Traffic(e, q, s, k, u) /\ View(e, k, u)
<1>1. h \in [Thread -> Turn] /\ o \in 0..MaxOps
  BY DEF Traffic
<1>2. ASSUME NEW r, Ask(r), Flies(r, d, h, o) PROVE Flies(r, e, k, u)
  <2>1. AskFits(r, k)
    BY <1>1, <1>2, AskFitsGrows DEF Flies
  <2>2. Timely(r, e, u)
    <3>1. r.born \in Nat /\ o \in Nat /\ u \in Nat
      BY <1>1, <1>2 DEF Ask
    <3> QED BY <1>2, <3>1 DEF Flies, Timely
  <2>3. Adjoins(e, r)
    BY <1>2 DEF Flies, Adjoins, Own, Shows, Beyond
  <2> QED BY <2>1, <2>2, <2>3 DEF Flies
<1>3. Traffic(e, q, s, k, u)
  BY <1>1, <1>2, Carried
<1>4. View(e, k, u)
  <2> SUFFICES ASSUME e # NoDetail PROVE View(e, k, u)
    BY DEF View
  <2>1. d # NoDetail /\ d \in Details /\ ViewFits(d, h) /\ d.born < o /\ Covers(d)
    BY DEF View
  <2>2. e \in Details /\ e.thread = d.thread /\ e.born = d.born
        /\ e.gap = d.gap /\ e.next = d.next /\ e.back = d.back /\ e.seen = d.seen
        /\ e.current = d.current /\ SeqSet(d.shown) \subseteq SeqSet(e.shown)
    BY <2>1
  <2> DEFINE th == d.thread
  <2>3. th \in Thread /\ d.seen \in Nat /\ h[th] \in Nat /\ k[th] \in Nat /\ h[th] <= k[th]
        /\ d.born \in Nat
    BY <1>1, <2>1, PagesAssumption DEF Details, Turn
  <2>4. ASSUME NEW c \in Cursors \cup {NoCursor}, CursorFits(th, c, h)
        PROVE  CursorFits(th, c, k)
    <3>1. c # NoCursor => c.of \in Nat
      BY CursorsAre DEF Cursors
    <3> QED BY <2>3, <2>4, <3>1 DEF CursorFits
  <2>5. d.next \in Cursors \cup {NoCursor} /\ d.back \in Cursors \cup {NoCursor}
        /\ d.current \in Cursors \cup {NoCursor}
    BY <2>1 DEF Details, Cursors
  <2>6. CursorFits(th, e.next, k) /\ CursorFits(th, e.back, k) /\ CursorFits(th, e.current, k)
    BY <2>1, <2>2, <2>4, <2>5 DEF ViewFits
  <2>7. e.seen <= k[th]
    BY <2>1, <2>2, <2>3 DEF ViewFits
  <2>8. Once(e.shown) /\ SeqSet(e.shown) \subseteq 1..k[th]
    <3>1. CASE d = e
      <4>1. Once(e.shown) /\ SeqSet(e.shown) \subseteq 1..h[th]
        BY <2>1, <3>1 DEF ViewFits
      <4> QED BY <4>1, <2>3
    <3>2. CASE d # e
      BY <2>2, <3>2
    <3> QED BY <3>1, <3>2
  <2>9. Covers(e)
    BY <2>1, <2>2 DEF Covers, Shows, Beyond
  <2>10. e.born < u
    BY <1>1, <2>1, <2>2, <2>3
  <2> QED BY <2>2, <2>6, <2>7, <2>8, <2>9, <2>10 DEF View, ViewFits
<1> QED BY <1>3, <1>4

LEMMA StillAnswered ==
    ASSUME NEW d, NEW q, NEW s \in Seq(Answers), s # <<>>, Answered(d, q, s),
           ~(Head(s).epoch = d.epoch /\ Head(s).thread = d.thread)
    PROVE  Answered(d, q, Tail(s))
<1> DEFINE t == Tail(s)
<1>1. /\ s[1] = Head(s)
      /\ \A j \in DOMAIN s : j = 1 \/ (j - 1 \in DOMAIN t /\ s[j] = t[j - 1])
  BY TailIs
<1> HIDE DEF t
<1>2. CASE \E i \in DOMAIN s : s[i].epoch = d.epoch /\ s[i].thread = d.thread
  <2>1. PICK i \in DOMAIN s : s[i].epoch = d.epoch /\ s[i].thread = d.thread
    BY <1>2
  <2>2. i - 1 \in DOMAIN t /\ s[i] = t[i - 1]
    BY <1>1, <2>1
  <2>3. t[i - 1].epoch = d.epoch /\ t[i - 1].thread = d.thread
    BY <2>1, <2>2
  <2>4. Answered(d, q, t)
    BY <2>2, <2>3 DEF Answered
  <2> QED BY <2>4 DEF t
<1> QED BY <1>2 DEF Answered

Shape == mode' \in Modes /\ jump' \in Jumps /\ stream' \in Streams \cup {NoStream}

Core ==
    /\ Traffic(detail', requests', replies', hist', ops')
    /\ View(detail', hist', ops')
    /\ Backed(detail', jump', requests', replies')

LEMMA ViewInvNext == Shape /\ Core => ViewInv'
BY DEF Shape, Core, ViewInv

LEMMA InitView == Init => ViewInv
<1> SUFFICES ASSUME Init PROVE ViewInv
  OBVIOUS
<1>1. /\ detail = NoDetail /\ mode = "browser" /\ jump = "none" /\ stream = NoStream
      /\ requests = <<>> /\ replies = <<>> /\ hist = History /\ ops = 0
  BY DEF Init
<1>2. hist \in [Thread -> Turn] /\ ops \in 0..MaxOps /\ Len(requests) <= QueueMax
      /\ requests \in Seq(Requests) /\ replies \in Seq(Answers)
      /\ DOMAIN requests = {} /\ DOMAIN replies = {}
  BY <1>1, PagesAssumption DEF Turn
<1>3. Traffic(detail, requests, replies, hist, ops)
  BY <1>2 DEF Traffic, Apart
<1> QED BY <1>1, <1>3 DEF ViewInv, View, Backed, Modes, Jumps

LEMMA OpIs ==
    ASSUME NEW f, Op(f), ops \in 0..MaxOps
    PROVE  ops' = ops + 1 /\ ops' \in 0..MaxOps /\ ops <= ops'
BY PagesAssumption DEF Op

LEMMA TypesOf ==
    ASSUME ViewInv
    PROVE  /\ requests \in Seq(Requests) /\ replies \in Seq(Answers)
           /\ hist \in [Thread -> Turn] /\ ops \in 0..MaxOps
           /\ \A th \in Thread : hist[th] \in Nat /\ hist[th] <= hist[th]
           /\ Len(requests) <= QueueMax
           /\ mode \in Modes /\ jump \in Jumps /\ stream \in Streams \cup {NoStream}
           /\ detail \in Details \cup {NoDetail}
           /\ detail # NoDetail =>
                /\ detail \in Details /\ detail.thread \in Thread
                /\ detail.current \in Cursors \cup {NoCursor}
                /\ CursorFits(detail.thread, detail.current, hist)
           /\ Traffic(detail, requests, replies, hist, ops) /\ View(detail, hist, ops)
           /\ Backed(detail, jump, requests, replies)
BY PagesAssumption DEF ViewInv, Traffic, View, ViewFits, Details, Turn

\* Steps that leave the view and what is on its way.
LEMMA StaysCore ==
    ASSUME ViewInv, UNCHANGED <<detail, requests, replies>>, jump' = jump,
           hist' \in [Thread -> Turn], \A th \in Thread : hist[th] <= hist'[th],
           ops' \in 0..MaxOps, ops <= ops'
    PROVE  Core
<1>1. Traffic(detail, requests, replies, hist, ops) /\ View(detail, hist, ops)
      /\ Backed(detail, jump, requests, replies)
  BY TypesOf
<1>2. Traffic(detail, requests, replies, hist', ops') /\ View(detail, hist', ops')
  BY <1>1, Later
<1> QED BY <1>1, <1>2 DEF Core

LEMMA LoadCore ==
    ASSUME ViewInv, NEW th \in Thread, NEW c \in Cursors \cup {NoCursor},
           CursorFits(th, c, hist), Load(th, c), UNCHANGED <<replies, hist>>,
           NEW f, Op(f)
    PROVE  Core /\ mode' \in Modes /\ jump' \in Jumps
<1>1. ops' = ops + 1 /\ ops' \in 0..MaxOps
  BY TypesOf, OpIs
<1>2. SchedulePage(detail, th, c, "replace", PageLimit) /\ jump' = "none"
  BY DEF Load
<1>3. /\ Traffic(detail', requests', replies, hist, ops')
      /\ View(detail', hist, ops')
      /\ Backed(detail', "none", requests', replies)
      /\ mode' = "detail"
  <2>1. "replace" \in Directions /\ PageLimit \in {PageLimit, JumpLimit}
    BY DEF Directions
  <2> QED BY <1>1, <1>2, <2>1, TypesOf, Schedules
<1> QED BY <1>2, <1>3 DEF Core, Modes, Jumps

LEMMA RefreshCore ==
    ASSUME ViewInv, detail # NoDetail, Refresh, UNCHANGED <<replies, hist>>, NEW f, Op(f)
    PROVE  Core /\ mode' \in Modes /\ jump' \in Jumps
BY TypesOf, LoadCore DEF Refresh

LEMMA OpenStep ==
    ASSUME ViewInv, NEW th \in Thread, Open(th) PROVE Shape /\ Core
<1>1. Load(th, NoCursor) /\ Op("open") /\ UNCHANGED <<stream, replies, hist>>
  BY DEF Open, Key
<1>2. CursorFits(th, NoCursor, hist)
  BY DEF CursorFits
<1>3. Core /\ mode' \in Modes /\ jump' \in Jumps
  BY <1>1, <1>2, LoadCore
<1> QED BY <1>1, <1>3, TypesOf DEF Shape

LEMMA StreamStartsStep ==
    ASSUME ViewInv, NEW th \in Thread, StreamStarts(th) PROVE Shape /\ Core
<1>1. Op("stream") /\ UNCHANGED <<viewVars, requests, replies, hist>>
      /\ stream' \in [thread : {th}, fresh : BOOLEAN]
  BY DEF StreamStarts
<1>2. ops' \in 0..MaxOps /\ ops <= ops'
  BY <1>1, TypesOf, OpIs
<1>3. Core
  BY <1>1, <1>2, TypesOf, StaysCore DEF viewVars
<1>4. stream' \in Streams
  BY <1>1 DEF Streams
<1> QED BY <1>1, <1>3, <1>4, TypesOf DEF Shape, viewVars

LEMMA CloseStep ==
    ASSUME ViewInv, Close PROVE Shape /\ Core
<1>1. /\ detail' = NoDetail /\ mode' = "browser" /\ Op("close")
      /\ stream' \in {stream, NoStream}
      /\ UNCHANGED <<jump, requests, replies, hist>>
  BY DEF Close
<1>2. ops' = ops + 1 /\ ops' \in 0..MaxOps
  BY <1>1, TypesOf, OpIs
<1>3. ASSUME NEW r, Ask(r), Flies(r, detail, hist, ops) PROVE Flies(r, NoDetail, hist, ops')
  <2>1. r.born \in Nat /\ ops \in Nat
    BY <1>3, TypesOf DEF Ask
  <2> QED BY <1>2, <1>3, <2>1 DEF Flies, Timely, Adjoins
<1>4. Traffic(NoDetail, requests, replies, hist, ops')
  BY <1>2, <1>3, TypesOf, Carried
<1>5. Core
  BY <1>1, <1>4 DEF Core, View, Backed
<1> QED BY <1>1, <1>5, TypesOf DEF Shape, Modes

LEMMA OverlayStep ==
    ASSUME ViewInv, Overlay PROVE Shape /\ Core
<1>1. /\ mode' \in Modes /\ Op("overlay")
      /\ UNCHANGED <<detail, jump, requests, stream, replies, hist>>
  BY DEF Overlay, Key, Modes
<1>2. ops' \in 0..MaxOps /\ ops <= ops'
  BY <1>1, TypesOf, OpIs
<1>3. Core
  BY <1>1, <1>2, TypesOf, StaysCore
<1> QED BY <1>1, <1>3, TypesOf DEF Shape

LEMMA RefreshKeyStep ==
    ASSUME ViewInv, RefreshKey PROVE Shape /\ Core
<1>1. detail # NoDetail /\ Refresh /\ Op("refresh") /\ UNCHANGED <<stream, replies, hist>>
  BY DEF RefreshKey, Key
<1>2. Core /\ mode' \in Modes /\ jump' \in Jumps
  BY <1>1, RefreshCore
<1> QED BY <1>1, <1>2, TypesOf DEF Shape

LEMMA ReloadKeyStep ==
    ASSUME ViewInv, ReloadKey PROVE Shape /\ Core
<1>1. /\ detail # NoDetail /\ Load(detail.thread, NoCursor) /\ Op("refresh")
      /\ UNCHANGED <<stream, replies, hist>>
  BY DEF ReloadKey, Key
<1>2. CursorFits(detail.thread, NoCursor, hist) /\ detail.thread \in Thread
  BY <1>1, TypesOf DEF CursorFits
<1>3. Core /\ mode' \in Modes /\ jump' \in Jumps
  BY <1>1, <1>2, LoadCore
<1> QED BY <1>1, <1>3, TypesOf DEF Shape

LEMMA ScrollUpStep ==
    ASSUME ViewInv, ScrollUp PROVE Shape /\ Core
<1>1. /\ detail # NoDetail /\ detail.next # NoCursor
      /\ SchedulePage(detail, detail.thread, detail.next, "older", PageLimit)
      /\ jump' = jump /\ Op("scroll") /\ UNCHANGED <<stream, replies, hist>>
  BY DEF ScrollUp, Key
<1>2. ops' = ops + 1 /\ ops' \in 0..MaxOps
  BY <1>1, TypesOf, OpIs
<1>3. /\ detail \in Details /\ detail.thread \in Thread /\ detail.next \in OlderCursors
      /\ CursorFits(detail.thread, detail.next, hist)
      /\ detail.next \in Cursors \cup {NoCursor}
      /\ "older" \in Directions /\ PageLimit \in {PageLimit, JumpLimit}
  BY <1>1, TypesOf DEF Details, View, ViewFits, Cursors, Directions
<1>4. /\ Traffic(detail', requests', replies, hist, ops')
      /\ View(detail', hist, ops')
      /\ Backed(detail', jump', requests', replies)
      /\ mode' = "detail"
  BY <1>1, <1>2, <1>3, TypesOf, Schedules
<1> QED BY <1>1, <1>4, TypesOf DEF Shape, Core, Modes

LEMMA JumpToStep ==
    ASSUME ViewInv, NEW edge \in {"start", "end"}, JumpTo(edge) PROVE Shape /\ Core
<1>1. /\ detail # NoDetail /\ GoOn(detail, edge, mode) /\ Op("jump")
      /\ UNCHANGED <<stream, replies, hist>>
  BY DEF JumpTo, Key
<1>2. ops' = ops + 1 /\ ops' \in 0..MaxOps
  BY <1>1, TypesOf, OpIs
<1>3. edge \in Jumps
  BY DEF Jumps
<1>4. detail # NoDetail /\ detail.loading => Answered(detail, requests, replies)
  BY TypesOf DEF Backed
<1>5. /\ Traffic(detail', requests', replies, hist, ops')
      /\ View(detail', hist, ops')
      /\ Backed(detail', jump', requests', replies)
      /\ mode' \in Modes /\ jump' \in Jumps
  BY <1>1, <1>2, <1>3, <1>4, TypesOf, GoesOn
<1> QED BY <1>1, <1>5, TypesOf DEF Shape, Core

LEMMA TickStep ==
    ASSUME ViewInv, Tick PROVE Shape /\ Core
<1>1. detail # NoDetail /\ Refresh /\ Op("tick") /\ UNCHANGED <<stream, replies, hist>>
  BY DEF Tick, Key
<1>2. Core /\ mode' \in Modes /\ jump' \in Jumps
  BY <1>1, RefreshCore
<1> QED BY <1>1, <1>2, TypesOf DEF Shape

LEMMA ServeStep ==
    ASSUME ViewInv, Serve PROVE Shape /\ Core
<1> DEFINE r == Head(requests)
           t == Tail(requests)
<1>1. /\ requests # <<>> /\ requests' = t
      /\ UNCHANGED <<detail, mode, jump, stream, hist, ops>>
  BY DEF Serve, viewVars
<1>2. /\ t \in Seq(Requests) /\ Len(t) = Len(requests) - 1
      /\ 1 \in DOMAIN requests /\ requests[1] = r /\ r \in Requests
      /\ \A i \in DOMAIN t : i + 1 \in DOMAIN requests /\ t[i] = requests[i + 1] /\ i + 1 # 1
      /\ \A i, j \in DOMAIN t : i # j => i + 1 # j + 1
      /\ \A j \in DOMAIN requests : j = 1 \/ (j - 1 \in DOMAIN t /\ requests[j] = t[j - 1])
  BY <1>1, TypesOf, TailIs
<1>3. Flies(r, detail, hist, ops) /\ AskFits(r, hist)
  BY <1>2, TypesOf DEF Traffic, Flies
<1>4. PICK a : /\ replies' = Append(replies, a)
               /\ a \in Answers
               /\ a.epoch = r.epoch /\ a.thread = r.thread /\ a.born = r.born
               /\ a.direction = r.direction /\ a.cursor = r.cursor
               /\ a.ok => PageFits(a, hist)
  <2> DEFINE p == Page(r.thread, r.cursor, r.limit)
             x == Loaded(r, p)
             y == Loaded(r, StuckPage(r.cursor))
             z == Failed(r)
  <2>1. PICK a \in {x, z} \cup (IF r.direction = "replace" THEN {} ELSE {y}) :
             replies' = Append(replies, a)
    BY DEF Serve
  <2>2. x \in Answers /\ PageFits(x, hist)
    BY <1>2, <1>3, TypesOf, PageIs
  <2>3. r.direction # "replace" => y \in Answers /\ PageFits(y, hist)
    BY <1>2, <1>3, TypesOf, StuckIs
  <2>4. z \in Answers /\ z.ok = FALSE
    <3>1. NoPage \in Pages
      BY PagesAssumption DEF NoPage, Pages
    <3> QED BY <1>2, <3>1, AnswerIs DEF Failed
  <2>5. a \in Answers /\ (a.ok => PageFits(a, hist))
    <3> HIDE DEF x, y, z
    <3> QED BY <2>1, <2>2, <2>3, <2>4
  <2>6. /\ a.epoch = r.epoch /\ a.thread = r.thread /\ a.born = r.born
        /\ a.direction = r.direction /\ a.cursor = r.cursor
    <3>1. \A q : /\ Loaded(r, q).epoch = r.epoch /\ Loaded(r, q).thread = r.thread
                 /\ Loaded(r, q).born = r.born
                 /\ Loaded(r, q).direction = r.direction /\ Loaded(r, q).cursor = r.cursor
      BY DEF Loaded, Failed
    <3>2. /\ z.epoch = r.epoch /\ z.thread = r.thread /\ z.born = r.born
          /\ z.direction = r.direction /\ z.cursor = r.cursor
      BY DEF Failed
    <3>3. a = x \/ a = y \/ a = z
      BY <2>1
    <3> HIDE DEF z
    <3> QED BY <3>1, <3>2, <3>3
  <2> QED BY <2>1, <2>5, <2>6
<1> DEFINE s == replies'
           m == Len(replies) + 1
<1>5. /\ s \in Seq(Answers) /\ m \in DOMAIN s /\ s[m] = a
      /\ \A i \in DOMAIN replies : i \in DOMAIN s /\ s[i] = replies[i]
      /\ \A i \in DOMAIN s : i \in DOMAIN replies \/ i = m
  BY <1>4, TypesOf, AppendIs
<1> HIDE DEF s, m, t, r
<1>6. Flies(a, detail, hist, ops)
  BY <1>3, <1>4 DEF Flies, AskFits, Timely, Adjoins, Own
<1>7. \A i \in DOMAIN t : Flies(t[i], detail, hist, ops)
  BY <1>2, TypesOf DEF Traffic
<1>8. ASSUME NEW i \in DOMAIN s
      PROVE  Flies(s[i], detail, hist, ops) /\ (s[i].ok => PageFits(s[i], hist))
  BY <1>4, <1>5, <1>6, TypesOf DEF Traffic
<1>9. Apart(t, s)
  <2>1. Apart(requests, replies)
    BY TypesOf DEF Traffic
  <2>2. \A x : (Differ(r, x) => Differ(a, x)) /\ (Differ(x, r) => Differ(x, a))
    BY <1>4 DEF Differ
  <2>3. \A i, j \in DOMAIN t : i # j => Differ(t[i], t[j])
    BY <1>2, <2>1 DEF Apart
  <2>4. \A i \in DOMAIN t : Differ(a, t[i])
    BY <1>2, <2>1, <2>2 DEF Apart
  <2>5. \A i \in DOMAIN replies : Differ(replies[i], a) /\ Differ(a, replies[i])
    <3>1. \A i \in DOMAIN replies : Differ(replies[i], r)
      BY <1>2, <2>1 DEF Apart
    <3> QED BY <2>2, <3>1 DEF Differ
  <2>6. \A i \in DOMAIN replies, j \in DOMAIN t : Differ(replies[i], t[j])
    BY <1>2, <2>1 DEF Apart
  <2>7. \A i, j \in DOMAIN s : i # j => Differ(s[i], s[j])
    BY <1>5, <2>1, <2>5 DEF Apart
  <2>8. \A i \in DOMAIN s, j \in DOMAIN t : Differ(s[i], t[j])
    BY <1>5, <2>4, <2>6
  <2> QED BY <2>3, <2>7, <2>8 DEF Apart
<1>10. Traffic(detail, t, s, hist, ops)
  <2>1. Len(t) <= QueueMax
    BY <1>2, TypesOf, PagesAssumption
  <2> QED BY <1>2, <1>5, <1>7, <1>8, <1>9, <2>1, TypesOf DEF Traffic
<1>11. Answered(detail, requests, replies) => Answered(detail, t, s)
  <2>1. ASSUME NEW i \in DOMAIN requests, requests[i].epoch = detail.epoch,
               requests[i].thread = detail.thread
        PROVE  Answered(detail, t, s)
    <3>1. CASE i = 1
      <4>1. a.epoch = detail.epoch /\ a.thread = detail.thread
        BY <1>2, <1>4, <2>1, <3>1
      <4> QED BY <4>1, <1>5 DEF Answered
    <3>2. CASE i # 1
      <4>1. i - 1 \in DOMAIN t /\ requests[i] = t[i - 1]
        BY <1>2, <3>2
      <4>2. t[i - 1].epoch = detail.epoch /\ t[i - 1].thread = detail.thread
        BY <4>1, <2>1
      <4> QED BY <4>1, <4>2 DEF Answered
    <3> QED BY <3>1, <3>2
  <2>2. ASSUME NEW i \in DOMAIN replies, replies[i].epoch = detail.epoch,
               replies[i].thread = detail.thread
        PROVE  Answered(detail, t, s)
    BY <1>5, <2>2 DEF Answered
  <2> QED BY <2>1, <2>2 DEF Answered
<1>12. Backed(detail, jump, t, s)
  BY <1>11, TypesOf DEF Backed
<1> QED BY <1>1, <1>10, <1>12, TypesOf DEF Shape, Core, s

\* What is still awaited after an answer that was not for the view.
LEMMA OtherAnswer ==
    ASSUME ViewInv, replies # <<>>,
           ~(Head(replies).epoch = detail.epoch /\ Head(replies).thread = detail.thread)
    PROVE  /\ Backed(detail, jump, requests, Tail(replies))
           /\ detail # NoDetail /\ detail.loading => Answered(detail, requests, Tail(replies))
BY TypesOf, StillAnswered DEF Backed

LEMMA AnswerStep ==
    ASSUME ViewInv, Answer PROVE Shape /\ Core
<1> DEFINE a == Head(replies)
           s == Tail(replies)
<1>1. /\ replies # <<>> /\ replies' = s /\ hist' = hist /\ ops' = ops
      /\ IF a.ok THEN AnswerLoaded(a) ELSE SetError(a)
      /\ AutoAttach(a)
  BY DEF Answer
<1>2. a \in Answers
  BY <1>1, TypesOf, TailIs
<1>3. Traffic(detail, requests, s, hist, ops)
  BY <1>1, TypesOf, DropFirst
<1>4. /\ View(detail', hist, ops) /\ Traffic(detail', requests', s, hist, ops)
      /\ Backed(detail', jump', requests', s) /\ mode' \in Modes /\ jump' \in Jumps
  <2>1. CASE a.ok
    <3> DEFINE current == detail # NoDetail /\ detail.epoch = a.epoch
               d == IF ~current THEN detail
                    ELSE IF a.direction = "replace" THEN Replace(detail, a)
                    ELSE Extend(detail, a)
    <3>1. PICK m \in Modes : GoOn(d, jump, m)
      <4> DEFINE shows == current /\ a.direction = "replace" /\ ~(Adopts(detail, a))
                 keeps == mode \in {"detail", "overlay"} /\ detail.thread = a.thread
                 n == IF shows /\ ~keeps THEN "detail" ELSE mode
      <4>1. GoOn(d, jump, n)
        BY <1>1, <2>1 DEF AnswerLoaded
      <4>2. n \in Modes
        BY TypesOf DEF Modes
      <4> QED BY <4>1, <4>2
    <3>2. /\ Traffic(d, requests, s, hist, ops) /\ View(d, hist, ops)
          /\ d # NoDetail /\ d.loading => Answered(d, requests, s)
      <4>1. CASE ~current
        <5>1. d = detail
          BY <4>1
        <5>2. detail # NoDetail => detail.epoch # a.epoch
          BY <4>1
        <5>3. detail # NoDetail /\ detail.loading => Answered(detail, requests, s)
          BY <1>1, <5>2, OtherAnswer
        <5> HIDE DEF d
        <5> QED BY <1>3, <5>1, <5>3, TypesOf
      <4>2. CASE current /\ a.direction = "replace"
        <5>1. d = Replace(detail, a) /\ detail \in Details /\ detail # NoDetail
              /\ a.epoch = detail.epoch
          BY <4>2, TypesOf
        <5> HIDE DEF d
        <5> QED BY <1>1, <2>1, <4>2, <5>1, TypesOf, Replaces
      <4>3. CASE current /\ a.direction # "replace" /\ a.thread = detail.thread
        <5>1. d = Extend(detail, a) /\ detail \in Details /\ detail # NoDetail
              /\ a.epoch = detail.epoch
          BY <4>3, TypesOf
        <5> HIDE DEF d
        <5> QED BY <1>1, <2>1, <4>3, <5>1, TypesOf, Extends
      <4>4. CASE current /\ a.direction # "replace" /\ a.thread # detail.thread
        <5>1. d = detail
          BY <4>4 DEF Extend
        <5>2. detail # NoDetail /\ detail.loading => Answered(detail, requests, s)
          BY <1>1, <4>4, OtherAnswer
        <5> HIDE DEF d
        <5> QED BY <1>3, <5>1, <5>2, TypesOf
      <4> QED BY <4>1, <4>2, <4>3, <4>4
    <3> HIDE DEF d, s, a
    <3>3. ops' \in 0..MaxOps /\ jump \in Jumps
      BY <1>1, TypesOf
    <3> QED BY <1>1, <3>1, <3>2, <3>3, GoesOn
  <2>2. CASE ~a.ok /\ (detail = NoDetail \/ detail.epoch # a.epoch)
    <3>1. UNCHANGED <<detail, jump, mode, requests>>
      BY <1>1, <2>2 DEF SetError
    <3>2. Backed(detail, jump, requests, s)
      <4>1. CASE detail = NoDetail
        BY <4>1 DEF Backed
      <4>2. CASE detail # NoDetail
        BY <1>1, <2>2, <4>2, OtherAnswer
      <4> QED BY <4>1, <4>2
    <3> QED BY <1>3, <3>1, <3>2, TypesOf
  <2>3. CASE ~a.ok /\ ~(detail = NoDetail \/ detail.epoch # a.epoch)
    <3>1. /\ detail' = [detail EXCEPT !.loading = FALSE] /\ jump' = "none"
          /\ UNCHANGED <<mode, requests>>
      BY <1>1, <2>3 DEF SetError
    <3>2. detail \in Details /\ detail # NoDetail
      BY <2>3, TypesOf
    <3> DEFINE e == detail'
    <3>3. /\ e \in Details /\ e.loading = FALSE
          /\ e.thread = detail.thread /\ e.epoch = detail.epoch /\ e.born = detail.born
          /\ e.gap = detail.gap /\ e.next = detail.next /\ e.back = detail.back
          /\ e.seen = detail.seen /\ e.current = detail.current /\ e.shown = detail.shown
      BY <3>1, <3>2 DEF Details
    <3>4. Once(e.shown) /\ SeqSet(e.shown) \subseteq 1..hist[e.thread]
      BY <3>2, <3>3, TypesOf DEF View, ViewFits
    <3>5. ops <= ops
      BY TypesOf
    <3> HIDE DEF e, s
    <3>6. Traffic(e, requests, s, hist, ops) /\ View(e, hist, ops)
      BY <1>3, <3>2, <3>3, <3>4, <3>5, TypesOf, Later
    <3>7. Backed(e, "none", requests, s)
      BY <3>3 DEF Backed
    <3> QED BY <3>1, <3>6, <3>7, TypesOf DEF e, Jumps
  <2> QED BY <2>1, <2>2, <2>3
<1>5. stream' \in Streams \cup {NoStream}
  <2>1. CASE stream' = stream
    BY <2>1, TypesOf
  <2>2. CASE detail' # NoDetail /\ stream' = [thread |-> detail'.thread, fresh |-> TRUE]
    <3>1. detail'.thread \in Thread
      BY <1>4, <2>2 DEF View, Details
    <3> QED BY <2>2, <3>1 DEF Streams
  <2> QED BY <1>1, <2>1, <2>2 DEF AutoAttach
<1> QED BY <1>1, <1>4, <1>5 DEF Shape, Core

\* A snapshot shows the whole history, and nothing that was shown is newer.
LEMMA SnapshotIs ==
    ASSUME ViewInv, Snapshot, Owns(detail)
    PROVE  /\ detail \in Details /\ detail # NoDetail /\ detail' \in Details
           /\ detail'.thread = detail.thread /\ detail'.epoch = detail.epoch
           /\ detail'.born = detail.born /\ detail'.unsent = detail.unsent
           /\ detail'.current = detail.current
           /\ detail'.loading = FALSE /\ detail'.gap = FALSE
           /\ detail'.next = NoCursor /\ detail'.back = NoCursor
           /\ detail'.seen = hist[detail.thread]
           /\ Once(detail'.shown)
           /\ SeqSet(detail'.shown) = 1..hist[detail.thread]
           /\ Len(detail'.shown) >= hist[detail.thread]
<1> DEFINE n == hist[detail.thread]
           S == {m \in detail.local : m > n}
           kept == Only(detail.shown, S)
           all == [i \in 1..n |-> i]
           shown == all \o kept
           l == SeqSet(kept)
           e == detail'
<1>1. detail \in Details /\ detail # NoDetail /\ stream.thread = detail.thread
  BY TypesOf DEF Owns
<1>2. e = [detail EXCEPT !.shown = shown, !.local = l, !.loading = FALSE,
                         !.next = NoCursor, !.back = NoCursor, !.seen = n, !.gap = FALSE]
  BY <1>1 DEF Snapshot
<1>3. n \in Turn /\ n \in Nat /\ n \in 0..MaxTurn
  BY <1>1, TypesOf, PagesAssumption DEF Details, Turn
<1>4. /\ detail.shown \in Seq(Turn) /\ Once(detail.shown)
      /\ SeqSet(detail.shown) \subseteq 1..n
  BY <1>1, TypesOf DEF Details, View, ViewFits
<1>5. /\ kept \in Seq(Turn) /\ Once(kept) /\ SeqSet(kept) = SeqSet(detail.shown) \cap S
  BY <1>4, OnlyIs
<1>6. l = {} /\ l \subseteq Turn
  BY <1>3, <1>4, <1>5
<1> HIDE DEF kept
<1>7. all \in Seq(Turn) /\ Once(all) /\ SeqSet(all) = 1..n /\ Len(all) = n
  <2>1. \A i \in 1..n : i \in Turn
    BY <1>3, PagesAssumption DEF Turn
  <2>2. all \in Seq(Turn) /\ Len(all) = n /\ DOMAIN all = 1..n
    BY <1>3, <2>1
  <2> QED BY <2>2 DEF Once, SeqSet
<1> HIDE DEF all, n, S
<1>8. /\ shown \in Seq(Turn) /\ Once(shown) /\ SeqSet(shown) = 1..n /\ Len(shown) >= n
  <2>1. shown \in Seq(Turn) /\ SeqSet(shown) = SeqSet(all) \cup SeqSet(kept)
    BY <1>5, <1>7, JoinIs
  <2>2. SeqSet(all) \cap SeqSet(kept) = {}
    BY <1>6
  <2>3. Once(shown)
    BY <2>2, <1>5, <1>7, JoinIs
  <2>4. Len(shown) = Len(all) + Len(kept) /\ Len(kept) \in Nat
    BY <1>5, <1>7
  <2> QED BY <2>1, <2>3, <2>4, <1>3, <1>6, <1>7
<1> HIDE DEF shown, l
<1>9. e \in Details
  <2> DEFINE n1 == [detail EXCEPT !.shown = shown, !.local = l, !.loading = FALSE]
             n2 == [n1 EXCEPT !.next = NoCursor, !.back = NoCursor, !.seen = n, !.gap = FALSE]
  <2>1. n1 \in Details
    BY <1>1, <1>6, <1>8 DEF Details
  <2> HIDE DEF n1
  <2>2. n2 \in Details
    BY <2>1, <1>3 DEF Details
  <2> QED BY <2>2, <1>2 DEF n1
<1>10. /\ e.thread = detail.thread /\ e.epoch = detail.epoch /\ e.born = detail.born
       /\ e.unsent = detail.unsent /\ e.current = detail.current /\ e.loading = FALSE
       /\ e.gap = FALSE /\ e.next = NoCursor /\ e.back = NoCursor /\ e.seen = n
       /\ e.shown = shown
  BY <1>1, <1>2 DEF Details
<1> QED BY <1>1, <1>8, <1>9, <1>10 DEF n

LEMMA SnapshotStep ==
    ASSUME ViewInv, Snapshot PROVE Shape /\ Core
<1>1. /\ stream # NoStream /\ stream' = [stream EXCEPT !.fresh = FALSE]
      /\ Op("stream") /\ UNCHANGED <<jump, requests, replies, hist>>
  BY DEF Snapshot
<1>2. ops' = ops + 1 /\ ops' \in 0..MaxOps /\ ops <= ops' /\ ops \in Nat
  BY <1>1, TypesOf, OpIs
<1>3. stream' \in Streams
  BY <1>1, TypesOf DEF Streams
<1>4. CASE ~Owns(detail)
  <2>1. UNCHANGED <<detail, mode>>
    BY <1>4 DEF Snapshot
  <2>2. Core
    BY <1>1, <1>2, <2>1, TypesOf, StaysCore
  <2> QED BY <1>1, <1>3, <2>1, <2>2, TypesOf DEF Shape
<1>5. CASE Owns(detail)
  <2> DEFINE d == detail
             e == detail'
             n == hist[d.thread]
  <2>1. /\ d \in Details /\ d # NoDetail /\ e \in Details
        /\ e.thread = d.thread /\ e.epoch = d.epoch
        /\ e.born = d.born /\ e.unsent = d.unsent /\ e.current = d.current
        /\ e.loading = FALSE /\ e.gap = FALSE
        /\ e.next = NoCursor /\ e.back = NoCursor /\ e.seen = n
        /\ Once(e.shown) /\ SeqSet(e.shown) = 1..n
    BY <1>5, SnapshotIs
  <2>2. mode' \in Modes
    <3>1. mode' = IF mode \in {"detail", "overlay"} THEN mode ELSE "detail"
      BY <1>5 DEF Snapshot
    <3> QED BY <3>1, TypesOf DEF Modes
  <2>3. n \in Nat /\ hist \in [Thread -> Turn] /\ d.born \in Nat
        /\ ViewFits(d, hist) /\ d.born < ops
    BY <2>1, TypesOf DEF View, Details
  <2> HIDE DEF e, n
  <2>4. \A k \in 1..e.seen : Shows(e, k)
    BY <2>1 DEF Shows
  <2>5. ASSUME NEW r, Ask(r), Flies(r, d, hist, ops) PROVE Flies(r, e, hist, ops')
    <3>1. r.born \in Nat
      BY <2>5 DEF Ask
    <3>2. Timely(r, e, ops')
      BY <1>2, <2>1, <2>5, <3>1 DEF Flies, Timely
    <3>3. Adjoins(e, r)
      BY <2>4 DEF Adjoins
    <3> QED BY <2>5, <3>2, <3>3 DEF Flies
  <2>6. Traffic(e, requests, replies, hist, ops')
    BY <1>2, <2>5, TypesOf, Carried
  <2>7. View(e, hist, ops')
    <3>1. ViewFits(e, hist)
      BY <2>1, <2>3 DEF ViewFits, CursorFits, n
    <3>2. Covers(e)
      BY <2>4 DEF Covers
    <3> QED BY <1>2, <2>1, <2>3, <3>1, <3>2 DEF View
  <2>8. Backed(e, jump, requests, replies)
    <3>1. Answered(d, requests, replies) => Answered(e, requests, replies)
      BY <2>1 DEF Answered
    <3> QED BY <2>1, <3>1, TypesOf DEF Backed
  <2> QED BY <1>1, <1>3, <2>2, <2>6, <2>7, <2>8, TypesOf DEF Shape, Core, e
<1> QED BY <1>4, <1>5

LEMMA GrowsIs ==
    ASSUME ViewInv, NEW th \in Thread, hist[th] < MaxTurn, NEW k,
           k = [hist EXCEPT ![th] = @ + 1]
    PROVE  /\ k \in [Thread -> Turn] /\ \A t \in Thread : hist[t] <= k[t]
           /\ k[th] = hist[th] + 1
<1>1. hist \in [Thread -> Turn] /\ \A t \in Thread : hist[t] \in Nat
  BY TypesOf
<1>2. hist[th] + 1 \in Turn
  BY <1>1, PagesAssumption DEF Turn
<1> QED BY <1>1, <1>2

\* The next turn of a stream comes after all that the view shows.
LEMMA LiveTurnIs ==
    ASSUME ViewInv, LiveTurn
    PROVE  /\ hist' \in [Thread -> Turn] /\ \A t \in Thread : hist[t] <= hist'[t]
           /\ ~Owns(detail) => detail' = detail
           /\ Owns(detail) =>
                LET d == detail
                    e == detail'
                IN  /\ d \in Details /\ e \in Details /\ d # NoDetail
                    /\ e.thread = d.thread /\ e.epoch = d.epoch /\ e.born = d.born
                    /\ e.gap = d.gap /\ e.next = d.next /\ e.back = d.back /\ e.seen = d.seen
                    /\ e.current = d.current /\ e.loading = d.loading /\ e.unsent = d.unsent
                    /\ SeqSet(d.shown) \subseteq SeqSet(e.shown)
                    /\ Len(e.shown) >= Len(d.shown)
                    /\ Once(e.shown) /\ SeqSet(e.shown) \subseteq 1..hist'[e.thread]
<1> DEFINE th == stream.thread
           x == hist'[th]
           d == detail
           e == detail'
<1>1. stream # NoStream /\ th \in Thread /\ hist[th] < MaxTurn
      /\ hist' = [hist EXCEPT ![th] = @ + 1]
  BY TypesOf DEF LiveTurn, Streams
<1>2. /\ hist' \in [Thread -> Turn] /\ \A t \in Thread : hist[t] <= hist'[t]
      /\ x = hist[th] + 1 /\ x \in Turn /\ hist[th] \in Nat
  BY <1>1, GrowsIs, TypesOf
<1>3. PICK sent \in {{}, {x}} :
             e = IF ~Owns(d) THEN d
                 ELSE [d EXCEPT !.shown = Append(@, x), !.local = @ \cup sent]
  BY DEF LiveTurn
<1>4. ASSUME Owns(d)
      PROVE  /\ d \in Details /\ e \in Details /\ d # NoDetail
             /\ e.thread = d.thread /\ e.epoch = d.epoch /\ e.born = d.born
             /\ e.gap = d.gap /\ e.next = d.next /\ e.back = d.back /\ e.seen = d.seen
             /\ e.current = d.current /\ e.loading = d.loading /\ e.unsent = d.unsent
             /\ SeqSet(d.shown) \subseteq SeqSet(e.shown)
             /\ Len(e.shown) >= Len(d.shown)
             /\ Once(e.shown) /\ SeqSet(e.shown) \subseteq 1..hist'[e.thread]
  <2>1. d \in Details /\ d # NoDetail /\ d.thread = th
    BY <1>4, TypesOf DEF Owns
  <2> DEFINE s == d.shown
             t == Append(s, x)
             l == d.local \cup sent
  <2>2. s \in Seq(Turn) /\ Once(s) /\ SeqSet(s) \subseteq 1..hist[th] /\ d.local \subseteq Turn
    BY <2>1, TypesOf DEF Details, View, ViewFits
  <2>3. e = [d EXCEPT !.shown = t, !.local = l]
    BY <1>3, <1>4
  <2>4. l \in SUBSET Turn
    BY <1>2, <2>2
  <2> DEFINE m == Len(s) + 1
  <2>5. /\ t \in Seq(Turn) /\ Len(t) = m /\ m \in DOMAIN t /\ t[m] = x
        /\ \A i \in DOMAIN s : i \in DOMAIN t /\ t[i] = s[i]
        /\ \A i \in DOMAIN t : i \in DOMAIN s \/ i = m
    BY <1>2, <2>2, AppendIs
  <2>6. \A i \in DOMAIN s : s[i] # x
    <3>1. \A i \in DOMAIN s : s[i] \in 1..hist[th]
      BY <2>2, SeqSetIs
    <3> QED BY <1>2, <3>1
  <2>7. Len(t) >= Len(s)
    BY <2>2, <2>5
  <2> HIDE DEF t, l, m, s
  <2>8. Once(t)
    BY <2>2, <2>5, <2>6 DEF Once
  <2>9. \A y : y \in SeqSet(t) <=> \E i \in DOMAIN t : y = t[i]
    BY <2>5 DEF SeqSet
  <2>10. \A y : y \in SeqSet(s) <=> \E i \in DOMAIN s : y = s[i]
    BY <2>2 DEF SeqSet
  <2>11. SeqSet(s) \subseteq SeqSet(t) /\ \A y \in SeqSet(t) : y \in SeqSet(s) \/ y = x
    BY <2>5, <2>9, <2>10
  <2>12. SeqSet(t) \subseteq 1..x
    BY <1>2, <2>2, <2>11
  <2>13. e \in Details
    BY <2>1, <2>3, <2>4, <2>5 DEF Details
  <2>14. /\ e.thread = d.thread /\ e.epoch = d.epoch /\ e.born = d.born
         /\ e.gap = d.gap /\ e.next = d.next /\ e.back = d.back /\ e.seen = d.seen
         /\ e.current = d.current /\ e.loading = d.loading /\ e.unsent = d.unsent
         /\ e.shown = t
    BY <2>1, <2>3 DEF Details
  <2> QED BY <2>1, <2>7, <2>8, <2>11, <2>12, <2>13, <2>14 DEF s
<1> QED BY <1>2, <1>3, <1>4

LEMMA LiveTurnStep ==
    ASSUME ViewInv, LiveTurn PROVE Shape /\ Core
<1>1. Op("stream") /\ UNCHANGED <<mode, jump, stream, requests, replies>>
  BY DEF LiveTurn
<1>2. ops' \in 0..MaxOps /\ ops <= ops'
  BY <1>1, TypesOf, OpIs
<1>3. hist' \in [Thread -> Turn] /\ \A t \in Thread : hist[t] <= hist'[t]
  BY LiveTurnIs
<1>4. CASE ~Owns(detail)
  <2>1. detail' = detail
    BY <1>4, LiveTurnIs
  <2>2. Core
    BY <1>1, <1>2, <1>3, <2>1, StaysCore
  <2> QED BY <1>1, <2>2, TypesOf DEF Shape
<1>5. CASE Owns(detail)
  <2> DEFINE d == detail
             e == detail'
  <2>1. /\ d \in Details /\ e \in Details /\ d # NoDetail
        /\ e.thread = d.thread /\ e.epoch = d.epoch /\ e.born = d.born
        /\ e.gap = d.gap /\ e.next = d.next /\ e.back = d.back /\ e.seen = d.seen
        /\ e.current = d.current /\ e.loading = d.loading /\ e.unsent = d.unsent
        /\ SeqSet(d.shown) \subseteq SeqSet(e.shown)
        /\ Once(e.shown) /\ SeqSet(e.shown) \subseteq 1..hist'[e.thread]
    BY <1>5, LiveTurnIs
  <2> HIDE DEF e
  <2>2. Traffic(e, requests, replies, hist', ops') /\ View(e, hist', ops')
    BY <1>2, <1>3, <2>1, TypesOf, Later
  <2>3. Backed(e, jump, requests, replies)
    <3>1. Answered(d, requests, replies) => Answered(e, requests, replies)
      BY <2>1 DEF Answered
    <3> QED BY <2>1, <3>1, TypesOf DEF Backed
  <2> QED BY <1>1, <2>2, <2>3, TypesOf DEF Shape, Core, e
<1> QED BY <1>4, <1>5

LEMMA StreamEndsStep ==
    ASSUME ViewInv, StreamEnds PROVE Shape /\ Core
<1>1. stream' = NoStream /\ Op("stream") /\ UNCHANGED <<replies, hist>>
  BY DEF StreamEnds
<1>2. CASE Owns(detail)
  <2>1. detail # NoDetail /\ Refresh
    BY <1>2 DEF StreamEnds, Owns
  <2>2. Core /\ mode' \in Modes /\ jump' \in Jumps
    BY <1>1, <2>1, RefreshCore
  <2> QED BY <1>1, <2>2 DEF Shape
<1>3. CASE ~Owns(detail)
  <2>1. UNCHANGED <<detail, mode, jump, requests>>
    BY <1>3 DEF StreamEnds, viewVars
  <2>2. ops' \in 0..MaxOps /\ ops <= ops'
    BY <1>1, TypesOf, OpIs
  <2>3. Core
    BY <1>1, <2>1, <2>2, TypesOf, StaysCore
  <2> QED BY <1>1, <2>1, <2>3, TypesOf DEF Shape
<1> QED BY <1>2, <1>3

LEMMA TurnElsewhereStep ==
    ASSUME ViewInv, NEW th \in Thread, TurnElsewhere(th) PROVE Shape /\ Core
<1>1. /\ hist[th] < MaxTurn /\ hist' = [hist EXCEPT ![th] = @ + 1] /\ Op("elsewhere")
      /\ UNCHANGED <<detail, mode, jump, stream, requests, replies>>
  BY DEF TurnElsewhere, viewVars
<1>2. hist' \in [Thread -> Turn] /\ \A t \in Thread : hist[t] <= hist'[t]
  BY <1>1, GrowsIs
<1>3. ops' \in 0..MaxOps /\ ops <= ops'
  BY <1>1, TypesOf, OpIs
<1>4. Core
  BY <1>1, <1>2, <1>3, StaysCore
<1> QED BY <1>1, <1>4, TypesOf DEF Shape

LEMMA ViewInvSteps == ViewInv /\ [Next]_vars => ViewInv'
<1> SUFFICES ASSUME ViewInv, [Next]_vars PROVE ViewInv'
  OBVIOUS
<1>1. CASE UNCHANGED vars
  BY <1>1 DEF vars, viewVars, ViewInv
<1>2. CASE \E th \in Thread : Open(th) \/ StreamStarts(th)
  BY <1>2, OpenStep, StreamStartsStep, ViewInvNext
<1>3. CASE Close
  BY <1>3, CloseStep, ViewInvNext
<1>4. CASE Overlay
  BY <1>4, OverlayStep, ViewInvNext
<1>5. CASE RefreshKey
  BY <1>5, RefreshKeyStep, ViewInvNext
<1>6. CASE ReloadKey
  BY <1>6, ReloadKeyStep, ViewInvNext
<1>7. CASE ScrollUp
  BY <1>7, ScrollUpStep, ViewInvNext
<1>8. CASE \E edge \in {"start", "end"} : JumpTo(edge)
  BY <1>8, JumpToStep, ViewInvNext
<1>9. CASE Tick
  BY <1>9, TickStep, ViewInvNext
<1>10. CASE Serve
  BY <1>10, ServeStep, ViewInvNext
<1>11. CASE Answer
  BY <1>11, AnswerStep, ViewInvNext
<1>12. CASE Snapshot
  BY <1>12, SnapshotStep, ViewInvNext
<1>13. CASE LiveTurn
  BY <1>13, LiveTurnStep, ViewInvNext
<1>14. CASE StreamEnds
  BY <1>14, StreamEndsStep, ViewInvNext
<1>15. CASE \E th \in Thread : TurnElsewhere(th)
  BY <1>15, TurnElsewhereStep, ViewInvNext
<1> QED
  BY <1>1, <1>2, <1>3, <1>4, <1>5, <1>6, <1>7, <1>8, <1>9, <1>10, <1>11, <1>12, <1>13,
     <1>14, <1>15 DEF Next, User

(***************************************************************************)
(* The theorems.                                                           *)
(***************************************************************************)
\* The inductive invariant of the detail view: types, cursors and pages that agree with
\* the history, one question per epoch, and what it says of each other part
\* (schedule_detail_page_with_limit and the handlers of DetailLoaded).
THEOREM ViewInvariant == Spec => []ViewInv
<1>1. Init => ViewInv
  BY InitView
<1>2. ViewInv /\ [Next]_vars => ViewInv'
  BY ViewInvSteps
<1> QED BY <1>1, <1>2, PTL DEF Spec

\* Who waits is waited for: a view that loads has an answer of its epoch under way, and a
\* jump an answer that takes it on, unless its request found the queue full.
THEOREM PagesHold == Spec => []PagesInv
<1>1. ViewInv => PagesInv
  <2> SUFFICES ASSUME ViewInv PROVE PagesInv
    OBVIOUS
  <2>1. TypeOK
    BY TypesOf DEF TypeOK, Modes, Jumps, Streams
  <2>2. Answered(detail, requests, replies) =>
          /\ \E r \in SeqSet(requests) \cup SeqSet(replies) :
               r.epoch = detail.epoch /\ r.thread = detail.thread
          /\ SeqSet(requests) \cup SeqSet(replies) # {}
    <3>1. \A i \in DOMAIN requests : requests[i] \in SeqSet(requests)
      BY TypesOf, SeqSetIs
    <3>2. \A i \in DOMAIN replies : replies[i] \in SeqSet(replies)
      BY TypesOf, SeqSetIs
    <3> QED BY <3>1, <3>2 DEF Answered
  <2>3. WaitIsBacked
    BY <2>2, TypesOf DEF WaitIsBacked, Backed
  <2> QED BY <2>1, <2>3 DEF PagesInv
<1> QED BY <1>1, ViewInvariant, PTL

\* No turn of the history is lost between the cursors: what the view does not show lies
\* beyond one of them (extend_detail_older, extend_detail_newer, replace_detail).
THEOREM CursorsHold == Spec => []CursorsCover
<1>1. ViewInv => CursorsCover
  <2> SUFFICES ASSUME ViewInv, detail # NoDetail, ~detail.gap, NEW n \in 1..detail.seen
               PROVE  \/ n \in SeqSet(detail.shown)
                      \/ detail.next # NoCursor /\ detail.next.side = "older" /\ n < detail.next.of
                      \/ detail.back # NoCursor /\ detail.back.side = "newer" /\ n > detail.back.of
    BY DEF CursorsCover
  <2>1. Covers(detail) /\ detail \in Details
    BY TypesOf DEF View
  <2>2. detail.next # NoCursor => detail.next.side = "older"
    BY <2>1 DEF Details, OlderCursors, Older
  <2>3. detail.back # NoCursor => detail.back.side = "newer"
    BY <2>1 DEF Details, NewerCursors, Newer
  <2> QED BY <2>1, <2>2, <2>3 DEF Covers, Shows, Beyond
<1> QED BY <1>1, ViewInvariant, PTL

LEMMA GoOnShows ==
    ASSUME ViewInv, NEW d \in Details \cup {NoDetail}, NEW j, NEW m, GoOn(d, j, m), d # NoDetail
    PROVE  detail'.shown = d.shown /\ detail'.thread = d.thread
<1> DEFINE c == IF j = "start" THEN d.next ELSE d.back
           dir == IF j = "start" THEN "older" ELSE "newer"
<1>1. CASE detail' = d
  BY <1>1
<1>2. CASE SchedulePage(d, d.thread, c, dir, JumpLimit)
  <2>1. d.thread \in Thread /\ c \in Cursors \cup {NoCursor} /\ ops \in 0..MaxOps
    BY TypesOf DEF Details, Cursors
  <2>2. detail' = Asking(d, d.thread, c)
    BY <1>2 DEF SchedulePage
  <2> HIDE DEF c
  <2> QED BY <2>1, <2>2, AskingIs
<1> QED BY <1>1, <1>2 DEF GoOn

LEMMA LoadShows ==
    ASSUME ViewInv, NEW th \in Thread, NEW c \in Cursors \cup {NoCursor}, Load(th, c),
           detail # NoDetail, detail'.thread = detail.thread
    PROVE  detail'.shown = detail.shown
<1>1. detail' = Asking(detail, th, c)
  BY DEF Load, SchedulePage
<1>2. detail \in Details /\ ops \in 0..MaxOps
  BY TypesOf
<1> QED BY <1>1, <1>2, AskingIs

LEMMA ReplaceShows ==
    ASSUME ViewInv, NEW a \in Answers, detail # NoDetail, Owns(detail),
           NEW e, e = Replace(detail, a), e.thread = detail.thread
    PROVE  e.shown = detail.shown \/ detail.shown = <<>>
<1>1. detail \in Details
  BY TypesOf
<1>2. CASE Adopts(detail, a)
  BY <1>1, <1>2 DEF Replace, Details
<1>3. CASE ~Adopts(detail, a)
  <2> DEFINE kept == IF detail.thread = a.thread THEN Only(detail.shown, detail.local) ELSE <<>>
             n == NewDetail(a.thread, a.cursor)
             m == Merge(a.page.turns, kept)
             l == SeqSet(kept) \ SeqSet(a.page.turns)
             g == detail.born # a.born
  <2>1. e = [n EXCEPT !.epoch = a.epoch, !.shown = m, !.local = l,
                      !.born = detail.born, !.gap = g,
                      !.next = a.page.next, !.back = a.page.back, !.seen = a.page.seen]
    BY <1>3 DEF Replace
  <2>2. n \in Details /\ n.thread = a.thread
    <3>1. a.thread \in Thread /\ a.cursor \in Cursors \cup {NoCursor}
      BY DEF Answers
    <3> QED BY <3>1, TypesOf, NewDetailIs DEF NewDetail
  <2> HIDE DEF kept, n, m, l, g
  <2>3. e.thread = a.thread
    BY <2>1, <2>2 DEF Details
  <2> QED BY <1>3, <2>3 DEF Adopts
<1> QED BY <1>2, <1>3

LEMMA ExtendShows ==
    ASSUME ViewInv, NEW a, detail # NoDetail, Owns(detail), NEW e, e = Extend(detail, a)
    PROVE  e.shown = detail.shown
<1>1. detail \in Details
  BY TypesOf
<1>2. CASE detail.thread # a.thread
  BY <1>2 DEF Extend
<1>3. CASE detail.thread = a.thread
  <2> DEFINE x == IF a.direction = "older" THEN a.page.next ELSE Either(a.page.next, detail.next)
             y == IF a.direction = "older" THEN Either(a.page.back, detail.back) ELSE a.page.back
             z == IF a.direction = "older" THEN detail.seen ELSE a.page.seen
             g == detail.gap \/ (Owns(detail) /\ SeqSet(a.page.turns) \ SeqSet(detail.shown) # {})
                    \/ detail.born # a.born
  <2>1. e = [detail EXCEPT !.shown = detail.shown, !.gap = g, !.next = x, !.back = y, !.seen = z,
                           !.current = a.cursor, !.loading = FALSE]
    BY <1>3 DEF Extend
  <2> HIDE DEF x, y, z, g
  <2> QED BY <1>1, <2>1 DEF Details
<1> QED BY <1>2, <1>3

\* What the view shows of its thread is not taken away, and an answer leaves it as it is.
Keeps ==
    Owns(detail) /\ detail' # NoDetail /\ detail'.thread = detail.thread =>
        /\ SeqSet(detail.shown) \subseteq SeqSet(detail'.shown)
        /\ Answer /\ detail.shown # <<>> => detail'.shown = detail.shown

LEMMA StepKeeps == ViewInv /\ [Next]_vars => Keeps
<1> SUFFICES ASSUME ViewInv, [Next]_vars, Owns(detail), detail' # NoDetail,
                    detail'.thread = detail.thread
             PROVE  /\ SeqSet(detail.shown) \subseteq SeqSet(detail'.shown)
                    /\ Answer /\ detail.shown # <<>> => detail'.shown = detail.shown
  BY DEF Keeps
<1>1. detail # NoDetail /\ detail \in Details /\ detail.thread \in Thread
      /\ detail.current \in Cursors \cup {NoCursor} /\ NoCursor \in Cursors \cup {NoCursor}
  BY TypesOf DEF Owns
<1>2. SeqSet(<<>>) = {}
  BY EmptyIs
<1>3. ASSUME detail'.shown = detail.shown \/ detail.shown = <<>>
      PROVE  /\ SeqSet(detail.shown) \subseteq SeqSet(detail'.shown)
             /\ Answer /\ detail.shown # <<>> => detail'.shown = detail.shown
  BY <1>2, <1>3
<1>4. CASE UNCHANGED detail
  BY <1>3, <1>4
<1>5. CASE \E th \in Thread, c \in Cursors \cup {NoCursor} : Load(th, c)
  BY <1>1, <1>3, <1>5, LoadShows
<1>6. CASE ScrollUp
  <2>1. detail' = Asking(detail, detail.thread, detail.next)
    BY <1>6 DEF ScrollUp, SchedulePage
  <2>2. detail.next \in Cursors \cup {NoCursor} /\ ops \in 0..MaxOps
    BY <1>1, TypesOf DEF Details, Cursors
  <2>3. detail'.shown = detail.shown
    BY <1>1, <2>1, <2>2, AskingIs
  <2> QED BY <1>3, <2>3
<1>7. CASE \E edge \in {"start", "end"} : JumpTo(edge)
  BY <1>1, <1>3, <1>7, GoOnShows DEF JumpTo
<1>8. CASE Answer
  <2> DEFINE a == Head(replies)
  <2>1. a \in Answers
    BY <1>8, TypesOf, TailIs DEF Answer
  <2>2. CASE a.ok
    <3> DEFINE current == detail # NoDetail /\ detail.epoch = a.epoch
               d == IF ~current THEN detail
                    ELSE IF a.direction = "replace" THEN Replace(detail, a)
                    ELSE Extend(detail, a)
    <3>1. PICK m : GoOn(d, jump, m)
      BY <1>8, <2>2 DEF Answer, AnswerLoaded
    <3>2. d = detail \/ d = Replace(detail, a) \/ d = Extend(detail, a)
      OBVIOUS
    <3>3. d \in Details \cup {NoDetail}
      <4>1. /\ replies # <<>>
            /\ Traffic(detail, requests, replies, hist, ops) /\ View(detail, hist, ops)
        BY <1>8, TypesOf DEF Answer
      <4>2. CASE ~current
        BY <1>1, <4>2
      <4>3. CASE current /\ a.direction = "replace"
        <5>1. d = Replace(detail, a) /\ a.epoch = detail.epoch
          BY <4>3
        <5> HIDE DEF d
        <5> QED BY <1>1, <2>2, <4>1, <4>3, <5>1, Replaces
      <4>4. CASE current /\ a.direction # "replace" /\ a.thread = detail.thread
        <5>1. d = Extend(detail, a) /\ a.epoch = detail.epoch
          BY <4>4
        <5> HIDE DEF d
        <5> QED BY <1>1, <2>2, <4>1, <4>4, <5>1, Extends
      <4>5. CASE current /\ a.direction # "replace" /\ a.thread # detail.thread
        BY <1>1, <4>5 DEF Extend
      <4> QED BY <4>2, <4>3, <4>4, <4>5
    <3> HIDE DEF d, a
    <3>4. CASE d = NoDetail
      <4>1. detail' = NoDetail
        BY <3>1, <3>4 DEF GoOn
      <4> QED BY <4>1
    <3>5. CASE d # NoDetail
      <4>1. detail'.shown = d.shown /\ d.thread = detail.thread
        BY <3>1, <3>3, <3>5, GoOnShows
      <4>2. d.shown = detail.shown \/ detail.shown = <<>>
        BY <1>1, <2>1, <3>2, <4>1, ReplaceShows, ExtendShows
      <4> QED BY <1>3, <4>1, <4>2
    <3> QED BY <3>4, <3>5
  <2>3. CASE ~a.ok
    <3>1. detail' = detail \/ detail' = [detail EXCEPT !.loading = FALSE]
      BY <1>8, <2>3 DEF Answer, SetError
    <3>2. detail'.shown = detail.shown
      BY <1>1, <3>1 DEF Details
    <3> QED BY <1>3, <3>2
  <2> QED BY <2>2, <2>3
<1>9. CASE Snapshot
  <2> DEFINE n == hist[detail.thread]
  <2>1. SeqSet(detail'.shown) = 1..n
    BY <1>9, SnapshotIs
  <2>2. SeqSet(detail.shown) \subseteq 1..n
    BY <1>1, TypesOf DEF View, ViewFits
  <2>3. ~Answer
    BY <1>9 DEF Snapshot, Answer, Op
  <2> HIDE DEF n
  <2> QED BY <2>1, <2>2, <2>3
<1>10. CASE LiveTurn
  <2>1. ~Answer
    BY <1>10 DEF LiveTurn, Answer, Op
  <2> QED BY <1>10, <2>1, LiveTurnIs
<1>11. CASE Close
  BY <1>11 DEF Close
<1>12. CASE (\E th \in Thread : StreamStarts(th) \/ TurnElsewhere(th)) \/ Overlay \/ Serve
            \/ UNCHANGED vars
  BY <1>4, <1>12 DEF StreamStarts, TurnElsewhere, Overlay, Serve, viewVars, vars
<1>13. CASE (\E th \in Thread : Open(th)) \/ RefreshKey \/ ReloadKey \/ Tick \/ StreamEnds
  <2>1. Refresh => \E th \in Thread, c \in Cursors \cup {NoCursor} : Load(th, c)
    BY <1>1 DEF Refresh
  <2> QED BY <1>1, <1>5, <1>13, <2>1 DEF Open, RefreshKey, ReloadKey, Tick, StreamEnds
<1> QED
  BY <1>5, <1>6, <1>7, <1>8, <1>9, <1>10, <1>11, <1>12, <1>13 DEF Next, User

\* While a stream owns the transcript no step takes a turn from it or shows one twice, and
\* an answer leaves it as it is (state.rs, stream_owns_thread_content).
THEOREM ContentIsOwned == Spec => StreamOwnsContent
<1>1. ViewInv /\ [Next]_vars => Keeps
  BY StepKeeps
<1>2. Spec => [][Keeps]_vars
  BY <1>1, ViewInvariant, PTL DEF Spec
<1> DEFINE Kept == Owns(detail) /\ detail' # NoDetail /\ detail'.thread = detail.thread =>
             /\ SeqSet(detail.shown) \subseteq SeqSet(detail'.shown)
             /\ \A i, j \in DOMAIN detail'.shown : detail'.shown[i] = detail'.shown[j] => i = j
             /\ Answer /\ detail.shown # <<>> => detail'.shown = detail.shown
<1>3. Keeps /\ ViewInv' => Kept
  BY DEF Keeps, ViewInv, View, ViewFits, Once
<1>4. Spec => [][ViewInv']_vars
  BY ViewInvariant, PTL
<1>5. [Keeps]_vars /\ [ViewInv']_vars => [Kept]_vars
  BY <1>3
<1> QED BY <1>2, <1>4, <1>5, PTL DEF StreamOwnsContent

=============================================================================
