------------------------ MODULE AssistantStream_proofs ------------------------
(***************************************************************************)
(* Proofs about AssistantStream, for any tokens and any number of messages *)
(* and frames: what is shown is what the server said until the frames that *)
(* were not looked at yet.                                                 *)
(***************************************************************************)
EXTENDS AssistantStream, SequenceTheorems, WellFoundedInduction, TLAPS

(***************************************************************************)
(* The types, in full.                                                     *)
(***************************************************************************)
Statuses == {"inProgress", "completed", "interrupted"}

Notices == [kind : {"started"}, item : 1..MaxItem] \cup
           [kind : {"delta"}, item : 1..MaxItem, text : Seq(Token)] \cup
           [kind : {"completed"}, item : 1..MaxItem, text : Seq(Token)] \cup
           [kind : {"turnCompleted"}, status : Statuses \ {"inProgress"}]

Answers == [kind : {"answer"}, snap : Snapshots]

Entries == [item : Id, live : Id \cup {NoId}, poll : Id \cup {NoId}, text : Seq(Token),
            cursor : Int]

CursorFits(e) == e.cursor \in {NoCursor, 0} \cup 1..(Len(e.text) - 1)

List(es) == es \in Seq(Entries) /\ \A k \in DOMAIN es : CursorFits(es[k])

TurnFits(t) ==
    /\ t \in [text : BoundedSeq(Text, MaxItem), open : BOOLEAN, status : Statuses]
    /\ Len(FlattenSeq(t.text)) <= MaxText
    /\ t.open => t.text # <<>>
    /\ t.status = "completed" => ~t.open

TurnOK == TurnFits(turn)

Typed ==
    /\ TurnOK
    /\ link \in [sub : BOOLEAN, asked : {"none", "resume", "start", "list"},
                 snap : Snapshots \cup {NoSnap}]
    /\ net \in Seq(Notices \cup Answers) /\ buffer \in Seq(Notices)
    /\ phase \in {"attaching", "starting", "polling", "queueing", "waiting", "over"}
    /\ List(shown)
    /\ outcome \in {"none", "completed", "interrupted", "left", "failed"}
    /\ phase = "over" <=> outcome # "none"
    /\ submits \in 0..MaxSubmit
    /\ hist \in [gap : BOOLEAN, straddled : BOOLEAN, late : BOOLEAN]

(***************************************************************************)
(* One request at a time: what was asked, what it was answered with, and   *)
(* what is set aside meanwhile.                                            *)
(***************************************************************************)
Fits(s, status, p) ==
    /\ s.status \in {"inProgress", status}
    /\ ~s.listed => s.text = <<>> /\ s.status = "inProgress"
    /\ p = "attaching" => s.listed

AskedInPhase ==
    \/ link.asked = "none"
    \/ <<phase, link.asked>> \in {<<"attaching", "resume">>, <<"starting", "start">>,
                                  <<"queueing", "start">>, <<"polling", "list">>}

OneRequest ==
    /\ AskedInPhase
    /\ Captured => link.asked # "none" /\ link.sub /\ Fits(link.snap, turn.status, phase)
    /\ ~link.sub => /\ net = <<>> /\ buffer = <<>>
                    /\ phase \in {"attaching", "starting", "over"}
    /\ buffer # <<>> => phase \in {"attaching", "starting", "polling"}
    /\ phase \in {"attaching", "starting"} => shown = <<>>

AnswerFits(j) ==
    /\ link.asked = "none" /\ Awaiting
    /\ \A i \in DOMAIN net : net[i].kind = "answer" => i = j
    /\ Fits(net[j].snap, turn.status, phase)
    /\ net[j].snap.status # "inProgress" => j = Len(net)

OneAnswer == \A j \in DOMAIN net : net[j].kind = "answer" => AnswerFits(j)

\* The notifications that were not looked at yet, in the order they were sent.
Unheard == buffer \o net

LastNotice(fl) ==
    \A j \in DOMAIN fl : fl[j].kind = "turnCompleted" =>
        /\ fl[j].status = turn.status
        /\ \A k \in DOMAIN fl : k > j => fl[k].kind = "answer"

Protocol == OneRequest /\ OneAnswer /\ (phase # "over" => LastNotice(Unheard))

(***************************************************************************)
(* The past: what the turn was when each of these was sent.                *)
(***************************************************************************)
Moments == [text : Seq(Seq(Token)), open : BOOLEAN]

Now == [text |-> turn.text, open |-> turn.open]

\* Message i is as it will remain.
Closed(m, i) == i < Len(m.text) \/ ~m.open

Later(a, b) ==
    /\ Len(a.text) <= Len(b.text)
    /\ \A i \in DOMAIN a.text :
         /\ IsPrefix(a.text[i], b.text[i])
         /\ Closed(a, i) => Closed(b, i) /\ b.text[i] = a.text[i]

\* Frame f was sent between a and b.
Follows(a, f, b) ==
    \/ /\ f.kind = "started" /\ ~a.open /\ f.item = Len(a.text) + 1
       /\ b = [text |-> Append(a.text, <<>>), open |-> TRUE]
    \/ /\ f.kind = "delta" /\ a.open /\ f.item = Len(a.text) /\ f.text # <<>>
       /\ b = [text |-> [a.text EXCEPT ![f.item] = @ \o f.text], open |-> TRUE]
    \/ /\ f.kind = "completed" /\ a.open /\ f.item = Len(a.text) /\ f.text = a.text[f.item]
       /\ b = [text |-> a.text, open |-> FALSE]
    \/ f.kind \in {"turnCompleted", "answer"} /\ b = a

History(past, fl, now) ==
    /\ past \in [0..Len(fl) -> Moments]
    /\ past[Len(fl)] = now
    /\ \A k \in 1..Len(fl) : Follows(past[k - 1], fl[k], past[k])
    /\ \A i, j \in 0..Len(fl) : i <= j => Later(past[i], past[j])

(***************************************************************************)
(* What is shown, against the past of what was not looked at yet.          *)
(***************************************************************************)
\* Entry e is message k: by its live name, or by that of a snapshot alone.
HasLive(e, k) ==
    \/ /\ e.item = LiveId(k) /\ e.live = NoId /\ e.cursor = NoCursor
       /\ e.poll \in {NoId, ItemId(k)}
    \/ e.item = ItemId(k) /\ e.poll = NoId /\ e.live = LiveId(k)

EntryFits(e, k) ==
    \/ HasLive(e, k)
    \/ e.item = ItemId(k) /\ e.poll = NoId /\ e.live = NoId /\ e.cursor # NoCursor

NamesFit(es) == \A k \in DOMAIN es : EntryFits(es[k], k)

\* The entries es show the texts of moment t, where it is certain at moment m
\* what they should show.
Agrees(es, m, t) == \A k \in DOMAIN es : Closed(m, k) \/ Plain => es[k].text = t.text[k]

\* The entries es show what was said until m.
Shows(es, m) ==
    NamesFit(es) /\ Len(es) = Len(m.text) /\ (~hist.late => Agrees(es, m, m))

\* The snapshot of a resume was taken at moment c, with the messages there were
\* when the connection was subscribed.
SeedAt(past, c, texts) == Len(past[c].text) = Len(past[0].text) /\ texts = past[c].text

\* The snapshot of a poll was taken at a moment before m.
PollAt(m, snap) ==
    snap.listed => /\ Len(snap.text) <= Len(m.text)
                   /\ ~hist.late => snap.text = m.text

Attaches(past) ==
    /\ link.asked = "resume" /\ ~Captured => Len(past[0].text) = Len(turn.text)
    /\ Captured => \E c \in DOMAIN past : SeedAt(past, c, link.snap.text)
    /\ \A j \in DOMAIN net : net[j].kind = "answer" =>
         \E c \in 0..(Len(buffer) + j) : SeedAt(past, c, net[j].snap.text)

Polls(past) ==
    /\ Captured => PollAt(Now, link.snap)
    /\ \A j \in DOMAIN net : net[j].kind = "answer" =>
         PollAt(past[Len(buffer) + j], net[j].snap)

Hears(past) ==
    /\ phase = "attaching" /\ ~hist.straddled => Attaches(past)
    /\ phase = "starting" /\ link.sub /\ ~hist.gap => past[0].text = <<>>
    /\ phase = "polling" => Polls(past)
    /\ phase \in {"waiting", "polling", "queueing"} /\ Followed => Shows(shown, past[0])

Followable(past) == History(past, Unheard, Now) /\ Hears(past)

\* What has been shown, whether or not the wait goes on.
ShownFits ==
    Followed =>
        /\ NamesFit(shown) /\ Len(shown) <= Len(turn.text)
        /\ ~hist.late =>
             /\ outcome = "completed" =>
                  Len(shown) = Len(turn.text) /\ \A k \in DOMAIN shown : shown[k].text = turn.text[k]
             /\ Plain => \A k \in DOMAIN shown : IsPrefix(shown[k].text, turn.text[k])

StreamInv ==
    /\ Typed /\ Protocol /\ ShownFits
    /\ phase # "over" => \E past : Followable(past)

(***************************************************************************)
(* Induction.  A set of numbers that is not empty has a least one.         *)
(***************************************************************************)
LEMMA Least ==
    ASSUME NEW T \in SUBSET Nat, T # {}
    PROVE  \E x \in T : \A y \in T : x <= y
<1>1. IsWellFoundedOn(OpToRel(<, Nat), Nat)
  BY NatLessThanWellFounded DEF OpToRel
<1>2. PICK x \in T : \A y \in T : <<y, x>> \notin OpToRel(<, Nat)
  BY <1>1, WFMin DEF OpToRel
<1>3. \A y \in T : ~(y < x)
  BY <1>2 DEF OpToRel
<1> QED BY <1>3

\* What holds at 0 and from each number to the next holds up to n.
LEMMA UpTo ==
    ASSUME NEW n \in Nat, NEW T, 0 \in T, \A k \in 1..n : k - 1 \in T => k \in T
    PROVE  0..n \subseteq T
<1> DEFINE U == {k \in 0..n : k \notin T}
<1>1. SUFFICES ASSUME U # {} PROVE FALSE
  OBVIOUS
<1>2. PICK x \in U : \A y \in U : x <= y
  BY <1>1, Least, U \in SUBSET Nat
<1>3. x \in 1..n /\ x - 1 \in 0..n /\ x - 1 \notin U
  BY <1>2
<1> QED BY <1>3

LEMMA Smallest ==
    ASSUME NEW T \in SUBSET Nat, T # {}
    PROVE  Min(T) \in T /\ \A y \in T : Min(T) <= y
BY Least DEF Min

LEMMA Greatest ==
    ASSUME NEW n \in Nat, NEW T \in SUBSET (0..n), T # {}
    PROVE  Max(T) \in T /\ \A y \in T : y <= Max(T)
<1> DEFINE U == {n - y : y \in T}
<1>1. PICK x \in U : \A y \in U : x <= y
  BY Least, U # {}, U \in SUBSET Nat
<1>2. PICK m \in T : x = n - m
  BY <1>1
<1>3. ASSUME NEW y \in T PROVE m >= y
  <2>1. n - y \in U /\ y \in 0..n /\ m \in 0..n
    OBVIOUS
  <2>2. x <= n - y
    BY <1>1, <2>1
  <2> HIDE DEF U
  <2> QED BY <2>1, <2>2, <1>2
<1>4. \E z \in T : \A y \in T : z >= y
  BY <1>3
<1>5. Max(T) \in T /\ \A y \in T : Max(T) >= y
  BY <1>4 DEF Max
<1> QED BY <1>5

(***************************************************************************)
(* The folds are functions of the place they have come to.                 *)
(***************************************************************************)
LEMMA ApplySteps ==
    ASSUME NEW es, NEW ns, Len(ns) \in Nat
    PROVE  \E list : /\ list = [k \in 0..Len(ns) |->
                                  IF k = 0 THEN es ELSE Apply(list[k - 1], ns[k])]
                     /\ ApplyAll(es, ns) = list[Len(ns)]
<1> DEFINE Upto(n, g) == g = [k \in 0..n |-> IF k = 0 THEN es ELSE Apply(g[k - 1], ns[k])]
           T == {n \in 0..Len(ns) : \E g : Upto(n, g)}
<1>1. 0 \in T
  <2>1. Upto(0, [k \in 0..0 |-> es])
    OBVIOUS
  <2> HIDE DEF Upto
  <2> QED BY <2>1
<1>2. ASSUME NEW n \in 1..Len(ns), n - 1 \in T PROVE n \in T
  <2>1. PICK g : Upto(n - 1, g)
    BY <1>2
  <2> DEFINE h == [k \in 0..n |-> IF k = n THEN Apply(g[n - 1], ns[n]) ELSE g[k]]
  <2>2. ASSUME NEW k \in 0..n PROVE h[k] = IF k = 0 THEN es ELSE Apply(h[k - 1], ns[k])
    <3>1. CASE k = n
      BY <3>1, n - 1 \in 0..n
    <3>2. CASE k # n
      <4>1. k \in 0..(n - 1) /\ h[k] = g[k]
        BY <3>2
      <4>2. g[k] = IF k = 0 THEN es ELSE Apply(g[k - 1], ns[k])
        BY <4>1, <2>1
      <4>3. k # 0 => h[k - 1] = g[k - 1]
        BY <4>1
      <4> QED BY <4>1, <4>2, <4>3
    <3> QED BY <3>1, <3>2
  <2>3. Upto(n, h)
    <3>1. h = [k \in 0..n |-> h[k]]
      OBVIOUS
    <3> HIDE DEF h
    <3> QED BY <3>1, <2>2
  <2> HIDE DEF h, Upto
  <2> QED BY <2>3
<1>3. \E g : Upto(Len(ns), g)
  <2> HIDE DEF Upto
  <2>1. 0..Len(ns) \subseteq T
    <3> HIDE DEF T
    <3> QED BY <1>1, <1>2, UpTo
  <2> QED BY <2>1
<1> DEFINE F == CHOOSE g : Upto(Len(ns), g)
<1>4. Upto(Len(ns), F)
  BY <1>3
<1>5. ApplyAll(es, ns) = F[Len(ns)]
  BY DEF ApplyAll
<1> QED BY <1>4, <1>5

LEMMA SyncSteps ==
    ASSUME NEW es, NEW texts, Len(texts) \in Nat
    PROVE  \E list : /\ list = [p \in 0..Len(texts) |->
                                  IF p = 0 THEN es ELSE SyncItem(list[p - 1], p, texts[p])]
                     /\ SyncFromTurn(es, texts) = list[Len(texts)]
<1> DEFINE Upto(n, g) ==
             g = [p \in 0..n |-> IF p = 0 THEN es ELSE SyncItem(g[p - 1], p, texts[p])]
           T == {n \in 0..Len(texts) : \E g : Upto(n, g)}
<1>1. 0 \in T
  <2>1. Upto(0, [k \in 0..0 |-> es])
    OBVIOUS
  <2> HIDE DEF Upto
  <2> QED BY <2>1
<1>2. ASSUME NEW n \in 1..Len(texts), n - 1 \in T PROVE n \in T
  <2>1. PICK g : Upto(n - 1, g)
    BY <1>2
  <2> DEFINE h == [k \in 0..n |-> IF k = n THEN SyncItem(g[n - 1], n, texts[n]) ELSE g[k]]
  <2>2. ASSUME NEW k \in 0..n
        PROVE h[k] = IF k = 0 THEN es ELSE SyncItem(h[k - 1], k, texts[k])
    <3>1. CASE k = n
      BY <3>1, n - 1 \in 0..n
    <3>2. CASE k # n
      <4>1. k \in 0..(n - 1) /\ h[k] = g[k]
        BY <3>2
      <4>2. g[k] = IF k = 0 THEN es ELSE SyncItem(g[k - 1], k, texts[k])
        BY <4>1, <2>1
      <4>3. k # 0 => h[k - 1] = g[k - 1]
        BY <4>1
      <4> QED BY <4>1, <4>2, <4>3
    <3> QED BY <3>1, <3>2
  <2>3. Upto(n, h)
    <3>1. h = [k \in 0..n |-> h[k]]
      OBVIOUS
    <3> HIDE DEF h
    <3> QED BY <3>1, <2>2
  <2> HIDE DEF h, Upto
  <2> QED BY <2>3
<1>3. \E g : Upto(Len(texts), g)
  <2> HIDE DEF Upto
  <2>1. 0..Len(texts) \subseteq T
    <3> HIDE DEF T
    <3> QED BY <1>1, <1>2, UpTo
  <2> QED BY <2>1
<1> DEFINE F == CHOOSE g : Upto(Len(texts), g)
<1>4. Upto(Len(texts), F)
  BY <1>3
<1>5. SyncFromTurn(es, texts) = F[Len(texts)]
  BY DEF SyncFromTurn
<1> QED BY <1>4, <1>5

\* A sequence of sequences is joined one after the other.
LEMMA FlattenSteps ==
    ASSUME NEW seqs, Len(seqs) \in Nat \ {0}
    PROVE  \E flat : /\ flat = [i \in 1..Len(seqs) |->
                                  IF i = 1 THEN seqs[i] ELSE flat[i - 1] \o seqs[i]]
                     /\ FlattenSeq(seqs) = flat[Len(seqs)]
<1> DEFINE Upto(n, g) == g = [i \in 1..n |-> IF i = 1 THEN seqs[i] ELSE g[i - 1] \o seqs[i]]
           T == {n \in 0..(Len(seqs) - 1) : \E g : Upto(n + 1, g)}
<1>1. 0 \in T
  <2>1. Upto(0 + 1, [i \in 1..1 |-> seqs[1]])
    OBVIOUS
  <2> HIDE DEF Upto
  <2> QED BY <2>1
<1>2. ASSUME NEW n \in 1..(Len(seqs) - 1), n - 1 \in T PROVE n \in T
  <2>1. PICK g : Upto(n, g)
    BY <1>2, (n - 1) + 1 = n
  <2> DEFINE h == [i \in 1..(n + 1) |-> IF i = n + 1 THEN g[n] \o seqs[n + 1] ELSE g[i]]
  <2>2. ASSUME NEW k \in 1..(n + 1)
        PROVE h[k] = IF k = 1 THEN seqs[k] ELSE h[k - 1] \o seqs[k]
    <3>1. CASE k = n + 1
      BY <3>1, n \in 1..(n + 1), n + 1 # 1, (n + 1) - 1 = n, n # n + 1
    <3>2. CASE k # n + 1
      <4>1. k \in 1..n /\ h[k] = g[k]
        BY <3>2
      <4>2. g[k] = IF k = 1 THEN seqs[k] ELSE g[k - 1] \o seqs[k]
        BY <4>1, <2>1
      <4>3. k # 1 => h[k - 1] = g[k - 1]
        BY <4>1
      <4> QED BY <4>1, <4>2, <4>3
    <3> QED BY <3>1, <3>2
  <2>3. Upto(n + 1, h)
    <3>1. h = [k \in 1..(n + 1) |-> h[k]]
      OBVIOUS
    <3> HIDE DEF h
    <3> QED BY <3>1, <2>2
  <2> HIDE DEF h, Upto
  <2> QED BY <2>3
<1>3. \E g : Upto(Len(seqs), g)
  <2> HIDE DEF Upto
  <2>1. 0..(Len(seqs) - 1) \subseteq T
    <3> HIDE DEF T
    <3> QED BY <1>1, <1>2, UpTo, Len(seqs) - 1 \in Nat, Zenon
  <2> QED BY <2>1, (Len(seqs) - 1) + 1 = Len(seqs), Len(seqs) - 1 \in 0..(Len(seqs) - 1)
<1> DEFINE F == CHOOSE g : Upto(Len(seqs), g)
<1>4. Upto(Len(seqs), F)
  BY <1>3, Zenon
<1>5. FlattenSeq(seqs) = F[Len(seqs)]
  BY DEF FlattenSeq
<1> QED BY <1>4, <1>5, Zenon

LEMMA FlattenType ==
    ASSUME NEW S, NEW seqs \in Seq(Seq(S))
    PROVE  FlattenSeq(seqs) \in Seq(S)
<1>1. CASE Len(seqs) = 0
  BY <1>1, seqs = <<>> DEF FlattenSeq
<1>2. CASE Len(seqs) # 0
  <2>1. Len(seqs) \in Nat \ {0}
    BY <1>2
  <2>2. PICK flat : /\ flat = [i \in 1..Len(seqs) |->
                                  IF i = 1 THEN seqs[i] ELSE flat[i - 1] \o seqs[i]]
                    /\ FlattenSeq(seqs) = flat[Len(seqs)]
    BY <2>1, FlattenSteps
  <2> DEFINE T == {n \in 0..(Len(seqs) - 1) : flat[n + 1] \in Seq(S)}
  <2> DEFINE L == Len(seqs)
  <2>6. L \in Nat \ {0} /\ \A i \in 1..L : seqs[i] \in Seq(S)
    BY <2>1
  <2>3. 0 \in T
    BY <2>2, <2>6, 1 \in 1..L
  <2>4. ASSUME NEW n \in 1..(Len(seqs) - 1), n - 1 \in T PROVE n \in T
    <3>1. flat[n + 1] = flat[n] \o seqs[n + 1]
      BY <2>2, n + 1 \in 1..Len(seqs), n + 1 # 1, (n + 1) - 1 = n
    <3>2. flat[n] \in Seq(S)
      BY <2>4, (n - 1) + 1 = n
    <3>3. seqs[n + 1] \in Seq(S)
      BY <2>6, n + 1 \in 1..L
    <3>4. flat[n + 1] \in Seq(S)
      BY <3>1, <3>2, <3>3
    <3> QED BY <3>4, n \in 0..(Len(seqs) - 1)
  <2>5. 0..(Len(seqs) - 1) \subseteq T
    <3> HIDE DEF T
    <3> QED BY <2>1, <2>3, <2>4, UpTo, Len(seqs) - 1 \in Nat
  <2> QED BY <2>1, <2>2, <2>5, Len(seqs) - 1 \in 0..(Len(seqs) - 1), (Len(seqs) - 1) + 1 = Len(seqs)
<1> QED BY <1>1, <1>2

\* One sequence more is joined at the end.
LEMMA FlattenNext ==
    ASSUME NEW S, NEW s \in Seq(Seq(S)), NEW t \in Seq(Seq(S)),
           Len(t) = Len(s) + 1, \A i \in 1..Len(s) : t[i] = s[i]
    PROVE  FlattenSeq(t) = FlattenSeq(s) \o t[Len(t)]
<1>1. PICK g : /\ g = [i \in 1..Len(t) |-> IF i = 1 THEN t[i] ELSE g[i - 1] \o t[i]]
               /\ FlattenSeq(t) = g[Len(t)]
  BY FlattenSteps, Len(t) \in Nat \ {0}
<1>2. CASE Len(s) = 0
  <2>1. FlattenSeq(s) = <<>>
    BY <1>2 DEF FlattenSeq
  <2>2. g[1] = t[1] /\ t[1] \in Seq(S)
    BY <1>1, <1>2
  <2> QED BY <1>1, <1>2, <2>1, <2>2
<1>3. CASE Len(s) # 0
  <2>1. PICK f : /\ f = [i \in 1..Len(s) |-> IF i = 1 THEN s[i] ELSE f[i - 1] \o s[i]]
                 /\ FlattenSeq(s) = f[Len(s)]
    BY <1>3, FlattenSteps, Len(s) \in Nat \ {0}
  <2> DEFINE T == {n \in 0..(Len(s) - 1) : f[n + 1] = g[n + 1]}
  <2>2. 0 \in T
    BY <1>1, <1>3, <2>1, 1 \in 1..Len(s), 1 \in 1..Len(t)
  <2>3. ASSUME NEW n \in 1..(Len(s) - 1), n - 1 \in T PROVE n \in T
    <3>1. f[n] = g[n]
      BY <2>3, (n - 1) + 1 = n
    <3>2. f[n + 1] = f[n] \o s[n + 1] /\ g[n + 1] = g[n] \o t[n + 1]
      BY <1>1, <2>1, n + 1 \in 1..Len(s), n + 1 \in 1..Len(t), n + 1 # 1, (n + 1) - 1 = n, Zenon
    <3>3. t[n + 1] = s[n + 1]
      BY n + 1 \in 1..Len(s)
    <3>4. f[n + 1] = g[n + 1]
      BY <3>1, <3>2, <3>3
    <3> QED BY <3>4, n \in 0..(Len(s) - 1)
  <2>4. 0..(Len(s) - 1) \subseteq T
    <3> HIDE DEF T
    <3> QED BY <1>3, <2>2, <2>3, UpTo, Len(s) - 1 \in Nat
  <2>5. f[Len(s)] = g[Len(s)]
    BY <1>3, <2>4, Len(s) - 1 \in 0..(Len(s) - 1), (Len(s) - 1) + 1 = Len(s)
  <2>6. g[Len(t)] = g[Len(s)] \o t[Len(t)]
    BY <1>1, <1>3, Len(t) \in 1..Len(t), Len(t) # 1, Len(t) - 1 = Len(s)
  <2> QED BY <1>1, <2>1, <2>5, <2>6
<1> QED BY <1>2, <1>3

(***************************************************************************)
(* Sequences.                                                              *)
(***************************************************************************)
LEMMA Bounded ==
    ASSUME NEW S, NEW n \in Nat, NEW s
    PROVE  s \in BoundedSeq(S, n) <=> s \in Seq(S) /\ Len(s) <= n
<1>1. ASSUME s \in BoundedSeq(S, n) PROVE s \in Seq(S) /\ Len(s) <= n
  <2>1. PICK m \in 0..n : s \in [1..m -> S]
    BY <1>1 DEF BoundedSeq, SeqOf
  <2> QED BY <2>1
<1>2. ASSUME s \in Seq(S), Len(s) <= n PROVE s \in BoundedSeq(S, n)
  <2>1. s \in [1..Len(s) -> S] /\ Len(s) \in 0..n
    BY <1>2
  <2> QED BY <2>1 DEF BoundedSeq, SeqOf
<1> QED BY <1>1, <1>2

LEMMA Associative == \A x, y, z \in Seq(Token) : (x \o y) \o z = x \o (y \o z)
BY ConcatAssociative

\* A sequence without its first m elements.
LEMMA Dropped ==
    ASSUME NEW S, NEW s \in Seq(S), NEW m \in Nat
    PROVE  /\ SubSeq(s, m + 1, Len(s)) \in Seq(S)
           /\ Len(SubSeq(s, m + 1, Len(s))) = IF m < Len(s) THEN Len(s) - m ELSE 0
           /\ \A i \in 1..(Len(s) - m) : SubSeq(s, m + 1, Len(s))[i] = s[m + i]
<1>1. \A i \in (m + 1)..Len(s) : s[i] \in S
  OBVIOUS
<1>2. /\ SubSeq(s, m + 1, Len(s)) \in Seq(S)
      /\ Len(SubSeq(s, m + 1, Len(s))) =
           IF m + 1 <= Len(s) THEN Len(s) - (m + 1) + 1 ELSE 0
      /\ \A i \in 1..(Len(s) - (m + 1) + 1) : SubSeq(s, m + 1, Len(s))[i] = s[(m + 1) + i - 1]
  BY <1>1, SubSeqProperties, m + 1 \in Int, Len(s) \in Int
<1>3. Len(s) \in Nat /\ Len(s) - (m + 1) + 1 = Len(s) - m
  OBVIOUS
<1>4. \A i \in 1..(Len(s) - m) : (m + 1) + i - 1 = m + i
  BY <1>3
<1> QED BY <1>2, <1>3, <1>4

LEMMA PrefixIs ==
    ASSUME NEW S, NEW s \in Seq(S), NEW t \in Seq(S)
    PROVE  IsPrefix(s, t) <=> Len(s) <= Len(t) /\ \A i \in 1..Len(s) : s[i] = t[i]
<1>1. SubSeq(s, 1, Len(s)) = s
  BY SubSeqFull
<1>2. CASE Len(s) <= Len(t)
  <2> DEFINE u == SubSeq(t, 1, Len(s))
  <2>1. \A i \in 1..Len(s) : t[i] \in S
    BY <1>2
  <2>2. /\ u \in Seq(S) /\ Len(u) = IF 1 <= Len(s) THEN Len(s) - 1 + 1 ELSE 0
        /\ \A i \in 1..(Len(s) - 1 + 1) : u[i] = t[1 + i - 1]
    BY <2>1, SubSeqProperties, Len(s) \in Int, 1 \in Int
  <2>3. Len(u) = Len(s) /\ \A i \in 1..Len(s) : u[i] = t[i]
    BY <2>2
  <2> HIDE DEF u
  <2>4. s = u <=> \A i \in 1..Len(s) : s[i] = u[i]
    BY <2>2, <2>3
  <2>5. IsPrefix(s, t) <=> s = u
    BY <1>1, <1>2 DEF IsPrefix, u
  <2> QED BY <1>2, <2>3, <2>4, <2>5
<1>3. CASE ~(Len(s) <= Len(t))
  BY <1>3 DEF IsPrefix
<1> QED BY <1>2, <1>3

(***************************************************************************)
(* AssistantResponses keeps a list of entries.                             *)
(***************************************************************************)
LEMMA Found ==
    ASSUME NEW es, Len(es) \in Nat, NEW id
    PROVE  \/ FindIndex(es, id) = 0 /\ \A k \in 1..Len(es) : ~Matches(es[k], id)
           \/ /\ FindIndex(es, id) \in 1..Len(es) /\ Matches(es[FindIndex(es, id)], id)
              /\ \A k \in 1..Len(es) : Matches(es[k], id) => FindIndex(es, id) <= k
<1> DEFINE I == {i \in 1..Len(es) : Matches(es[i], id)}
<1>1. FindIndex(es, id) = IF I # {} THEN Min(I) ELSE 0
  BY DEF FindIndex, SelectInSeq
<1>2. CASE I = {}
  BY <1>1, <1>2
<1>3. CASE I # {}
  <2>1. Min(I) \in I /\ \A y \in I : Min(I) <= y
    BY <1>3, Smallest, I \in SUBSET Nat
  <2> QED BY <1>1, <1>3, <2>1
<1> QED BY <1>2, <1>3

\* The last seeded entry without a live name.
Unnamed(e) == e.live = NoId /\ e.cursor # NoCursor

LastUnnamed(es) == SelectLastInSeq(es, LAMBDA e : e.live = NoId /\ e.cursor # NoCursor)

LEMMA FoundLast ==
    ASSUME NEW es, Len(es) \in Nat
    PROVE  \/ LastUnnamed(es) = 0 /\ \A k \in 1..Len(es) : ~Unnamed(es[k])
           \/ /\ LastUnnamed(es) \in 1..Len(es) /\ Unnamed(es[LastUnnamed(es)])
              /\ \A k \in 1..Len(es) : Unnamed(es[k]) => k <= LastUnnamed(es)
<1> DEFINE I == {i \in 1..Len(es) : Unnamed(es[i])}
<1>1. LastUnnamed(es) = IF I # {} THEN Max(I) ELSE 0
  BY DEF LastUnnamed, SelectLastInSeq, Unnamed
<1>2. CASE I = {}
  BY <1>1, <1>2
<1>3. CASE I # {}
  <2>1. Max(I) \in I /\ \A y \in I : y <= Max(I)
    BY <1>3, Greatest, I \in SUBSET (0..Len(es))
  <2> QED BY <1>1, <1>3, <2>1
<1> QED BY <1>2, <1>3

LEMMA EntryType ==
    ASSUME NEW id \in Id, NEW text \in Seq(Token), NEW c \in {NoCursor, 0}
    PROVE  Entry(id, text, c) \in Entries /\ CursorFits(Entry(id, text, c))
BY DEF Entry, Entries, CursorFits, NoCursor

LEMMA FreshType == ASSUME NEW id \in Id PROVE Fresh(id) \in Entries /\ CursorFits(Fresh(id))
<1>1. <<>> \in Seq(Token)
  OBVIOUS
<1> QED BY <1>1, EntryType DEF Fresh

LEMMA ListAppend ==
    ASSUME NEW es, List(es), NEW e \in Entries, CursorFits(e)
    PROVE  List(Append(es, e))
<1>1. Append(es, e) \in Seq(Entries) /\ DOMAIN Append(es, e) = 1..(Len(es) + 1)
  BY DEF List
<1>2. ASSUME NEW k \in 1..(Len(es) + 1) PROVE CursorFits(Append(es, e)[k])
  <2>1. CASE k = Len(es) + 1
    BY <2>1 DEF List
  <2>2. CASE k # Len(es) + 1
    <3>1. k \in DOMAIN es /\ Append(es, e)[k] = es[k]
      BY <2>2 DEF List
    <3> QED BY <3>1 DEF List
  <2> QED BY <2>1, <2>2
<1> QED BY <1>1, <1>2 DEF List

LEMMA ListExcept ==
    ASSUME NEW es, List(es), NEW k \in DOMAIN es, NEW e \in Entries, CursorFits(e)
    PROVE  List([es EXCEPT ![k] = e])
<1>1. [es EXCEPT ![k] = e] \in Seq(Entries) /\ DOMAIN [es EXCEPT ![k] = e] = DOMAIN es
  BY DEF List
<1>2. ASSUME NEW n \in DOMAIN es PROVE CursorFits([es EXCEPT ![k] = e][n])
  BY DEF List
<1> QED BY <1>1, <1>2 DEF List

LEMMA LiveIds == ASSUME NEW i \in 1..MaxItem PROVE LiveId(i) \in Id /\ ItemId(i) \in Id
BY DEF Id

LEMMA ResolveType ==
    ASSUME NEW es, List(es), NEW id \in Id
    PROVE  /\ List(ResolveLive(es, id).list)
           /\ ResolveLive(es, id).at \in DOMAIN ResolveLive(es, id).list
<1> DEFINE known == FindIndex(es, id)
           tail == LastUnnamed(es)
<1>1. ResolveLive(es, id) =
        IF known # 0 THEN [list |-> es, at |-> known]
        ELSE IF tail # 0 THEN [list |-> [es EXCEPT ![tail].live = id], at |-> tail]
        ELSE [list |-> Append(es, Fresh(id)), at |-> Len(es) + 1]
  BY DEF ResolveLive, LastUnnamed
<1>2. Len(es) \in Nat /\ DOMAIN es = 1..Len(es)
  BY DEF List
<1>3. CASE known # 0
  BY <1>1, <1>2, <1>3, Found
<1>4. CASE known = 0 /\ tail # 0
  <2>1. tail \in DOMAIN es
    BY <1>2, <1>4, FoundLast
  <2>2. es[tail] \in Entries /\ CursorFits(es[tail])
    BY <2>1 DEF List
  <2> DEFINE e == [es[tail] EXCEPT !.live = id]
  <2>3. e \in Entries /\ CursorFits(e)
    BY <2>2 DEF Entries, CursorFits
  <2>4. [es EXCEPT ![tail].live = id] = [es EXCEPT ![tail] = e]
    BY <2>1 DEF List
  <2>5. List([es EXCEPT ![tail] = e]) /\ DOMAIN [es EXCEPT ![tail] = e] = DOMAIN es
    <3> HIDE DEF e
    <3> QED BY <2>1, <2>3, ListExcept DEF List
  <2> QED BY <1>1, <1>4, <2>1, <2>4, <2>5
<1>5. CASE known = 0 /\ tail = 0
  <2>1. List(Append(es, Fresh(id)))
    BY FreshType, ListAppend
  <2>2. Len(es) + 1 \in DOMAIN Append(es, Fresh(id))
    BY <1>2 DEF List
  <2> QED BY <1>1, <1>5, <2>1, <2>2
<1> QED BY <1>3, <1>4, <1>5

LEMMA TextType ==
    ASSUME NEW e \in Entries, NEW x \in Seq(Token)
    PROVE  /\ [e EXCEPT !.text = x, !.cursor = NoCursor] \in Entries
           /\ CursorFits([e EXCEPT !.text = x, !.cursor = NoCursor])
<1> DEFINE f == [e EXCEPT !.text = x, !.cursor = NoCursor]
<1>1. f = [item |-> e.item, live |-> e.live, poll |-> e.poll, text |-> x, cursor |-> NoCursor]
  <2> DEFINE g == [e EXCEPT !.text = x]
  <2>1. g \in [item : Id, live : Id \cup {NoId}, poll : Id \cup {NoId}, text : {x}, cursor : Int]
        /\ g.item = e.item /\ g.live = e.live /\ g.poll = e.poll
    BY DEF Entries
  <2>2. f = [g EXCEPT !.cursor = NoCursor]
    OBVIOUS
  <2> HIDE DEF g
  <2> QED BY <2>1, <2>2
<1>2. NoCursor \in Int
  BY DEF NoCursor
<1>3. f \in Entries
  BY <1>1, <1>2 DEF Entries
<1>4. CursorFits(f)
  BY <1>1 DEF CursorFits
<1> QED BY <1>3, <1>4

\* What a snapshot does to the entry it is about.
Named(e, id) == IF e.item # id /\ e.poll = NoId THEN [e EXCEPT !.poll = id] ELSE e

Told(e, x) == IF x = <<>> \/ x = e.text THEN e
              ELSE [e EXCEPT !.text = x, !.cursor = IF @ = NoCursor THEN NoCursor ELSE 0]

LEMMA NamedType ==
    ASSUME NEW e \in Entries, CursorFits(e), NEW id \in Id
    PROVE  Named(e, id) \in Entries /\ CursorFits(Named(e, id))
<1> DEFINE h == [e EXCEPT !.poll = id]
<1>1. h \in Entries /\ CursorFits(h)
  BY DEF Entries, CursorFits
<1>2. Named(e, id) = h \/ Named(e, id) = e
  BY DEF Named
<1> HIDE DEF h
<1> QED BY <1>1, <1>2

LEMMA ToldType ==
    ASSUME NEW e \in Entries, CursorFits(e), NEW x \in Seq(Token)
    PROVE  Told(e, x) \in Entries /\ CursorFits(Told(e, x))
<1>1. CASE x = <<>> \/ x = e.text
  BY <1>1 DEF Told
<1>2. CASE ~(x = <<>> \/ x = e.text)
  <2> DEFINE g == [e EXCEPT !.text = x]
             c == IF e.cursor = NoCursor THEN NoCursor ELSE 0
             f == [g EXCEPT !.cursor = c]
  <2>1. g \in [item : Id, live : Id \cup {NoId}, poll : Id \cup {NoId}, text : {x}, cursor : Int]
        /\ g.cursor = e.cursor
    BY DEF Entries
  <2>2. c \in Int /\ c \in {NoCursor, 0}
    BY DEF NoCursor
  <2>3. Told(e, x) = f
    BY <1>2, <2>1 DEF Told
  <2> HIDE DEF g, c
  <2>4. f \in Entries /\ CursorFits(f)
    BY <2>1, <2>2 DEF Entries, CursorFits
  <2> QED BY <2>3, <2>4
<1> QED BY <1>1, <1>2

LEMMA TakeDeltaType ==
    ASSUME NEW e \in Entries, CursorFits(e), NEW d \in Seq(Token)
    PROVE  TakeDelta(e, d) \in Entries /\ CursorFits(TakeDelta(e, d))
<1> DEFINE remaining == IF e.cursor = NoCursor THEN <<>>
                        ELSE SubSeq(e.text, e.cursor + 1, Len(e.text))
           replays   == remaining # <<>> /\ IsPrefix(d, remaining)
           overlaps  == remaining # <<>> /\ IsPrefix(remaining, d)
           fragment  == IF overlaps THEN SubSeq(d, Len(remaining) + 1, Len(d)) ELSE d
           moved     == e.cursor + Len(d)
<1>1. TakeDelta(e, d) =
        IF replays
        THEN [e EXCEPT !.cursor = IF moved < Len(e.text) THEN moved ELSE NoCursor]
        ELSE [e EXCEPT !.text = @ \o fragment, !.cursor = NoCursor]
  BY DEF TakeDelta
<1>2. /\ e.text \in Seq(Token) /\ Len(e.text) \in Nat /\ Len(d) \in Nat /\ e.cursor \in Int
      /\ e.cursor # NoCursor => e.cursor \in Nat
  BY DEF Entries, CursorFits, NoCursor
<1>3. CASE replays
  <2>1. e.cursor # NoCursor
    BY <1>3
  <2>2. moved \in Nat
    BY <1>2, <2>1
  <2> DEFINE c == IF moved < Len(e.text) THEN moved ELSE NoCursor
  <2>3. c \in Int /\ c \in {NoCursor, 0} \cup 1..(Len(e.text) - 1)
    <3> HIDE DEF moved
    <3> QED BY <1>2, <2>2 DEF NoCursor
  <2>4. TakeDelta(e, d) = [e EXCEPT !.cursor = c]
    BY <1>1, <1>3
  <2> HIDE DEF c
  <2> QED BY <2>3, <2>4 DEF Entries, CursorFits
<1>4. CASE ~replays
  <2>1. fragment \in Seq(Token)
    <3>1. CASE overlaps
      <4>1. e.cursor # NoCursor
        BY <3>1
      <4>2. remaining \in Seq(Token)
        BY <1>2, <4>1, Dropped
      <4>3. Len(remaining) \in Nat
        BY <4>2
      <4>4. fragment = SubSeq(d, Len(remaining) + 1, Len(d))
        BY <3>1
      <4> HIDE DEF remaining, fragment
      <4> QED BY <4>3, <4>4, Dropped
    <3>2. CASE ~overlaps
      BY <3>2
    <3> QED BY <3>1, <3>2
  <2>2. TakeDelta(e, d) = [e EXCEPT !.text = @ \o fragment, !.cursor = NoCursor]
    BY <1>1, <1>4
  <2> HIDE DEF fragment
  <2>3. e.text \o fragment \in Seq(Token)
    BY <1>2, <2>1
  <2>4. TakeDelta(e, d) = [e EXCEPT !.text = e.text \o fragment, !.cursor = NoCursor]
    BY <2>2
  <2> QED BY <2>3, <2>4, TextType, Zenon
<1> QED BY <1>3, <1>4

LEMMA ApplyLiveDeltaType ==
    ASSUME NEW es, List(es), NEW id \in Id, NEW d \in Seq(Token)
    PROVE  List(ApplyLiveDelta(es, id, d))
<1> DEFINE r == ResolveLive(es, id)
<1>1. List(r.list) /\ r.at \in DOMAIN r.list
  BY ResolveType
<1>2. ApplyLiveDelta(es, id, d) = [r.list EXCEPT ![r.at] = TakeDelta(r.list[r.at], d)]
  BY <1>1 DEF ApplyLiveDelta
<1> HIDE DEF r
<1>3. r.list[r.at] \in Entries /\ CursorFits(r.list[r.at])
  BY <1>1 DEF List
<1>4. TakeDelta(r.list[r.at], d) \in Entries /\ CursorFits(TakeDelta(r.list[r.at], d))
  BY <1>3, TakeDeltaType
<1> QED BY <1>1, <1>2, <1>4, ListExcept

LEMMA CompleteLiveType ==
    ASSUME NEW es, List(es), NEW id \in Id, NEW text \in Seq(Token)
    PROVE  List(CompleteLive(es, id, text))
<1> DEFINE r == ResolveLive(es, id)
           e == [r.list[r.at] EXCEPT !.text = text, !.cursor = NoCursor]
<1>1. List(r.list) /\ r.at \in DOMAIN r.list
  BY ResolveType
<1>2. CompleteLive(es, id, text) = [r.list EXCEPT ![r.at] = e]
  BY <1>1 DEF CompleteLive
<1> HIDE DEF r
<1>3. r.list[r.at] \in Entries
  BY <1>1 DEF List
<1>4. e \in Entries /\ CursorFits(e)
  BY <1>3, TextType, Zenon
<1> HIDE DEF e
<1> QED BY <1>1, <1>2, <1>4, ListExcept

LEMMA NoteStartedType ==
    ASSUME NEW es, List(es), NEW id \in Id
    PROVE  List(NoteStarted(es, id))
BY FreshType, ListAppend DEF NoteStarted

\* What a reconciled notification may be, too.
Early == Notices \cup {Nothing}

LEMMA ApplyType ==
    ASSUME NEW es, List(es), NEW n \in Early
    PROVE  List(Apply(es, n))
<1>1. CASE n.kind = "started"
  <2>1. n.item \in 1..MaxItem
    BY <1>1 DEF Early, Notices, Nothing
  <2> QED BY <1>1, <2>1, LiveIds, NoteStartedType DEF Apply
<1>2. CASE n.kind = "delta"
  <2>1. n.item \in 1..MaxItem /\ n.text \in Seq(Token)
    BY <1>2 DEF Early, Notices, Nothing
  <2> QED BY <1>2, <2>1, LiveIds, ApplyLiveDeltaType DEF Apply
<1>3. CASE n.kind = "completed"
  <2>1. n.item \in 1..MaxItem /\ n.text \in Seq(Token)
    BY <1>3 DEF Early, Notices, Nothing
  <2> QED BY <1>3, <2>1, LiveIds, CompleteLiveType DEF Apply
<1>4. CASE n.kind \notin {"started", "delta", "completed"}
  BY <1>4 DEF Apply
<1> QED BY <1>1, <1>2, <1>3, <1>4

LEMMA ApplyAllType ==
    ASSUME NEW es, List(es), NEW ns \in Seq(Early)
    PROVE  List(ApplyAll(es, ns))
<1>1. PICK list : /\ list = [k \in 0..Len(ns) |->
                               IF k = 0 THEN es ELSE Apply(list[k - 1], ns[k])]
                  /\ ApplyAll(es, ns) = list[Len(ns)]
  BY ApplySteps, Len(ns) \in Nat
<1> DEFINE T == {k \in 0..Len(ns) : List(list[k])}
<1>2. 0 \in T
  BY <1>1
<1>3. ASSUME NEW k \in 1..Len(ns), k - 1 \in T PROVE k \in T
  <2>1. list[k] = Apply(list[k - 1], ns[k])
    BY <1>1
  <2>2. List(list[k - 1]) /\ ns[k] \in Early
    BY <1>3
  <2> QED BY <2>1, <2>2, ApplyType
<1>4. Len(ns) \in T
  <2> HIDE DEF T
  <2>1. 0..Len(ns) \subseteq T
    BY <1>2, <1>3, UpTo, Len(ns) \in Nat
  <2> QED BY <2>1
<1> QED BY <1>1, <1>4

LEMMA SyncItemType ==
    ASSUME NEW es, List(es), NEW p \in 1..MaxItem, NEW text \in Seq(Token)
    PROVE  List(SyncItem(es, p, text))
<1> DEFINE id       == ItemId(p)
           known    == FindIndex(es, id)
           at       == IF known # 0 THEN known
                       ELSE IF p \in DOMAIN es /\ es[p].poll = NoId THEN p ELSE 0
<1>1. SyncItem(es, p, text) =
        IF at = 0 THEN Append(es, Entry(id, text, NoCursor))
        ELSE [es EXCEPT ![at] = Told(Named(@, id), text)]
  BY DEF SyncItem, Told, Named
<1>2. Len(es) \in Nat /\ DOMAIN es = 1..Len(es) /\ id \in Id
  BY LiveIds DEF List
<1>3. CASE at = 0
  BY <1>1, <1>2, <1>3, EntryType, ListAppend
<1>4. CASE at # 0
  <2>1. at \in DOMAIN es
    BY <1>2, <1>4, Found
  <2> DEFINE e == Told(Named(es[at], id), text)
  <2>2. SyncItem(es, p, text) = [es EXCEPT ![at] = e]
    BY <1>1, <1>4, <2>1
  <2>3. es[at] \in Entries /\ CursorFits(es[at])
    BY <2>1 DEF List
  <2> HIDE DEF at, id
  <2>4. Named(es[at], id) \in Entries /\ CursorFits(Named(es[at], id))
    BY <1>2, <2>3, NamedType
  <2>5. e \in Entries /\ CursorFits(e)
    BY <2>4, ToldType
  <2> HIDE DEF e
  <2>6. List([es EXCEPT ![at] = e])
    BY <2>1, <2>5, ListExcept
  <2> QED BY <2>2, <2>6
<1> QED BY <1>3, <1>4

LEMMA SyncFromTurnType ==
    ASSUME NEW es, List(es), NEW texts \in Seq(Seq(Token)), Len(texts) <= MaxItem
    PROVE  List(SyncFromTurn(es, texts))
<1>1. PICK list : /\ list = [p \in 0..Len(texts) |->
                               IF p = 0 THEN es ELSE SyncItem(list[p - 1], p, texts[p])]
                  /\ SyncFromTurn(es, texts) = list[Len(texts)]
  BY SyncSteps, Len(texts) \in Nat
<1> DEFINE T == {p \in 0..Len(texts) : List(list[p])}
<1>2. 0 \in T
  BY <1>1
<1>3. ASSUME NEW p \in 1..Len(texts), p - 1 \in T PROVE p \in T
  <2>1. list[p] = SyncItem(list[p - 1], p, texts[p])
    BY <1>1, p \in 0..Len(texts), p # 0
  <2>2. List(list[p - 1]) /\ texts[p] \in Seq(Token) /\ p \in 1..MaxItem
    BY <1>3, StreamAssumption
  <2> QED BY <2>1, <2>2, SyncItemType
<1>4. Len(texts) \in T
  <2> HIDE DEF T
  <2>1. 0..Len(texts) \subseteq T
    BY <1>2, <1>3, UpTo, Len(texts) \in Nat
  <2> QED BY <2>1
<1> QED BY <1>1, <1>4

LEMMA SeedType ==
    ASSUME NEW texts \in Seq(Seq(Token)), Len(texts) <= MaxItem
    PROVE  /\ List(Seed(texts)) /\ Len(Seed(texts)) = Len(texts)
           /\ \A p \in 1..Len(texts) : Seed(texts)[p] = Entry(ItemId(p), texts[p], 0)
<1>1. /\ DOMAIN Seed(texts) = 1..Len(texts)
      /\ \A p \in 1..Len(texts) : Seed(texts)[p] = Entry(ItemId(p), texts[p], 0)
  BY DEF Seed
<1>2. \A p \in 1..Len(texts) : Seed(texts)[p] \in Entries /\ CursorFits(Seed(texts)[p])
  BY <1>1, LiveIds, EntryType, StreamAssumption
<1>3. Seed(texts) \in [1..Len(texts) -> Entries]
  BY <1>1, <1>2 DEF Seed
<1>4. Seed(texts) \in Seq(Entries) /\ Len(Seed(texts)) = Len(texts)
  <2> DEFINE s == Seed(texts)
  <2>1. s \in [1..Len(texts) -> Entries] /\ Len(texts) \in Nat
    BY <1>3
  <2> HIDE DEF s
  <2>2. s \in Seq(Entries) /\ Len(s) = Len(texts)
    BY <2>1
  <2> QED BY <2>2 DEF s
<1>5. List(Seed(texts))
  BY <1>1, <1>2, <1>4 DEF List
<1> QED BY <1>1, <1>4, <1>5

LEMMA SnapType ==
    ASSUME NEW snap \in Snapshots
    PROVE  /\ snap.text \in Seq(Seq(Token)) /\ Len(snap.text) <= MaxItem
           /\ snap.listed \in BOOLEAN /\ snap.status \in Statuses
<1>1. snap.text \in BoundedSeq(Text, MaxItem) /\ snap.listed \in BOOLEAN /\ snap.status \in Statuses
  BY DEF Snapshots, Statuses
<1>2. snap.text \in Seq(Text) /\ Len(snap.text) <= MaxItem
  BY <1>1, Bounded, StreamAssumption
<1>3. \A x \in Text : x \in Seq(Token)
  BY Bounded, StreamAssumption DEF Text
<1>4. snap.text \in Seq(Seq(Token))
  BY <1>2, <1>3
<1> QED BY <1>1, <1>2, <1>4

(***************************************************************************)
(* The reconciliation, piece by piece.                                     *)
(***************************************************************************)
\* What notification n says about the entry key.
Piece(seed, ns, key, n) ==
    IF n.kind = "delta" /\ ReplayKey(seed, ns, LiveId(n.item)) = key THEN n.text ELSE <<>>

Heard(seed, ns, key, k) == FlattenSeq([j \in 1..k |-> Piece(seed, ns, key, ns[j])])

Known(seed, key) == IF FindIndex(seed, key) = 0 THEN <<>> ELSE seed[FindIndex(seed, key)].text

Skip(seed, ns, key) ==
    ReplayedPrefixLen(Known(seed, key), Heard(seed, ns, key, Len(ns)))

Cut(seed, ns, k) ==
    LET key == ReplayKey(seed, ns, LiveId(ns[k].item))
    IN  Max({0, Skip(seed, ns, key) - Len(Heard(seed, ns, key, k - 1))})

LEMMA Reconciled ==
    ASSUME NEW seed, NEW ns
    PROVE  ReconcileReplayedDeltas(seed, ns) =
             [k \in DOMAIN ns |->
                IF ns[k].kind # "delta" THEN ns[k]
                ELSE IF Cut(seed, ns, k) >= Len(ns[k].text) THEN Nothing
                ELSE Delta(ns[k].item,
                           SubSeq(ns[k].text, Cut(seed, ns, k) + 1, Len(ns[k].text)))]
BY DEF ReconcileReplayedDeltas, Cut, Skip, Known, Heard, Piece

LEMMA HeardNext ==
    ASSUME NEW seed, NEW ns \in Seq(Notices), NEW key, NEW k \in 1..Len(ns)
    PROVE  /\ Heard(seed, ns, key, k) =
                Heard(seed, ns, key, k - 1) \o Piece(seed, ns, key, ns[k])
           /\ Piece(seed, ns, key, ns[k]) \in Seq(Token)
<1> DEFINE P(j) == Piece(seed, ns, key, ns[j])
<1>1. \A j \in 1..Len(ns) : P(j) \in Seq(Token)
  BY DEF Piece, Notices
<1> HIDE DEF P
<1> DEFINE s == [j \in 1..(k - 1) |-> P(j)]
           t == [j \in 1..k |-> P(j)]
<1>2. s \in Seq(Seq(Token)) /\ t \in Seq(Seq(Token)) /\ Len(s) = k - 1 /\ Len(t) = k
  BY <1>1
<1>3. \A i \in 1..Len(s) : t[i] = s[i]
  BY <1>2
<1>4. t[Len(t)] = P(k)
  BY <1>2
<1>7. Len(t) = Len(s) + 1
  BY <1>2
<1> HIDE DEF s, t
<1>5. FlattenSeq(t) = FlattenSeq(s) \o t[Len(t)]
  BY <1>2, <1>3, <1>7, FlattenNext
<1>6. Heard(seed, ns, key, k) = FlattenSeq(t) /\ Heard(seed, ns, key, k - 1) = FlattenSeq(s)
  BY DEF Heard, P, s, t
<1> QED BY <1>1, <1>4, <1>5, <1>6 DEF P

LEMMA HeardType ==
    ASSUME NEW seed, NEW ns \in Seq(Notices), NEW key, NEW k \in 0..Len(ns)
    PROVE  Heard(seed, ns, key, k) \in Seq(Token) /\ (k = 0 => Heard(seed, ns, key, k) = <<>>)
<1> DEFINE P(j) == Piece(seed, ns, key, ns[j])
           s == [j \in 1..k |-> P(j)]
<1>1. \A j \in 1..Len(ns) : P(j) \in Seq(Token)
  BY DEF Piece, Notices
<1>2. s \in Seq(Seq(Token))
  <2> HIDE DEF P
  <2> QED BY <1>1
<1>3. Heard(seed, ns, key, k) = FlattenSeq(s)
  BY DEF Heard
<1>4. k = 0 => s = <<>>
  OBVIOUS
<1> HIDE DEF s
<1>5. k = 0 => FlattenSeq(s) = <<>>
  BY <1>4 DEF FlattenSeq
<1> QED BY <1>2, <1>3, <1>5, FlattenType

LEMMA SuffixIs ==
    ASSUME NEW S, NEW s \in Seq(S), NEW t \in Seq(S)
    PROVE  IsSuffix(s, t) <=>
             Len(s) <= Len(t) /\ \A i \in 1..Len(s) : s[i] = t[(Len(t) - Len(s)) + i]
<1> DEFINE u == Reverse(s)
           v == Reverse(t)
<1>1. /\ u \in Seq(S) /\ Len(u) = Len(s) /\ \A i \in 1..Len(s) : u[i] = s[(Len(s) - i) + 1]
      /\ v \in Seq(S) /\ Len(v) = Len(t) /\ \A i \in 1..Len(t) : v[i] = t[(Len(t) - i) + 1]
  <2>1. u = [i \in 1..Len(s) |-> s[(Len(s) - i) + 1]] /\ v = [i \in 1..Len(t) |-> t[(Len(t) - i) + 1]]
    BY DEF Reverse
  <2>2. \A i \in 1..Len(s) : (Len(s) - i) + 1 \in 1..Len(s)
    OBVIOUS
  <2>3. \A i \in 1..Len(t) : (Len(t) - i) + 1 \in 1..Len(t)
    OBVIOUS
  <2>4. u \in [1..Len(s) -> S] /\ v \in [1..Len(t) -> S]
    BY <2>1, <2>2, <2>3
  <2> HIDE DEF u, v
  <2> QED BY <2>1, <2>4
<1> HIDE DEF u, v
<1>2. IsPrefix(u, v) <=> Len(s) <= Len(t) /\ \A i \in 1..Len(s) : u[i] = v[i]
  BY <1>1, PrefixIs
<1>3. ASSUME Len(s) <= Len(t), \A i \in 1..Len(s) : u[i] = v[i], NEW i \in 1..Len(s)
      PROVE  s[i] = t[(Len(t) - Len(s)) + i]
  <2> DEFINE j == (Len(s) - i) + 1
  <2>1. j \in 1..Len(s) /\ j \in 1..Len(t) /\ (Len(s) - j) + 1 = i
        /\ (Len(t) - j) + 1 = (Len(t) - Len(s)) + i
    BY <1>3
  <2> HIDE DEF j
  <2> QED BY <1>1, <1>3, <2>1
<1>4. ASSUME Len(s) <= Len(t), \A i \in 1..Len(s) : s[i] = t[(Len(t) - Len(s)) + i],
             NEW j \in 1..Len(s)
      PROVE  u[j] = v[j]
  <2> DEFINE i == (Len(s) - j) + 1
  <2>1. i \in 1..Len(s) /\ j \in 1..Len(t) /\ (Len(t) - j) + 1 = (Len(t) - Len(s)) + i
    BY <1>4
  <2> HIDE DEF i
  <2>2. u[j] = s[i] /\ v[j] = t[(Len(t) - Len(s)) + i]
    BY <1>1, <2>1 DEF i
  <2> QED BY <1>4, <2>1, <2>2
<1>5. IsSuffix(s, t) <=> IsPrefix(u, v)
  BY DEF IsSuffix, u, v
<1> QED BY <1>2, <1>3, <1>4, <1>5

\* The longest beginning of what was heard that the known text ends with.
LEMMA PrefixLen ==
    ASSUME NEW x \in Seq(Token), NEW r \in Seq(Token)
    PROVE  /\ ReplayedPrefixLen(x, r) \in 0..Len(r)
           /\ IsSuffix(SubSeq(r, 1, ReplayedPrefixLen(x, r)), x)
           /\ \A n \in 0..Len(r) : IsSuffix(SubSeq(r, 1, n), x) => n <= ReplayedPrefixLen(x, r)
<1> DEFINE T == {n \in 0..Len(r) : IsSuffix(SubSeq(r, 1, n), x)}
<1>1. 0 \in T
  <2>1. SubSeq(r, 1, 0) = <<>>
    BY SubSeqEmpty, 1 \in Int, 0 \in Int
  <2> DEFINE e == <<>>
  <2>2. e \in Seq(Token) /\ Len(e) = 0
    OBVIOUS
  <2>3. 0 \in 0..Len(r) /\ 0 <= Len(x)
    OBVIOUS
  <2>4. SubSeq(r, 1, 0) = e
    BY <2>1
  <2> HIDE DEF e
  <2>5. IsSuffix(e, x) <=>
          Len(e) <= Len(x) /\ \A i \in 1..Len(e) : e[i] = x[(Len(x) - Len(e)) + i]
    BY <2>2, SuffixIs
  <2>6. IsSuffix(e, x)
    BY <2>2, <2>3, <2>5
  <2> QED BY <2>3, <2>4, <2>6
<1>2. ReplayedPrefixLen(x, r) = Max(T)
  BY DEF ReplayedPrefixLen
<1>3. Max(T) \in T /\ \A y \in T : y <= Max(T)
  <2>1. T \in SUBSET (0..Len(r)) /\ T # {} /\ Len(r) \in Nat
    BY <1>1
  <2> HIDE DEF T
  <2> QED BY <2>1, Greatest
<1> QED BY <1>2, <1>3

LEMMA CutIs ==
    ASSUME NEW a \in Int
    PROVE  Max({0, a}) = IF a > 0 THEN a ELSE 0
<1>1. \E z \in {0, a} : \A y \in {0, a} : z >= y
  <2>1. CASE a > 0
    <3>1. \A y \in {0, a} : a >= y
      BY <2>1
    <3> QED BY <3>1
  <2>2. CASE ~(a > 0)
    <3>1. \A y \in {0, a} : 0 >= y
      BY <2>2
    <3> QED BY <3>1
  <2> QED BY <2>1, <2>2
<1>2. Max({0, a}) \in {0, a} /\ \A y \in {0, a} : Max({0, a}) >= y
  BY <1>1 DEF Max
<1> QED BY <1>2

LEMMA KnownType ==
    ASSUME NEW seed, List(seed), NEW key
    PROVE  Known(seed, key) \in Seq(Token)
<1>1. Len(seed) \in Nat /\ DOMAIN seed = 1..Len(seed)
  BY DEF List
<1>2. CASE FindIndex(seed, key) # 0
  <2>1. FindIndex(seed, key) \in DOMAIN seed
    BY <1>1, <1>2, Found
  <2>2. seed[FindIndex(seed, key)] \in Entries
    BY <2>1 DEF List
  <2> QED BY <1>2, <2>2 DEF Known, Entries
<1>3. CASE FindIndex(seed, key) = 0
  BY <1>3 DEF Known
<1> QED BY <1>2, <1>3

LEMMA CutType ==
    ASSUME NEW seed, List(seed), NEW ns \in Seq(Notices), NEW k \in 1..Len(ns)
    PROVE  Cut(seed, ns, k) \in Nat
<1> DEFINE key == ReplayKey(seed, ns, LiveId(ns[k].item))
           a == Skip(seed, ns, key) - Len(Heard(seed, ns, key, k - 1))
<1>1. Heard(seed, ns, key, k - 1) \in Seq(Token) /\ Heard(seed, ns, key, Len(ns)) \in Seq(Token)
  <2>1. k - 1 \in 0..Len(ns) /\ Len(ns) \in 0..Len(ns)
    OBVIOUS
  <2> HIDE DEF key
  <2> QED BY <2>1, HeardType
<1>2. Known(seed, key) \in Seq(Token)
  BY KnownType
<1>3. Skip(seed, ns, key) \in Int
  <2> HIDE DEF key
  <2> QED BY <1>1, <1>2, PrefixLen DEF Skip
<1>4. a \in Int
  <2> HIDE DEF key
  <2> QED BY <1>1, <1>3
<1>5. Cut(seed, ns, k) = Max({0, a})
  BY DEF Cut
<1> HIDE DEF a
<1> QED BY <1>4, <1>5, CutIs

LEMMA EarlyType ==
    ASSUME NEW seed, List(seed), NEW ns \in Seq(Notices)
    PROVE  LET early == ReconcileReplayedDeltas(seed, ns)
           IN  /\ early \in Seq(Early) /\ Len(early) = Len(ns)
               /\ \A k \in 1..Len(ns) :
                    /\ ns[k].kind # "delta" => early[k] = ns[k]
                    /\ ns[k].kind = "delta" =>
                         \/ early[k] = Nothing
                         \/ \E x \in Seq(Token) : early[k] = Delta(ns[k].item, x)
<1> DEFINE early == ReconcileReplayedDeltas(seed, ns)
           frag(k) == SubSeq(ns[k].text, Cut(seed, ns, k) + 1, Len(ns[k].text))
<1>1. early = [k \in 1..Len(ns) |->
                 IF ns[k].kind # "delta" THEN ns[k]
                 ELSE IF Cut(seed, ns, k) >= Len(ns[k].text) THEN Nothing
                 ELSE Delta(ns[k].item, frag(k))]
  BY Reconciled
<1>2. ASSUME NEW k \in 1..Len(ns), ns[k].kind = "delta"
      PROVE  frag(k) \in Seq(Token) /\ ns[k].item \in 1..MaxItem
  <2>1. ns[k].text \in Seq(Token) /\ ns[k].item \in 1..MaxItem
    BY <1>2 DEF Notices
  <2>2. Cut(seed, ns, k) \in Nat
    BY CutType
  <2> QED BY <2>1, <2>2, Dropped
<1> HIDE DEF frag, early
<1>3. ASSUME NEW k \in 1..Len(ns)
      PROVE  /\ ns[k].kind # "delta" => early[k] = ns[k]
             /\ ns[k].kind = "delta" =>
                  \/ early[k] = Nothing
                  \/ \E x \in Seq(Token) : early[k] = Delta(ns[k].item, x)
  BY <1>1, <1>2
<1>4. ASSUME NEW k \in 1..Len(ns) PROVE early[k] \in Early
  <2>1. CASE ns[k].kind # "delta"
    BY <1>3, <2>1 DEF Early
  <2>2. CASE ns[k].kind = "delta"
    <3>1. ASSUME NEW x \in Seq(Token) PROVE Delta(ns[k].item, x) \in Early
      BY <1>2, <2>2 DEF Early, Notices, Delta
    <3> QED BY <1>3, <2>2, <3>1 DEF Early
  <2> QED BY <2>1, <2>2
<1>5. early \in Seq(Early) /\ Len(early) = Len(ns)
  <2>1. early \in [1..Len(ns) -> Early] /\ Len(ns) \in Nat
    BY <1>1, <1>4
  <2> QED BY <2>1
<1> QED BY <1>3, <1>5 DEF early

(***************************************************************************)
(* The turn.                                                               *)
(***************************************************************************)
LEMMA TurnType ==
    ASSUME NEW t, TurnFits(t)
    PROVE  /\ t = [text |-> t.text, open |-> t.open, status |-> t.status]
           /\ t.text \in Seq(Seq(Token)) /\ Len(t.text) <= MaxItem
           /\ \A i \in 1..Len(t.text) : Len(t.text[i]) <= MaxText
           /\ FlattenSeq(t.text) \in Seq(Token) /\ Len(FlattenSeq(t.text)) <= MaxText
           /\ t.open \in BOOLEAN /\ t.status \in Statuses
<1>1. /\ t = [text |-> t.text, open |-> t.open, status |-> t.status]
      /\ t.text \in BoundedSeq(Text, MaxItem)
      /\ t.open \in BOOLEAN /\ t.status \in Statuses
  BY DEF TurnFits
<1>2. t.text \in Seq(Text) /\ Len(t.text) <= MaxItem
  BY <1>1, Bounded, StreamAssumption
<1>3. \A x \in Text : x \in Seq(Token) /\ Len(x) <= MaxText
  BY Bounded, StreamAssumption DEF Text
<1>4. t.text \in Seq(Seq(Token)) /\ \A i \in 1..Len(t.text) : Len(t.text[i]) <= MaxText
  BY <1>2, <1>3
<1>5. FlattenSeq(t.text) \in Seq(Token)
  BY <1>4, FlattenType
<1> QED BY <1>1, <1>2, <1>4, <1>5 DEF TurnFits

LEMMA TurnMade ==
    ASSUME NEW texts \in Seq(Seq(Token)), Len(texts) <= MaxItem,
           \A i \in 1..Len(texts) : Len(texts[i]) <= MaxText,
           Len(FlattenSeq(texts)) <= MaxText,
           NEW open \in BOOLEAN, open => texts # <<>>,
           NEW status \in Statuses, status = "completed" => ~open
    PROVE  TurnFits([text |-> texts, open |-> open, status |-> status])
<1>1. \A i \in 1..Len(texts) : texts[i] \in Text
  BY Bounded, StreamAssumption DEF Text
<1>2. texts \in Seq(Text)
  <2>1. Len(texts) \in Nat /\ DOMAIN texts = 1..Len(texts) /\ texts = [i \in DOMAIN texts |-> texts[i]]
    OBVIOUS
  <2>2. texts \in [1..Len(texts) -> Text]
    BY <1>1, <2>1
  <2> QED BY <2>1, <2>2
<1>3. texts \in BoundedSeq(Text, MaxItem)
  BY <1>2, Bounded, StreamAssumption
<1> QED BY <1>3 DEF TurnFits

LEMMA TurnStarted ==
    ASSUME TurnOK, ~turn.open, Len(turn.text) < MaxItem, turn.status = "inProgress",
           turn' = [turn EXCEPT !.text = Append(@, <<>>), !.open = TRUE]
    PROVE  /\ turn' = [text |-> Append(turn.text, <<>>), open |-> TRUE, status |-> turn.status]
           /\ TurnOK'
<1> DEFINE s == turn.text
           t == Append(turn.text, <<>>)
<1>1. /\ turn = [text |-> s, open |-> turn.open, status |-> turn.status]
      /\ s \in Seq(Seq(Token)) /\ \A i \in 1..Len(s) : Len(s[i]) <= MaxText
      /\ FlattenSeq(s) \in Seq(Token) /\ Len(FlattenSeq(s)) <= MaxText
  BY TurnType DEF TurnOK
<1>2. turn' = [text |-> t, open |-> TRUE, status |-> turn.status]
  BY <1>1
<1>3. <<>> \in Seq(Token)
  OBVIOUS
<1>4. /\ t \in Seq(Seq(Token)) /\ Len(t) = Len(s) + 1 /\ t[Len(t)] = <<>>
      /\ \A i \in 1..Len(s) : t[i] = s[i]
  BY <1>1, <1>3
<1> HIDE DEF s, t
<1>5. FlattenSeq(t) = FlattenSeq(s) \o <<>>
  BY <1>1, <1>4, FlattenNext
<1>6. FlattenSeq(t) = FlattenSeq(s)
  BY <1>1, <1>5
<1>7. ASSUME NEW i \in 1..Len(t) PROVE Len(t[i]) <= MaxText
  <2>1. CASE i = Len(t)
    BY <1>4, <2>1, StreamAssumption
  <2>2. CASE i # Len(t)
    <3>1. i \in 1..Len(s)
      BY <1>1, <1>4, <2>2
    <3> QED BY <1>1, <1>4, <3>1
  <2> QED BY <2>1, <2>2
<1>8. Len(t) <= MaxItem /\ t # <<>>
  BY <1>1, <1>4, StreamAssumption DEF s
<1>9. TurnFits([text |-> t, open |-> TRUE, status |-> turn.status])
  BY <1>1, <1>4, <1>6, <1>7, <1>8, TurnMade DEF Statuses
<1> QED BY <1>2, <1>9 DEF TurnOK, t

LEMMA TurnSaid ==
    ASSUME TurnOK, turn.open, turn.status = "inProgress",
           NEW d \in BoundedSeq(Token, MaxText - Len(FlattenSeq(turn.text))),
           turn' = [turn EXCEPT !.text[Len(turn.text)] = @ \o d]
    PROVE  /\ d \in Seq(Token)
           /\ turn' = [text |-> [turn.text EXCEPT ![Len(turn.text)] = @ \o d],
                       open |-> TRUE, status |-> turn.status]
           /\ TurnOK'
<1> DEFINE s == turn.text
           n == Len(turn.text)
           t == [turn.text EXCEPT ![Len(turn.text)] = @ \o d]
<1>1. /\ turn = [text |-> s, open |-> TRUE, status |-> turn.status]
      /\ s \in Seq(Seq(Token)) /\ \A i \in 1..Len(s) : Len(s[i]) <= MaxText
      /\ FlattenSeq(s) \in Seq(Token) /\ Len(FlattenSeq(s)) <= MaxText
      /\ Len(s) <= MaxItem /\ s # <<>>
  BY TurnType DEF TurnOK, TurnFits
<1>2. turn' = [text |-> t, open |-> TRUE, status |-> turn.status]
  BY <1>1
<1>3. d \in Seq(Token) /\ Len(d) <= MaxText - Len(FlattenSeq(s))
  <2>1. MaxText - Len(FlattenSeq(s)) \in Nat
    BY <1>1, StreamAssumption
  <2> QED BY <2>1, Bounded
<1>4. /\ n \in 1..Len(s) /\ n = Len(s) /\ s[n] \in Seq(Token) /\ s[n] \o d \in Seq(Token)
      /\ Len(s[n] \o d) = Len(s[n]) + Len(d)
  BY <1>1, <1>3
<1>5. /\ t \in Seq(Seq(Token)) /\ Len(t) = n /\ t[n] = s[n] \o d
      /\ \A i \in 1..(n - 1) : t[i] = s[i]
  BY <1>1, <1>4
<1> DEFINE u == SubSeq(s, 1, n - 1)
<1>6. u \in Seq(Seq(Token)) /\ Len(u) = n - 1 /\ \A i \in 1..(n - 1) : u[i] = s[i]
  <2>1. \A i \in 1..(n - 1) : s[i] \in Seq(Token)
    BY <1>1, <1>4
  <2>2. n \in Nat /\ n >= 1
    BY <1>4
  <2> HIDE DEF s, n
  <2>3. /\ u \in Seq(Seq(Token)) /\ Len(u) = IF 1 <= n - 1 THEN (n - 1) - 1 + 1 ELSE 0
        /\ \A i \in 1..((n - 1) - 1 + 1) : u[i] = s[1 + i - 1]
    BY <2>1, <2>2, SubSeqProperties, 1 \in Int, n - 1 \in Int
  <2> HIDE DEF u
  <2> QED BY <2>2, <2>3
<1> HIDE DEF s, t, u, n
<1>7. FlattenSeq(t) = FlattenSeq(u) \o t[n] /\ FlattenSeq(s) = FlattenSeq(u) \o s[n]
  <2>1. Len(t) = Len(u) + 1 /\ Len(s) = Len(u) + 1
    BY <1>4, <1>5, <1>6
  <2>2. \A i \in 1..Len(u) : t[i] = u[i] /\ s[i] = u[i]
    BY <1>5, <1>6
  <2>3. FlattenSeq(t) = FlattenSeq(u) \o t[Len(t)]
    BY <1>5, <1>6, <2>1, <2>2, FlattenNext
  <2>4. FlattenSeq(s) = FlattenSeq(u) \o s[Len(s)]
    BY <1>1, <1>6, <2>1, <2>2, FlattenNext
  <2> QED BY <1>4, <1>5, <2>3, <2>4
<1>8. FlattenSeq(u) \in Seq(Token)
  BY <1>6, FlattenType
<1>9. Len(FlattenSeq(t)) = Len(FlattenSeq(s)) + Len(d) /\ Len(s[n]) <= Len(FlattenSeq(s))
  BY <1>3, <1>4, <1>5, <1>7, <1>8
<1>10. Len(FlattenSeq(t)) <= MaxText /\ Len(t[n]) <= MaxText
  BY <1>1, <1>3, <1>4, <1>5, <1>9, StreamAssumption, SMTT(30)
<1>11. ASSUME NEW i \in 1..Len(t) PROVE Len(t[i]) <= MaxText
  <2>1. CASE i = n
    BY <1>10, <2>1
  <2>2. CASE i # n
    <3>1. i \in 1..(n - 1) /\ i \in 1..Len(s)
      BY <1>1, <1>4, <1>5, <2>2
    <3> QED BY <1>1, <1>5, <3>1
  <2> QED BY <2>1, <2>2
<1>12. Len(t) <= MaxItem /\ t # <<>>
  BY <1>1, <1>4, <1>5
<1>13. TurnFits([text |-> t, open |-> TRUE, status |-> turn.status])
  BY <1>1, <1>5, <1>10, <1>11, <1>12, TurnMade DEF Statuses
<1> QED BY <1>2, <1>3, <1>13 DEF TurnOK, t

LEMMA TurnChanged ==
    ASSUME TurnOK, turn.status = "inProgress",
           \/ turn' = [turn EXCEPT !.open = FALSE]
           \/ \E s \in {"completed", "interrupted"} :
                (s = "completed" => ~turn.open) /\ turn' = [turn EXCEPT !.status = s]
    PROVE  TurnOK' /\ turn'.text = turn.text
<1>1. /\ turn = [text |-> turn.text, open |-> turn.open, status |-> turn.status]
      /\ turn.text \in Seq(Seq(Token)) /\ Len(turn.text) <= MaxItem
      /\ \A i \in 1..Len(turn.text) : Len(turn.text[i]) <= MaxText
      /\ Len(FlattenSeq(turn.text)) <= MaxText
      /\ turn.open \in BOOLEAN /\ (turn.open => turn.text # <<>>)
  BY TurnType DEF TurnOK, TurnFits
<1>2. CASE turn' = [turn EXCEPT !.open = FALSE]
  <2>1. turn' = [text |-> turn.text, open |-> FALSE, status |-> "inProgress"]
    BY <1>1, <1>2
  <2>2. TurnFits([text |-> turn.text, open |-> FALSE, status |-> "inProgress"])
    BY <1>1, TurnMade DEF Statuses
  <2> QED BY <2>1, <2>2 DEF TurnOK
<1>3. ASSUME NEW s \in {"completed", "interrupted"}, s = "completed" => ~turn.open,
             turn' = [turn EXCEPT !.status = s]
      PROVE  TurnOK' /\ turn'.text = turn.text
  <2>1. turn' = [text |-> turn.text, open |-> turn.open, status |-> s]
    BY <1>1, <1>3
  <2>2. TurnFits([text |-> turn.text, open |-> turn.open, status |-> s])
    BY <1>1, <1>3, TurnMade DEF Statuses
  <2> QED BY <2>1, <2>2 DEF TurnOK
<1> QED BY <1>2, <1>3

(***************************************************************************)
(* Every step keeps the types.                                             *)
(***************************************************************************)
Hists == [gap : BOOLEAN, straddled : BOOLEAN, late : BOOLEAN]

LEMMA Noted ==
    ASSUME hist \in Hists, NEW n, Notify(n)
    PROVE  /\ hist' \in Hists /\ hist'.gap = hist.gap
           /\ hist'.late = (hist.late \/ (link.asked = "list" /\ Captured))
           /\ hist'.straddled = (hist.straddled \/ (n.kind = "started" /\ link.sub
                                                    /\ link.asked = "resume" /\ ~Captured))
<1> DEFINE late == hist.late \/ (link.asked = "list" /\ Captured)
           straddled == hist.straddled \/ (n.kind = "started" /\ link.sub
                                           /\ link.asked = "resume" /\ ~Captured)
           g == [hist EXCEPT !.late = late]
<1>1. late \in BOOLEAN /\ straddled \in BOOLEAN
  BY DEF Hists
<1>2. hist' = [g EXCEPT !.straddled = straddled]
  BY DEF Notify
<1> HIDE DEF late, straddled
<1>3. g \in Hists /\ g.gap = hist.gap /\ g.late = late
  BY <1>1 DEF Hists
<1> HIDE DEF g
<1>4. hist' \in Hists /\ hist'.gap = hist.gap /\ hist'.late = late /\ hist'.straddled = straddled
  BY <1>1, <1>2, <1>3 DEF Hists
<1> QED BY <1>4 DEF late, straddled

LEMMA NotifyType ==
    ASSUME Typed, NEW n \in Notices, Notify(n), TurnOK'
    PROVE  Typed'
<1>1. net' \in Seq(Notices \cup Answers)
  BY DEF Typed, Notify
<1>2. hist' \in [gap : BOOLEAN, straddled : BOOLEAN, late : BOOLEAN]
  BY Noted DEF Typed, Hists
<1> QED BY <1>1, <1>2 DEF Typed, Notify, List

LEMMA StartItemType ==
    ASSUME Typed, StartItem
    PROVE  /\ Typed' /\ Started(Len(turn.text) + 1) \in Notices
           /\ turn' = [text |-> Append(turn.text, <<>>), open |-> TRUE, status |-> turn.status]
<1>1. /\ TurnOK /\ ~turn.open /\ Len(turn.text) < MaxItem /\ turn.status = "inProgress"
      /\ turn' = [turn EXCEPT !.text = Append(@, <<>>), !.open = TRUE]
      /\ Notify(Started(Len(turn.text) + 1))
  BY DEF StartItem, Running, Typed
<1>2. Len(turn.text) \in Nat
  BY <1>1, TurnType DEF TurnOK
<1>3. Started(Len(turn.text) + 1) \in Notices
  BY <1>1, <1>2, StreamAssumption DEF Started, Notices
<1>4. /\ turn' = [text |-> Append(turn.text, <<>>), open |-> TRUE, status |-> turn.status]
      /\ TurnOK'
  BY <1>1, TurnStarted
<1> QED BY <1>1, <1>3, <1>4, NotifyType

LEMMA SayType ==
    ASSUME Typed, Say
    PROVE  /\ Typed'
           /\ \E d \in Seq(Token) \ {<<>>} :
                /\ Delta(Len(turn.text), d) \in Notices /\ Notify(Delta(Len(turn.text), d))
                /\ turn' = [text |-> [turn.text EXCEPT ![Len(turn.text)] = @ \o d],
                            open |-> TRUE, status |-> turn.status]
<1>1. PICK d \in BoundedSeq(Token, MaxText - Len(FlattenSeq(turn.text))) \ {<<>>} :
        /\ turn' = [turn EXCEPT !.text[Len(turn.text)] = @ \o d]
        /\ Notify(Delta(Len(turn.text), d))
  BY DEF Say
<1>2. TurnOK /\ turn.open /\ turn.status = "inProgress"
  BY DEF Typed, Say, Running
<1>3. /\ d \in Seq(Token)
      /\ turn' = [text |-> [turn.text EXCEPT ![Len(turn.text)] = @ \o d],
                  open |-> TRUE, status |-> turn.status]
      /\ TurnOK'
  BY <1>1, <1>2, TurnSaid
<1>4. Len(turn.text) \in 1..MaxItem
  BY <1>2, TurnType, StreamAssumption DEF TurnOK, TurnFits
<1>5. Delta(Len(turn.text), d) \in Notices
  BY <1>3, <1>4 DEF Delta, Notices
<1> QED BY <1>1, <1>3, <1>5, NotifyType

LEMMA CompleteItemType ==
    ASSUME Typed, CompleteItem
    PROVE  /\ Typed' /\ turn'.text = turn.text /\ turn'.open = FALSE /\ turn'.status = turn.status
           /\ Completed(Len(turn.text), turn.text[Len(turn.text)]) \in Notices
           /\ Notify(Completed(Len(turn.text), turn.text[Len(turn.text)]))
<1>1. /\ TurnOK /\ turn.open /\ turn.status = "inProgress"
      /\ turn' = [turn EXCEPT !.open = FALSE]
      /\ Notify(Completed(Len(turn.text), Last(turn.text)))
  BY DEF CompleteItem, Running, Typed
<1>2. Len(turn.text) \in 1..MaxItem /\ turn.text \in Seq(Seq(Token))
  BY <1>1, TurnType, StreamAssumption DEF TurnOK, TurnFits
<1>3. Last(turn.text) = turn.text[Len(turn.text)]
  BY DEF Last
<1>4. Completed(Len(turn.text), turn.text[Len(turn.text)]) \in Notices
  BY <1>2 DEF Completed, Notices
<1>5. TurnOK' /\ turn'.text = turn.text
  BY <1>1, TurnChanged
<1>6. turn'.open = FALSE /\ turn'.status = turn.status
  BY <1>1, TurnType DEF TurnOK
<1> QED BY <1>1, <1>3, <1>4, <1>5, <1>6, NotifyType

LEMMA EndTurnType ==
    ASSUME Typed, EndTurn
    PROVE  /\ Typed' /\ turn'.text = turn.text /\ turn'.open = turn.open
           /\ turn'.status \in {"completed", "interrupted"}
           /\ TurnCompleted(turn'.status) \in Notices /\ Notify(TurnCompleted(turn'.status))
<1>1. PICK s \in {"completed", "interrupted"} :
        /\ s = "completed" => ~turn.open
        /\ turn' = [turn EXCEPT !.status = s]
        /\ Notify(TurnCompleted(s))
  BY DEF EndTurn
<1>2. TurnOK /\ turn.status = "inProgress"
  BY DEF Typed, EndTurn, Running
<1>3. TurnOK' /\ turn'.text = turn.text
  BY <1>1, <1>2, TurnChanged
<1>4. turn'.open = turn.open /\ turn'.status = s
  BY <1>1, <1>2, TurnType DEF TurnOK
<1>5. TurnCompleted(s) \in Notices
  BY DEF TurnCompleted, Notices, Statuses
<1> QED BY <1>1, <1>3, <1>4, <1>5, NotifyType

\* A snapshot of the turn.
LEMMA SnapNow ==
    ASSUME TurnOK
    PROVE  /\ Snapshot(TRUE, turn.text, turn.status) \in Snapshots
           /\ Snapshot(FALSE, <<>>, "inProgress") \in Snapshots
<1>1. turn.text \in BoundedSeq(Text, MaxItem) /\ turn.status \in Statuses
  BY DEF TurnOK, TurnFits
<1>2. <<>> \in BoundedSeq(Text, MaxItem)
  <2>1. <<>> \in Seq(Text) /\ Len(<<>>) <= MaxItem
    BY StreamAssumption
  <2> QED BY <2>1, Bounded, StreamAssumption
<1> QED BY <1>1, <1>2 DEF Snapshot, Snapshots, Statuses

LEMMA RequestType ==
    ASSUME Typed, Subscribe \/ Capture \/ SendAnswer
    PROVE  Typed'
<1>1. CASE Subscribe
  <2>1. link' = [link EXCEPT !.sub = TRUE]
        /\ hist' = [hist EXCEPT !.gap = @ \/ (link.asked = "start" /\ turn.text # <<>>)]
    BY <1>1 DEF Subscribe
  <2>2. link' \in [sub : BOOLEAN, asked : {"none", "resume", "start", "list"},
                   snap : Snapshots \cup {NoSnap}]
    BY <2>1 DEF Typed
  <2>3. hist' \in [gap : BOOLEAN, straddled : BOOLEAN, late : BOOLEAN]
    BY <2>1 DEF Typed
  <2> QED BY <1>1, <2>2, <2>3 DEF Typed, Subscribe, TurnOK, List
<1>2. CASE Capture
  <2>1. PICK snap \in Snapshots : link' = [link EXCEPT !.snap = snap]
    BY <1>2, SnapNow DEF Capture, Typed
  <2>2. link' \in [sub : BOOLEAN, asked : {"none", "resume", "start", "list"},
                   snap : Snapshots \cup {NoSnap}]
    BY <2>1 DEF Typed
  <2> QED BY <1>2, <2>2 DEF Typed, Capture, TurnOK, List
<1>3. CASE SendAnswer
  <2>1. link.snap \in Snapshots
    BY <1>3 DEF Typed, SendAnswer, Captured
  <2>2. Answer(link.snap) \in Answers
    BY <2>1 DEF Answer, Answers
  <2>3. net' \in Seq(Notices \cup Answers)
    BY <1>3, <2>2 DEF Typed, SendAnswer
  <2> DEFINE g == [link EXCEPT !.asked = "none"]
  <2>4. g \in [sub : BOOLEAN, asked : {"none", "resume", "start", "list"},
               snap : Snapshots \cup {NoSnap}]
    BY DEF Typed
  <2>5. link' = [g EXCEPT !.snap = NoSnap]
    BY <1>3 DEF SendAnswer
  <2> HIDE DEF g
  <2>6. link' \in [sub : BOOLEAN, asked : {"none", "resume", "start", "list"},
                   snap : Snapshots \cup {NoSnap}]
    BY <2>4, <2>5
  <2> QED BY <1>3, <2>3, <2>6 DEF Typed, SendAnswer, TurnOK, List
<1> QED BY <1>1, <1>2, <1>3

LEMMA StatusType ==
    ASSUME NEW ns \in Seq(Early)
    PROVE  StatusOf(ns) \in Statuses
<1>1. CASE ns # <<>> /\ Last(ns).kind = "turnCompleted"
  <2>1. Last(ns) \in Early
    BY <1>1 DEF Last
  <2>2. Last(ns).status \in Statuses
    BY <1>1, <2>1 DEF Early, Notices, Nothing
  <2> QED BY <1>1, <2>2 DEF StatusOf
<1>2. CASE ~(ns # <<>> /\ Last(ns).kind = "turnCompleted")
  BY <1>2 DEF StatusOf, Statuses
<1> QED BY <1>1, <1>2

\* The frame at the head of the connection.
LEMMA HeadIs ==
    ASSUME Typed, net # <<>>
    PROVE  /\ Head(net) = net[1] /\ Len(net) \in Nat \ {0}
           /\ net[1] \in IF net[1].kind = "answer" THEN Answers ELSE Notices
           /\ net[1].kind = "answer" => net[1].snap \in Snapshots
           /\ Tail(net) \in Seq(Notices \cup Answers) /\ Len(Tail(net)) = Len(net) - 1
           /\ \A k \in 1..(Len(net) - 1) : Tail(net)[k] = net[k + 1]
<1>1. net \in Seq(Notices \cup Answers)
  BY DEF Typed
<1>2. net[1] \in Notices \cup Answers /\ Head(net) = net[1] /\ Len(net) \in Nat \ {0}
  BY <1>1
<1>3. net[1] \in Notices => net[1].kind # "answer"
  BY DEF Notices
<1>4. net[1] \in Answers => net[1].kind = "answer" /\ net[1].snap \in Snapshots
  BY DEF Answers
<1> QED BY <1>1, <1>2, <1>3, <1>4

\* What the buffer holds can be replayed.
LEMMA BufferEarly == ASSUME Typed PROVE buffer \in Seq(Early)
BY DEF Typed, Early

LEMMA SettleType ==
    ASSUME Typed, NEW es, NEW status, Settle(es, status), List(es), status \in Statuses,
           phase # "over", net' \in Seq(Notices \cup Answers), buffer' \in Seq(Notices),
           UNCHANGED <<turn, link, submits, hist>>
    PROVE  Typed'
<1>1. phase' \in {"waiting", "over"} /\ shown' = es
      /\ outcome' \in {"none", "completed", "interrupted", "left", "failed"}
      /\ (phase' = "over" <=> outcome' # "none")
  BY DEF Settle, Typed, Statuses
<1>2. List(shown)'
  BY <1>1 DEF List
<1> QED BY <1>1, <1>2 DEF Typed, TurnOK

LEMMA SetAsideType ==
    ASSUME Typed, SetAside
    PROVE  Typed'
<1>1. net # <<>> /\ net[1].kind # "answer"
  BY HeadIs DEF SetAside, Arrived
<1>2. net[1] \in Notices /\ Head(net) = net[1] /\ net' \in Seq(Notices \cup Answers)
  BY <1>1, HeadIs DEF SetAside
<1>3. buffer' \in Seq(Notices)
  <2>1. buffer \in Seq(Notices)
    BY DEF Typed
  <2>2. buffer' = buffer \/ buffer' = Append(buffer, net[1])
    BY <1>2 DEF SetAside
  <2> QED BY <1>2, <2>1, <2>2
<1>4. hist' \in [gap : BOOLEAN, straddled : BOOLEAN, late : BOOLEAN]
  BY DEF Typed, SetAside
<1> QED BY <1>2, <1>3, <1>4 DEF Typed, SetAside, TurnOK, List

LEMMA AnsweredType ==
    ASSUME Typed, Answered
    PROVE  Typed'
<1>1. /\ net # <<>> /\ net[1].kind = "answer" /\ phase # "over"
      /\ net' = Tail(net) /\ buffer' = <<>> /\ UNCHANGED <<turn, link, submits, hist>>
  BY HeadIs DEF Answered, AttachAnswered, StartAnswered, PollAnswered, QueueAnswered,
                TakeAnswer, Arrived
<1>2. /\ Head(net) = net[1] /\ net[1].snap \in Snapshots
      /\ net' \in Seq(Notices \cup Answers) /\ buffer' \in Seq(Notices)
  BY <1>1, HeadIs
<1>3. /\ net[1].snap.text \in Seq(Seq(Token)) /\ Len(net[1].snap.text) <= MaxItem
      /\ net[1].snap.status \in Statuses
  BY <1>2, SnapType
<1>4. List(shown) /\ buffer \in Seq(Early)
  BY BufferEarly DEF Typed
<1>5. CASE AttachAnswered
  <2> DEFINE seed  == Seed(net[1].snap.text)
             early == ReconcileReplayedDeltas(seed, buffer)
  <2>1. Settle(ApplyAll(seed, early), StatusOf(early))
    BY <1>2, <1>5 DEF AttachAnswered
  <2>2. List(seed)
    BY <1>3, SeedType
  <2>3. early \in Seq(Early)
    <3> HIDE DEF seed
    <3> QED BY <2>2, EarlyType DEF Typed
  <2>4. List(ApplyAll(seed, early)) /\ StatusOf(early) \in Statuses
    BY <2>2, <2>3, ApplyAllType, StatusType
  <2> HIDE DEF seed, early
  <2> QED BY <1>1, <1>2, <2>1, <2>4, SettleType
<1>6. CASE StartAnswered
  <2>1. List(<<>>)
    BY DEF List
  <2>2. List(ApplyAll(<<>>, buffer)) /\ StatusOf(buffer) \in Statuses
    BY <1>4, <2>1, ApplyAllType, StatusType
  <2> QED BY <1>1, <1>2, <1>6, <2>2, SettleType DEF StartAnswered
<1>7. CASE PollAnswered
  <2> DEFINE told == ApplyAll(shown, buffer)
  <2>1. List(told) /\ StatusOf(buffer) \in Statuses
    BY <1>4, ApplyAllType, StatusType
  <2>2. List(SyncFromTurn(told, net[1].snap.text))
    BY <1>3, <2>1, SyncFromTurnType
  <2>3. \/ Settle(SyncFromTurn(told, net[1].snap.text), net[1].snap.status)
        \/ Settle(told, StatusOf(buffer))
    BY <1>2, <1>7 DEF PollAnswered
  <2> HIDE DEF told
  <2>4. CASE Settle(SyncFromTurn(told, net[1].snap.text), net[1].snap.status)
    BY <1>1, <1>2, <1>3, <2>2, <2>4, SettleType
  <2>5. CASE Settle(told, StatusOf(buffer))
    BY <1>1, <1>2, <2>1, <2>5, SettleType
  <2> QED BY <2>3, <2>4, <2>5
<1>8. CASE QueueAnswered
  BY <1>1, <1>2, <1>4, <1>8, SettleType DEF QueueAnswered, Statuses
<1> QED BY <1>5, <1>6, <1>7, <1>8 DEF Answered

LEMMA ReceiveType ==
    ASSUME Typed, Receive
    PROVE  Typed'
<1>1. /\ net # <<>> /\ phase # "over" /\ net' = Tail(net)
      /\ Settle(Apply(shown, Head(net)), StatusOf(<<Head(net)>>))
      /\ UNCHANGED <<turn, link, buffer, submits, hist>>
  BY DEF Receive
<1>2. Head(net) = net[1] /\ net' \in Seq(Notices \cup Answers) /\ buffer' \in Seq(Notices)
  BY <1>1, HeadIs DEF Typed
<1>3. List(shown)
  BY DEF Typed
<1>4. List(Apply(shown, net[1])) /\ StatusOf(<<net[1]>>) \in Statuses
  <2>1. CASE net[1] \in Notices
    <3> DEFINE n == net[1]
    <3>1. n \in Early
      BY <2>1 DEF Early
    <3> HIDE DEF n
    <3>2. <<n>> \in Seq(Early)
      BY <3>1
    <3>3. List(Apply(shown, n)) /\ StatusOf(<<n>>) \in Statuses
      BY <1>3, <3>1, <3>2, ApplyType, StatusType
    <3> QED BY <3>3 DEF n
  <2>2. CASE net[1] \in Answers
    <3>1. net[1].kind = "answer"
      BY <2>2 DEF Answers
    <3>2. Apply(shown, net[1]) = shown
      BY <3>1 DEF Apply
    <3>3. StatusOf(<<net[1]>>) = "inProgress"
      BY <3>1 DEF StatusOf, Last
    <3> QED BY <1>3, <3>2, <3>3 DEF Statuses
  <2> QED BY <1>1, <2>1, <2>2, HeadIs
<1> QED BY <1>1, <1>2, <1>4, SettleType

LEMMA AskType ==
    ASSUME Typed, Poll \/ Submit \/ Leave \/ TimeOut \/ ConnectionFails
    PROVE  Typed'
<1>1. CASE Poll
  <2>1. link' \in [sub : BOOLEAN, asked : {"none", "resume", "start", "list"},
                   snap : Snapshots \cup {NoSnap}]
    BY <1>1 DEF Typed, Poll, Ask
  <2> QED BY <1>1, <2>1 DEF Typed, Poll, TurnOK, List
<1>2. CASE Submit
  <2>1. link' \in [sub : BOOLEAN, asked : {"none", "resume", "start", "list"},
                   snap : Snapshots \cup {NoSnap}]
    BY <1>2 DEF Typed, Submit, Ask
  <2>2. submits' \in 0..MaxSubmit
    BY <1>2, StreamAssumption DEF Typed, Submit
  <2> QED BY <1>2, <2>1, <2>2 DEF Typed, Submit, TurnOK, List
<1>3. CASE Leave \/ TimeOut \/ ConnectionFails
  <2>1. PICK how \in {"left", "failed"} : EndWait(how)
    BY <1>3 DEF Leave, TimeOut, ConnectionFails
  <2> QED BY <2>1 DEF EndWait, Typed, TurnOK, List
<1> QED BY <1>1, <1>2, <1>3

LEMMA TypedStep ==
    ASSUME Typed, [Next]_vars
    PROVE  Typed'
<1>1. CASE Server
  BY <1>1, StartItemType, SayType, CompleteItemType, EndTurnType, RequestType DEF Server
<1>2. CASE Watch
  BY <1>2, SetAsideType, AnsweredType, ReceiveType DEF Watch
<1>3. CASE Poll \/ Submit \/ Leave \/ TimeOut \/ ConnectionFails
  BY <1>3, AskType
<1>4. CASE UNCHANGED vars
  BY <1>4 DEF vars, Typed, TurnOK, List
<1> QED BY <1>1, <1>2, <1>3, <1>4 DEF Next

(***************************************************************************)
(* The frames that were not looked at yet.                                 *)
(***************************************************************************)
Frames == Notices \cup Answers

LEMMA Joined ==
    ASSUME NEW S, NEW s \in Seq(S), NEW t \in Seq(S)
    PROVE  /\ s \o t \in Seq(S) /\ Len(s \o t) = Len(s) + Len(t)
           /\ \A k \in 1..Len(s) : (s \o t)[k] = s[k]
           /\ \A j \in 1..Len(t) : (s \o t)[Len(s) + j] = t[j]
<1>1. s \o t \in Seq(S) /\ Len(s \o t) = Len(s) + Len(t)
  OBVIOUS
<1>2. \A k \in 1..Len(s) : (s \o t)[k] = s[k]
  OBVIOUS
<1>3. ASSUME NEW j \in 1..Len(t) PROVE (s \o t)[Len(s) + j] = t[j]
  <2>1. Len(s) + j \in 1..(Len(s) + Len(t)) /\ ~(Len(s) + j <= Len(s)) /\ Len(s) + j - Len(s) = j
    OBVIOUS
  <2> QED BY <2>1
<1> QED BY <1>1, <1>2, <1>3

\* Sequences of the same length with the same elements.
LEMMA SameSeq ==
    ASSUME NEW S, NEW s \in Seq(S), NEW t \in Seq(S), Len(s) = Len(t),
           \A i \in 1..Len(s) : s[i] = t[i]
    PROVE  s = t
OBVIOUS

LEMMA Appended ==
    ASSUME NEW S, NEW s \in Seq(S), NEW t \in Seq(S), NEW f \in S
    PROVE  s \o Append(t, f) = Append(s \o t, f)
OBVIOUS

LEMMA Moved ==
    ASSUME NEW S, NEW s \in Seq(S), NEW t \in Seq(S), t # <<>>
    PROVE  Append(s, Head(t)) \o Tail(t) = s \o t
<1> DEFINE u == Append(s, Head(t))
           v == Tail(t)
<1>1. /\ u \in Seq(S) /\ Len(u) = Len(s) + 1 /\ u[Len(u)] = t[1] /\ \A k \in 1..Len(s) : u[k] = s[k]
      /\ v \in Seq(S) /\ Len(v) = Len(t) - 1 /\ \A k \in 1..(Len(t) - 1) : v[k] = t[k + 1]
  OBVIOUS
<1> HIDE DEF u, v
<1>2. /\ u \o v \in Seq(S) /\ Len(u \o v) = Len(u) + Len(v)
      /\ \A k \in 1..Len(u) : (u \o v)[k] = u[k]
      /\ \A j \in 1..Len(v) : (u \o v)[Len(u) + j] = v[j]
  <2>1. u \in Seq(S) /\ v \in Seq(S)
    BY <1>1
  <2> QED BY <2>1, Joined
<1>3. /\ s \o t \in Seq(S) /\ Len(s \o t) = Len(s) + Len(t)
      /\ \A k \in 1..Len(s) : (s \o t)[k] = s[k]
      /\ \A j \in 1..Len(t) : (s \o t)[Len(s) + j] = t[j]
  BY Joined
<1>4. ASSUME NEW k \in 1..(Len(s) + Len(t)) PROVE (u \o v)[k] = (s \o t)[k]
  <2>1. CASE k <= Len(s)
    BY <1>1, <1>2, <1>3, <2>1
  <2>2. CASE k = Len(s) + 1
    <3>1. k \in 1..Len(u) /\ (u \o v)[k] = t[1]
      BY <1>1, <1>2, <2>2
    <3>2. 1 \in 1..Len(t) /\ (s \o t)[k] = t[1]
      BY <1>3, <2>2
    <3> QED BY <3>1, <3>2
  <2>3. CASE k > Len(s) + 1
    <3> DEFINE j == k - (Len(s) + 1)
    <3>1. j \in 1..Len(v) /\ j + 1 \in 1..Len(t) /\ k = Len(u) + j /\ k = Len(s) + (j + 1)
          /\ j \in 1..(Len(t) - 1)
      BY <1>1, <2>3
    <3> HIDE DEF j
    <3>2. (u \o v)[Len(u) + j] = t[j + 1]
      BY <1>1, <1>2, <3>1
    <3>3. (s \o t)[Len(s) + (j + 1)] = t[j + 1]
      BY <1>3, <3>1
    <3> QED BY <3>1, <3>2, <3>3
  <2>4. k <= Len(s) \/ k = Len(s) + 1 \/ k > Len(s) + 1
    <3>1. Len(s) \in Nat /\ k \in Int
      OBVIOUS
    <3> QED BY <3>1
  <2> QED BY <2>1, <2>2, <2>3, <2>4
<1>5. Len(u \o v) = Len(s) + Len(t)
  BY <1>1, <1>2
<1> QED BY <1>2, <1>3, <1>4, <1>5, SameSeq DEF u, v

LEMMA UnheardIs ==
    ASSUME Typed
    PROVE  /\ Unheard \in Seq(Frames) /\ Len(Unheard) = Len(buffer) + Len(net)
           /\ buffer \in Seq(Notices) /\ net \in Seq(Frames)
           /\ DOMAIN Unheard = 1..Len(Unheard) /\ DOMAIN net = 1..Len(net)
           /\ \A k \in 1..Len(buffer) : Unheard[k] = buffer[k]
           /\ \A j \in 1..Len(net) : Unheard[Len(buffer) + j] = net[j]
<1>1. buffer \in Seq(Notices) /\ buffer \in Seq(Frames) /\ net \in Seq(Frames)
  BY DEF Typed, Frames
<1>2. /\ buffer \o net \in Seq(Frames) /\ Len(buffer \o net) = Len(buffer) + Len(net)
      /\ \A k \in 1..Len(buffer) : (buffer \o net)[k] = buffer[k]
      /\ \A j \in 1..Len(net) : (buffer \o net)[Len(buffer) + j] = net[j]
  BY <1>1, Joined
<1>3. DOMAIN net = 1..Len(net) /\ DOMAIN (buffer \o net) = 1..Len(buffer \o net)
  BY <1>1, <1>2
<1> QED BY <1>1, <1>2, <1>3 DEF Unheard

LEMMA FrameKinds ==
    /\ \A n \in Notices : n.kind \in {"started", "delta", "completed", "turnCompleted"}
    /\ \A n \in Notices : n.kind = "turnCompleted" => n.status \in {"completed", "interrupted"}
    /\ \A a \in Answers : a.kind = "answer" /\ a.snap \in Snapshots
    /\ \A a \in Frames : a.kind = "answer" => a \in Answers
    /\ \A a \in Frames : a.kind # "answer" => a \in Notices
BY DEF Notices, Answers, Frames, Statuses

\* The server sends a frame.
LEMMA Sent ==
    ASSUME Typed, NEW f \in Frames, net' = Append(net, f), buffer' = buffer
    PROVE  /\ Unheard' = Append(Unheard, f)
           /\ Len(net') = Len(net) + 1 /\ DOMAIN net' = 1..(Len(net) + 1)
           /\ net'[Len(net) + 1] = f /\ \A j \in 1..Len(net) : net'[j] = net[j]
<1>1. buffer \in Seq(Frames) /\ net \in Seq(Frames)
  BY DEF Typed, Frames
<1>2. buffer \o Append(net, f) = Append(buffer \o net, f)
  BY <1>1, Appended
<1> QED BY <1>1, <1>2 DEF Unheard

\* No notification ends a turn that runs.
LEMMA NotEnded ==
    ASSUME Typed, LastNotice(Unheard), turn.status = "inProgress"
    PROVE  \A j \in 1..Len(Unheard) : Unheard[j].kind # "turnCompleted"
<1>1. SUFFICES ASSUME NEW j \in 1..Len(Unheard), Unheard[j].kind = "turnCompleted" PROVE FALSE
  OBVIOUS
<1>2. Unheard[j] \in Notices
  BY <1>1, UnheardIs, FrameKinds
<1>3. Unheard[j].status = "inProgress"
  BY <1>1, UnheardIs DEF LastNotice
<1> QED BY <1>1, <1>2, <1>3, FrameKinds

LEMMA LastNoticeSent ==
    ASSUME Typed, NEW f \in Frames, LastNotice(Unheard), Unheard' = Append(Unheard, f),
           \/ f.kind = "answer" /\ turn' = turn
           \/ turn.status = "inProgress" /\ (f.kind = "turnCompleted" => f.status = turn'.status)
    PROVE  LastNotice(Unheard)'
<1> DEFINE s == Unheard
           n == Len(Unheard)
           t == Append(Unheard, f)
<1>1. /\ s \in Seq(Frames) /\ n \in Nat /\ DOMAIN s = 1..n
      /\ DOMAIN t = 1..(n + 1) /\ t[n + 1] = f /\ \A k \in 1..n : t[k] = s[k]
  BY UnheardIs
<1>2. turn.status = "inProgress" => \A k \in 1..n : s[k].kind # "turnCompleted"
  BY NotEnded
<1>3. \A j \in 1..n : s[j].kind = "turnCompleted" =>
        s[j].status = turn.status /\ \A k \in 1..n : k > j => s[k].kind = "answer"
  BY <1>1 DEF LastNotice
<1>4. Unheard' = t
  OBVIOUS
<1> HIDE DEF s, n, t
<1>5. ASSUME NEW j \in 1..(n + 1), t[j].kind = "turnCompleted"
      PROVE  t[j].status = turn'.status /\ \A k \in 1..(n + 1) : k > j => t[k].kind = "answer"
  <2>1. CASE j = n + 1
    BY <1>1, <1>5, <2>1
  <2>2. CASE j \in 1..n
    <3>1. s[j].kind = "turnCompleted" /\ t[j] = s[j]
      BY <1>1, <1>5, <2>2
    <3>2. f.kind = "answer" /\ turn' = turn
      BY <1>2, <2>2, <3>1
    <3> QED BY <1>1, <1>3, <2>2, <3>1, <3>2
  <2> QED BY <1>1, <2>1, <2>2
<1> QED BY <1>1, <1>4, <1>5 DEF LastNotice

\* The first of the frames are taken.
LEMMA LastNoticeTaken ==
    ASSUME NEW fl, Len(fl) \in Nat, DOMAIN fl = 1..Len(fl), NEW n \in 0..Len(fl), LastNotice(fl),
           NEW t, DOMAIN t = 1..(Len(fl) - n), \A k \in 1..(Len(fl) - n) : t[k] = fl[k + n]
    PROVE  LastNotice(t)
<1>1. ASSUME NEW j \in 1..(Len(fl) - n), t[j].kind = "turnCompleted"
      PROVE  t[j].status = turn.status
             /\ \A k \in 1..(Len(fl) - n) : k > j => t[k].kind = "answer"
  <2>1. j + n \in DOMAIN fl /\ fl[j + n] = t[j]
    OBVIOUS
  <2>2. \A k \in 1..(Len(fl) - n) : k > j => k + n \in DOMAIN fl /\ k + n > j + n /\ fl[k + n] = t[k]
    OBVIOUS
  <2> QED BY <1>1, <2>1, <2>2 DEF LastNotice
<1> QED BY <1>1 DEF LastNotice

(***************************************************************************)
(* Every step keeps to one request.                                        *)
(***************************************************************************)
LEMMA ProtocolNotify ==
    ASSUME Typed, Typed', Protocol, NEW n \in Notices, Notify(n), turn.status = "inProgress",
           phase # "over",
           n.kind # "turnCompleted" => turn'.status = turn.status,
           n.kind = "turnCompleted" => n.status = turn'.status
    PROVE  Protocol'
<1>1. /\ net' = IF link.sub THEN Append(net, n) ELSE net
      /\ UNCHANGED <<link, phase, buffer, shown, outcome, submits>>
  BY DEF Notify
<1>2. OneRequest /\ OneAnswer /\ LastNotice(Unheard)
  BY DEF Protocol
<1>3. \A s : Fits(s, turn.status, phase) =>
             s.status = "inProgress" /\ Fits(s, turn'.status, phase')
  BY <1>1 DEF Fits
<1>4. OneRequest'
  BY <1>1, <1>2, <1>3 DEF OneRequest, AskedInPhase, Captured
<1>5. CASE link.sub
  <2>1. /\ n \in Frames /\ n.kind # "answer" /\ net' = Append(net, n)
    BY <1>1, <1>5, FrameKinds DEF Frames
  <2>2. /\ Unheard' = Append(Unheard, n)
        /\ Len(net') = Len(net) + 1 /\ DOMAIN net' = 1..(Len(net) + 1)
        /\ net'[Len(net) + 1] = n /\ \A j \in 1..Len(net) : net'[j] = net[j]
    BY <1>1, <2>1, Sent
  <2>3. LastNotice(Unheard)'
    BY <1>2, <2>1, <2>2, LastNoticeSent
  <2>4. ASSUME NEW j \in DOMAIN net', net'[j].kind = "answer" PROVE AnswerFits(j)'
    <3>1. Len(net) \in Nat /\ DOMAIN net = 1..Len(net)
      BY UnheardIs
    <3>2. j \in 1..Len(net) /\ net[j].kind = "answer" /\ net'[j] = net[j]
      BY <2>1, <2>2, <2>4, <3>1
    <3>3. AnswerFits(j)
      BY <1>2, <3>1, <3>2 DEF OneAnswer
    <3>4. Fits(net'[j].snap, turn'.status, phase') /\ net'[j].snap.status = "inProgress"
      BY <1>3, <3>2, <3>3 DEF AnswerFits
    <3>5. \A i \in DOMAIN net' : net'[i].kind = "answer" => i = j
      BY <2>1, <2>2, <3>1, <3>3 DEF AnswerFits
    <3> QED BY <1>1, <3>3, <3>4, <3>5 DEF AnswerFits, Awaiting
  <2>5. OneAnswer'
    BY <2>4 DEF OneAnswer
  <2> QED BY <1>4, <2>3, <2>5 DEF Protocol
<1>6. CASE ~link.sub
  <2>1. net' = <<>> /\ buffer' = <<>>
    BY <1>1, <1>2, <1>6 DEF OneRequest
  <2>2. DOMAIN net' = {} /\ DOMAIN Unheard' = {}
    BY <2>1 DEF Unheard
  <2> QED BY <1>4, <2>2 DEF Protocol, OneAnswer, LastNotice
<1> QED BY <1>5, <1>6

LEMMA ProtocolSubscribe ==
    ASSUME Protocol, Subscribe, Typed
    PROVE  Protocol'
<1>1. /\ link' = [link EXCEPT !.sub = TRUE] /\ link.asked # "none" /\ ~link.sub
      /\ UNCHANGED <<turn, net, phase, buffer, shown, outcome, submits>>
  BY DEF Subscribe
<1>2. link'.sub = TRUE /\ link'.asked = link.asked /\ link'.snap = link.snap
  BY <1>1 DEF Typed
<1>3. OneRequest'
  BY <1>1, <1>2 DEF Protocol, OneRequest, AskedInPhase, Captured, Fits
<1>4. OneAnswer'
  BY <1>1, <1>2 DEF Protocol, OneAnswer, AnswerFits, Awaiting, Fits
<1>5. phase' # "over" => LastNotice(Unheard)'
  BY <1>1 DEF Protocol, LastNotice, Unheard
<1> QED BY <1>3, <1>4, <1>5 DEF Protocol

LEMMA Snapped ==
    ASSUME Typed, Capture
    PROVE  /\ link'.sub = link.sub /\ link'.asked = link.asked
           /\ \/ /\ link.asked # "start"
                 /\ link'.snap = Snapshot(TRUE, turn.text, turn.status)
              \/ /\ link.asked \in {"start", "list"}
                 /\ link'.snap = Snapshot(FALSE, <<>>, "inProgress")
<1>1. PICK listed \in IF link.asked = "list" THEN BOOLEAN ELSE {TRUE} :
        link' = [link EXCEPT !.snap = IF listed /\ link.asked # "start"
                                      THEN Snapshot(TRUE, turn.text, turn.status)
                                      ELSE Snapshot(FALSE, <<>>, "inProgress")]
  BY DEF Capture
<1>2. link'.sub = link.sub /\ link'.asked = link.asked
      /\ link'.snap = IF listed /\ link.asked # "start"
                      THEN Snapshot(TRUE, turn.text, turn.status)
                      ELSE Snapshot(FALSE, <<>>, "inProgress")
  BY <1>1 DEF Typed
<1>3. listed \/ link.asked = "list"
  BY <1>1
<1> QED BY <1>2, <1>3

LEMMA ProtocolCapture ==
    ASSUME Protocol, Capture, Typed
    PROVE  Protocol'
<1>1. /\ link.asked # "none" /\ link.sub
      /\ UNCHANGED <<turn, net, phase, buffer, shown, outcome, submits>>
  BY DEF Capture
<1>2. AskedInPhase
  BY DEF Protocol, OneRequest
<1>3. Fits(link'.snap, turn'.status, phase')
  BY <1>1, <1>2, Snapped DEF Fits, Snapshot, AskedInPhase
<1>4. OneRequest'
  BY <1>1, <1>3, Snapped DEF Protocol, OneRequest, AskedInPhase, Captured
<1>5. OneAnswer'
  BY <1>1, Snapped DEF Protocol, OneAnswer, AnswerFits, Awaiting, Fits
<1>6. phase' # "over" => LastNotice(Unheard)'
  BY <1>1 DEF Protocol, LastNotice, Unheard
<1> QED BY <1>4, <1>5, <1>6 DEF Protocol

LEMMA AnswerSent ==
    ASSUME Typed, SendAnswer
    PROVE  /\ link'.sub = link.sub /\ link'.asked = "none" /\ link'.snap = NoSnap
           /\ Answer(link.snap) \in Frames /\ Answer(link.snap).kind = "answer"
           /\ Answer(link.snap).snap = link.snap
           /\ Unheard' = Append(Unheard, Answer(link.snap))
           /\ Len(net') = Len(net) + 1 /\ DOMAIN net' = 1..(Len(net) + 1)
           /\ net'[Len(net) + 1] = Answer(link.snap)
           /\ \A j \in 1..Len(net) : net'[j] = net[j]
<1>1. link' = [link EXCEPT !.asked = "none", !.snap = NoSnap]
  BY DEF SendAnswer
<1>2. link'.sub = link.sub /\ link'.asked = "none" /\ link'.snap = NoSnap
  BY <1>1 DEF Typed
<1>3. Answer(link.snap) \in Frames /\ Answer(link.snap).kind = "answer"
      /\ Answer(link.snap).snap = link.snap
  BY DEF Typed, SendAnswer, Captured, Answer, Answers, Frames
<1> QED BY <1>2, <1>3, Sent DEF SendAnswer

LEMMA ProtocolSendAnswer ==
    ASSUME Protocol, SendAnswer, Typed
    PROVE  Protocol'
<1>1. /\ Captured /\ UNCHANGED <<turn, phase, buffer, shown, outcome, submits>>
  BY DEF SendAnswer
<1>2. /\ link.asked # "none" /\ link.sub /\ Fits(link.snap, turn.status, phase)
      /\ AskedInPhase /\ \A j \in DOMAIN net : net[j].kind = "answer" => AnswerFits(j)
  BY <1>1 DEF Protocol, OneRequest, OneAnswer
<1>3. Awaiting
  BY <1>2 DEF AskedInPhase, Awaiting
<1>4. \A j \in DOMAIN net : net[j].kind # "answer"
  BY <1>2 DEF AnswerFits
<1>5. OneRequest'
  BY <1>1, <1>2, AnswerSent DEF Protocol, OneRequest, AskedInPhase, Captured
<1>6. OneAnswer'
  <2>1. Len(net) \in Nat /\ DOMAIN net = 1..Len(net)
    BY UnheardIs
  <2>2. \A j \in DOMAIN net' : net'[j].kind = "answer" => j = Len(net) + 1
    BY <1>4, <2>1, AnswerSent
  <2>3. ASSUME NEW j \in DOMAIN net', net'[j].kind = "answer" PROVE AnswerFits(j)'
    <3>1. j = Len(net) + 1 /\ net'[j].snap = link.snap
      BY <2>2, <2>3, AnswerSent
    <3>2. Fits(net'[j].snap, turn'.status, phase')
      BY <1>1, <1>2, <3>1
    <3>3. Awaiting' /\ Len(net') = j /\ link'.asked = "none"
      BY <1>1, <1>3, <3>1, AnswerSent DEF Awaiting
    <3> QED BY <2>2, <3>1, <3>2, <3>3 DEF AnswerFits
  <2> QED BY <2>3 DEF OneAnswer
<1>7. phase' # "over" => LastNotice(Unheard)'
  BY <1>1, AnswerSent, LastNoticeSent DEF Protocol
<1> QED BY <1>5, <1>6, <1>7 DEF Protocol

\* The frames left when the first of them are looked at.
LEMMA Taken ==
    ASSUME Typed, net # <<>>, net' = Tail(net)
    PROVE  /\ Len(net') = Len(net) - 1 /\ DOMAIN net' = 1..(Len(net) - 1)
           /\ \A j \in 1..(Len(net) - 1) : net'[j] = net[j + 1]
           /\ buffer' = <<>> =>
                /\ Unheard' = net' /\ Len(Unheard') = Len(Unheard) - (Len(buffer) + 1)
                /\ \A k \in 1..Len(Unheard') : Unheard'[k] = Unheard[k + (Len(buffer) + 1)]
           /\ buffer' = Append(buffer, net[1]) => Unheard' = Unheard
<1>1. /\ Head(net) = net[1] /\ Len(net) \in Nat \ {0} /\ net' \in Seq(Frames)
      /\ Len(net') = Len(net) - 1 /\ \A j \in 1..(Len(net) - 1) : net'[j] = net[j + 1]
  BY HeadIs DEF Frames
<1>2. DOMAIN net' = 1..(Len(net) - 1)
  BY <1>1
<1>3. ASSUME buffer' = <<>>
      PROVE  /\ Unheard' = net' /\ Len(Unheard') = Len(Unheard) - (Len(buffer) + 1)
             /\ \A k \in 1..Len(Unheard') : Unheard'[k] = Unheard[k + (Len(buffer) + 1)]
  <2>1. Unheard' = net'
    BY <1>1, <1>3 DEF Unheard
  <2>2. Len(Unheard) = Len(buffer) + Len(net) /\ Len(buffer) \in Nat
    BY UnheardIs
  <2>3. Len(Unheard') = Len(Unheard) - (Len(buffer) + 1)
    BY <1>1, <2>1, <2>2
  <2>4. ASSUME NEW k \in 1..Len(Unheard') PROVE Unheard'[k] = Unheard[k + (Len(buffer) + 1)]
    <3>1. k \in 1..(Len(net) - 1) /\ k + 1 \in 1..Len(net)
          /\ Len(buffer) + (k + 1) = k + (Len(buffer) + 1)
      BY <1>1, <2>1, <2>2
    <3>2. Unheard[Len(buffer) + (k + 1)] = net[k + 1]
      BY <3>1, UnheardIs
    <3>3. Unheard'[k] = net[k + 1]
      BY <1>1, <2>1, <3>1
    <3> QED BY <3>1, <3>2, <3>3
  <2> QED BY <2>1, <2>3, <2>4
<1>4. ASSUME buffer' = Append(buffer, net[1]) PROVE Unheard' = Unheard
  <2>1. buffer \in Seq(Frames) /\ net \in Seq(Frames)
    BY DEF Typed, Frames
  <2>2. Append(buffer, Head(net)) \o Tail(net) = buffer \o net
    BY <2>1, Moved
  <2>3. buffer' \o net' = buffer \o net
    BY <1>1, <1>4, <2>2
  <2> QED BY <2>3 DEF Unheard
<1> QED BY <1>1, <1>2, <1>3, <1>4

LEMMA LastNoticeLeft ==
    ASSUME Typed, Typed', net # <<>>, net' = Tail(net), buffer' = <<>>, LastNotice(Unheard),
           turn' = turn
    PROVE  LastNotice(Unheard)'
<1> DEFINE n == Len(buffer) + 1
           s == Unheard
           t == Unheard'
<1>1. /\ Len(s) \in Nat /\ DOMAIN s = 1..Len(s) /\ n \in 0..Len(s)
      /\ DOMAIN t = 1..(Len(s) - n) /\ \A k \in 1..(Len(s) - n) : t[k] = s[k + n]
  <2>1. /\ Len(s) \in Nat /\ DOMAIN s = 1..Len(s) /\ Len(s) = Len(buffer) + Len(net)
        /\ Len(buffer) \in Nat /\ Len(net) \in Nat \ {0}
    BY UnheardIs, HeadIs
  <2>2. Len(t) = Len(s) - n /\ \A k \in 1..Len(t) : t[k] = s[k + n]
    BY Taken
  <2>3. DOMAIN t = 1..Len(t)
    BY UnheardIs
  <2> QED BY <2>1, <2>2, <2>3
<1>2. LastNotice(s)
  OBVIOUS
<1> HIDE DEF n, s, t
<1>3. LastNotice(t)
  BY <1>1, <1>2, LastNoticeTaken
<1> QED BY <1>3 DEF LastNotice, t

LEMMA ProtocolSetAside ==
    ASSUME Protocol, SetAside, Typed, Typed'
    PROVE  Protocol'
<1>1. /\ Awaiting /\ net # <<>> /\ net[1].kind # "answer" /\ net' = Tail(net)
      /\ UNCHANGED <<turn, link, phase, shown, outcome, submits>>
      /\ IF phase = "queueing" THEN UNCHANGED buffer ELSE buffer' = Append(buffer, net[1])
  BY HeadIs DEF SetAside, Arrived
<1>2. OneRequest /\ OneAnswer /\ LastNotice(Unheard)
  BY <1>1 DEF Protocol, Awaiting
<1>3. /\ Len(net) \in Nat \ {0} /\ DOMAIN net = 1..Len(net)
      /\ Len(net') = Len(net) - 1 /\ DOMAIN net' = 1..(Len(net) - 1)
      /\ \A j \in 1..(Len(net) - 1) : net'[j] = net[j + 1]
  BY <1>1, HeadIs, Taken, UnheardIs
<1>4. OneRequest'
  BY <1>1, <1>2 DEF OneRequest, AskedInPhase, Captured, Awaiting
<1>5. ASSUME NEW j \in DOMAIN net', net'[j].kind = "answer" PROVE AnswerFits(j)'
  <2>1. j + 1 \in DOMAIN net /\ net'[j] = net[j + 1] /\ j \in Int
    BY <1>3
  <2>2. AnswerFits(j + 1)
    BY <1>2, <1>5, <2>1 DEF OneAnswer
  <2>3. ASSUME NEW i \in DOMAIN net', net'[i].kind = "answer" PROVE i = j
    <3>1. i + 1 \in DOMAIN net /\ net[i + 1].kind = "answer" /\ i \in Int
      BY <1>3, <2>3
    <3>2. i + 1 = j + 1
      BY <2>2, <3>1 DEF AnswerFits
    <3> QED BY <2>1, <3>1, <3>2
  <2>4. net'[j].snap.status # "inProgress" => j = Len(net')
    BY <1>3, <2>1, <2>2 DEF AnswerFits
  <2>5. /\ link'.asked = "none" /\ Awaiting' /\ Fits(net'[j].snap, turn'.status, phase')
    BY <1>1, <2>1, <2>2 DEF AnswerFits, Awaiting
  <2> QED BY <2>3, <2>4, <2>5 DEF AnswerFits
<1>6. LastNotice(Unheard)'
  <2>1. CASE phase = "queueing"
    <3>1. buffer' = <<>>
      BY <1>1, <1>2, <2>1 DEF OneRequest
    <3> QED BY <1>1, <1>2, <3>1, LastNoticeLeft
  <2>2. CASE phase # "queueing"
    <3>1. Unheard' = Unheard
      BY <1>1, <2>2, Taken
    <3> QED BY <1>1, <1>2, <3>1 DEF LastNotice
  <2> QED BY <2>1, <2>2
<1> QED BY <1>4, <1>5, <1>6 DEF Protocol, OneAnswer

\* Frames are looked at, up to the answer.
LEMMA ProtocolLooked ==
    ASSUME Protocol, Typed, Typed', net # <<>>, net' = Tail(net), buffer' = <<>>,
           phase # "over", phase' \in {"waiting", "over"}, UNCHANGED <<turn, link>>,
           phase = "waiting" \/ net[1].kind = "answer"
    PROVE  Protocol'
<1>1. OneRequest /\ OneAnswer /\ LastNotice(Unheard)
  BY DEF Protocol
<1>2. /\ Len(net) \in Nat \ {0} /\ DOMAIN net = 1..Len(net)
      /\ Len(net') = Len(net) - 1 /\ DOMAIN net' = 1..(Len(net) - 1)
      /\ \A j \in 1..(Len(net) - 1) : net'[j] = net[j + 1]
  BY HeadIs, Taken, UnheardIs
<1>3. link.asked = "none" /\ \A j \in 2..Len(net) : net[j].kind # "answer"
  <2>1. CASE phase = "waiting"
    BY <1>1, <1>2, <2>1 DEF OneRequest, AskedInPhase, OneAnswer, AnswerFits, Awaiting
  <2>2. CASE net[1].kind = "answer"
    <3>1. AnswerFits(1)
      BY <1>1, <1>2, <2>2 DEF OneAnswer
    <3> QED BY <1>2, <3>1 DEF AnswerFits
  <2> QED BY <2>1, <2>2
<1>4. \A j \in DOMAIN net' : net'[j].kind # "answer"
  <2>1. ASSUME NEW j \in DOMAIN net' PROVE net'[j] = net[j + 1] /\ j + 1 \in 2..Len(net)
    BY <1>2
  <2> QED BY <1>3, <2>1
<1>5. OneRequest'
  BY <1>1, <1>3 DEF OneRequest, AskedInPhase, Captured
<1>6. LastNotice(Unheard)'
  BY <1>1, LastNoticeLeft
<1> QED BY <1>4, <1>5, <1>6 DEF Protocol, OneAnswer

LEMMA Settled ==
    ASSUME NEW es, NEW status, Settle(es, status)
    PROVE  shown' = es /\ phase' \in {"waiting", "over"}
BY DEF Settle

LEMMA ProtocolWatch ==
    ASSUME Protocol, Answered \/ Receive, Typed, Typed'
    PROVE  Protocol'
<1>1. phase' \in {"waiting", "over"}
  BY Settled DEF Answered, AttachAnswered, StartAnswered, PollAnswered, QueueAnswered, Receive
<1>2. CASE Answered
  <2>1. PICK p \in {"attaching", "starting", "polling", "queueing"} : TakeAnswer(p)
    BY <1>2 DEF Answered, AttachAnswered, StartAnswered, PollAnswered, QueueAnswered
  <2>2. /\ net # <<>> /\ net[1].kind = "answer" /\ net' = Tail(net) /\ buffer' = <<>>
        /\ phase # "over" /\ UNCHANGED <<turn, link>>
    BY <2>1, HeadIs DEF TakeAnswer, Arrived
  <2> QED BY <1>1, <2>2, ProtocolLooked
<1>3. CASE Receive
  <2>1. /\ net # <<>> /\ net' = Tail(net) /\ phase = "waiting"
        /\ UNCHANGED <<turn, link, buffer>>
    BY <1>3 DEF Receive
  <2>2. buffer' = <<>>
    BY <2>1 DEF Protocol, OneRequest
  <2> QED BY <1>1, <2>1, <2>2, ProtocolLooked
<1> QED BY <1>2, <1>3

LEMMA ProtocolAsk ==
    ASSUME Protocol, Typed, Poll \/ Submit
    PROVE  Protocol'
<1>1. PICK p \in {"polling", "queueing"}, request \in {"start", "list"} :
        /\ <<p, request>> \in {<<"queueing", "start">>, <<"polling", "list">>}
        /\ phase = "waiting" /\ phase' = p /\ link' = [link EXCEPT !.asked = request]
        /\ UNCHANGED <<turn, net, buffer, shown>>
  BY DEF Poll, Submit, Ask
<1>2. OneRequest /\ OneAnswer /\ LastNotice(Unheard)
  BY <1>1 DEF Protocol
<1>3. link'.asked = request /\ link'.sub = link.sub /\ link'.snap = link.snap
  BY <1>1 DEF Typed
<1>4. link.asked = "none" /\ ~Captured /\ link.sub
  BY <1>1, <1>2 DEF OneRequest, AskedInPhase
<1>5. \A j \in DOMAIN net : net[j].kind # "answer"
  BY <1>1, <1>2 DEF OneAnswer, AnswerFits, Awaiting
<1>6. OneRequest'
  BY <1>1, <1>2, <1>3, <1>4 DEF OneRequest, AskedInPhase, Captured
<1>7. LastNotice(Unheard)' /\ OneAnswer'
  BY <1>1, <1>2, <1>5 DEF LastNotice, Unheard, OneAnswer
<1> QED BY <1>6, <1>7 DEF Protocol

LEMMA ProtocolEnd ==
    ASSUME NEW how, EndWait(how)
    PROVE  Protocol'
<1>1. /\ phase' = "over" /\ net' = <<>> /\ buffer' = <<>>
      /\ link' = [sub |-> FALSE, asked |-> "none", snap |-> NoSnap]
  BY DEF EndWait
<1>2. OneRequest'
  BY <1>1 DEF OneRequest, AskedInPhase, Captured
<1>3. OneAnswer'
  BY <1>1 DEF OneAnswer
<1> QED BY <1>1, <1>2, <1>3 DEF Protocol

LEMMA ProtocolStep ==
    ASSUME Typed, Protocol, [Next]_vars
    PROVE  Protocol'
<1>1. Typed'
  BY TypedStep
<1>2. CASE StartItem \/ Say \/ CompleteItem \/ EndTurn
  <2>1. CASE StartItem
    <3>1. Notify(Started(Len(turn.text) + 1)) /\ turn.status = "inProgress" /\ phase # "over"
      BY <2>1 DEF StartItem, Running
    <3> QED BY <1>1, <2>1, <3>1, StartItemType, ProtocolNotify DEF Started
  <2>2. CASE Say
    <3>1. turn.status = "inProgress" /\ phase # "over"
      BY <2>2 DEF Say, Running
    <3>2. PICK d \in Seq(Token) \ {<<>>} :
            /\ Delta(Len(turn.text), d) \in Notices /\ Notify(Delta(Len(turn.text), d))
            /\ turn' = [text |-> [turn.text EXCEPT ![Len(turn.text)] = @ \o d],
                        open |-> TRUE, status |-> turn.status]
      BY <2>2, SayType
    <3>3. Delta(Len(turn.text), d).kind = "delta" /\ turn'.status = turn.status
      BY <3>2 DEF Delta
    <3> QED BY <1>1, <3>1, <3>2, <3>3, ProtocolNotify
  <2>3. CASE CompleteItem
    <3>1. turn.status = "inProgress" /\ phase # "over"
      BY <2>3 DEF CompleteItem, Running
    <3> QED BY <1>1, <2>3, <3>1, CompleteItemType, ProtocolNotify DEF Completed
  <2>4. CASE EndTurn
    <3>1. turn.status = "inProgress" /\ phase # "over"
      BY <2>4 DEF EndTurn, Running
    <3> QED BY <1>1, <2>4, <3>1, EndTurnType, ProtocolNotify DEF TurnCompleted
  <2> QED BY <1>2, <2>1, <2>2, <2>3, <2>4
<1>3. CASE Subscribe \/ Capture \/ SendAnswer
  BY <1>3, ProtocolSubscribe, ProtocolCapture, ProtocolSendAnswer
<1>4. CASE Watch
  BY <1>1, <1>4, ProtocolSetAside, ProtocolWatch DEF Watch
<1>5. CASE Poll \/ Submit
  BY <1>5, ProtocolAsk
<1>6. CASE Leave \/ TimeOut \/ ConnectionFails
  BY <1>6, ProtocolEnd DEF Leave, TimeOut, ConnectionFails
<1>7. CASE UNCHANGED vars
  BY <1>7 DEF vars, Protocol, OneRequest, AskedInPhase, Captured, OneAnswer, AnswerFits,
              Awaiting, LastNotice, Unheard
<1> QED BY <1>2, <1>3, <1>4, <1>5, <1>6, <1>7 DEF Next, Server

(***************************************************************************)
(* The past of the turn.                                                   *)
(***************************************************************************)
LEMMA LaterThan ==
    ASSUME NEW a \in Moments
    PROVE  Later(a, a)
<1>1. a.text \in Seq(Seq(Token))
  BY DEF Moments
<1>2. \A i \in DOMAIN a.text : IsPrefix(a.text[i], a.text[i])
  BY <1>1, PrefixIs
<1> QED BY <1>1, <1>2 DEF Later

LEMMA LaterStill ==
    ASSUME NEW a \in Moments, NEW b \in Moments, NEW c \in Moments, Later(a, b), Later(b, c)
    PROVE  Later(a, c)
<1>1. /\ a.text \in Seq(Seq(Token)) /\ DOMAIN a.text = 1..Len(a.text) /\ Len(a.text) \in Nat
      /\ b.text \in Seq(Seq(Token)) /\ DOMAIN b.text = 1..Len(b.text) /\ Len(b.text) \in Nat
      /\ c.text \in Seq(Seq(Token)) /\ DOMAIN c.text = 1..Len(c.text) /\ Len(c.text) \in Nat
  BY DEF Moments
<1>2. Len(a.text) <= Len(b.text) /\ Len(b.text) <= Len(c.text)
  BY DEF Later
<1>3. Len(a.text) <= Len(c.text)
  BY <1>1, <1>2
<1>4. ASSUME NEW i \in DOMAIN a.text
      PROVE  /\ IsPrefix(a.text[i], c.text[i])
             /\ Closed(a, i) => Closed(c, i) /\ c.text[i] = a.text[i]
  <2>1. i \in DOMAIN b.text /\ i \in DOMAIN c.text
    <3>1. i \in 1..Len(a.text) /\ Len(a.text) \in Nat /\ Len(b.text) \in Nat /\ Len(c.text) \in Nat
      BY <1>1
    <3>2. i \in 1..Len(b.text) /\ i \in 1..Len(c.text)
      BY <1>2, <1>3, <3>1
    <3> QED BY <1>1, <3>2
  <2>2. /\ IsPrefix(a.text[i], b.text[i]) /\ IsPrefix(b.text[i], c.text[i])
        /\ Closed(a, i) => Closed(b, i) /\ b.text[i] = a.text[i]
        /\ Closed(b, i) => Closed(c, i) /\ c.text[i] = b.text[i]
    BY <2>1 DEF Later
  <2> DEFINE s == a.text[i]
             t == b.text[i]
             u == c.text[i]
  <2>3. s \in Seq(Token) /\ t \in Seq(Token) /\ u \in Seq(Token)
    BY <1>1, <2>1, SMTT(30)
  <2>4. IsPrefix(s, t) /\ IsPrefix(t, u)
    BY <2>2
  <2> HIDE DEF s, t, u
  <2>5. /\ Len(s) <= Len(t) /\ \A k \in 1..Len(s) : s[k] = t[k]
        /\ Len(t) <= Len(u) /\ \A k \in 1..Len(t) : t[k] = u[k]
    BY <2>3, <2>4, PrefixIs
  <2>6. Len(s) <= Len(u) /\ \A k \in 1..Len(s) : s[k] = u[k]
    BY <2>3, <2>5
  <2>7. IsPrefix(s, u)
    BY <2>3, <2>6, PrefixIs
  <2> QED BY <2>2, <2>7 DEF s, u
<1> QED BY <1>3, <1>4 DEF Later

LEMMA FollowsLater ==
    ASSUME NEW a \in Moments, NEW b \in Moments, NEW f \in Frames, Follows(a, f, b)
    PROVE  Later(a, b)
<1>1. a.text \in Seq(Seq(Token)) /\ b.text \in Seq(Seq(Token)) /\ DOMAIN a.text = 1..Len(a.text)
      /\ Len(a.text) \in Nat
  BY DEF Moments
<1>2. \A i \in DOMAIN a.text : a.text[i] \in Seq(Token) /\ IsPrefix(a.text[i], a.text[i])
  BY <1>1, PrefixIs
<1>3. CASE f.kind = "started"
  <2>1. b.text = Append(a.text, <<>>) /\ b.open = TRUE /\ ~a.open
    BY <1>3 DEF Follows
  <2>2. Len(b.text) = Len(a.text) + 1 /\ \A i \in 1..Len(a.text) : b.text[i] = a.text[i]
    BY <1>1, <2>1
  <2> QED BY <1>1, <1>2, <2>1, <2>2 DEF Later, Closed
<1>4. CASE f.kind = "delta"
  <2> DEFINE n == Len(a.text)
             x == a.text[n]
             y == b.text[n]
  <2>1. /\ f.item = n /\ b.text = [a.text EXCEPT ![n] = @ \o f.text]
        /\ b.open = TRUE /\ a.open
    <3>1. /\ f.item = n /\ a.open
          /\ b = [text |-> [a.text EXCEPT ![f.item] = @ \o f.text], open |-> TRUE]
      BY <1>4 DEF Follows
    <3>2. b.text = [a.text EXCEPT ![f.item] = @ \o f.text] /\ b.open = TRUE
      BY <3>1
    <3> QED BY <3>1, <3>2
  <2>2. f.text \in Seq(Token)
    BY <1>4 DEF Frames, Notices, Answers
  <2>3. Len(b.text) = n /\ \A i \in 1..(n - 1) : b.text[i] = a.text[i]
    BY <1>1, <2>1
  <2>4. ASSUME n \in DOMAIN a.text PROVE IsPrefix(x, y)
    <3>1. y = x \o f.text
      BY <2>1, <2>4
    <3>2. x \in Seq(Token)
      BY <1>2, <2>4
    <3> HIDE DEF x, y
    <3>3. y \in Seq(Token) /\ Len(x) <= Len(y) /\ \A k \in 1..Len(x) : x[k] = y[k]
      BY <2>2, <3>1, <3>2
    <3> QED BY <3>2, <3>3, PrefixIs
  <2>5. ASSUME NEW i \in DOMAIN a.text
        PROVE  /\ IsPrefix(a.text[i], b.text[i])
               /\ Closed(a, i) => Closed(b, i) /\ b.text[i] = a.text[i]
    <3>1. CASE i = n
      <4>1. ~Closed(a, i)
        BY <1>1, <2>1, <3>1 DEF Closed
      <4> QED BY <2>4, <2>5, <3>1, <4>1
    <3>2. CASE i # n
      <4>1. i \in 1..(n - 1)
        BY <1>1, <2>5, <3>2
      <4>2. i < Len(b.text) /\ b.text[i] = a.text[i]
        BY <1>1, <2>3, <4>1, SMTT(30)
      <4> QED BY <1>2, <2>5, <4>2 DEF Closed
    <3> QED BY <3>1, <3>2
  <2>6. Len(a.text) <= Len(b.text)
    BY <1>1, <2>3
  <2> QED BY <2>5, <2>6 DEF Later
<1>5. CASE f.kind \notin {"started", "delta"}
  <2>1. b = [text |-> a.text, open |-> FALSE] \/ b = a
    BY <1>5 DEF Follows
  <2>2. b.text = a.text /\ (~a.open => ~b.open)
    BY <2>1
  <2> QED BY <1>1, <1>2, <2>2 DEF Later, Closed
<1> QED BY <1>3, <1>4, <1>5

LEMMA HistorySent ==
    ASSUME NEW past, NEW fl \in Seq(Frames), NEW now \in Moments, NEW then \in Moments,
           NEW f \in Frames, History(past, fl, now), Follows(now, f, then),
           NEW p, p = [k \in 0..(Len(fl) + 1) |-> IF k = Len(fl) + 1 THEN then ELSE past[k]]
    PROVE  /\ History(p, Append(fl, f), then)
           /\ p[Len(fl) + 1] = then /\ \A k \in 0..Len(fl) : p[k] = past[k]
<1> DEFINE n == Len(fl)
           t == Append(fl, f)
<1>1. n \in Nat /\ Len(t) = n + 1 /\ t[n + 1] = f /\ \A k \in 1..n : t[k] = fl[k]
  OBVIOUS
<1>2. /\ past \in [0..n -> Moments] /\ past[n] = now
      /\ \A k \in 1..n : Follows(past[k - 1], fl[k], past[k])
      /\ \A i, j \in 0..n : i <= j => Later(past[i], past[j])
  BY DEF History
<1>3. p = [k \in 0..(n + 1) |-> IF k = n + 1 THEN then ELSE past[k]]
  OBVIOUS
<1> HIDE DEF n, t
<1>4. p[n + 1] = then /\ \A k \in 0..n : p[k] = past[k] /\ p[k] \in Moments
  BY <1>1, <1>2, <1>3
<1>5. p \in [0..(n + 1) -> Moments]
  BY <1>1, <1>2, <1>3
<1>6. ASSUME NEW k \in 1..(n + 1) PROVE Follows(p[k - 1], t[k], p[k])
  <2>1. CASE k = n + 1
    <3>1. k - 1 = n /\ n \in 0..n
      BY <1>1, <2>1
    <3> QED BY <1>1, <1>2, <1>4, <2>1, <3>1
  <2>2. CASE k # n + 1
    <3>1. k \in 1..n /\ k \in 0..n /\ k - 1 \in 0..n
      BY <1>1, <2>2
    <3> QED BY <1>1, <1>2, <1>4, <3>1
  <2> QED BY <2>1, <2>2
<1>7. Later(now, then)
  BY FollowsLater
<1>8. ASSUME NEW i \in 0..(n + 1), NEW j \in 0..(n + 1), i <= j PROVE Later(p[i], p[j])
  <2>1. CASE i = n + 1
    <3>1. j = n + 1
      BY <1>1, <1>8, <2>1
    <3> QED BY <1>4, <2>1, <3>1, LaterThan
  <2>2. CASE i # n + 1 /\ j = n + 1
    <3>1. i \in 0..n /\ n \in 0..n /\ i <= n
      BY <1>1, <2>2
    <3>2. Later(past[i], now) /\ past[i] \in Moments
      BY <1>2, <3>1
    <3>3. Later(past[i], then)
      BY <1>7, <3>2, LaterStill
    <3> QED BY <1>4, <2>2, <3>1, <3>3
  <2>3. CASE i # n + 1 /\ j # n + 1
    <3>1. i \in 0..n /\ j \in 0..n
      BY <1>1, <2>3
    <3> QED BY <1>2, <1>4, <1>8, <3>1
  <2> QED BY <2>1, <2>2, <2>3
<1>9. History(p, t, then)
  BY <1>1, <1>4, <1>5, <1>6, <1>8 DEF History
<1> QED BY <1>4, <1>9 DEF n, t

LEMMA HistoryTaken ==
    ASSUME NEW past, NEW fl \in Seq(Frames), NEW now, History(past, fl, now),
           NEW n \in 0..Len(fl), NEW t, Len(t) = Len(fl) - n, \A k \in 1..Len(t) : t[k] = fl[k + n],
           NEW p, p = [k \in 0..(Len(fl) - n) |-> past[k + n]]
    PROVE  History(p, t, now) /\ \A k \in 0..(Len(fl) - n) : p[k] = past[k + n]
<1> DEFINE m == Len(fl) - n
           l == Len(fl)
<1>1. m \in Nat /\ n \in Nat /\ l \in Nat /\ m + n = l /\ Len(t) = m
  OBVIOUS
<1>2. /\ past \in [0..l -> Moments] /\ past[l] = now
      /\ \A k \in 1..l : Follows(past[k - 1], fl[k], past[k])
      /\ \A i, j \in 0..l : i <= j => Later(past[i], past[j])
  BY DEF History
<1>3. p = [k \in 0..m |-> past[k + n]] /\ \A k \in 1..m : t[k] = fl[k + n]
  OBVIOUS
<1> HIDE DEF m, l
<1>4. \A k \in 0..m : k + n \in 0..l /\ p[k] = past[k + n]
  BY <1>1, <1>3
<1>5. p \in [0..m -> Moments] /\ p[m] = now
  BY <1>1, <1>2, <1>3, <1>4
<1>6. ASSUME NEW k \in 1..m PROVE Follows(p[k - 1], t[k], p[k])
  <2>1. k - 1 \in 0..m /\ k \in 0..m /\ k + n \in 1..l /\ (k - 1) + n = (k + n) - 1
    BY <1>1
  <2> QED BY <1>2, <1>3, <1>4, <2>1
<1>7. ASSUME NEW i \in 0..m, NEW j \in 0..m, i <= j PROVE Later(p[i], p[j])
  <2>1. i + n <= j + n
    BY <1>1, <1>7
  <2> QED BY <1>2, <1>4, <2>1
<1>8. History(p, t, now)
  BY <1>1, <1>5, <1>6, <1>7 DEF History
<1> QED BY <1>4, <1>8 DEF m

LEMMA HistoryStart ==
    ASSUME NEW now \in Moments, NEW p, p = [k \in 0..0 |-> now]
    PROVE  History(p, <<>>, now) /\ p[0] = now
<1>1. p \in [0..0 -> Moments] /\ p[0] = now
  OBVIOUS
<1>2. \A i, j \in 0..0 : Later(p[i], p[j])
  BY <1>1, LaterThan
<1> QED BY <1>1, <1>2 DEF History

\* In a turn that repeats no token within a message, neither did its past.
LEMMA PlainPast ==
    ASSUME NEW m \in Moments, Later(m, Now), TurnOK, Plain, NEW i \in DOMAIN m.text
    PROVE  i \in DOMAIN turn.text /\ IsInjective(m.text[i])
<1>1. m.text \in Seq(Seq(Token)) /\ turn.text \in Seq(Seq(Token))
  BY TurnType DEF Moments, TurnOK
<1>2. /\ Len(m.text) <= Len(turn.text) /\ IsPrefix(m.text[i], turn.text[i])
  BY DEF Later, Now
<1>3. i \in DOMAIN turn.text
  BY <1>1, <1>2
<1> DEFINE s == m.text[i]
           t == turn.text[i]
<1>4. s \in Seq(Token) /\ t \in Seq(Token) /\ IsPrefix(s, t) /\ IsInjective(t)
  BY <1>1, <1>2, <1>3 DEF Plain
<1> HIDE DEF s, t
<1>5. Len(s) <= Len(t) /\ \A k \in 1..Len(s) : s[k] = t[k]
  BY <1>4, PrefixIs
<1>6. IsInjective(s)
  BY <1>4, <1>5 DEF IsInjective
<1> QED BY <1>3, <1>6 DEF s

(***************************************************************************)
(* What a frame does to entries that fit the messages.                     *)
(***************************************************************************)
LEMMA NamesDiffer ==
    /\ \A i, j : LiveId(i) # ItemId(j)
    /\ \A i, j : LiveId(i) = LiveId(j) <=> i = j
    /\ \A i, j : ItemId(i) = ItemId(j) <=> i = j
    /\ \A i \in 1..MaxItem : LiveId(i) # NoId /\ ItemId(i) # NoId
<1>1. \A i, j : LiveId(i) # ItemId(j)
  BY DEF LiveId, ItemId
<1>2. \A i, j : LiveId(i) = LiveId(j) <=> i = j
  BY DEF LiveId
<1>3. \A i, j : ItemId(i) = ItemId(j) <=> i = j
  BY DEF ItemId
<1>4. \A i \in 1..MaxItem : LiveId(i) # NoId /\ ItemId(i) # NoId
  BY LiveIds, StreamAssumption
<1> QED BY <1>1, <1>2, <1>3, <1>4

LEMMA ResolveFits ==
    ASSUME NEW es, List(es), NamesFit(es), NEW i \in 1..MaxItem, Len(es) = i
    PROVE  LET r == ResolveLive(es, LiveId(i))
           IN  /\ r.at = i /\ List(r.list) /\ Len(r.list) = i
               /\ \A k \in 1..(i - 1) : r.list[k] = es[k]
               /\ HasLive(r.list[i], i)
               /\ r.list[i].text = es[i].text /\ r.list[i].cursor = es[i].cursor
<1> DEFINE known == FindIndex(es, LiveId(i))
           tail == LastUnnamed(es)
           r == ResolveLive(es, LiveId(i))
<1>1. r = IF known # 0 THEN [list |-> es, at |-> known]
          ELSE IF tail # 0 THEN [list |-> [es EXCEPT ![tail].live = LiveId(i)], at |-> tail]
          ELSE [list |-> Append(es, Fresh(LiveId(i))), at |-> Len(es) + 1]
  BY DEF ResolveLive, LastUnnamed
<1>2. /\ Len(es) \in Nat /\ DOMAIN es = 1..Len(es) /\ LiveId(i) \in Id /\ i \in 1..Len(es)
      /\ es[i] \in Entries /\ \A k \in 1..Len(es) : EntryFits(es[k], k)
      /\ \A k \in 1..Len(es) : k \in 1..MaxItem
  BY LiveIds, StreamAssumption DEF List, NamesFit
<1>3. \A k \in 1..Len(es) : Matches(es[k], LiveId(i)) => k = i
  BY <1>2, NamesDiffer DEF EntryFits, HasLive, Matches
<1>4. List(r.list)
  BY <1>2, ResolveType
<1>5. CASE HasLive(es[i], i)
  <2>1. Matches(es[i], LiveId(i))
    BY <1>5 DEF HasLive, Matches
  <2>2. known = i
    BY <1>2, <1>3, <2>1, Found
  <2>3. r = [list |-> es, at |-> i]
    BY <1>1, <1>2, <2>2
  <2> HIDE DEF r, known, tail
  <2> QED BY <1>2, <1>5, <2>3 DEF r
<1>6. CASE ~HasLive(es[i], i)
  <2>1. es[i].item = ItemId(i) /\ es[i].poll = NoId /\ es[i].live = NoId /\ es[i].cursor # NoCursor
    BY <1>2, <1>6 DEF EntryFits
  <2>2. ~Matches(es[i], LiveId(i))
    BY <1>2, <2>1, NamesDiffer DEF Matches
  <2>3. known = 0
    BY <1>2, <1>3, <2>2, Found
  <2>4. tail = i
    <3>1. Unnamed(es[i])
      BY <2>1 DEF Unnamed
    <3>2. tail \in 1..Len(es) /\ i <= tail
      BY <1>2, <3>1, FoundLast
    <3> QED BY <1>2, <3>2
  <2> DEFINE e == [es[i] EXCEPT !.live = LiveId(i)]
  <2>5. r = [list |-> [es EXCEPT ![i] = e], at |-> i]
    BY <1>1, <1>2, <2>3, <2>4
  <2>6. /\ e.item = es[i].item /\ e.poll = es[i].poll /\ e.live = LiveId(i)
        /\ e.text = es[i].text /\ e.cursor = es[i].cursor
    BY <1>2 DEF Entries
  <2>7. HasLive(e, i)
    BY <2>1, <2>6 DEF HasLive
  <2> HIDE DEF r, known, tail, e
  <2>8. /\ r.at = i /\ r.list = [es EXCEPT ![i] = e]
    BY <2>5
  <2>9. /\ Len(r.list) = i /\ r.list[i] = e /\ \A k \in 1..(i - 1) : r.list[k] = es[k]
    BY <1>2, <2>8 DEF List
  <2> QED BY <1>4, <2>6, <2>7, <2>8, <2>9 DEF r
<1> QED BY <1>5, <1>6

\* No token of x is in d, which is not empty.
New(x, d) == d # <<>> /\ \A k \in DOMAIN x, j \in DOMAIN d : x[k] # d[j]

LEMMA TakeDeltaFits ==
    ASSUME NEW e \in Entries, CursorFits(e), NEW d \in Seq(Token)
    PROVE  LET x == TakeDelta(e, d)
           IN  /\ x.item = e.item /\ x.live = e.live /\ x.poll = e.poll
               /\ e.cursor = NoCursor => x.cursor = NoCursor
               /\ New(e.text, d) => x.text = e.text \o d
<1> DEFINE remaining == IF e.cursor = NoCursor THEN <<>>
                        ELSE SubSeq(e.text, e.cursor + 1, Len(e.text))
           replays   == remaining # <<>> /\ IsPrefix(d, remaining)
           overlaps  == remaining # <<>> /\ IsPrefix(remaining, d)
           fragment  == IF overlaps THEN SubSeq(d, Len(remaining) + 1, Len(d)) ELSE d
           moved     == e.cursor + Len(d)
           c         == IF moved < Len(e.text) THEN moved ELSE NoCursor
           x         == TakeDelta(e, d)
<1>1. x = IF replays THEN [e EXCEPT !.cursor = c]
          ELSE [e EXCEPT !.text = e.text \o fragment, !.cursor = NoCursor]
  BY DEF TakeDelta
<1>2. /\ e.text \in Seq(Token) /\ Len(e.text) \in Nat
      /\ e.cursor # NoCursor => e.cursor \in Nat
  BY DEF Entries, CursorFits, NoCursor
<1>3. CASE replays
  <2>1. e.cursor # NoCursor
    BY <1>3
  <2>2. x = [e EXCEPT !.cursor = c]
    BY <1>1, <1>3
  <2>3. ~New(e.text, d)
    <3>1. /\ remaining \in Seq(Token)
          /\ \A k \in 1..(Len(e.text) - e.cursor) : remaining[k] = e.text[e.cursor + k]
          /\ Len(remaining) = IF e.cursor < Len(e.text) THEN Len(e.text) - e.cursor ELSE 0
      BY <1>2, <2>1, Dropped
    <3> DEFINE q == remaining
    <3>2. q \in Seq(Token) /\ IsPrefix(d, q) /\ q # <<>>
      BY <1>3, <3>1
    <3>3. \A k \in 1..(Len(e.text) - e.cursor) : q[k] = e.text[e.cursor + k]
      BY <3>1
    <3>4. Len(q) = IF e.cursor < Len(e.text) THEN Len(e.text) - e.cursor ELSE 0
      BY <3>1
    <3> HIDE DEF q
    <3>5. SUFFICES ASSUME New(e.text, d) PROVE FALSE
      OBVIOUS
    <3>6. Len(d) \in Nat /\ Len(d) >= 1 /\ 1 \in DOMAIN d
      BY <3>5 DEF New
    <3>7. Len(d) <= Len(q) /\ d[1] = q[1]
      BY <3>2, <3>6, PrefixIs
    <3>8. 1 \in 1..(Len(e.text) - e.cursor) /\ e.cursor + 1 \in DOMAIN e.text
      BY <1>2, <2>1, <3>4, <3>6, <3>7
    <3>9. d[1] = e.text[e.cursor + 1]
      BY <3>3, <3>7, <3>8
    <3> QED BY <3>5, <3>6, <3>8, <3>9 DEF New
  <2> HIDE DEF x, c
  <2> QED BY <2>1, <2>2, <2>3 DEF Entries, x
<1>4. CASE ~replays
  <2>1. x = [e EXCEPT !.text = e.text \o fragment, !.cursor = NoCursor]
    BY <1>1, <1>4
  <2>2. ASSUME New(e.text, d) PROVE fragment = d
    <3>1. SUFFICES ASSUME overlaps PROVE FALSE
      OBVIOUS
    <3>2. e.cursor # NoCursor
      BY <3>1
    <3>3. /\ remaining \in Seq(Token)
          /\ \A k \in 1..(Len(e.text) - e.cursor) : remaining[k] = e.text[e.cursor + k]
          /\ Len(remaining) = IF e.cursor < Len(e.text) THEN Len(e.text) - e.cursor ELSE 0
      BY <1>2, <3>2, Dropped
    <3> DEFINE q == remaining
    <3>4. q \in Seq(Token) /\ IsPrefix(q, d) /\ q # <<>>
      BY <3>1, <3>3
    <3>5. \A k \in 1..(Len(e.text) - e.cursor) : q[k] = e.text[e.cursor + k]
      BY <3>3
    <3>6. Len(q) = IF e.cursor < Len(e.text) THEN Len(e.text) - e.cursor ELSE 0
      BY <3>3
    <3> HIDE DEF q
    <3>7. Len(q) >= 1 /\ Len(q) <= Len(d) /\ q[1] = d[1] /\ 1 \in DOMAIN d
      <4>1. Len(q) >= 1
        BY <3>4
      <4>2. Len(q) <= Len(d) /\ \A k \in 1..Len(q) : q[k] = d[k]
        BY <3>4, PrefixIs
      <4>3. 1 \in 1..Len(q) /\ 1 \in DOMAIN d
        BY <3>4, <4>1, <4>2
      <4> QED BY <4>1, <4>2, <4>3
    <3>8. 1 \in 1..(Len(e.text) - e.cursor) /\ e.cursor + 1 \in DOMAIN e.text
      BY <1>2, <3>2, <3>6, <3>7
    <3>9. d[1] = e.text[e.cursor + 1]
      BY <3>5, <3>7, <3>8
    <3> QED BY <2>2, <3>7, <3>8, <3>9 DEF New
  <2> HIDE DEF x, fragment
  <2>3. /\ x.item = e.item /\ x.live = e.live /\ x.poll = e.poll /\ x.cursor = NoCursor
        /\ x.text = e.text \o fragment
    <3> DEFINE y == e.text \o fragment
               g == [e EXCEPT !.text = y]
    <3>1. /\ g.item = e.item /\ g.live = e.live /\ g.poll = e.poll /\ g.text = y
          /\ DOMAIN g = {"item", "live", "poll", "text", "cursor"}
      BY DEF Entries
    <3>2. x = [g EXCEPT !.cursor = NoCursor]
      BY <2>1
    <3> HIDE DEF g, y
    <3>3. /\ x.item = g.item /\ x.live = g.live /\ x.poll = g.poll /\ x.text = g.text
          /\ x.cursor = NoCursor
      BY <3>1, <3>2
    <3> QED BY <3>1, <3>3 DEF y
  <2> QED BY <2>2, <2>3 DEF x
<1> QED BY <1>3, <1>4

\* One entry of a list that fits is exchanged for one that fits there.
LEMMA ExchangeFits ==
    ASSUME NEW es, List(es), NamesFit(es), NEW i \in 1..Len(es), NEW e \in Entries, CursorFits(e),
           EntryFits(e, i)
    PROVE  LET x == [es EXCEPT ![i] = e]
           IN  /\ List(x) /\ NamesFit(x) /\ Len(x) = Len(es) /\ x[i] = e
               /\ \A k \in 1..Len(es) : k # i => x[k] = es[k]
<1> DEFINE x == [es EXCEPT ![i] = e]
<1>1. es \in Seq(Entries) /\ DOMAIN es = 1..Len(es)
  BY DEF List
<1>2. List(x)
  BY <1>1, ListExcept
<1>3. /\ Len(x) = Len(es) /\ DOMAIN x = 1..Len(es) /\ x[i] = e
      /\ \A k \in 1..Len(es) : k # i => x[k] = es[k]
  BY <1>1
<1> HIDE DEF x
<1>4. \A k \in DOMAIN x : EntryFits(x[k], k)
  BY <1>1, <1>3 DEF NamesFit
<1> QED BY <1>2, <1>3, <1>4 DEF NamesFit, x

LEMMA DeltaFits ==
    ASSUME NEW es, List(es), NamesFit(es), NEW i \in 1..MaxItem, Len(es) = i, NEW d \in Seq(Token)
    PROVE  LET x == ApplyLiveDelta(es, LiveId(i), d)
           IN  /\ List(x) /\ NamesFit(x) /\ Len(x) = i
               /\ \A k \in 1..(i - 1) : x[k].text = es[k].text
               /\ New(es[i].text, d) => x[i].text = es[i].text \o d
<1> DEFINE r == ResolveLive(es, LiveId(i))
           l == r.list
           e == TakeDelta(l[i], d)
           x == ApplyLiveDelta(es, LiveId(i), d)
<1>1. /\ r.at = i /\ List(l) /\ Len(l) = i /\ \A k \in 1..(i - 1) : l[k] = es[k]
      /\ HasLive(l[i], i) /\ l[i].text = es[i].text
  BY ResolveFits
<1>2. x = [l EXCEPT ![i] = e]
  BY <1>1 DEF ApplyLiveDelta
<1>3. /\ i \in Nat /\ DOMAIN es = 1..i /\ DOMAIN l = 1..i /\ i \in 1..i
      /\ l[i] \in Entries /\ CursorFits(l[i])
  BY <1>1, StreamAssumption DEF List
<1> HIDE DEF r, l, x
<1>4. NamesFit(l)
  <2>1. ASSUME NEW k \in 1..i PROVE EntryFits(l[k], k)
    <3>1. CASE k = i
      BY <1>1, <3>1 DEF EntryFits
    <3>2. CASE k # i
      <4>1. k \in 1..(i - 1)
        BY <1>3, <3>2
      <4> QED BY <1>1, <1>3, <4>1 DEF NamesFit
    <3> QED BY <3>1, <3>2
  <2> QED BY <1>3, <2>1 DEF NamesFit
<1>5. /\ e.item = l[i].item /\ e.live = l[i].live /\ e.poll = l[i].poll
      /\ l[i].cursor = NoCursor => e.cursor = NoCursor
      /\ New(l[i].text, d) => e.text = l[i].text \o d
      /\ e \in Entries /\ CursorFits(e)
  BY <1>3, TakeDeltaFits, TakeDeltaType
<1> HIDE DEF e
<1>6. EntryFits(e, i)
  BY <1>1, <1>5 DEF HasLive, EntryFits
<1>7. /\ List(x) /\ NamesFit(x) /\ Len(x) = i /\ x[i] = e
      /\ \A k \in 1..i : k # i => x[k] = l[k]
  BY <1>1, <1>2, <1>3, <1>4, <1>5, <1>6, ExchangeFits
<1>8. \A k \in 1..(i - 1) : k \in 1..i /\ k # i
  BY <1>3
<1> QED BY <1>1, <1>5, <1>7, <1>8 DEF x

LEMMA CompleteFits ==
    ASSUME NEW es, List(es), NamesFit(es), NEW i \in 1..MaxItem, Len(es) = i, NEW t \in Seq(Token)
    PROVE  LET x == CompleteLive(es, LiveId(i), t)
           IN  /\ List(x) /\ NamesFit(x) /\ Len(x) = i
               /\ \A k \in 1..(i - 1) : x[k].text = es[k].text
               /\ x[i].text = t
<1> DEFINE r == ResolveLive(es, LiveId(i))
           l == r.list
           g == [l[i] EXCEPT !.text = t]
           e == [l[i] EXCEPT !.text = t, !.cursor = NoCursor]
           x == CompleteLive(es, LiveId(i), t)
<1>1. /\ r.at = i /\ List(l) /\ Len(l) = i /\ \A k \in 1..(i - 1) : l[k] = es[k]
      /\ HasLive(l[i], i)
  BY ResolveFits
<1>2. x = [l EXCEPT ![i] = e]
  BY <1>1 DEF CompleteLive
<1>3. /\ i \in Nat /\ DOMAIN es = 1..i /\ DOMAIN l = 1..i /\ i \in 1..i
      /\ l[i] \in Entries
  BY <1>1, StreamAssumption DEF List
<1> HIDE DEF r, l, x
<1>4. NamesFit(l)
  <2>1. ASSUME NEW k \in 1..i PROVE EntryFits(l[k], k)
    <3>1. CASE k = i
      BY <1>1, <3>1 DEF EntryFits
    <3>2. CASE k # i
      <4>1. k \in 1..(i - 1)
        BY <1>3, <3>2
      <4> QED BY <1>1, <1>3, <4>1 DEF NamesFit
    <3> QED BY <3>1, <3>2
  <2> QED BY <1>3, <2>1 DEF NamesFit
<1>5. e \in Entries /\ CursorFits(e)
  BY <1>3, TextType, Zenon
<1>6. /\ e.item = l[i].item /\ e.live = l[i].live /\ e.poll = l[i].poll /\ e.text = t
      /\ e.cursor = NoCursor
  <2>1. /\ g.item = l[i].item /\ g.live = l[i].live /\ g.poll = l[i].poll /\ g.text = t
        /\ DOMAIN g = {"item", "live", "poll", "text", "cursor"}
    BY <1>3 DEF Entries
  <2>2. e = [g EXCEPT !.cursor = NoCursor]
    OBVIOUS
  <2> HIDE DEF g, e
  <2>3. /\ e.item = g.item /\ e.live = g.live /\ e.poll = g.poll /\ e.text = g.text
        /\ e.cursor = NoCursor
    BY <2>1, <2>2
  <2> QED BY <2>1, <2>3
<1> HIDE DEF e, g
<1>7. EntryFits(e, i)
  BY <1>1, <1>6 DEF HasLive, EntryFits
<1>8. /\ List(x) /\ NamesFit(x) /\ Len(x) = i /\ x[i] = e
      /\ \A k \in 1..i : k # i => x[k] = l[k]
  BY <1>1, <1>2, <1>3, <1>4, <1>5, <1>7, ExchangeFits
<1>9. \A k \in 1..(i - 1) : k \in 1..i /\ k # i
  BY <1>3
<1> QED BY <1>1, <1>6, <1>8, <1>9 DEF x

LEMMA StartFits ==
    ASSUME NEW es, List(es), NamesFit(es), Len(es) + 1 \in 1..MaxItem
    PROVE  LET x == NoteStarted(es, LiveId(Len(es) + 1))
           IN  /\ List(x) /\ NamesFit(x) /\ Len(x) = Len(es) + 1
               /\ \A k \in 1..Len(es) : x[k] = es[k]
               /\ x[Len(es) + 1].text = <<>>
<1> DEFINE n == Len(es)
           id == LiveId(Len(es) + 1)
           x == Append(es, Fresh(id))
<1>1. n \in Nat /\ DOMAIN es = 1..n /\ id \in Id /\ es \in Seq(Entries)
  BY LiveIds DEF List
<1>2. \A k \in 1..n : ~Matches(es[k], id)
  <2>1. ASSUME NEW k \in 1..n PROVE ~Matches(es[k], id)
    <3>1. EntryFits(es[k], k) /\ k # n + 1 /\ k \in 1..MaxItem
      BY <1>1, StreamAssumption DEF NamesFit
    <3>2. n + 1 \in 1..MaxItem /\ id = LiveId(n + 1)
      OBVIOUS
    <3> HIDE DEF n, id
    <3> QED BY <3>1, <3>2, NamesDiffer DEF EntryFits, HasLive, Matches
  <2> QED BY <2>1
<1>3. FindIndex(es, id) = 0
  BY <1>1, <1>2, Found
<1>4. NoteStarted(es, id) = x
  BY <1>3 DEF NoteStarted
<1>5. List(x)
  BY <1>1, FreshType, ListAppend
<1>6. Len(x) = n + 1 /\ DOMAIN x = 1..(n + 1) /\ x[n + 1] = Fresh(id) /\ \A k \in 1..n : x[k] = es[k]
  BY <1>1
<1>7. EntryFits(Fresh(id), n + 1)
  BY DEF Fresh, Entry, EntryFits, HasLive
<1>8. Fresh(id).text = <<>>
  BY DEF Fresh, Entry
<1> HIDE DEF x, n, id
<1>9. NamesFit(x)
  <2>1. ASSUME NEW k \in 1..(n + 1) PROVE EntryFits(x[k], k)
    <3>1. CASE k = n + 1
      BY <1>6, <1>7, <3>1
    <3>2. CASE k # n + 1
      <4>1. k \in 1..n
        BY <1>1, <3>2
      <4> QED BY <1>1, <1>6, <4>1 DEF NamesFit
    <3> QED BY <3>1, <3>2
  <2> QED BY <1>6, <2>1 DEF NamesFit
<1> QED BY <1>4, <1>5, <1>6, <1>8, <1>9 DEF n, id

\* A snapshot tells of message p.
LEMMA SyncFits ==
    ASSUME NEW es, List(es), NamesFit(es), NEW p \in 1..Len(es), p \in 1..MaxItem,
           NEW t \in Seq(Token)
    PROVE  LET x == SyncItem(es, p, t)
           IN  /\ List(x) /\ NamesFit(x) /\ Len(x) = Len(es)
               /\ \A k \in 1..Len(es) : k # p => x[k] = es[k]
               /\ t = es[p].text => x[p].text = t
<1> DEFINE id       == ItemId(p)
           known    == FindIndex(es, id)
           at       == IF known # 0 THEN known
                       ELSE IF p \in DOMAIN es /\ es[p].poll = NoId THEN p ELSE 0
           f        == Named(es[p], id)
           e        == Told(f, t)
<1>1. SyncItem(es, p, t) =
        IF at = 0 THEN Append(es, Entry(id, t, NoCursor))
        ELSE [es EXCEPT ![at] = Told(Named(@, id), t)]
  BY DEF SyncItem, Told, Named
<1>2. /\ Len(es) \in Nat /\ DOMAIN es = 1..Len(es) /\ id \in Id
      /\ es[p] \in Entries /\ CursorFits(es[p])
      /\ \A k \in 1..Len(es) : EntryFits(es[k], k)
  BY LiveIds DEF List, NamesFit
<1>3. id # NoId
  BY NamesDiffer
<1>4. \A k \in 1..Len(es) : Matches(es[k], id) => k = p
  BY <1>2, <1>3, NamesDiffer DEF EntryFits, HasLive, Matches
<1>5. at = p
  <2>1. CASE known # 0
    BY <1>2, <1>4, <2>1, Found
  <2>2. CASE known = 0
    <3>1. ~Matches(es[p], id)
      BY <1>2, <2>2, Found
    <3>2. es[p].poll = NoId
      BY <1>2, <3>1 DEF EntryFits, HasLive, Matches
    <3> QED BY <1>2, <2>2, <3>2
  <2> QED BY <2>1, <2>2
<1>6. SyncItem(es, p, t) = [es EXCEPT ![p] = e]
  <2>1. p # 0
    OBVIOUS
  <2> QED BY <1>1, <1>2, <1>5, <2>1, Zenon
<1>7. f \in Entries /\ CursorFits(f)
  BY <1>2, NamedType
<1>8. EntryFits(f, p) /\ f.text = es[p].text
  <2>1. CASE es[p].item # id /\ es[p].poll = NoId
    <3> DEFINE g == [es[p] EXCEPT !.poll = id]
    <3>1. f = g
      BY <2>1 DEF Named
    <3>2. /\ g.item = es[p].item /\ g.live = es[p].live /\ g.poll = id /\ g.text = es[p].text
          /\ g.cursor = es[p].cursor
      BY <1>2 DEF Entries
    <3> HIDE DEF g, f
    <3> QED BY <1>2, <2>1, <3>1, <3>2 DEF EntryFits, HasLive
  <2>2. CASE ~(es[p].item # id /\ es[p].poll = NoId)
    BY <1>2, <2>2 DEF Named
  <2> QED BY <2>1, <2>2
<1> HIDE DEF f
<1>9. e \in Entries /\ CursorFits(e)
  BY <1>7, ToldType
<1>10. EntryFits(e, p) /\ (t = es[p].text => e.text = t)
  <2>1. CASE t = <<>> \/ t = f.text
    BY <1>8, <2>1 DEF Told
  <2>2. CASE ~(t = <<>> \/ t = f.text)
    <3> DEFINE c == IF f.cursor = NoCursor THEN NoCursor ELSE 0
               g == [f EXCEPT !.text = t]
    <3>1. e = [f EXCEPT !.text = t, !.cursor = c]
      BY <2>2 DEF Told
    <3> HIDE DEF c
    <3>2. /\ g.item = f.item /\ g.live = f.live /\ g.poll = f.poll /\ g.cursor = f.cursor
          /\ DOMAIN g = {"item", "live", "poll", "text", "cursor"}
      BY <1>7 DEF Entries
    <3>3. e = [g EXCEPT !.cursor = c]
      BY <3>1
    <3> HIDE DEF g, e
    <3>4. /\ e.item = f.item /\ e.live = f.live /\ e.poll = f.poll /\ e.cursor = c
      BY <3>2, <3>3
    <3>5. (f.cursor = NoCursor => c = NoCursor) /\ (f.cursor # NoCursor => c # NoCursor)
      BY DEF c, NoCursor
    <3>6. EntryFits(e, p)
      BY <1>8, <3>4, <3>5 DEF EntryFits, HasLive
    <3> QED BY <1>8, <2>2, <3>6
  <2> QED BY <2>1, <2>2
<1> HIDE DEF e
<1>11. LET x == [es EXCEPT ![p] = e]
       IN  /\ List(x) /\ NamesFit(x) /\ Len(x) = Len(es) /\ x[p] = e
           /\ \A k \in 1..Len(es) : k # p => x[k] = es[k]
  BY <1>9, <1>10, ExchangeFits
<1> QED BY <1>6, <1>10, <1>11

\* What the reconciliation may leave of notification f.
Variant(f, g) ==
    IF f.kind = "delta" THEN g = Nothing \/ \E x \in Seq(Token) : g = Delta(f.item, x)
    ELSE g = f

LEMMA LeftAlone ==
    ASSUME NEW es, NEW g, g.kind \notin {"started", "delta", "completed"}
    PROVE  Apply(es, g) = es
BY DEF Apply

\* Notification f, sent between a and b, is applied as g.
LEMMA StepFits ==
    ASSUME NEW a \in Moments, NEW b \in Moments, NEW f \in Notices, Follows(a, f, b),
           Len(b.text) <= MaxItem, Plain => \A i \in DOMAIN b.text : IsInjective(b.text[i]),
           NEW g, Variant(f, g),
           NEW es, List(es), NamesFit(es), Len(es) = Len(a.text)
    PROVE  LET x == Apply(es, g)
           IN  /\ List(x) /\ NamesFit(x) /\ Len(x) = Len(b.text)
               /\ Agrees(es, a, a) /\ (Plain /\ f.kind = "delta" => g = f) => Agrees(x, b, b)
               /\ \A t \in Moments :
                    /\ Agrees(es, a, t) /\ Later(b, t)
                    /\ Len(b.text) = Len(a.text) /\ Len(t.text) = Len(a.text)
                    /\ Plain /\ f.kind = "delta" => g = Nothing
                    => Agrees(x, b, t)
<1> DEFINE x == Apply(es, g)
           n == Len(a.text)
<1>1. /\ a.text \in Seq(Seq(Token)) /\ DOMAIN a.text = 1..n /\ n \in Nat /\ n = Len(a.text)
      /\ b.text \in Seq(Seq(Token)) /\ DOMAIN b.text = 1..Len(b.text) /\ Len(b.text) \in Nat
  BY DEF Moments
<1>2. es \in Seq(Entries) /\ DOMAIN es = 1..n
  BY DEF List
<1>3. CASE f.kind = "started"
  <2>1. /\ f.item = n + 1 /\ ~a.open /\ b = [text |-> Append(a.text, <<>>), open |-> TRUE]
        /\ g = f
    BY <1>3 DEF Follows, Variant
  <2>2. /\ Len(b.text) = n + 1 /\ b.text[n + 1] = <<>> /\ \A k \in 1..n : b.text[k] = a.text[k]
    BY <1>1, <2>1
  <2>3. x = NoteStarted(es, LiveId(Len(es) + 1))
    BY <1>3, <2>1 DEF Apply
  <2>4. Len(es) + 1 \in 1..MaxItem
    BY <1>1, <2>2, StreamAssumption
  <2> HIDE DEF x, n
  <2>5. /\ List(x) /\ NamesFit(x) /\ Len(x) = n + 1 /\ \A k \in 1..n : x[k] = es[k]
        /\ x[n + 1].text = <<>>
    BY <1>1, <2>3, <2>4, StartFits
  <2>6. DOMAIN x = 1..(n + 1)
    BY <2>5 DEF List
  <2>7. ASSUME Agrees(es, a, a), NEW k \in DOMAIN x PROVE x[k].text = b.text[k]
    <3>1. CASE k = n + 1
      BY <2>2, <2>5, <3>1
    <3>2. CASE k # n + 1
      <4>1. k \in 1..n
        BY <1>1, <2>6, <3>2
      <4>2. es[k].text = a.text[k]
        BY <1>2, <2>1, <2>7, <4>1 DEF Agrees, Closed
      <4> QED BY <2>2, <2>5, <4>1, <4>2
    <3> QED BY <3>1, <3>2
  <2>8. Len(b.text) # Len(a.text)
    BY <1>1, <2>2
  <2>9. Agrees(es, a, a) => Agrees(x, b, b)
    BY <2>7 DEF Agrees
  <2> QED BY <2>2, <2>5, <2>8, <2>9 DEF x
<1>4. CASE f.kind = "delta"
  <2>1. /\ f.item = n /\ a.open /\ f.text # <<>> /\ f.text \in Seq(Token) /\ n \in 1..MaxItem
        /\ b = [text |-> [a.text EXCEPT ![f.item] = @ \o f.text], open |-> TRUE]
    BY <1>4 DEF Follows, Notices
  <2>2. b.text = [a.text EXCEPT ![n] = a.text[n] \o f.text] /\ b.open = TRUE
    BY <2>1
  <2> DEFINE w == a.text[n] \o f.text
  <2>a. n \in 1..n /\ \A k \in 1..(n - 1) : k \in 1..n /\ k # n
    BY <1>1, <2>1
  <2>b. n \in 1..MaxItem /\ f.text \in Seq(Token) /\ f.text # <<>>
    BY <2>1
  <2> HIDE DEF w, n
  <2>c. /\ Len(b.text) = n /\ b.text[n] = w
        /\ \A k \in 1..(n - 1) : b.text[k] = a.text[k]
    <3>1. DOMAIN b.text = DOMAIN a.text /\ \A k \in DOMAIN a.text : b.text[k] = IF k = n THEN w ELSE a.text[k]
      BY <2>2 DEF w
    <3>2. Len(b.text) = n
      BY <1>1, <3>1
    <3> QED BY <1>1, <2>a, <3>1, <3>2
  <2>3. /\ Len(b.text) = n /\ b.text[n] = a.text[n] \o f.text
        /\ \A k \in 1..(n - 1) : b.text[k] = a.text[k]
    BY <2>c DEF w
  <2>4. /\ \A k \in 1..n : Closed(b, k) => Closed(a, k) /\ k # n
        /\ \A k \in 1..(n - 1) : Closed(a, k)
    BY <1>1, <2>1, <2>2, <2>3 DEF Closed
  <2> HIDE DEF x, n
  <2>5. /\ List(x) /\ NamesFit(x) /\ Len(x) = n
        /\ \A k \in 1..(n - 1) : x[k].text = es[k].text
        /\ g = Nothing => x = es
        /\ g = f /\ New(es[n].text, f.text) => x[n].text = es[n].text \o f.text
    <3>1. CASE g = Nothing
      <4>1. x = es /\ g # f
        BY <1>4, <3>1, LeftAlone DEF Nothing, x
      <4> QED BY <1>1, <4>1
    <3>2. ASSUME NEW d \in Seq(Token), g = Delta(f.item, d)
          PROVE  /\ List(x) /\ NamesFit(x) /\ Len(x) = n
                 /\ \A k \in 1..(n - 1) : x[k].text = es[k].text
                 /\ g # Nothing
                 /\ g = f /\ New(es[n].text, f.text) => x[n].text = es[n].text \o f.text
      <4>1. g.kind = "delta" /\ g.item = n /\ g.text = d /\ g # Nothing
        BY <2>1, <3>2 DEF Delta, Nothing
      <4>2. x = ApplyLiveDelta(es, LiveId(n), d)
        BY <4>1 DEF Apply, x
      <4>3. Len(es) = n
        BY <1>1
      <4>4. /\ List(x) /\ NamesFit(x) /\ Len(x) = n
            /\ \A k \in 1..(n - 1) : x[k].text = es[k].text
            /\ New(es[n].text, d) => x[n].text = es[n].text \o d
        BY <2>b, <4>2, <4>3, DeltaFits, Zenon
      <4> QED BY <4>1, <4>4
    <3> QED BY <1>4, <3>1, <3>2 DEF Variant
  <2>6. DOMAIN x = 1..n
    BY <2>5 DEF List
  <2>7. ASSUME Agrees(es, a, a), Plain => g = f PROVE Agrees(x, b, b)
    <3>1. ASSUME NEW k \in 1..n, Closed(b, k) \/ Plain PROVE x[k].text = b.text[k]
      <4>1. CASE k # n
        <5>1. k \in 1..(n - 1)
          BY <1>1, <4>1
        <5>2. es[k].text = a.text[k]
          BY <1>2, <2>4, <2>7, <5>1 DEF Agrees
        <5> QED BY <2>3, <2>5, <5>1, <5>2
      <4>2. CASE k = n
        <5>1. Plain /\ g = f /\ es[n].text = a.text[n]
          BY <1>2, <2>4, <2>7, <3>1, <4>2 DEF Agrees
        <5> DEFINE y == a.text[n]
                   z == b.text[n]
        <5>2. IsInjective(z) /\ z = y \o f.text /\ y \in Seq(Token)
          <6>1. n \in DOMAIN b.text /\ y \in Seq(Token)
            BY <1>1, <2>a, <2>3
          <6>2. IsInjective(z)
            BY <5>1, <6>1
          <6> QED BY <2>3, <6>1, <6>2
        <5> HIDE DEF y, z
        <5>3. New(y, f.text)
          <6>1. ASSUME NEW i \in DOMAIN y, NEW j \in DOMAIN f.text, y[i] = f.text[j] PROVE FALSE
            <7>1. /\ i \in 1..Len(y) /\ j \in 1..Len(f.text) /\ Len(y) \in Nat
              BY <2>1, <5>2
            <7>2. i \in DOMAIN z /\ Len(y) + j \in DOMAIN z /\ i # Len(y) + j
              BY <2>1, <5>2, <7>1
            <7>3. z[i] = y[i] /\ z[Len(y) + j] = f.text[j]
              BY <2>1, <5>2, <7>1, Joined
            <7> QED BY <5>2, <6>1, <7>2, <7>3 DEF IsInjective
          <6> QED BY <2>1, <6>1 DEF New
        <5> QED BY <2>3, <2>5, <4>2, <5>1, <5>3 DEF y
      <4> QED BY <4>1, <4>2
    <3> QED BY <2>6, <3>1 DEF Agrees
  <2>8. ASSUME NEW t \in Moments, Agrees(es, a, t), Plain => g = Nothing
        PROVE  Agrees(x, b, t)
    <3>1. ASSUME NEW k \in 1..n, Closed(b, k) \/ Plain PROVE x[k].text = t.text[k]
      <4>1. CASE k # n
        <5>1. k \in 1..(n - 1)
          BY <1>1, <4>1
        <5>2. es[k].text = t.text[k]
          BY <1>2, <2>4, <2>8, <5>1 DEF Agrees
        <5> QED BY <2>5, <5>1, <5>2
      <4>2. CASE k = n
        <5>1. Plain /\ x = es
          BY <2>4, <2>5, <2>8, <3>1, <4>2
        <5> QED BY <1>2, <2>8, <5>1 DEF Agrees
      <4> QED BY <4>1, <4>2
    <3> QED BY <2>6, <3>1 DEF Agrees
  <2> QED BY <1>4, <2>3, <2>5, <2>7, <2>8 DEF x
<1>5. CASE f.kind = "completed"
  <2>1. /\ f.item = n /\ a.open /\ f.text = a.text[n] /\ f.text \in Seq(Token) /\ n \in 1..MaxItem
        /\ b = [text |-> a.text, open |-> FALSE] /\ g = f
    BY <1>5 DEF Follows, Notices, Variant
  <2>2. b.text = a.text /\ b.open = FALSE
    BY <2>1
  <2>3. x = CompleteLive(es, LiveId(n), f.text)
    BY <1>5, <2>1 DEF Apply
  <2> HIDE DEF x, n
  <2>4. Len(es) = n
    BY <1>1
  <2>5. /\ List(x) /\ NamesFit(x) /\ Len(x) = n /\ x[n].text = a.text[n]
        /\ \A k \in 1..(n - 1) : x[k].text = es[k].text
    BY <2>1, <2>3, <2>4, CompleteFits
  <2>6. DOMAIN x = 1..n
    BY <2>5 DEF List
  <2>7. ASSUME NEW t \in Moments, Agrees(es, a, t), t.text[n] = a.text[n]
        PROVE  Agrees(x, b, t)
    <3>1. ASSUME NEW k \in 1..n PROVE x[k].text = t.text[k]
      <4>1. CASE k = n
        BY <2>5, <2>7, <4>1
      <4>2. CASE k # n
        <5>1. k \in 1..(n - 1) /\ Closed(a, k)
          BY <1>1, <4>2 DEF Closed
        <5>2. es[k].text = t.text[k]
          BY <1>2, <2>7, <5>1 DEF Agrees
        <5> QED BY <2>5, <5>1, <5>2
      <4> QED BY <4>1, <4>2
    <3> QED BY <2>6, <3>1 DEF Agrees
  <2>8. Agrees(es, a, a) => Agrees(x, b, b)
    <3>1. Agrees(es, a, a) => Agrees(x, b, a)
      BY <2>7
    <3> QED BY <2>2, <3>1 DEF Agrees
  <2>9. ASSUME NEW t \in Moments, Later(b, t) PROVE t.text[n] = a.text[n]
    <3>1. n \in DOMAIN b.text /\ Closed(b, n)
      BY <1>1, <2>1, <2>2 DEF Closed
    <3> QED BY <2>2, <2>9, <3>1 DEF Later
  <2> QED BY <1>1, <2>2, <2>5, <2>7, <2>8, <2>9 DEF x
<1>6. CASE f.kind = "turnCompleted"
  <2>1. b = a /\ g = f
    BY <1>6 DEF Follows, Variant
  <2>2. x = es
    BY <1>6, <2>1, LeftAlone
  <2> QED BY <2>1, <2>2
<1> QED BY <1>3, <1>4, <1>5, <1>6, FrameKinds

\* Notifications 1..n of fl, sent since past[0], are applied as gs to entries
\* that show what past[c] says; until c, which is before the next message is
\* declared, the deltas are left out.
LEMMA RunFits ==
    ASSUME NEW past, NEW fl \in Seq(Frames), History(past, fl, Now), TurnOK,
           NEW n \in 0..Len(fl), NEW gs \in Seq(Early), Len(gs) = n,
           \A k \in 1..n : fl[k] \in Notices /\ Variant(fl[k], gs[k]),
           NEW c \in 0..n, Len(past[c].text) = Len(past[0].text),
           \A k \in 1..n :
              Plain /\ fl[k].kind = "delta" => gs[k] = IF k <= c THEN Nothing ELSE fl[k],
           NEW es, List(es), NamesFit(es), Len(es) = Len(past[0].text)
    PROVE  LET x == ApplyAll(es, gs)
           IN  /\ List(x) /\ NamesFit(x) /\ Len(x) = Len(past[n].text)
               /\ Agrees(es, past[0], past[c]) => Agrees(x, past[n], past[n])
<1>1. /\ Len(fl) \in Nat /\ n \in Nat /\ c \in Nat /\ c <= n /\ n <= Len(fl)
      /\ Len(fl) \in 0..Len(fl)
  OBVIOUS
<1>2. PICK list : /\ list = [k \in 0..n |-> IF k = 0 THEN es ELSE Apply(list[k - 1], gs[k])]
                  /\ ApplyAll(es, gs) = list[n]
  <2>1. Len(gs) \in Nat
    BY <1>1
  <2>2. \E list : /\ list = [k \in 0..Len(gs) |->
                                IF k = 0 THEN es ELSE Apply(list[k - 1], gs[k])]
                  /\ ApplyAll(es, gs) = list[Len(gs)]
    BY <2>1, ApplySteps, Zenon
  <2> QED BY <2>2
<1>3. /\ list[0] = es /\ \A k \in 1..n : list[k] = Apply(list[k - 1], gs[k])
  <2>1. \A k \in 0..n : list[k] = IF k = 0 THEN es ELSE Apply(list[k - 1], gs[k])
    BY <1>2
  <2>2. 0 \in 0..n /\ \A k \in 1..n : k \in 0..n /\ k # 0
    BY <1>1
  <2> QED BY <2>1, <2>2
<1>4. ASSUME NEW k \in 0..n
      PROVE  /\ k \in 0..Len(fl) /\ past[k] \in Moments /\ Later(past[k], Now)
             /\ Len(past[k].text) \in Nat /\ Len(past[k].text) <= MaxItem
             /\ Plain => \A i \in DOMAIN past[k].text : IsInjective(past[k].text[i])
  <2>1. k \in 0..Len(fl) /\ k <= Len(fl)
    BY <1>1
  <2>2. past[k] \in Moments /\ Later(past[k], Now)
    BY <1>1, <2>1 DEF History
  <2>3. /\ Len(past[k].text) \in Nat /\ Len(past[k].text) <= Len(turn.text)
        /\ Len(turn.text) <= MaxItem /\ Len(turn.text) \in Nat
    BY <2>2, TurnType DEF TurnOK, Later, Now, Moments
  <2>4. Len(past[k].text) <= MaxItem
    BY <2>3, StreamAssumption
  <2>5. Plain => \A i \in DOMAIN past[k].text : IsInjective(past[k].text[i])
    BY <2>2, PlainPast
  <2> QED BY <2>1, <2>2, <2>3, <2>4, <2>5
<1>5. ASSUME NEW k \in 0..c PROVE k \in 0..n /\ Len(past[k].text) = Len(past[0].text)
  <2>1. k \in 0..n /\ 0 \in 0..n /\ c \in 0..n /\ 0 <= k /\ k <= c
    BY <1>1
  <2>2. /\ k \in 0..Len(fl) /\ 0 \in 0..Len(fl) /\ c \in 0..Len(fl)
        /\ Len(past[k].text) \in Nat /\ Len(past[0].text) \in Nat /\ Len(past[c].text) \in Nat
    BY <1>4, <2>1
  <2>3. Later(past[0], past[k]) /\ Later(past[k], past[c])
    BY <2>1, <2>2 DEF History
  <2> QED BY <2>1, <2>2, <2>3 DEF Later
<1> DEFINE Upto(k) == /\ List(list[k]) /\ NamesFit(list[k]) /\ Len(list[k]) = Len(past[k].text)
                      /\ Agrees(es, past[0], past[c]) =>
                           /\ k <= c => Agrees(list[k], past[k], past[c])
                           /\ k >= c => Agrees(list[k], past[k], past[k])
           T == {k \in 0..n : Upto(k)}
<1>6. 0 \in T
  <2>1. 0 >= c => c = 0
    BY <1>1
  <2> QED BY <1>1, <1>3, <2>1
<1>7. ASSUME NEW k \in 1..n, k - 1 \in T PROVE k \in T
  <2>1. k \in 0..n /\ k - 1 \in 0..n /\ k \in 1..Len(fl) /\ k \in Nat
    BY <1>1
  <2>2. Upto(k - 1)
    BY <1>7
  <2> DEFINE a == past[k - 1]
             b == past[k]
             f == fl[k]
             g == gs[k]
             l == list[k - 1]
             x == Apply(l, g)
  <2>3. list[k] = x
    BY <1>3
  <2>4. /\ a \in Moments /\ b \in Moments /\ f \in Notices /\ Follows(a, f, b)
        /\ Len(b.text) <= MaxItem
        /\ Plain => \A i \in DOMAIN b.text : IsInjective(b.text[i])
        /\ Variant(f, g)
    BY <1>4, <2>1 DEF History
  <2>5. List(l) /\ NamesFit(l) /\ Len(l) = Len(a.text)
    BY <2>2
  <2>6. Plain /\ f.kind = "delta" => g = IF k <= c THEN Nothing ELSE f
    OBVIOUS
  <2>7. k <= c => /\ Later(b, past[c]) /\ Len(b.text) = Len(a.text)
                  /\ Len(past[c].text) = Len(a.text) /\ past[c] \in Moments
    <3>1. CASE k <= c
      <4>1. k \in 0..c /\ k - 1 \in 0..c /\ c \in 0..c
        BY <1>1, <2>1, <3>1
      <4>2. k \in 0..Len(fl) /\ c \in 0..Len(fl) /\ past[c] \in Moments
        BY <1>4, <2>1
      <4>3. Later(b, past[c])
        BY <3>1, <4>2 DEF History
      <4>4. /\ Len(past[k].text) = Len(past[0].text) /\ Len(past[k - 1].text) = Len(past[0].text)
            /\ Len(past[c].text) = Len(past[0].text)
        BY <1>5, <4>1
      <4> QED BY <4>2, <4>3, <4>4
    <3> QED BY <3>1
  <2>8. Agrees(es, past[0], past[c]) => /\ k <= c => Agrees(l, a, past[c])
                                        /\ k > c => Agrees(l, a, a)
    <3>1. (k <= c => k - 1 <= c) /\ (k > c => k - 1 >= c)
      BY <1>1, <2>1
    <3> QED BY <2>2, <3>1
  <2>9. k >= c => k > c \/ b = past[c]
    BY <1>1, <2>1
  <2> HIDE DEF a, b, f, g, l
  <2>10. /\ List(x) /\ NamesFit(x) /\ Len(x) = Len(b.text)
         /\ Agrees(l, a, a) /\ (Plain /\ f.kind = "delta" => g = f) => Agrees(x, b, b)
         /\ \A t \in Moments :
              /\ Agrees(l, a, t) /\ Later(b, t)
              /\ Len(b.text) = Len(a.text) /\ Len(t.text) = Len(a.text)
              /\ Plain /\ f.kind = "delta" => g = Nothing
              => Agrees(x, b, t)
    BY <2>4, <2>5, StepFits
  <2> HIDE DEF x
  <2>11. ASSUME Agrees(es, past[0], past[c])
         PROVE  (k <= c => Agrees(x, b, past[c])) /\ (k >= c => Agrees(x, b, b))
    <3>1. CASE k <= c
      <4>1. Agrees(x, b, past[c])
        BY <2>6, <2>7, <2>8, <2>10, <2>11, <3>1
      <4>2. k >= c => b = past[c]
        BY <1>1, <2>1, <2>9, <3>1
      <4> QED BY <4>1, <4>2
    <3>2. CASE k > c
      <4>1. ~(k <= c)
        BY <1>1, <2>1, <3>2
      <4>2. Agrees(x, b, b)
        BY <2>6, <2>8, <2>10, <2>11, <3>2, <4>1
      <4> QED BY <4>1, <4>2
    <3> QED BY <1>1, <2>1, <3>1, <3>2
  <2> QED BY <2>1, <2>3, <2>10, <2>11 DEF b
<1>8. n \in T
  <2> HIDE DEF T
  <2>1. 0..n \subseteq T
    BY <1>1, <1>6, <1>7, UpTo
  <2> QED BY <1>1, <2>1
<1>9. n >= c
  BY <1>1
<1> QED BY <1>2, <1>8, <1>9

\* A snapshot of moment m tells nothing new to entries that show m.
LEMMA PollFits ==
    ASSUME NEW es, List(es), NamesFit(es), Len(es) <= MaxItem,
           NEW texts \in Seq(Seq(Token)), Len(texts) <= Len(es), NEW m
    PROVE  LET x == SyncFromTurn(es, texts)
           IN  /\ List(x) /\ NamesFit(x) /\ Len(x) = Len(es)
               /\ texts = m.text /\ Agrees(es, m, m) => Agrees(x, m, m)
<1> DEFINE n == Len(texts)
<1>1. /\ n \in Nat /\ DOMAIN texts = 1..n /\ Len(es) \in Nat /\ DOMAIN es = 1..Len(es)
      /\ \A p \in 1..n : p \in 1..Len(es) /\ p \in 1..MaxItem /\ texts[p] \in Seq(Token)
  BY StreamAssumption DEF List
<1>2. PICK list : /\ list = [p \in 0..n |-> IF p = 0 THEN es ELSE SyncItem(list[p - 1], p, texts[p])]
                  /\ SyncFromTurn(es, texts) = list[n]
  BY <1>1, SyncSteps
<1>3. list[0] = es /\ \A p \in 1..n : list[p] = SyncItem(list[p - 1], p, texts[p])
  <2>1. \A p \in 0..n : list[p] = IF p = 0 THEN es ELSE SyncItem(list[p - 1], p, texts[p])
    BY <1>2
  <2>2. 0 \in 0..n /\ \A p \in 1..n : p \in 0..n /\ p # 0
    BY <1>1
  <2> QED BY <2>1, <2>2
<1> HIDE DEF n
<1> DEFINE T == {p \in 0..n : /\ List(list[p]) /\ NamesFit(list[p]) /\ Len(list[p]) = Len(es)
                              /\ texts = m.text /\ Agrees(es, m, m) => Agrees(list[p], m, m)}
<1>4. 0 \in T
  BY <1>1, <1>3
<1>5. ASSUME NEW p \in 1..n, p - 1 \in T PROVE p \in T
  <2> DEFINE l == list[p - 1]
             x == SyncItem(l, p, texts[p])
  <2>1. /\ List(l) /\ NamesFit(l) /\ Len(l) = Len(es)
        /\ texts = m.text /\ Agrees(es, m, m) => Agrees(l, m, m)
    BY <1>5
  <2>2. list[p] = x /\ p \in 0..n /\ p \in 1..Len(es) /\ p \in 1..MaxItem /\ texts[p] \in Seq(Token)
    BY <1>1, <1>3
  <2> HIDE DEF l
  <2>3. /\ List(x) /\ NamesFit(x) /\ Len(x) = Len(l)
        /\ \A k \in 1..Len(l) : k # p => x[k] = l[k]
        /\ texts[p] = l[p].text => x[p].text = texts[p]
    BY <2>1, <2>2, SyncFits, SMTT(30)
  <2> HIDE DEF x
  <2>4. DOMAIN x = 1..Len(es) /\ DOMAIN l = 1..Len(es)
    BY <2>1, <2>3 DEF List
  <2>5. ASSUME texts = m.text, Agrees(es, m, m) PROVE Agrees(x, m, m)
    <3>1. ASSUME NEW k \in 1..Len(es), Closed(m, k) \/ Plain PROVE x[k].text = m.text[k]
      <4>1. l[k].text = m.text[k]
        BY <2>1, <2>4, <2>5, <3>1 DEF Agrees
      <4>2. CASE k = p
        BY <2>3, <2>5, <4>1, <4>2
      <4>3. CASE k # p
        BY <2>1, <2>3, <4>1, <4>3
      <4> QED BY <4>2, <4>3
    <3> QED BY <2>4, <3>1 DEF Agrees
  <2> QED BY <2>1, <2>2, <2>3, <2>5
<1>6. n \in T
  <2> HIDE DEF T
  <2>1. 0..n \subseteq T
    BY <1>1, <1>4, <1>5, UpTo
  <2> QED BY <1>1, <2>1
<1> QED BY <1>2, <1>6

(***************************************************************************)
(* A resume.  The notifications ns were set aside since past[0]; the       *)
(* snapshot was taken at past[c].                                          *)
(***************************************************************************)
Resumed(past, ns, c) ==
    /\ \A k \in 0..Len(ns) : past[k] \in Moments
    /\ \A k \in 1..Len(ns) : Follows(past[k - 1], ns[k], past[k])
    /\ \A i, j \in 0..Len(ns) : i <= j => Later(past[i], past[j])
    /\ c \in 0..Len(ns) /\ Len(past[c].text) = Len(past[0].text)

\* Only a delta changes the text of a message.
LEMMA FollowsText ==
    ASSUME NEW a \in Moments, NEW b \in Moments, NEW f, Follows(a, f, b)
    PROVE  /\ f.kind # "started" => Len(b.text) = Len(a.text)
           /\ f.kind = "started" => b.text = Append(a.text, <<>>)
           /\ f.kind = "delta" =>
                /\ f.item = Len(a.text)
                /\ \A i \in DOMAIN a.text :
                     b.text[i] = IF i = f.item THEN a.text[i] \o f.text ELSE a.text[i]
           /\ f.kind \notin {"started", "delta"} => b.text = a.text
<1>1. CASE f.kind = "started"
  <2>1. b = [text |-> Append(a.text, <<>>), open |-> TRUE]
    BY <1>1 DEF Follows
  <2> QED BY <1>1, <2>1
<1>2. CASE f.kind = "delta"
  <2> DEFINE w == [a.text EXCEPT ![f.item] = @ \o f.text]
  <2>1. b = [text |-> w, open |-> TRUE] /\ f.item = Len(a.text)
    BY <1>2 DEF Follows
  <2>2. \A i \in DOMAIN a.text : w[i] = IF i = f.item THEN a.text[i] \o f.text ELSE a.text[i]
    OBVIOUS
  <2>3. DOMAIN w = DOMAIN a.text
    OBVIOUS
  <2> HIDE DEF w
  <2>4. b.text = w
    BY <2>1
  <2>5. Len(b.text) = Len(a.text)
    BY <2>3, <2>4 DEF Moments
  <2> QED BY <1>2, <2>1, <2>2, <2>4, <2>5
<1>3. CASE f.kind \notin {"started", "delta"}
  <2>1. b = a \/ b = [text |-> a.text, open |-> FALSE]
    BY <1>3 DEF Follows
  <2> QED BY <1>3, <2>1
<1> QED BY <1>1, <1>2, <1>3

\* Messages that are not in the snapshot are declared in ns.
LEMMA Declared ==
    ASSUME NEW past, NEW ns \in Seq(Notices), NEW c, Resumed(past, ns, c), NEW k \in 0..Len(ns),
           Len(past[k].text) > Len(past[0].text)
    PROVE  \E j \in 1..k : ns[j].kind = "started" /\ ns[j].item = Len(past[k].text)
<1> DEFINE n == Len(ns)
           D(i) == \E j \in 1..i : ns[j].kind = "started" /\ ns[j].item = Len(past[i].text)
           T == {i \in 0..n : Len(past[i].text) > Len(past[0].text) => D(i)}
<1>1. n \in Nat /\ \A i \in 0..n : past[i] \in Moments /\ Len(past[i].text) \in Nat
  BY DEF Resumed, Moments
<1>2. 0 \in T
  BY <1>1
<1>3. ASSUME NEW i \in 1..n, i - 1 \in T PROVE i \in T
  <2>1. i \in 0..n /\ i - 1 \in 0..n
    BY <1>1
  <2>2. Follows(past[i - 1], ns[i], past[i]) /\ past[i - 1] \in Moments /\ past[i] \in Moments
    BY <1>1, <2>1 DEF Resumed
  <2>3. CASE ns[i].kind = "started"
    <3>1. /\ ns[i].item = Len(past[i - 1].text) + 1
          /\ past[i].text = Append(past[i - 1].text, <<>>)
      BY <2>2, <2>3 DEF Follows
    <3>2. Len(past[i].text) = Len(past[i - 1].text) + 1
      BY <2>2, <3>1 DEF Moments
    <3>3. i \in 1..i
      BY <1>1
    <3> QED BY <2>1, <2>3, <3>1, <3>2, <3>3
  <2>4. CASE ns[i].kind # "started"
    <3>1. Len(past[i].text) = Len(past[i - 1].text)
      BY <2>2, <2>4, FollowsText
    <3>2. \A j \in 1..(i - 1) : j \in 1..i
      BY <1>1
    <3> QED BY <1>3, <2>1, <3>1, <3>2
  <2> QED BY <2>3, <2>4
<1>4. k \in T
  <2> HIDE DEF T, n
  <2>1. 0..n \subseteq T
    BY <1>1, <1>2, <1>3, UpTo
  <2> QED BY <2>1 DEF n
<1> QED BY <1>4

LEMMA SeedKeys ==
    ASSUME NEW texts \in Seq(Seq(Token)), Len(texts) <= MaxItem
    PROVE  LET seed == Seed(texts)
           IN  /\ \A i \in 1..MaxItem : FindIndex(seed, LiveId(i)) = 0
               /\ \A p \in 1..Len(texts) : Known(seed, ItemId(p)) = texts[p]
               /\ seed = <<>> <=> Len(texts) = 0
               /\ Len(texts) > 0 => Last(seed).item = ItemId(Len(texts))
<1> DEFINE seed == Seed(texts)
           n    == Len(texts)
<1>1. /\ List(seed) /\ Len(seed) = n /\ n \in Nat
      /\ \A p \in 1..n : seed[p] = Entry(ItemId(p), texts[p], 0)
  BY SeedType
<1>2. \A p \in 1..n : /\ seed[p].item = ItemId(p) /\ seed[p].live = NoId /\ seed[p].poll = NoId
                      /\ seed[p].text = texts[p]
  <2> SUFFICES ASSUME NEW p \in 1..n
               PROVE  /\ seed[p].item = ItemId(p) /\ seed[p].live = NoId
                      /\ seed[p].poll = NoId /\ seed[p].text = texts[p]
    OBVIOUS
  <2>1. seed[p] = Entry(ItemId(p), texts[p], 0)
    BY <1>1
  <2> HIDE DEF seed
  <2> QED BY <2>1 DEF Entry
<1>a. \A p \in 1..n : p \in 1..MaxItem
  BY <1>1, StreamAssumption
<1> HIDE DEF seed, n
<1>3. ASSUME NEW i \in 1..MaxItem PROVE FindIndex(seed, LiveId(i)) = 0
  <2>1. \A p \in 1..n : ~Matches(seed[p], LiveId(i))
    BY <1>2, <1>a, NamesDiffer DEF Matches
  <2> QED BY <1>1, <2>1, Found
<1>4. ASSUME NEW p \in 1..n PROVE Known(seed, ItemId(p)) = texts[p]
  <2>1. \A k \in 1..n : Matches(seed[k], ItemId(p)) <=> k = p
    BY <1>2, <1>a, NamesDiffer DEF Matches
  <2>2. FindIndex(seed, ItemId(p)) = p /\ p # 0
    BY <1>1, <2>1, Found
  <2> QED BY <1>2, <2>2 DEF Known
<1>5. seed = <<>> <=> n = 0
  BY <1>1 DEF List
<1>6. n > 0 => Last(seed).item = ItemId(n)
  <2>1. n > 0 => n \in 1..n
    BY <1>1
  <2> QED BY <1>1, <1>2, <2>1 DEF Last
<1> QED BY <1>3, <1>4, <1>5, <1>6 DEF seed, n

\* A delta of ns is for the last message of the snapshot, or for a later one.
LEMMA KeyIs ==
    ASSUME NEW past, NEW ns \in Seq(Notices), NEW c, Resumed(past, ns, c),
           Len(past[c].text) <= MaxItem, NEW k \in 1..Len(ns), ns[k].kind = "delta"
    PROVE  LET key == ReplayKey(Seed(past[c].text), ns, LiveId(ns[k].item))
               n   == Len(past[0].text)
           IN  /\ n \in Nat
               /\ ns[k].item = n => key = ItemId(n) /\ n \in 1..MaxItem
               /\ ns[k].item # n => key = LiveId(ns[k].item) /\ c < k
<1> DEFINE texts == past[c].text
           seed  == Seed(texts)
           n     == Len(past[0].text)
           i     == ns[k].item
           key   == ReplayKey(seed, ns, LiveId(i))
<1>1. /\ Len(ns) \in Nat /\ k \in 0..Len(ns) /\ k - 1 \in 0..Len(ns) /\ c \in 0..Len(ns)
      /\ c \in Nat /\ k \in Nat /\ 0 \in 0..Len(ns) /\ 0 <= c
  BY DEF Resumed
<1>2. /\ past[k - 1] \in Moments /\ past[k] \in Moments /\ Follows(past[k - 1], ns[k], past[k])
      /\ past[c] \in Moments /\ past[0] \in Moments /\ Later(past[0], past[k])
  BY <1>1 DEF Resumed
<1>3. /\ i \in 1..MaxItem /\ i = Len(past[k].text) /\ n <= i /\ n \in Nat
      /\ Len(past[k - 1].text) = i
  <2>1. Len(past[k].text) = Len(past[k - 1].text) /\ i = Len(past[k - 1].text)
    BY <1>2, FollowsText
  <2>2. i \in 1..MaxItem
    BY DEF Notices
  <2> QED BY <1>2, <2>1, <2>2 DEF Later, Moments
<1>4. texts \in Seq(Seq(Token)) /\ Len(texts) = n /\ Len(texts) <= MaxItem
  BY <1>2 DEF Resumed, Moments
<1>5. /\ FindIndex(seed, LiveId(i)) = 0 /\ (seed = <<>> <=> n = 0)
      /\ n > 0 => Last(seed).item = ItemId(n)
  <2> HIDE DEF i, n, texts
  <2> QED BY <1>3, <1>4, SeedKeys
<1>6. CASE i = n
  <2>1. ASSUME NEW f \in ToSet(ns), f.kind = "started", LiveId(f.item) = LiveId(i) PROVE FALSE
    <3>1. PICK j \in 1..Len(ns) : f = ns[j]
      BY DEF ToSet
    <3>2. /\ j \in 0..Len(ns) /\ j - 1 \in 0..Len(ns) /\ 0 <= j - 1
      BY <1>1
    <3>3. /\ past[j - 1] \in Moments /\ past[j] \in Moments
          /\ Follows(past[j - 1], ns[j], past[j]) /\ Later(past[0], past[j - 1])
      BY <1>1, <3>2 DEF Resumed
    <3>4. f.item = Len(past[j - 1].text) + 1
      BY <2>1, <3>1, <3>3 DEF Follows
    <3>5. n <= Len(past[j - 1].text) /\ Len(past[j - 1].text) \in Nat
      BY <3>3 DEF Later, Moments
    <3>6. f.item = i
      BY <2>1, NamesDiffer
    <3> HIDE DEF i, n
    <3> QED BY <1>3, <1>6, <3>4, <3>5, <3>6
  <2>2. n > 0 /\ seed # <<>>
    BY <1>3, <1>5, <1>6
  <2>3. key = Last(seed).item
    <3> HIDE DEF seed, i, n
    <3> QED BY <1>5, <2>1, <2>2 DEF ReplayKey
  <2> HIDE DEF key, i, n
  <2> QED BY <1>3, <1>5, <1>6, <2>2, <2>3 DEF key, i, n
<1>7. CASE i # n
  <2>1. \E j \in 1..k : ns[j].kind = "started" /\ ns[j].item = i
    <3>1. Len(past[k].text) > Len(past[0].text)
      <4>1. i > n
        <5> HIDE DEF i, n
        <5> QED BY <1>3, <1>7
      <4> QED BY <1>3, <4>1
    <3>2. k \in 0..Len(ns)
      BY <1>1
    <3>3. \E j \in 1..k : ns[j].kind = "started" /\ ns[j].item = Len(past[k].text)
      BY <3>1, <3>2, Declared
    <3>4. i = Len(past[k].text)
      BY <1>3
    <3> HIDE DEF i
    <3> QED BY <3>3, <3>4
  <2>2. \E f \in ToSet(ns) : f.kind = "started" /\ LiveId(f.item) = LiveId(i)
    <3>1. PICK j \in 1..k : ns[j].kind = "started" /\ ns[j].item = i
      BY <2>1
    <3>2. j \in 1..Len(ns)
      BY <1>1
    <3>3. ns[j] \in ToSet(ns)
      BY <3>2 DEF ToSet
    <3> QED BY <3>1, <3>3
  <2>3. key = LiveId(i)
    <3> HIDE DEF seed, i
    <3> QED BY <2>2 DEF ReplayKey
  <2>4. c < k
    <3>1. SUFFICES ASSUME k <= c PROVE FALSE
      BY <1>1
    <3>2. Later(past[k], past[c])
      BY <1>1, <3>1 DEF Resumed
    <3>3. i <= n
      BY <1>3, <1>4, <3>2, SMTT(30) DEF Later
    <3> HIDE DEF i, n
    <3> QED BY <1>3, <1>7, <3>3
  <2> QED BY <1>3, <1>7, <2>3, <2>4
<1> QED BY <1>6, <1>7, <1>3

\* The last message of the snapshot is what it was, and what ns says of it.
LEMMA HeardSoFar ==
    ASSUME NEW past, NEW ns \in Seq(Notices), NEW c, Resumed(past, ns, c),
           Len(past[c].text) <= MaxItem, Len(past[0].text) \in 1..MaxItem, NEW k \in 0..Len(ns)
    PROVE  LET n     == Len(past[0].text)
               heard == Heard(Seed(past[c].text), ns, ItemId(n), k)
           IN  /\ past[k].text[n] = past[0].text[n] \o heard
               /\ heard \in Seq(Token) /\ past[0].text[n] \in Seq(Token)
<1> DEFINE n == Len(past[0].text)
           seed == Seed(past[c].text)
           H(i) == Heard(seed, ns, ItemId(n), i)
           Q(i) == Piece(seed, ns, ItemId(n), ns[i])
           P    == past[0].text[n]
           T    == {i \in 0..Len(ns) : past[i].text[n] = P \o H(i)}
<1>1. Len(ns) \in Nat /\ 0 \in 0..Len(ns) /\ n \in Nat /\ n \in 1..MaxItem
  BY StreamAssumption
<1>2. \A i \in 0..Len(ns) : /\ past[i] \in Moments /\ n \in DOMAIN past[i].text
                            /\ past[i].text[n] \in Seq(Token)
  <2>1. ASSUME NEW i \in 0..Len(ns)
        PROVE  past[i] \in Moments /\ n \in DOMAIN past[i].text
    <3>1. past[i] \in Moments /\ Later(past[0], past[i])
      BY <1>1 DEF Resumed
    <3> QED BY <1>1, <3>1 DEF Later, Moments
  <2> QED BY <2>1 DEF Moments
<1>3. H(0) = <<>> /\ \A i \in 0..Len(ns) : H(i) \in Seq(Token)
  BY <1>1, HeardType
<1>4. \A i \in 1..Len(ns) : H(i) = H(i - 1) \o Q(i) /\ Q(i) \in Seq(Token)
  BY HeardNext
<1> HIDE DEF H
<1>5. 0 \in T
  BY <1>1, <1>2, <1>3
<1>6. ASSUME NEW i \in 1..Len(ns), i - 1 \in T PROVE i \in T
  <2>1. i \in 0..Len(ns) /\ i - 1 \in 0..Len(ns)
    BY <1>1
  <2>2. /\ Follows(past[i - 1], ns[i], past[i]) /\ past[i - 1] \in Moments
        /\ past[i] \in Moments /\ n \in DOMAIN past[i - 1].text
    BY <1>2, <2>1 DEF Resumed
  <2>3. CASE ns[i].kind = "delta" /\ ns[i].item = n
    <3>1. Q(i) = ns[i].text
      <4>1. ReplayKey(seed, ns, LiveId(ns[i].item)) = ItemId(n)
        BY <2>3, KeyIs, Zenon
      <4> HIDE DEF seed
      <4> QED BY <2>3, <4>1 DEF Piece
    <3>2. past[i].text[n] = past[i - 1].text[n] \o ns[i].text
      <4>1. \A j \in DOMAIN past[i - 1].text :
               past[i].text[j] = IF j = ns[i].item THEN past[i - 1].text[j] \o ns[i].text
                                 ELSE past[i - 1].text[j]
        <5> HIDE DEF n
        <5> QED BY <2>2, <2>3, FollowsText
      <4> QED BY <2>2, <2>3, <4>1
    <3> HIDE DEF Q
    <3>3. past[i].text[n] = (P \o H(i - 1)) \o Q(i)
      BY <1>6, <3>1, <3>2, Zenon
    <3>4. P \in Seq(Token) /\ H(i - 1) \in Seq(Token) /\ Q(i) \in Seq(Token)
      BY <1>1, <1>2, <1>3, <1>4, <2>1
    <3> HIDE DEF P
    <3>5. (P \o H(i - 1)) \o Q(i) = P \o (H(i - 1) \o Q(i))
      BY <3>4, Associative, Zenon
    <3> QED BY <1>4, <2>1, <3>3, <3>5
  <2>4. CASE ~(ns[i].kind = "delta" /\ ns[i].item = n)
    <3>1. Q(i) = <<>>
      <4>1. CASE ns[i].kind # "delta"
        BY <4>1 DEF Piece
      <4>2. CASE ns[i].kind = "delta" /\ ns[i].item # n
        <5>1. ReplayKey(seed, ns, LiveId(ns[i].item)) = LiveId(ns[i].item)
          BY <4>2, KeyIs
        <5>2. LiveId(ns[i].item) # ItemId(n)
          BY NamesDiffer
        <5> HIDE DEF seed
        <5> QED BY <5>1, <5>2 DEF Piece
      <4> QED BY <2>4, <4>1, <4>2
    <3>2. past[i].text[n] = past[i - 1].text[n]
      <4>1. CASE ns[i].kind = "started"
        <5>1. past[i].text = Append(past[i - 1].text, <<>>)
          BY <2>2, <4>1 DEF Follows
        <5>2. n \in 1..Len(past[i - 1].text) /\ past[i - 1].text \in Seq(Seq(Token))
          BY <2>2 DEF Moments
        <5> QED BY <5>1, <5>2
      <4>2. CASE ns[i].kind = "delta"
        <5>1. \A j \in DOMAIN past[i - 1].text :
                 past[i].text[j] = IF j = ns[i].item THEN past[i - 1].text[j] \o ns[i].text
                                   ELSE past[i - 1].text[j]
          <6> HIDE DEF n
          <6> QED BY <2>2, <4>2, FollowsText
        <5> HIDE DEF n
        <5> QED BY <2>2, <2>4, <4>2, <5>1
      <4>3. CASE ns[i].kind \notin {"started", "delta"}
        <5>1. past[i].text = past[i - 1].text
          BY <2>2, <4>3 DEF Follows
        <5> QED BY <5>1
      <4> QED BY <4>1, <4>2, <4>3
    <3>3. H(i) = H(i - 1)
      <4> HIDE DEF Q
      <4>1. H(i - 1) \in Seq(Token) /\ H(i) = H(i - 1) \o <<>>
        BY <1>3, <1>4, <2>1, <3>1
      <4> QED BY <4>1
    <3> QED BY <1>6, <2>1, <3>2, <3>3
  <2> QED BY <2>3, <2>4
<1>7. k \in T
  <2> HIDE DEF T
  <2>1. 0..Len(ns) \subseteq T
    BY <1>1, <1>5, <1>6, UpTo
  <2> QED BY <2>1
<1> QED BY <1>1, <1>2, <1>3, <1>7 DEF H

\* No token comes twice: the known text ends with the first m tokens that were
\* heard, and with no more of them.
LEMMA OnlyHere ==
    ASSUME NEW p \in Seq(Token), NEW d \in Seq(Token), IsInjective(p \o d), NEW h \in Seq(Token),
           Len(h) <= Len(d), \A i \in 1..Len(h) : h[i] = d[i]
    PROVE  ReplayedPrefixLen(p \o h, d) = Len(h)
<1> DEFINE x == p \o h
           z == p \o d
           r == ReplayedPrefixLen(x, d)
           m == Len(h)
<1>1. /\ x \in Seq(Token) /\ Len(x) = Len(p) + m
      /\ \A k \in 1..Len(p) : x[k] = p[k]
      /\ \A j \in 1..m : x[Len(p) + j] = h[j]
  BY Joined
<1>2. /\ DOMAIN z = 1..(Len(p) + Len(d)) /\ IsInjective(z)
      /\ \A k \in 1..Len(p) : z[k] = p[k]
      /\ \A j \in 1..Len(d) : z[Len(p) + j] = d[j]
  BY Joined
<1>3. Len(p) \in Nat /\ Len(d) \in Nat /\ m \in Nat /\ m <= Len(d) /\ m \in 0..Len(d)
  OBVIOUS
<1> HIDE DEF x, z, m
<1>4. /\ r \in 0..Len(d) /\ IsSuffix(SubSeq(d, 1, r), x)
      /\ \A n \in 0..Len(d) : IsSuffix(SubSeq(d, 1, n), x) => n <= r
  BY <1>1, PrefixLen
<1> HIDE DEF r
<1>5. ASSUME NEW n \in 0..Len(d)
      PROVE  /\ SubSeq(d, 1, n) \in Seq(Token) /\ Len(SubSeq(d, 1, n)) = n
             /\ \A i \in 1..n : SubSeq(d, 1, n)[i] = d[i]
             /\ IsSuffix(SubSeq(d, 1, n), x) <=>
                  n <= Len(x) /\ \A i \in 1..n : d[i] = x[(Len(x) - n) + i]
  <2> DEFINE s == SubSeq(d, 1, n)
  <2>1. s \in Seq(Token) /\ Len(s) = n /\ \A i \in 1..n : s[i] = d[i]
    BY <1>3
  <2> HIDE DEF s
  <2>2. IsSuffix(s, x) <=> Len(s) <= Len(x) /\ \A i \in 1..Len(s) : s[i] = x[(Len(x) - Len(s)) + i]
    BY <1>1, <2>1, SuffixIs, Zenon
  <2> QED BY <2>1, <2>2 DEF s
<1>6. m <= r
  <2>1. m <= Len(x)
    BY <1>1, <1>3
  <2>2. \A i \in 1..m : d[i] = x[(Len(x) - m) + i]
    <3>1. (Len(x) - m) = Len(p)
      BY <1>1, <1>3
    <3> QED BY <1>1, <3>1 DEF m
  <2> QED BY <1>3, <1>4, <1>5, <2>1, <2>2
<1>7. CASE r = 0
  BY <1>3, <1>6, <1>7 DEF m, r, x
<1>8. CASE r # 0
  <2>1. r \in 1..Len(d) /\ r \in 1..r /\ (Len(x) - r) + r = Len(x) /\ r <= Len(x)
    BY <1>1, <1>3, <1>4, <1>5, <1>8
  <2>2. d[r] = x[Len(x)]
    <3>1. \A i \in 1..r : d[i] = x[(Len(x) - r) + i]
      BY <1>4, <1>5
    <3> QED BY <2>1, <3>1
  <2>3. z[Len(p) + r] = d[r] /\ Len(p) + r \in DOMAIN z
    BY <1>2, <1>3, <2>1
  <2>4. x[Len(x)] = z[Len(p) + m] /\ Len(p) + m \in DOMAIN z
    <3>1. CASE m = 0
      <4>1. Len(p) \in 1..Len(p) /\ Len(x) = Len(p) /\ Len(p) + m = Len(p)
        BY <1>1, <1>3, <2>1, <3>1
      <4>2. Len(p) \in DOMAIN z
        BY <1>2, <1>3, <4>1
      <4> QED BY <1>1, <1>2, <4>1, <4>2
    <3>2. CASE m # 0
      <4>1. m \in 1..m /\ m \in 1..Len(d)
        BY <1>3, <3>2
      <4>2. Len(p) + m \in DOMAIN z
        BY <1>2, <1>3, <4>1
      <4> QED BY <1>1, <1>2, <4>1, <4>2 DEF m
    <3> QED BY <3>1, <3>2
  <2>5. Len(p) + r = Len(p) + m
    BY <1>2, <2>2, <2>3, <2>4 DEF IsInjective
  <2> QED BY <1>3, <2>1, <2>5 DEF m, r, x
<1> QED BY <1>7, <1>8

\* What the snapshot says of its last message is skipped.
LEMMA SkipIs ==
    ASSUME NEW past, NEW ns \in Seq(Notices), NEW c, Resumed(past, ns, c),
           Len(past[c].text) <= MaxItem, Len(past[0].text) \in 1..MaxItem,
           IsInjective(past[Len(ns)].text[Len(past[0].text)])
    PROVE  LET key == ItemId(Len(past[0].text))
           IN  Skip(Seed(past[c].text), ns, key) = Len(Heard(Seed(past[c].text), ns, key, c))
<1> DEFINE n == Len(past[0].text)
           seed == Seed(past[c].text)
           H(i) == Heard(seed, ns, ItemId(n), i)
           p    == past[0].text[n]
           d    == H(Len(ns))
           h    == H(c)
<1>1. Len(ns) \in Nat /\ c \in 0..Len(ns) /\ Len(ns) \in 0..Len(ns) /\ c <= Len(ns)
  BY DEF Resumed
<1>2. /\ past[c].text[n] = p \o h /\ past[Len(ns)].text[n] = p \o d
      /\ h \in Seq(Token) /\ d \in Seq(Token) /\ p \in Seq(Token)
  <2>1. ASSUME NEW k \in 0..Len(ns)
        PROVE  past[k].text[n] = p \o H(k) /\ H(k) \in Seq(Token) /\ p \in Seq(Token)
    BY HeardSoFar
  <2> HIDE DEF H, p
  <2> QED BY <1>1, <2>1, Zenon
<1>3. Known(seed, ItemId(n)) = past[c].text[n]
  <2>1. past[c] \in Moments /\ Len(past[c].text) = n
    BY <1>1 DEF Resumed
  <2> HIDE DEF H
  <2>2. past[c].text \in Seq(Seq(Token)) /\ n \in 1..Len(past[c].text)
    BY <2>1, StreamAssumption DEF Moments
  <2> QED BY <2>2, SeedKeys
<1>4. IsPrefix(p \o h, p \o d)
  <2>1. Later(past[c], past[Len(ns)]) /\ n \in DOMAIN past[c].text
    <3>1. past[c] \in Moments /\ Len(past[c].text) = n /\ Later(past[c], past[Len(ns)])
      BY <1>1 DEF Resumed
    <3> QED BY <3>1, StreamAssumption DEF Moments
  <2>2. IsPrefix(past[c].text[n], past[Len(ns)].text[n])
    BY <2>1 DEF Later
  <2> HIDE DEF p, h, d
  <2> QED BY <1>2, <2>2
<1>5. IsInjective(p \o d)
  <2> HIDE DEF p, d
  <2> QED BY <1>2
<1>6. Skip(seed, ns, ItemId(n)) = ReplayedPrefixLen(p \o h, d)
  <2> HIDE DEF p, h, seed
  <2> QED BY <1>2, <1>3 DEF Skip
<1> HIDE DEF p, h, d
<1>7. Len(h) <= Len(d) /\ \A i \in 1..Len(h) : h[i] = d[i]
  <2> DEFINE x == p \o h
             z == p \o d
  <2>1. /\ x \in Seq(Token) /\ Len(x) = Len(p) + Len(h)
        /\ \A j \in 1..Len(h) : x[Len(p) + j] = h[j]
    BY <1>2, Joined
  <2>2. /\ z \in Seq(Token) /\ Len(z) = Len(p) + Len(d)
        /\ \A j \in 1..Len(d) : z[Len(p) + j] = d[j]
    BY <1>2, Joined
  <2>3. Len(p) \in Nat /\ Len(h) \in Nat /\ Len(d) \in Nat
    BY <1>2
  <2>4. IsPrefix(x, z)
    BY <1>4
  <2> HIDE DEF x, z
  <2>5. Len(x) <= Len(z) /\ \A k \in 1..Len(x) : x[k] = z[k]
    BY <2>1, <2>2, <2>4, PrefixIs
  <2>6. Len(h) <= Len(d)
    BY <2>1, <2>2, <2>3, <2>5
  <2>7. ASSUME NEW i \in 1..Len(h) PROVE h[i] = d[i]
    <3>1. Len(p) + i \in 1..Len(x) /\ i \in 1..Len(d)
      BY <2>1, <2>3, <2>6
    <3> QED BY <2>1, <2>2, <2>5, <3>1
  <2> QED BY <2>6, <2>7
<1>8. ReplayedPrefixLen(p \o h, d) = Len(h)
  BY <1>2, <1>5, <1>7, OnlyHere
<1> QED BY <1>6, <1>8 DEF h

\* Of the deltas of ns, those until the snapshot are left out and the others
\* are replayed as they are.
LEMMA ReplayFits ==
    ASSUME NEW past, NEW ns \in Seq(Notices), NEW c, Resumed(past, ns, c),
           Len(past[Len(ns)].text) <= MaxItem,
           \A i \in DOMAIN past[Len(ns)].text : IsInjective(past[Len(ns)].text[i]),
           NEW k \in 1..Len(ns), ns[k].kind = "delta", ns[k].text # <<>>
    PROVE  ReconcileReplayedDeltas(Seed(past[c].text), ns)[k] =
             IF k <= c THEN Nothing ELSE ns[k]
<1> DEFINE n    == Len(past[0].text)
           seed == Seed(past[c].text)
           key  == ReplayKey(seed, ns, LiveId(ns[k].item))
           d    == ns[k].text
           cut  == Cut(seed, ns, k)
           H(i) == Heard(seed, ns, key, i)
<1>1. /\ Len(ns) \in Nat /\ c \in 0..Len(ns) /\ Len(ns) \in 0..Len(ns) /\ c <= Len(ns)
      /\ k \in Nat /\ c \in Nat /\ k \in 0..Len(ns) /\ k - 1 \in 0..Len(ns) /\ 0 \in 0..Len(ns)
      /\ 0 <= c
  BY DEF Resumed
<1>2. /\ past[0] \in Moments /\ past[c] \in Moments /\ past[Len(ns)] \in Moments
      /\ Len(past[c].text) = n /\ Later(past[0], past[Len(ns)])
  BY <1>1 DEF Resumed
<1>3. n \in Nat /\ n <= Len(past[Len(ns)].text) /\ Len(past[c].text) <= MaxItem
  <2>1. n <= Len(past[Len(ns)].text) /\ n \in Nat /\ Len(past[Len(ns)].text) \in Nat
    BY <1>2 DEF Later, Moments
  <2> QED BY <1>2, <2>1, StreamAssumption
<1>4. /\ ns[k].item = n => key = ItemId(n) /\ n \in 1..MaxItem
      /\ ns[k].item # n => key = LiveId(ns[k].item) /\ c < k
  BY <1>3, KeyIs
<1>5. d \in Seq(Token) /\ Len(d) \in Nat /\ Len(d) > 0
  <2>1. d \in Seq(Token)
    BY DEF Notices
  <2> QED BY <2>1
<1>6. \A i \in 0..Len(ns) : H(i) \in Seq(Token) /\ Len(H(i)) \in Nat
  BY HeardType
<1>7. H(k) = H(k - 1) \o d
  <2>1. Piece(seed, ns, key, ns[k]) = d
    BY DEF Piece
  <2> HIDE DEF key, seed
  <2> QED BY <2>1, HeardNext
<1>8. cut = Max({0, Skip(seed, ns, key) - Len(H(k - 1))})
  BY DEF Cut
<1>9. ReconcileReplayedDeltas(seed, ns)[k] =
        IF cut >= Len(d) THEN Nothing ELSE Delta(ns[k].item, SubSeq(d, cut + 1, Len(d)))
  <2>1. k \in DOMAIN ns
    OBVIOUS
  <2> HIDE DEF seed
  <2> QED BY <2>1, Reconciled
<1>10. Delta(ns[k].item, SubSeq(d, 1, Len(d))) = ns[k]
  <2>1. SubSeq(d, 1, Len(d)) = d
    BY <1>5
  <2>2. ns[k] \in [kind : {"delta"}, item : 1..MaxItem, text : Seq(Token)]
    BY DEF Notices
  <2>3. ns[k] = [kind |-> "delta", item |-> ns[k].item, text |-> ns[k].text]
    BY <2>2
  <2> QED BY <2>1, <2>3 DEF Delta
<1>11. Len(H(k)) = Len(H(k - 1)) + Len(d)
  <2>1. H(k - 1) \in Seq(Token)
    BY <1>1, <1>6
  <2> HIDE DEF d, H
  <2> QED BY <1>5, <1>7, <2>1
<1>12. CASE ns[k].item = n
  <2>1. key = ItemId(n) /\ n \in 1..MaxItem
    BY <1>4, <1>12
  <2>2. Skip(seed, ns, key) = Len(H(c))
    <3>1. n \in DOMAIN past[Len(ns)].text
      BY <1>2, <1>3, <2>1 DEF Moments
    <3>2. IsInjective(past[Len(ns)].text[n])
      BY <3>1
    <3>3. Skip(seed, ns, ItemId(n)) = Len(Heard(seed, ns, ItemId(n), c))
      BY <1>3, <2>1, <3>2, SkipIs
    <3> HIDE DEF key, seed
    <3> QED BY <2>1, <3>3
  <2>3. ASSUME NEW i \in 0..Len(ns), NEW j \in 0..Len(ns), i <= j PROVE Len(H(i)) <= Len(H(j))
    <3> DEFINE p == past[0].text[n]
               a == H(i)
               b == H(j)
    <3>1. ASSUME NEW l \in 0..Len(ns) PROVE past[l].text[n] = p \o H(l) /\ p \in Seq(Token)
      <4>1. LET heard == Heard(seed, ns, ItemId(n), l)
            IN  past[l].text[n] = p \o heard /\ p \in Seq(Token)
        BY <1>3, <2>1, HeardSoFar
      <4> HIDE DEF key, seed
      <4> QED BY <2>1, <4>1
    <3>2. IsPrefix(past[i].text[n], past[j].text[n])
      <4>1. /\ Later(past[i], past[j]) /\ Later(past[0], past[i]) /\ past[i] \in Moments
            /\ past[0] \in Moments
        BY <1>1, <2>3 DEF Resumed
      <4>2. n \in DOMAIN past[i].text
        BY <2>1, <4>1, StreamAssumption DEF Later, Moments
      <4> QED BY <4>1, <4>2 DEF Later
    <3>3. IsPrefix(p \o a, p \o b)
      <4>1. past[i].text[n] = p \o a /\ past[j].text[n] = p \o b
        <5> HIDE DEF p, H
        <5> QED BY <3>1
      <4> HIDE DEF p, a, b
      <4> QED BY <3>2, <4>1
    <3>4. p \in Seq(Token) /\ a \in Seq(Token) /\ b \in Seq(Token)
      BY <1>6, <2>3, <3>1
    <3> HIDE DEF p, a, b
    <3>5. Len(p \o a) <= Len(p \o b)
      <4>1. p \o a \in Seq(Token) /\ p \o b \in Seq(Token)
        BY <3>4
      <4> QED BY <3>3, <4>1, PrefixIs
    <3>6. Len(a) <= Len(b)
      BY <3>4, <3>5
    <3> QED BY <3>6 DEF a, b
  <2> DEFINE hc == Len(H(c))
             hk == Len(H(k - 1))
  <2>4. hc \in Nat /\ hk \in Nat /\ Len(H(k)) = hk + Len(d)
    BY <1>1, <1>6, <1>11
  <2>5. k <= c => Len(H(k)) <= hc
    BY <1>1, <2>3
  <2>6. k > c => hc <= hk
    <3>1. k > c => c <= k - 1
      BY <1>1
    <3> QED BY <1>1, <2>3, <3>1
  <2>7. cut = Max({0, hc - hk})
    BY <1>8, <2>2
  <2> HIDE DEF hc, hk, H, d, cut
  <2>8. cut = IF hc - hk > 0 THEN hc - hk ELSE 0
    <3>1. hc - hk \in Int
      BY <2>4
    <3> QED BY <2>7, <3>1, CutIs
  <2>9. CASE k <= c
    <3>1. cut >= Len(d)
      BY <1>5, <2>4, <2>5, <2>8, <2>9
    <3> QED BY <1>9, <2>9, <3>1
  <2>10. CASE ~(k <= c)
    <3>1. cut = 0 /\ ~(cut >= Len(d)) /\ cut + 1 = 1
      BY <1>1, <1>5, <2>4, <2>6, <2>8, <2>10
    <3> QED BY <1>9, <1>10, <2>10, <3>1 DEF d
  <2> QED BY <2>9, <2>10
<1>13. CASE ns[k].item # n
  <2>1. key = LiveId(ns[k].item) /\ c < k
    BY <1>4, <1>13
  <2>2. Known(seed, key) = <<>>
    <3>1. past[c].text \in Seq(Seq(Token)) /\ ns[k].item \in 1..MaxItem
      BY <1>2 DEF Moments, Notices
    <3>2. FindIndex(seed, LiveId(ns[k].item)) = 0
      BY <1>3, <3>1, SeedKeys
    <3> HIDE DEF key, seed
    <3> QED BY <2>1, <3>2 DEF Known
  <2> DEFINE e == <<>>
             r == H(Len(ns))
             s == ReplayedPrefixLen(e, r)
  <2>3. s = 0
    <3>1. e \in Seq(Token) /\ Len(e) = 0
      OBVIOUS
    <3>2. r \in Seq(Token)
      BY <1>1, <1>6
    <3> HIDE DEF e, r, s
    <3>3. s \in 0..Len(r) /\ IsSuffix(SubSeq(r, 1, s), e)
      BY <3>1, <3>2, PrefixLen DEF s
    <3> DEFINE t == SubSeq(r, 1, s)
    <3>4. t \in Seq(Token) /\ Len(t) = s
      BY <3>2, <3>3
    <3> HIDE DEF t
    <3>5. Len(t) <= Len(e)
      <4>1. IsSuffix(t, e) <=> Len(t) <= Len(e) /\ \A i \in 1..Len(t) : t[i] = e[(Len(e) - Len(t)) + i]
        BY <3>1, <3>4, SuffixIs
      <4> QED BY <3>3, <4>1 DEF t
    <3> QED BY <3>1, <3>3, <3>4, <3>5
  <2>4. Skip(seed, ns, key) = 0
    <3>1. Skip(seed, ns, key) = s
      <4> HIDE DEF key, seed
      <4> QED BY <2>2 DEF Skip
    <3> HIDE DEF s
    <3> QED BY <2>3, <3>1
  <2> DEFINE hk == Len(H(k - 1))
  <2>5. hk \in Nat
    BY <1>1, <1>6
  <2>6. cut = Max({0, 0 - hk})
    BY <1>8, <2>4
  <2> HIDE DEF hk, cut, d, H
  <2>7. cut = 0
    <3>1. 0 - hk \in Int /\ ~(0 - hk > 0)
      BY <2>5
    <3> QED BY <2>6, <3>1, CutIs
  <2>8. ~(cut >= Len(d)) /\ cut + 1 = 1 /\ ~(k <= c)
    BY <1>1, <1>5, <2>1, <2>7
  <2> QED BY <1>9, <1>10, <2>8 DEF d
<1> QED BY <1>12, <1>13

(***************************************************************************)
(* The past goes on with every step of the wait.                           *)
(***************************************************************************)
LEMMA MomentIs ==
    ASSUME NEW t, TurnFits(t)
    PROVE  [text |-> t.text, open |-> t.open] \in Moments
BY TurnType DEF Moments

\* Texts that grew into texts without repetition had none.
LEMMA PlainBefore ==
    ASSUME NEW m \in Moments, NEW now \in Moments, Later(m, now),
           \A i \in DOMAIN now.text : IsInjective(now.text[i]), NEW i \in DOMAIN m.text
    PROVE  IsInjective(m.text[i])
<1>1. m.text \in Seq(Seq(Token)) /\ now.text \in Seq(Seq(Token))
  BY DEF Moments
<1>2. Len(m.text) <= Len(now.text) /\ IsPrefix(m.text[i], now.text[i])
  BY DEF Later
<1>3. i \in DOMAIN now.text
  BY <1>1, <1>2
<1> DEFINE s == m.text[i]
           t == now.text[i]
<1>4. s \in Seq(Token) /\ t \in Seq(Token) /\ IsPrefix(s, t) /\ IsInjective(t)
  BY <1>1, <1>2, <1>3
<1> HIDE DEF s, t
<1>5. Len(s) <= Len(t) /\ \A k \in 1..Len(s) : s[k] = t[k]
  BY <1>4, PrefixIs
<1>6. IsInjective(s)
  BY <1>4, <1>5 DEF IsInjective
<1> QED BY <1>6 DEF s

LEMMA PastSent ==
    ASSUME Typed, Now \in Moments, Now' \in Moments, NEW f \in Frames, Follows(Now, f, Now'),
           Unheard' = Append(Unheard, f), NEW past, History(past, Unheard, Now)
    PROVE  \E p : /\ History(p, Unheard', Now') /\ DOMAIN p = 0..(Len(Unheard) + 1)
                  /\ p[Len(Unheard) + 1] = Now' /\ \A k \in 0..Len(Unheard) : p[k] = past[k]
<1>1. PICK fl, now, then : fl = Unheard /\ now = Now /\ then = Now'
  OBVIOUS
<1>2. PICK p : p = [k \in 0..(Len(fl) + 1) |-> IF k = Len(fl) + 1 THEN then ELSE past[k]]
  OBVIOUS
<1>3. /\ fl \in Seq(Frames) /\ now \in Moments /\ then \in Moments
      /\ History(past, fl, now) /\ Follows(now, f, then)
  BY <1>1, UnheardIs
<1>4. /\ History(p, Append(fl, f), then)
      /\ p[Len(fl) + 1] = then /\ \A k \in 0..Len(fl) : p[k] = past[k]
  BY <1>2, <1>3, HistorySent
<1>5. DOMAIN p = 0..(Len(fl) + 1)
  BY <1>2
<1> QED BY <1>1, <1>4, <1>5

\* The first n frames are looked at.
LEMMA PastTaken ==
    ASSUME Typed, net # <<>>, net' = Tail(net), buffer' = <<>>, turn' = turn,
           NEW past, History(past, Unheard, Now)
    PROVE  \E p : /\ History(p, Unheard', Now')
                  /\ p[0] = past[Len(buffer) + 1]
<1>1. PICK fl, now, t, n : fl = Unheard /\ now = Now /\ t = Unheard' /\ n = Len(buffer) + 1
  OBVIOUS
<1>2. PICK p : p = [k \in 0..(Len(fl) - n) |-> past[k + n]]
  OBVIOUS
<1>3. /\ fl \in Seq(Frames) /\ History(past, fl, now) /\ n \in 0..Len(fl)
      /\ Len(t) = Len(fl) - n /\ \A k \in 1..Len(t) : t[k] = fl[k + n]
      /\ n \in Nat /\ Len(fl) \in Nat
  <2>1. Len(net) \in Nat \ {0}
    BY HeadIs
  <2>2. /\ Unheard \in Seq(Frames) /\ Len(Unheard) = Len(buffer) + Len(net)
        /\ Len(buffer) \in Nat
    BY UnheardIs
  <2>3. /\ Len(Unheard') = Len(Unheard) - (Len(buffer) + 1)
        /\ \A k \in 1..Len(Unheard') : Unheard'[k] = Unheard[k + (Len(buffer) + 1)]
    BY Taken
  <2>4. Len(fl) = Len(buffer) + Len(net) /\ n \in Nat /\ Len(fl) \in Nat /\ n \in 0..Len(fl)
    BY <1>1, <2>1, <2>2
  <2>5. Len(t) = Len(fl) - n /\ \A k \in 1..Len(t) : t[k] = fl[k + n]
    BY <1>1, <2>3
  <2> QED BY <1>1, <2>2, <2>4, <2>5
<1>4. History(p, t, now) /\ \A k \in 0..(Len(fl) - n) : p[k] = past[k + n]
  BY <1>2, <1>3, HistoryTaken
<1>5. p[0] = past[n]
  <2>1. 0 \in 0..(Len(fl) - n) /\ 0 + n = n
    BY <1>3
  <2> QED BY <1>4, <2>1
<1>6. Now' = Now
  BY DEF Now
<1> QED BY <1>1, <1>4, <1>5, <1>6

\* A notification leaves what is shown as it was.
LEMMA HearsNotify ==
    ASSUME Typed, Typed', Protocol, NEW n \in Notices, Notify(n), phase # "over",
           Follows(Now, n, Now'), NEW past, Followable(past)
    PROVE  \E p : Followable(p)'
<1>1. /\ net' = IF link.sub THEN Append(net, n) ELSE net
      /\ UNCHANGED <<link, phase, buffer, shown, outcome, submits>>
  BY DEF Notify
<1>2. /\ hist'.gap = hist.gap
      /\ hist'.late = (hist.late \/ (link.asked = "list" /\ Captured))
      /\ hist'.straddled = (hist.straddled \/ (n.kind = "started" /\ link.sub
                                               /\ link.asked = "resume" /\ ~Captured))
  BY Noted DEF Typed, Hists
<1>3. Now \in Moments /\ Now' \in Moments
  BY MomentIs DEF Typed, TurnOK, Now
<1>4. History(past, Unheard, Now) /\ Hears(past)
  BY DEF Followable
<1>5. CASE link.sub
  <2>1. /\ n \in Frames /\ n.kind # "answer" /\ net' = Append(net, n)
    BY <1>1, <1>5, FrameKinds DEF Frames
  <2>2. /\ Unheard' = Append(Unheard, n)
        /\ Len(net') = Len(net) + 1 /\ DOMAIN net' = 1..(Len(net) + 1)
        /\ net'[Len(net) + 1] = n /\ \A j \in 1..Len(net) : net'[j] = net[j]
    BY <1>1, <2>1, Sent
  <2>3. /\ Unheard \in Seq(Frames) /\ Len(Unheard) = Len(buffer) + Len(net)
        /\ Len(net) \in Nat /\ Len(buffer) \in Nat /\ DOMAIN net = 1..Len(net)
        /\ 0 \in 0..Len(Unheard) /\ DOMAIN past = 0..Len(Unheard) /\ Len(Unheard) \in Nat
    BY <1>4, UnheardIs DEF History
  <2>4. PICK p : /\ History(p, Unheard', Now') /\ DOMAIN p = 0..(Len(Unheard) + 1)
                 /\ p[Len(Unheard) + 1] = Now' /\ \A k \in 0..Len(Unheard) : p[k] = past[k]
    BY <1>3, <1>4, <2>1, <2>2, PastSent
  <2>5. /\ p[Len(Unheard) + 1] = Now' /\ \A k \in 0..Len(Unheard) : p[k] = past[k]
    BY <2>4
  <2>6. History(p, Unheard', Now')
    BY <2>4
  <2>7. p[0] = past[0] /\ DOMAIN p = 0..(Len(Unheard) + 1)
    BY <2>3, <2>4
  <2>8. Later(Now, Now')
    BY <1>3, <2>1, FollowsLater
  <2>9. \A j \in DOMAIN net' : net'[j].kind = "answer" =>
          j \in DOMAIN net /\ net'[j] = net[j] /\ net[j].kind = "answer"
    BY <2>1, <2>2, <2>3
  <2>10. ASSUME phase' = "attaching", ~hist'.straddled PROVE Attaches(p)'
    <3>1. Attaches(past)
      BY <1>1, <1>2, <1>4, <2>10 DEF Hears
    <3>2. link'.asked = "resume" /\ ~Captured' => Len(p[0].text) = Len(turn'.text)
      <4>1. CASE link.asked = "resume" /\ ~Captured
        <5>1. n.kind # "started"
          BY <1>2, <1>5, <2>10, <4>1
        <5>2. Len(turn'.text) = Len(turn.text)
          <6>1. Len(Now'.text) = Len(Now.text)
            BY <1>3, <5>1, FollowsText
          <6> QED BY <6>1 DEF Now
        <5> QED BY <2>7, <3>1, <4>1, <5>2 DEF Attaches
      <4> QED BY <1>1, <4>1 DEF Captured
    <3>3. Captured' => \E c \in DOMAIN p : SeedAt(p, c, link'.snap.text)
      <4>1. CASE Captured
        <5>1. PICK c \in DOMAIN past : SeedAt(past, c, link.snap.text)
          BY <3>1, <4>1 DEF Attaches
        <5>2. c \in DOMAIN p /\ p[c] = past[c]
          BY <2>3, <2>5, <2>7
        <5>3. SeedAt(p, c, link'.snap.text)
          BY <1>1, <2>7, <5>1, <5>2 DEF SeedAt
        <5> QED BY <5>2, <5>3
      <4> QED BY <1>1, <4>1 DEF Captured
    <3>4. ASSUME NEW j \in DOMAIN net', net'[j].kind = "answer"
          PROVE  \E c \in 0..(Len(buffer') + j) : SeedAt(p, c, net'[j].snap.text)
      <4>1. PICK c \in 0..(Len(buffer) + j) : SeedAt(past, c, net[j].snap.text)
        BY <2>9, <3>1, <3>4 DEF Attaches
      <4>2. c \in 0..Len(Unheard)
        BY <2>3, <2>9, <3>4, <4>1
      <4>3. SeedAt(p, c, net'[j].snap.text)
        BY <2>5, <2>7, <2>9, <3>4, <4>1, <4>2 DEF SeedAt
      <4> QED BY <1>1, <4>1, <4>3
    <3> QED BY <3>2, <3>3, <3>4 DEF Attaches
  <2>11. phase' = "starting" /\ link'.sub /\ ~hist'.gap => p[0].text = <<>>
    BY <1>1, <1>2, <1>4, <2>7 DEF Hears
  <2>12. ASSUME phase' = "polling" PROVE Polls(p)'
    <3>1. Polls(past)
      BY <1>1, <1>4, <2>12 DEF Hears
    <3>2. Captured' => PollAt(Now, link.snap)'
      <4>1. CASE Captured
        <5>1. PollAt(Now, link.snap)
          BY <3>1, <4>1 DEF Polls
        <5>2. link.asked = "list"
          BY <1>1, <2>12, <4>1 DEF Protocol, OneRequest, AskedInPhase
        <5>3. hist'.late = TRUE
          BY <1>2, <4>1, <5>2
        <5>4. link.snap.listed => Len(link.snap.text) <= Len(Now'.text)
          <6>1. link.snap \in Snapshots
            BY <4>1 DEF Captured, Typed
          <6>2. link.snap.text \in Seq(Seq(Token))
            BY <6>1, SnapType
          <6> QED BY <1>3, <2>8, <5>1, <6>2 DEF PollAt, Later, Moments
        <5> QED BY <1>1, <5>3, <5>4 DEF PollAt
      <4> QED BY <1>1, <4>1 DEF Captured
    <3>3. ASSUME NEW j \in DOMAIN net', net'[j].kind = "answer"
          PROVE  PollAt(p[Len(buffer) + j], net[j].snap)'
      <4>1. PollAt(past[Len(buffer) + j], net[j].snap)
        BY <2>9, <3>1, <3>3 DEF Polls
      <4>2. Len(buffer) + j \in 0..Len(Unheard) /\ Len(buffer') = Len(buffer)
        BY <1>1, <2>3, <2>9, <3>3
      <4>3. p[Len(buffer') + j] = past[Len(buffer) + j] /\ net'[j] = net[j]
        BY <2>5, <2>9, <3>3, <4>2
      <4> QED BY <1>2, <4>1, <4>3 DEF PollAt
    <3> QED BY <3>2, <3>3 DEF Polls
  <2>13. ASSUME phase' \in {"waiting", "polling", "queueing"}, Followed' PROVE Shows(shown, p[0])'
    <3>1. Shows(shown, past[0])
      BY <1>1, <1>2, <1>4, <2>13 DEF Hears, Followed
    <3>2. Plain' => Plain
      <4>1. ASSUME Plain', NEW i \in DOMAIN turn.text PROVE IsInjective(turn.text[i])
        <5>1. \A k \in DOMAIN Now'.text : IsInjective(Now'.text[k])
          BY <4>1 DEF Plain, Now
        <5>2. i \in DOMAIN Now.text /\ Now.text = turn.text
          BY DEF Now
        <5> HIDE DEF Now
        <5> QED BY <1>3, <2>8, <5>1, <5>2, PlainBefore
      <4> QED BY <4>1 DEF Plain
    <3>3. ~hist'.late => Agrees(shown, p[0], p[0])'
      BY <1>1, <1>2, <2>7, <3>1, <3>2 DEF Shows, Agrees, Closed
    <3> QED BY <1>1, <2>7, <3>1, <3>3 DEF Shows, NamesFit
  <2>14. Hears(p)'
    BY <2>10, <2>11, <2>12, <2>13 DEF Hears
  <2> QED BY <2>6, <2>14 DEF Followable
<1>6. CASE ~link.sub
  <2>1. net' = <<>> /\ buffer' = <<>> /\ phase' \in {"attaching", "starting"} /\ ~link'.sub
        /\ ~Captured'
    BY <1>1, <1>6 DEF Protocol, OneRequest, Captured
  <2>2. PICK p : p = [k \in 0..0 |-> Now']
    OBVIOUS
  <2>3. History(p, <<>>, Now') /\ p[0] = Now'
    BY <1>3, <2>2, HistoryStart
  <2>4. Unheard' = <<>> /\ DOMAIN net' = {}
    BY <2>1 DEF Unheard
  <2>5. Len(p[0].text) = Len(turn'.text)
    BY <2>3 DEF Now
  <2>6. Hears(p)'
    BY <2>1, <2>4, <2>5 DEF Hears, Attaches
  <2> QED BY <2>3, <2>4, <2>6 DEF Followable
<1> QED BY <1>5, <1>6

LEMMA HearsSubscribe ==
    ASSUME Typed, Protocol, Subscribe, NEW past, Followable(past)
    PROVE  Followable(past)'
<1>1. /\ link' = [link EXCEPT !.sub = TRUE] /\ link.asked # "none" /\ ~link.sub
      /\ hist' = [hist EXCEPT !.gap = @ \/ (link.asked = "start" /\ turn.text # <<>>)]
      /\ UNCHANGED <<turn, net, phase, buffer, shown, outcome, submits>>
  BY DEF Subscribe
<1>2. link'.sub = TRUE /\ link'.asked = link.asked /\ link'.snap = link.snap
  BY <1>1 DEF Typed
<1>3. hist'.gap = (hist.gap \/ (link.asked = "start" /\ turn.text # <<>>))
  BY <1>1 DEF Typed
<1>4. /\ net = <<>> /\ buffer = <<>> /\ phase \in {"attaching", "starting", "over"} /\ ~Captured
      /\ AskedInPhase
  BY <1>1 DEF Protocol, OneRequest
<1>5. Unheard = <<>> /\ Unheard' = <<>> /\ Now' = Now /\ DOMAIN net' = {}
  BY <1>1, <1>4 DEF Unheard, Now
<1>6. History(past, <<>>, Now)
  BY <1>5 DEF Followable
<1>7. past[0].text = turn.text
  <2>1. past[0] = Now
    BY <1>6 DEF History
  <2> QED BY <2>1 DEF Now
<1>8. phase' = "attaching" => Attaches(past)'
  BY <1>1, <1>2, <1>4, <1>5, <1>7 DEF Attaches, Captured
<1>9. phase' = "starting" /\ ~hist'.gap => past[0].text = <<>>
  BY <1>1, <1>3, <1>4, <1>7 DEF AskedInPhase
<1>10. Hears(past)'
  BY <1>1, <1>4, <1>8, <1>9 DEF Hears
<1> QED BY <1>5, <1>6, <1>10 DEF Followable

LEMMA HearsCapture ==
    ASSUME Typed, Protocol, Capture, NEW past, Followable(past)
    PROVE  Followable(past)'
<1>1. /\ link.asked # "none" /\ link.sub /\ ~Captured
      /\ UNCHANGED <<turn, net, phase, buffer, shown, outcome, submits, hist>>
  BY DEF Capture
<1>2. /\ link'.sub = link.sub /\ link'.asked = link.asked
      /\ \/ /\ link.asked # "start"
            /\ link'.snap = Snapshot(TRUE, turn.text, turn.status)
         \/ /\ link.asked \in {"start", "list"}
            /\ link'.snap = Snapshot(FALSE, <<>>, "inProgress")
  BY Snapped
<1>3. /\ Unheard' = Unheard /\ Now' = Now
      /\ History(past, Unheard, Now) /\ Hears(past) /\ AskedInPhase
  BY <1>1 DEF Unheard, Now, Followable, Protocol, OneRequest
<1>4. ASSUME phase' = "attaching", ~hist'.straddled PROVE Attaches(past)'
  <2>1. Attaches(past) /\ link.asked = "resume"
    BY <1>1, <1>3, <1>4 DEF Hears, AskedInPhase
  <2>2. /\ Len(past[0].text) = Len(turn.text)
        /\ \A j \in DOMAIN net : net[j].kind = "answer" =>
             \E c \in 0..(Len(buffer) + j) : SeedAt(past, c, net[j].snap.text)
    BY <1>1, <2>1 DEF Attaches
  <2>3. link'.snap.text = turn.text
    BY <1>2, <2>1 DEF Snapshot
  <2>4. past[Len(Unheard)] = Now /\ Len(Unheard) \in DOMAIN past
    <3>1. Len(Unheard) \in 0..Len(Unheard)
      BY UnheardIs
    <3> QED BY <1>3, <3>1 DEF History
  <2>5. SeedAt(past, Len(Unheard), link'.snap.text)
    <3>1. past[Len(Unheard)].text = turn.text
      BY <2>4 DEF Now
    <3> QED BY <2>2, <2>3, <3>1 DEF SeedAt
  <2>6. \E c \in DOMAIN past : SeedAt(past, c, link'.snap.text)
    BY <2>4, <2>5
  <2> QED BY <1>1, <2>2, <2>6 DEF Attaches
<1>5. ASSUME phase' = "polling" PROVE Polls(past)'
  <2>1. Polls(past)
    BY <1>1, <1>3, <1>5 DEF Hears
  <2>2. PollAt(Now, link'.snap)
    <3>1. Len(turn.text) \in Nat
      BY TurnType DEF Typed, TurnOK
    <3> QED BY <1>2, <3>1 DEF PollAt, Snapshot, Now
  <2>3. PollAt(Now, link.snap)'
    BY <1>1, <1>3, <2>2 DEF PollAt
  <2>4. \A j \in DOMAIN net' : net'[j].kind = "answer" => PollAt(past[Len(buffer) + j], net[j].snap)'
    BY <1>1, <2>1 DEF Polls, PollAt
  <2> QED BY <2>3, <2>4 DEF Polls
<1>6. phase' = "starting" /\ link'.sub /\ ~hist'.gap => past[0].text = <<>>
  BY <1>1, <1>2, <1>3 DEF Hears
<1>7. phase' \in {"waiting", "polling", "queueing"} /\ Followed' => Shows(shown, past[0])'
  BY <1>1, <1>3 DEF Hears, Followed, Shows, Agrees, Closed, Plain, NamesFit
<1>8. Hears(past)'
  BY <1>4, <1>5, <1>6, <1>7 DEF Hears
<1> QED BY <1>3, <1>8 DEF Followable

LEMMA HearsSendAnswer ==
    ASSUME Typed, Protocol, SendAnswer, NEW past, Followable(past)
    PROVE  \E p : Followable(p)'
<1>1. /\ Captured /\ UNCHANGED <<turn, phase, buffer, shown, outcome, submits, hist>>
  BY DEF SendAnswer
<1> DEFINE f == Answer(link.snap)
<1>2. /\ link'.asked = "none" /\ link'.snap = NoSnap /\ link'.sub = link.sub
      /\ f \in Frames /\ f.kind = "answer" /\ f.snap = link.snap
      /\ Unheard' = Append(Unheard, f)
      /\ Len(net') = Len(net) + 1 /\ DOMAIN net' = 1..(Len(net) + 1)
      /\ net'[Len(net) + 1] = f /\ \A j \in 1..Len(net) : net'[j] = net[j]
  BY AnswerSent
<1>3. Now \in Moments /\ Now' = Now
  BY <1>1, MomentIs DEF Typed, TurnOK, Now
<1>4. History(past, Unheard, Now) /\ Hears(past)
  BY DEF Followable
<1>5. Follows(Now, f, Now')
  BY <1>2, <1>3 DEF Follows
<1>6. PICK p : /\ History(p, Unheard', Now') /\ DOMAIN p = 0..(Len(Unheard) + 1)
               /\ p[Len(Unheard) + 1] = Now' /\ \A k \in 0..Len(Unheard) : p[k] = past[k]
  BY <1>2, <1>3, <1>4, <1>5, PastSent
<1>7. /\ Len(Unheard) = Len(buffer) + Len(net) /\ Len(net) \in Nat /\ Len(buffer) \in Nat
      /\ DOMAIN net = 1..Len(net) /\ 0 \in 0..Len(Unheard) /\ DOMAIN past = 0..Len(Unheard)
      /\ Len(Unheard) \in Nat
  BY <1>4, UnheardIs DEF History
<1>8. \A j \in DOMAIN net : net[j].kind # "answer"
  BY <1>1 DEF Protocol, OneRequest, OneAnswer, AnswerFits
<1>9. ASSUME NEW j \in DOMAIN net', net'[j].kind = "answer"
      PROVE  j = Len(net) + 1 /\ net'[j].snap = link.snap /\ Len(buffer) + j = Len(Unheard) + 1
  <2>1. j = Len(net) + 1
    BY <1>2, <1>7, <1>8, <1>9
  <2> QED BY <1>2, <1>7, <2>1
<1>10. p[0] = past[0]
  BY <1>6, <1>7
<1> HIDE DEF f
<1>11. ASSUME phase' = "attaching", ~hist'.straddled PROVE Attaches(p)'
  <2>1. Attaches(past)
    BY <1>1, <1>4, <1>11 DEF Hears
  <2>2. PICK c \in DOMAIN past : SeedAt(past, c, link.snap.text)
    BY <1>1, <2>1 DEF Attaches
  <2>3. SeedAt(p, c, link.snap.text) /\ c \in 0..Len(Unheard)
    BY <1>6, <1>7, <1>10, <2>2 DEF SeedAt
  <2>4. ASSUME NEW j \in DOMAIN net', net'[j].kind = "answer"
        PROVE  \E b \in 0..(Len(buffer') + j) : SeedAt(p, b, net'[j].snap.text)
    <3>1. c \in 0..(Len(buffer') + j) /\ net'[j].snap = link.snap
      BY <1>1, <1>7, <1>9, <2>3, <2>4
    <3> QED BY <2>3, <3>1
  <2>5. ~Captured' /\ link'.asked # "resume"
    BY <1>2 DEF Captured
  <2> QED BY <2>4, <2>5 DEF Attaches
<1>12. ASSUME phase' = "polling" PROVE Polls(p)'
  <2>1. PollAt(Now, link.snap)
    BY <1>1, <1>4, <1>12 DEF Hears, Polls
  <2>2. ASSUME NEW j \in DOMAIN net', net'[j].kind = "answer"
        PROVE  PollAt(p[Len(buffer) + j], net[j].snap)'
    <3>1. p[Len(buffer') + j] = Now /\ net'[j].snap = link.snap
      BY <1>1, <1>3, <1>6, <1>9, <2>2
    <3> QED BY <1>1, <2>1, <3>1 DEF PollAt
  <2>3. ~Captured'
    BY <1>2 DEF Captured
  <2> QED BY <2>2, <2>3 DEF Polls
<1>13. phase' = "starting" /\ link'.sub /\ ~hist'.gap => p[0].text = <<>>
  BY <1>1, <1>2, <1>4, <1>10 DEF Hears
<1>14. phase' \in {"waiting", "polling", "queueing"} /\ Followed' => Shows(shown, p[0])'
  BY <1>1, <1>4, <1>10 DEF Hears, Followed, Shows, Agrees, Closed, Plain, NamesFit
<1>15. Hears(p)'
  BY <1>11, <1>12, <1>13, <1>14 DEF Hears
<1> QED BY <1>6, <1>15 DEF Followable

LEMMA HearsSetAside ==
    ASSUME Typed, Protocol, SetAside, NEW past, Followable(past)
    PROVE  \E p : Followable(p)'
<1>1. /\ Awaiting /\ net # <<>> /\ net[1].kind # "answer" /\ net' = Tail(net)
      /\ UNCHANGED <<turn, link, phase, shown, outcome, submits>>
      /\ IF phase = "queueing" THEN hist' = [hist EXCEPT !.gap = TRUE] /\ UNCHANGED buffer
         ELSE buffer' = Append(buffer, net[1]) /\ UNCHANGED hist
  BY HeadIs DEF SetAside, Arrived
<1>2. History(past, Unheard, Now) /\ Hears(past) /\ Now' = Now
  BY <1>1 DEF Followable, Now
<1>3. CASE phase = "queueing"
  <2>1. buffer' = <<>> /\ hist'.gap = TRUE
    BY <1>1, <1>3 DEF Protocol, OneRequest, Typed
  <2>2. PICK p : History(p, Unheard', Now')
    BY <1>1, <1>2, <2>1, PastTaken
  <2>3. Hears(p)'
    BY <1>1, <1>3, <2>1 DEF Hears, Followed
  <2> QED BY <2>2, <2>3 DEF Followable
<1>4. CASE phase # "queueing"
  <2>1. buffer' = Append(buffer, net[1]) /\ hist' = hist
    BY <1>1, <1>4
  <2>2. Unheard' = Unheard
    BY <1>1, <2>1, Taken
  <2>3. /\ Len(buffer) \in Nat /\ Len(buffer') = Len(buffer) + 1 /\ Len(net) \in Nat \ {0}
        /\ DOMAIN net = 1..Len(net) /\ DOMAIN net' = 1..(Len(net) - 1)
        /\ \A j \in 1..(Len(net) - 1) : net'[j] = net[j + 1]
    <3>1. buffer \in Seq(Notices)
      BY DEF Typed
    <3>2. Len(buffer') = Len(buffer) + 1 /\ Len(buffer) \in Nat
      BY <2>1, <3>1
    <3> QED BY <1>1, <3>2, HeadIs, Taken, UnheardIs
  <2>4. ASSUME NEW j \in DOMAIN net'
        PROVE  /\ j + 1 \in DOMAIN net /\ net'[j] = net[j + 1]
               /\ Len(buffer') + j = Len(buffer) + (j + 1)
    <3>1. j \in 1..(Len(net) - 1) /\ j \in Nat /\ j + 1 \in 1..Len(net)
      BY <2>3
    <3>2. Len(buffer') + j = Len(buffer) + (j + 1)
      <4>1. PICK b, c : b = Len(buffer) /\ c = Len(buffer')
        OBVIOUS
      <4>2. b \in Nat /\ c = b + 1
        BY <2>3, <4>1
      <4>3. c + j = b + (j + 1)
        BY <3>1, <4>2
      <4> QED BY <4>1, <4>3
    <3> QED BY <2>3, <3>1, <3>2
  <2>5. ASSUME phase' = "attaching", ~hist'.straddled PROVE Attaches(past)'
    <3>1. Attaches(past)
      BY <1>1, <1>2, <2>1, <2>5 DEF Hears
    <3>2. ASSUME NEW j \in DOMAIN net', net'[j].kind = "answer"
          PROVE  \E c \in 0..(Len(buffer') + j) : SeedAt(past, c, net'[j].snap.text)
      <4>1. \E c \in 0..(Len(buffer) + (j + 1)) : SeedAt(past, c, net[j + 1].snap.text)
        BY <2>4, <3>1, <3>2 DEF Attaches
      <4> QED BY <2>4, <4>1
    <3> QED BY <1>1, <3>1, <3>2 DEF Attaches, Captured
  <2>6. ASSUME phase' = "polling" PROVE Polls(past)'
    <3>1. Polls(past)
      BY <1>1, <1>2, <2>6 DEF Hears
    <3>2. ASSUME NEW j \in DOMAIN net', net'[j].kind = "answer"
          PROVE  PollAt(past[Len(buffer) + j], net[j].snap)'
      <4>1. PollAt(past[Len(buffer) + (j + 1)], net[j + 1].snap)
        BY <2>4, <3>1, <3>2 DEF Polls
      <4>2. net'[j] = net[j + 1] /\ past[Len(buffer') + j] = past[Len(buffer) + (j + 1)]
        BY <2>4
      <4> QED BY <2>1, <4>1, <4>2 DEF PollAt
    <3>3. Captured' => PollAt(Now, link.snap)'
      BY <1>1, <1>2, <2>1, <3>1 DEF Polls, PollAt, Captured
    <3> QED BY <3>2, <3>3 DEF Polls
  <2>7. phase' = "starting" /\ link'.sub /\ ~hist'.gap => past[0].text = <<>>
    BY <1>1, <1>2, <2>1 DEF Hears
  <2>8. phase' \in {"waiting", "polling", "queueing"} /\ Followed' => Shows(shown, past[0])'
    BY <1>1, <1>2, <2>1 DEF Hears, Followed, Shows, Agrees, Closed, Plain, NamesFit
  <2>9. Hears(past)'
    BY <2>5, <2>6, <2>7, <2>8 DEF Hears
  <2> QED BY <1>2, <2>2, <2>9 DEF Followable
<1> QED BY <1>3, <1>4

LEMMA HearsAsk ==
    ASSUME Typed, Protocol, Poll \/ Submit, NEW past, Followable(past)
    PROVE  Followable(past)'
<1>1. PICK p \in {"polling", "queueing"}, request \in {"start", "list"} :
        /\ phase = "waiting" /\ phase' = p /\ link' = [link EXCEPT !.asked = request]
        /\ UNCHANGED <<turn, net, buffer, shown, hist>>
  BY DEF Poll, Submit, Ask
<1>2. History(past, Unheard, Now) /\ Hears(past) /\ Now' = Now /\ Unheard' = Unheard
  BY <1>1 DEF Followable, Now, Unheard
<1>3. link'.snap = link.snap /\ ~Captured
  BY <1>1 DEF Typed, Protocol, OneRequest, AskedInPhase
<1>4. \A j \in DOMAIN net : net[j].kind # "answer"
  BY <1>1 DEF Protocol, OneAnswer, AnswerFits, Awaiting
<1>5. Polls(past)'
  BY <1>1, <1>3, <1>4 DEF Polls, Captured
<1>6. Followed' => Shows(shown, past[0])'
  BY <1>1, <1>2 DEF Hears, Followed, Shows, Agrees, Closed, Plain, NamesFit
<1>7. Hears(past)'
  BY <1>1, <1>5, <1>6 DEF Hears
<1> QED BY <1>2, <1>7 DEF Followable

\* Where a moment of the past is.
LEMMA PastIs ==
    ASSUME NEW past, NEW fl, Len(fl) \in Nat, NEW now, History(past, fl, now), NEW k \in 0..Len(fl)
    PROVE  past[k] \in Moments /\ Later(past[k], now)
<1>1. Len(fl) \in 0..Len(fl) /\ k <= Len(fl)
  OBVIOUS
<1> QED BY <1>1 DEF History

\* While the wait goes on, what is shown is what the past says.
LEMMA ShownWaiting ==
    ASSUME Typed', Protocol', phase' # "over", NEW past, Followable(past)'
    PROVE  ShownFits'
<1>1. outcome' = "none"
  BY DEF Typed
<1>2. SUFFICES ASSUME Followed'
               PROVE  /\ NamesFit(shown)' /\ Len(shown') <= Len(turn'.text)
                      /\ ~hist'.late /\ Plain' =>
                           \A k \in DOMAIN shown' : IsPrefix(shown'[k].text, turn'.text[k])
  BY <1>1 DEF ShownFits
<1>3. CASE phase' \in {"attaching", "starting"}
  <2>1. shown' = <<>> /\ Len(turn'.text) \in Nat
    BY <1>3, TurnType DEF Typed, TurnOK, Protocol, OneRequest
  <2> QED BY <2>1 DEF NamesFit
<1>4. CASE phase' \in {"waiting", "polling", "queueing"}
  <2>1. Shows(shown, past[0])' /\ History(past, Unheard', Now')
    BY <1>2, <1>4 DEF Followable, Hears
  <2>2. Len(Unheard') \in Nat
    <3>1. buffer' \in Seq(Frames) /\ net' \in Seq(Frames)
      BY DEF Typed, Frames
    <3>2. Unheard' \in Seq(Frames)
      BY <3>1 DEF Unheard
    <3> QED BY <3>2
  <2>3. past[0] \in Moments /\ Later(past[0], Now')
    <3>1. PICK fl, now : fl = Unheard' /\ now = Now'
      OBVIOUS
    <3>2. Len(fl) \in Nat /\ History(past, fl, now) /\ 0 \in 0..Len(fl)
      BY <2>1, <2>2, <3>1
    <3>3. past[0] \in Moments /\ Later(past[0], now)
      BY <3>2, PastIs
    <3> QED BY <3>1, <3>3
  <2>4. /\ NamesFit(shown)' /\ Len(shown') = Len(past[0].text)
        /\ ~hist'.late => Agrees(shown, past[0], past[0])'
    BY <2>1 DEF Shows
  <2>5. Len(past[0].text) <= Len(turn'.text)
    BY <2>3 DEF Later, Now
  <2>6. ASSUME ~hist'.late, Plain', NEW k \in DOMAIN shown'
        PROVE  IsPrefix(shown'[k].text, turn'.text[k])
    <3>1. shown'[k].text = past[0].text[k]
      BY <2>4, <2>6 DEF Agrees
    <3>2. k \in DOMAIN past[0].text
      BY <2>3, <2>4 DEF Typed, List, Moments
    <3>3. IsPrefix(past[0].text[k], Now'.text[k])
      BY <2>3, <3>2 DEF Later
    <3> QED BY <3>1, <3>3 DEF Now
  <2> QED BY <2>4, <2>5, <2>6
<1> QED BY <1>3, <1>4 DEF Typed

\* Nothing that was shown is taken back.
Kept ==
    (Followed /\ ~hist.late /\ Plain)' =>
        \A k \in DOMAIN shown : k \in DOMAIN shown' /\ IsPrefix(shown[k].text, shown'[k].text)

Keeps ==
    /\ phase' # "over" => \E p : Followable(p)'
    /\ phase' = "over" => ShownFits'
    /\ Kept

\* Frames are looked at, up to the answer, and es is shown.
LEMMA HearsSettled ==
    ASSUME Typed, Typed', Protocol, net # <<>>, net' = Tail(net), buffer' = <<>>,
           UNCHANGED <<turn, link, hist>>, phase # "over",
           NEW past, Followable(past), NEW es, NEW status, Settle(es, status),
           Followed => Shows(es, past[Len(buffer) + 1]),
           status # "inProgress" => Len(net) = 1 /\ turn.status = status
    PROVE  Keeps
<1>1. History(past, Unheard, Now) /\ Now' = Now
  BY DEF Followable, Now
<1>2. PICK p : History(p, Unheard', Now') /\ p[0] = past[Len(buffer) + 1]
  BY <1>1, PastTaken
<1>3. shown' = es /\ Followed' = Followed /\ Plain' = Plain
  BY DEF Settle, Followed, Plain
<1>4. ASSUME phase' # "over" PROVE Followable(p)'
  <2>1. phase' = "waiting"
    BY <1>4 DEF Settle
  <2>2. Followed' => Shows(shown, p[0])'
    BY <1>2, <1>3 DEF Shows, Agrees, NamesFit
  <2>3. Hears(p)'
    BY <2>1, <2>2 DEF Hears
  <2> QED BY <1>2, <2>3 DEF Followable
<1>5. ASSUME phase' = "over" PROVE ShownFits'
  <2> DEFINE m == past[Len(buffer) + 1]
  <2>1. /\ Len(Unheard) = Len(buffer) + Len(net) /\ Len(buffer) \in Nat
        /\ Len(net) \in Nat \ {0} /\ Len(Unheard) \in Nat
    BY UnheardIs, HeadIs
  <2>2. Len(buffer) + 1 \in 0..Len(Unheard)
    BY <2>1
  <2>3. m \in Moments /\ Later(m, Now)
    BY <1>1, <2>1, <2>2, PastIs
  <2>4. outcome' = status /\ status # "inProgress"
    BY <1>5 DEF Settle
  <2>5. m = Now
    <3>1. Len(buffer) + 1 = Len(Unheard)
      BY <2>1, <2>4
    <3> QED BY <1>1, <3>1 DEF History
  <2> HIDE DEF m
  <2>6. SUFFICES ASSUME Followed
        PROVE  /\ NamesFit(es) /\ Len(es) <= Len(turn.text)
               /\ ~hist.late =>
                    /\ status = "completed" =>
                         Len(es) = Len(turn.text) /\ \A k \in DOMAIN es : es[k].text = turn.text[k]
                    /\ Plain => \A k \in DOMAIN es : IsPrefix(es[k].text, turn.text[k])
    BY <1>3, <2>4 DEF ShownFits, NamesFit
  <2>7. /\ NamesFit(es) /\ Len(es) = Len(turn.text)
        /\ ~hist.late => Agrees(es, Now, Now)
    BY <2>5, <2>6 DEF Shows, m, Now
  <2>8. turn.text \in Seq(Seq(Token)) /\ Len(turn.text) \in Nat
    BY TurnType DEF Typed, TurnOK
  <2>9. DOMAIN es = 1..Len(turn.text)
    BY <1>3, <2>7 DEF Typed, List
  <2>10. ASSUME ~hist.late, status = "completed", NEW k \in DOMAIN es
         PROVE  es[k].text = turn.text[k]
    <3>1. ~turn.open
      BY <2>4, <2>10, TurnType DEF Typed, TurnOK, TurnFits
    <3>2. Closed(Now, k)
      BY <3>1 DEF Closed, Now
    <3> QED BY <2>7, <2>10, <3>2 DEF Agrees, Now
  <2>11. ASSUME ~hist.late, Plain, NEW k \in DOMAIN es PROVE IsPrefix(es[k].text, turn.text[k])
    <3>1. es[k].text = turn.text[k]
      BY <2>7, <2>11 DEF Agrees, Now
    <3>2. turn.text[k] \in Seq(Token)
      BY <2>8, <2>9
    <3>3. IsPrefix(turn.text[k], turn.text[k])
      BY <3>2, PrefixIs
    <3> QED BY <3>1, <3>3
  <2> QED BY <2>7, <2>8, <2>10, <2>11
<1>6. ASSUME Followed', ~hist'.late, Plain', NEW k \in DOMAIN shown
      PROVE  k \in DOMAIN shown' /\ IsPrefix(shown[k].text, shown'[k].text)
  <2> DEFINE m == past[Len(buffer) + 1]
  <2>1. phase \in {"waiting", "polling", "queueing"}
    <3>1. phase \in {"attaching", "starting"} => DOMAIN shown = {}
      BY DEF Protocol, OneRequest
    <3> QED BY <1>6, <3>1 DEF Typed
  <2>2. Followed /\ ~hist.late /\ Plain /\ Shows(shown, past[0]) /\ Shows(es, m)
    BY <1>3, <1>6, <2>1 DEF Followable, Hears
  <2>3. past[0] \in Moments /\ m \in Moments /\ Later(past[0], m)
    <3>1. /\ Len(Unheard) = Len(buffer) + Len(net) /\ Len(buffer) \in Nat
          /\ Len(net) \in Nat \ {0} /\ Len(Unheard) \in Nat
      BY UnheardIs, HeadIs
    <3>2. 0 \in 0..Len(Unheard) /\ Len(buffer) + 1 \in 0..Len(Unheard) /\ 0 <= Len(buffer) + 1
      BY <3>1
    <3> QED BY <1>1, <3>1, <3>2, PastIs DEF History
  <2> HIDE DEF m
  <2>4. /\ Len(shown) = Len(past[0].text) /\ Len(es) = Len(m.text)
        /\ \A i \in DOMAIN shown : shown[i].text = past[0].text[i]
        /\ \A i \in DOMAIN es : es[i].text = m.text[i]
    BY <2>2 DEF Shows, Agrees
  <2>5. List(shown) /\ List(es)
    BY <1>3 DEF Typed
  <2>6. k \in DOMAIN past[0].text /\ k \in DOMAIN m.text /\ k \in DOMAIN es
    <3>1. k \in 1..Len(past[0].text) /\ Len(past[0].text) <= Len(m.text)
      BY <2>3, <2>4, <2>5 DEF List, Later
    <3>2. Len(m.text) \in Nat /\ Len(past[0].text) \in Nat
      BY <2>3 DEF Moments
    <3>3. k \in 1..Len(m.text)
      BY <3>1, <3>2
    <3> QED BY <2>3, <2>4, <2>5, <3>1, <3>3 DEF List, Moments
  <2>7. IsPrefix(past[0].text[k], m.text[k])
    BY <2>3, <2>6 DEF Later
  <2> QED BY <1>3, <2>4, <2>6, <2>7
<1> QED BY <1>4, <1>5, <1>6 DEF Keeps, Kept

LEMMA LastStatus ==
    ASSUME NEW ns \in Seq(Early), StatusOf(ns) # "inProgress"
    PROVE  /\ Len(ns) \in 1..Len(ns) /\ ns[Len(ns)].kind = "turnCompleted"
           /\ ns[Len(ns)].status = StatusOf(ns)
<1>1. ns # <<>> /\ Last(ns).kind = "turnCompleted" /\ Last(ns).status = StatusOf(ns)
  BY DEF StatusOf
<1>2. Len(ns) \in 1..Len(ns)
  BY <1>1
<1> QED BY <1>1, <1>2 DEF Last

\* The end of the turn is the last that is heard.
LEMMA EndIsLast ==
    ASSUME Typed, Protocol, phase # "over", net # <<>>, net[1].kind = "answer"
    PROVE  /\ Len(buffer) \in 1..Len(buffer) /\ buffer[Len(buffer)].kind = "turnCompleted" =>
                Len(net) = 1 /\ turn.status = buffer[Len(buffer)].status
           /\ net[1].snap.status # "inProgress" =>
                Len(net) = 1 /\ turn.status = net[1].snap.status
<1>1. /\ Len(Unheard) = Len(buffer) + Len(net) /\ Len(buffer) \in Nat /\ Len(net) \in Nat \ {0}
      /\ DOMAIN Unheard = 1..Len(Unheard) /\ DOMAIN net = 1..Len(net)
      /\ \A k \in 1..Len(buffer) : Unheard[k] = buffer[k]
      /\ \A j \in 1..Len(net) : Unheard[Len(buffer) + j] = net[j]
  BY UnheardIs, HeadIs
<1>2. AnswerFits(1) /\ LastNotice(Unheard)
  <2>1. 1 \in DOMAIN net
    BY <1>1
  <2> QED BY <2>1 DEF Protocol, OneAnswer
<1>3. ASSUME Len(buffer) \in 1..Len(buffer), buffer[Len(buffer)].kind = "turnCompleted"
      PROVE  Len(net) = 1 /\ turn.status = buffer[Len(buffer)].status
  <2>1. Len(buffer) \in DOMAIN Unheard /\ Unheard[Len(buffer)] = buffer[Len(buffer)]
    BY <1>1, <1>3
  <2>2. /\ turn.status = buffer[Len(buffer)].status
        /\ \A k \in DOMAIN Unheard : k > Len(buffer) => Unheard[k].kind = "answer"
    BY <1>2, <1>3, <2>1 DEF LastNotice
  <2>3. SUFFICES ASSUME Len(net) # 1 PROVE FALSE
    BY <2>2
  <2>4. 2 \in 1..Len(net) /\ Len(buffer) + 2 \in DOMAIN Unheard /\ Len(buffer) + 2 > Len(buffer)
    BY <1>1, <2>3
  <2>5. net[2].kind = "answer" /\ 2 \in DOMAIN net
    BY <1>1, <2>2, <2>4
  <2>6. 2 = 1
    BY <1>2, <2>5 DEF AnswerFits
  <2> QED BY <2>6
<1>4. net[1].snap.status # "inProgress" => Len(net) = 1 /\ turn.status = net[1].snap.status
  BY <1>2 DEF AnswerFits, Fits
<1> QED BY <1>3, <1>4

\* An answer is sent between two steps of the turn.
LEMMA PastAnswer ==
    ASSUME Typed, net # <<>>, NEW past, History(past, Unheard, Now)
    PROVE  /\ Len(buffer) \in 0..Len(Unheard) /\ past[Len(buffer)] \in Moments
           /\ past[Len(buffer) + 1] \in Moments
           /\ Follows(past[Len(buffer)], net[1], past[Len(buffer) + 1])
           /\ Len(past[Len(buffer) + 1].text) <= MaxItem
           /\ net[1].kind = "answer" => past[Len(buffer) + 1] = past[Len(buffer)]
<1>1. /\ Len(Unheard) = Len(buffer) + Len(net) /\ Len(buffer) \in Nat /\ Len(net) \in Nat \ {0}
      /\ Len(Unheard) \in Nat /\ \A j \in 1..Len(net) : Unheard[Len(buffer) + j] = net[j]
  BY UnheardIs, HeadIs
<1>2. /\ Len(buffer) + 1 \in 1..Len(Unheard) /\ Len(buffer) + 1 \in 0..Len(Unheard)
      /\ Len(buffer) \in 0..Len(Unheard) /\ (Len(buffer) + 1) - 1 = Len(buffer)
      /\ Unheard[Len(buffer) + 1] = net[1]
  BY <1>1
<1>3. Follows(past[Len(buffer)], net[1], past[Len(buffer) + 1])
  <2>1. \A k \in 1..Len(Unheard) : Follows(past[k - 1], Unheard[k], past[k])
    BY DEF History
  <2> QED BY <1>2, <2>1
<1>4. past[Len(buffer)] \in Moments /\ past[Len(buffer) + 1] \in Moments
  BY <1>1, <1>2, PastIs
<1>5. Len(past[Len(buffer) + 1].text) <= MaxItem
  <2>1. Later(past[Len(buffer) + 1], Now)
    BY <1>1, <1>2, PastIs
  <2>2. /\ Len(past[Len(buffer) + 1].text) <= Len(turn.text) /\ Len(turn.text) <= MaxItem
        /\ Len(turn.text) \in Nat
    BY <2>1, TurnType DEF Later, Now, Typed, TurnOK
  <2>3. Len(past[Len(buffer) + 1].text) \in Nat
    BY <1>4 DEF Moments
  <2> QED BY <2>2, <2>3, StreamAssumption
<1>6. net[1].kind = "answer" => past[Len(buffer) + 1] = past[Len(buffer)]
  BY <1>3 DEF Follows
<1> QED BY <1>2, <1>3, <1>4, <1>5, <1>6

\* What was set aside is applied as it came.
LEMMA BufferFits ==
    ASSUME Typed, NEW past, History(past, Unheard, Now),
           NEW es, List(es), NamesFit(es), Len(es) = Len(past[0].text)
    PROVE  LET x == ApplyAll(es, buffer)
               m == past[Len(buffer)]
           IN  /\ List(x) /\ NamesFit(x) /\ Len(x) = Len(m.text)
               /\ Agrees(es, past[0], past[0]) => Agrees(x, m, m)
<1>1. /\ Unheard \in Seq(Frames) /\ Len(buffer) \in 0..Len(Unheard) /\ buffer \in Seq(Notices)
      /\ \A k \in 1..Len(buffer) : Unheard[k] = buffer[k]
  <2>1. /\ Unheard \in Seq(Frames) /\ Len(Unheard) = Len(buffer) + Len(net)
        /\ Len(buffer) \in Nat /\ Len(net) \in Nat /\ buffer \in Seq(Notices)
    BY UnheardIs
  <2> QED BY <2>1, UnheardIs
<1>2. \A k \in 1..Len(buffer) : Unheard[k] \in Notices /\ Variant(Unheard[k], buffer[k])
  <2>1. ASSUME NEW k \in 1..Len(buffer) PROVE Variant(buffer[k], buffer[k])
    <3>1. CASE buffer[k].kind = "delta"
      <4>1. buffer[k] \in [kind : {"delta"}, item : 1..MaxItem, text : Seq(Token)]
        BY <1>1, <3>1 DEF Notices
      <4>2. buffer[k] = Delta(buffer[k].item, buffer[k].text) /\ buffer[k].text \in Seq(Token)
        BY <4>1 DEF Delta
      <4> QED BY <3>1, <4>2 DEF Variant
    <3>2. CASE buffer[k].kind # "delta"
      BY <3>2 DEF Variant
    <3> QED BY <3>1, <3>2
  <2> QED BY <1>1, <2>1
<1>3. \A k \in 1..Len(buffer) :
        Plain /\ Unheard[k].kind = "delta" => buffer[k] = IF k <= 0 THEN Nothing ELSE Unheard[k]
  <2>1. \A k \in 1..Len(buffer) : ~(k <= 0)
    BY <1>1
  <2> QED BY <1>1, <2>1
<1>4. 0 \in 0..Len(buffer) /\ buffer \in Seq(Early) /\ TurnOK
  BY BufferEarly, <1>1 DEF Typed
<1> QED BY <1>1, <1>2, <1>3, <1>4, RunFits

\* A step that takes an answer, with the frames ahead of it.
LEMMA AnswerIs ==
    ASSUME Typed, NEW p, TakeAnswer(p)
    PROVE  /\ phase = p /\ net # <<>> /\ Head(net) = net[1] /\ net[1].kind = "answer"
           /\ net[1].snap \in Snapshots /\ net' = Tail(net) /\ buffer' = <<>>
           /\ UNCHANGED <<turn, link, submits, hist>>
BY HeadIs DEF TakeAnswer, Arrived

LEMMA HearsStarted ==
    ASSUME Typed, Typed', Protocol, StartAnswered, NEW past, Followable(past)
    PROVE  Keeps
<1>1. /\ phase = "starting" /\ net # <<>> /\ net[1].kind = "answer" /\ net' = Tail(net)
      /\ buffer' = <<>> /\ UNCHANGED <<turn, link, submits, hist>>
      /\ Settle(ApplyAll(<<>>, buffer), StatusOf(buffer))
  BY AnswerIs DEF StartAnswered
<1>2. History(past, Unheard, Now) /\ Hears(past)
  BY DEF Followable
<1> DEFINE es == ApplyAll(<<>>, buffer)
<1>3. Followed => Shows(es, past[Len(buffer) + 1])
  <2>1. SUFFICES ASSUME Followed PROVE Shows(es, past[Len(buffer) + 1])
    OBVIOUS
  <2>2. link.sub
    BY <1>1 DEF Protocol, OneRequest
  <2>3. past[0].text = <<>>
    BY <1>1, <1>2, <2>1, <2>2 DEF Hears, Followed
  <2> DEFINE e == <<>>
  <2>4. /\ List(e) /\ NamesFit(e) /\ Len(e) = Len(past[0].text)
        /\ Agrees(e, past[0], past[0])
    BY <2>3 DEF List, NamesFit, Agrees
  <2> HIDE DEF e
  <2>5. LET x == ApplyAll(e, buffer)
            m == past[Len(buffer)]
        IN  /\ List(x) /\ NamesFit(x) /\ Len(x) = Len(m.text)
            /\ Agrees(e, past[0], past[0]) => Agrees(x, m, m)
    BY <1>2, <2>4, BufferFits
  <2>6. past[Len(buffer) + 1] = past[Len(buffer)] /\ es = ApplyAll(e, buffer)
    BY <1>1, <1>2, PastAnswer DEF e
  <2> QED BY <2>4, <2>5, <2>6 DEF Shows
<1> HIDE DEF es
<1>4. StatusOf(buffer) # "inProgress" => Len(net) = 1 /\ turn.status = StatusOf(buffer)
  BY <1>1, BufferEarly, LastStatus, EndIsLast
<1> QED BY <1>1, <1>3, <1>4, HearsSettled DEF es

LEMMA HearsPolled ==
    ASSUME Typed, Typed', Protocol, PollAnswered, NEW past, Followable(past)
    PROVE  Keeps
<1> DEFINE told == ApplyAll(shown, buffer)
           snap == net[1].snap
           m    == past[Len(buffer) + 1]
           x    == SyncFromTurn(told, snap.text)
<1>1. /\ phase = "polling" /\ net # <<>> /\ net[1].kind = "answer" /\ net' = Tail(net)
      /\ buffer' = <<>> /\ UNCHANGED <<turn, link, submits, hist>> /\ snap \in Snapshots
      /\ IF StatusOf(buffer) = "inProgress" /\ snap.listed
         THEN Settle(x, snap.status)
         ELSE Settle(told, StatusOf(buffer))
  BY AnswerIs DEF PollAnswered
<1>2. History(past, Unheard, Now) /\ Hears(past)
  BY DEF Followable
<1>3. m = past[Len(buffer)] /\ m \in Moments /\ Len(m.text) <= MaxItem
  BY <1>1, <1>2, PastAnswer
<1>4. Followed => List(told) /\ Shows(told, m)
  <2>1. SUFFICES ASSUME Followed PROVE List(told) /\ Shows(told, m)
    OBVIOUS
  <2>2. Shows(shown, past[0]) /\ List(shown)
    BY <1>1, <1>2, <2>1 DEF Hears, Typed
  <2>3. LET n == past[Len(buffer)]
        IN  /\ List(told) /\ NamesFit(told) /\ Len(told) = Len(n.text)
            /\ Agrees(shown, past[0], past[0]) => Agrees(told, n, n)
    BY <1>2, <2>2, BufferFits DEF Shows
  <2> HIDE DEF told, m
  <2> QED BY <1>3, <2>2, <2>3 DEF Shows
<1> HIDE DEF told
<1>5. CASE StatusOf(buffer) = "inProgress" /\ snap.listed
  <2>1. Followed => Shows(x, m)
    <3>1. SUFFICES ASSUME Followed PROVE Shows(x, m)
      OBVIOUS
    <3>2. PollAt(m, snap)
      <4>1. Polls(past) /\ 1 \in DOMAIN net
        BY <1>1, <1>2, HeadIs, UnheardIs DEF Hears
      <4> QED BY <1>1, <4>1 DEF Polls
    <3>3. /\ List(told) /\ NamesFit(told) /\ Len(told) = Len(m.text)
          /\ ~hist.late => Agrees(told, m, m)
      BY <1>4, <3>1 DEF Shows
    <3>4. snap.text \in Seq(Seq(Token)) /\ Len(snap.text) <= Len(told)
      BY <1>1, <1>5, <3>2, <3>3, SnapType DEF PollAt
    <3>5. ~hist.late => snap.text = m.text
      BY <1>5, <3>2 DEF PollAt
    <3> DEFINE s == snap.text
    <3>6. Len(told) <= MaxItem
      BY <1>3, <3>3
    <3> HIDE DEF m, s, snap
    <3>7. /\ List(SyncFromTurn(told, s)) /\ NamesFit(SyncFromTurn(told, s))
          /\ Len(SyncFromTurn(told, s)) = Len(told)
          /\ s = m.text /\ Agrees(told, m, m) =>
               Agrees(SyncFromTurn(told, s), m, m)
      BY <3>3, <3>4, <3>6, PollFits DEF s
    <3> QED BY <3>3, <3>5, <3>7 DEF Shows, s
  <2>2. snap.status # "inProgress" => Len(net) = 1 /\ turn.status = snap.status
    BY <1>1, EndIsLast
  <2> HIDE DEF x
  <2>3. Settle(x, snap.status)
    BY <1>1, <1>5
  <2> HIDE DEF snap
  <2> QED BY <1>1, <2>1, <2>2, <2>3, HearsSettled DEF m
<1>6. CASE ~(StatusOf(buffer) = "inProgress" /\ snap.listed)
  <2>1. StatusOf(buffer) # "inProgress" => Len(net) = 1 /\ turn.status = StatusOf(buffer)
    BY <1>1, BufferEarly, LastStatus, EndIsLast
  <2>2. Settle(told, StatusOf(buffer))
    BY <1>1, <1>6
  <2> QED BY <1>1, <1>4, <2>1, <2>2, HearsSettled DEF m
<1> QED BY <1>5, <1>6

LEMMA HearsQueued ==
    ASSUME Typed, Typed', Protocol, QueueAnswered, NEW past, Followable(past)
    PROVE  Keeps
<1>1. /\ phase = "queueing" /\ net # <<>> /\ net[1].kind = "answer" /\ net' = Tail(net)
      /\ buffer' = <<>> /\ UNCHANGED <<turn, link, submits, hist>>
      /\ Settle(shown, "inProgress")
  BY AnswerIs DEF QueueAnswered
<1>2. History(past, Unheard, Now) /\ Hears(past) /\ buffer = <<>>
  BY <1>1 DEF Followable, Protocol, OneRequest
<1>3. past[Len(buffer) + 1] = past[0]
  <2>1. Len(buffer) = 0
    BY <1>2
  <2> QED BY <1>1, <1>2, <2>1, PastAnswer
<1>4. Followed => Shows(shown, past[Len(buffer) + 1])
  BY <1>1, <1>2, <1>3 DEF Hears
<1>5. phase # "over" /\ UNCHANGED <<turn, link, hist>> /\ "inProgress" = "inProgress"
  BY <1>1
<1> QED BY <1>1, <1>4, <1>5, HearsSettled

\* A notification is applied as it is.
LEMMA AsItIs == ASSUME NEW f \in Notices PROVE Variant(f, f)
<1>1. CASE f.kind = "delta"
  <2>1. f \in [kind : {"delta"}, item : 1..MaxItem, text : Seq(Token)]
    BY <1>1 DEF Notices
  <2>2. f = Delta(f.item, f.text) /\ f.text \in Seq(Token)
    BY <2>1 DEF Delta
  <2> QED BY <1>1, <2>2 DEF Variant
<1>2. CASE f.kind # "delta"
  BY <1>2 DEF Variant
<1> QED BY <1>1, <1>2

LEMMA HearsReceived ==
    ASSUME Typed, Typed', Protocol, Receive, NEW past, Followable(past)
    PROVE  Keeps
<1> DEFINE f == net[1]
           x == Apply(shown, f)
<1>1. /\ phase = "waiting" /\ net # <<>> /\ Head(net) = f /\ net' = Tail(net)
      /\ UNCHANGED <<turn, link, buffer, submits, hist>>
      /\ Settle(x, StatusOf(<<f>>))
  BY HeadIs DEF Receive
<1>2. /\ History(past, Unheard, Now) /\ Hears(past) /\ buffer = <<>> /\ OneAnswer
      /\ LastNotice(Unheard)
  BY <1>1 DEF Followable, Protocol, OneRequest
<1>3. /\ Len(net) \in Nat \ {0} /\ DOMAIN net = 1..Len(net) /\ Unheard = net
  BY <1>1, <1>2, HeadIs, UnheardIs DEF Unheard
<1>4. \A j \in DOMAIN net : net[j].kind # "answer"
  BY <1>1, <1>2 DEF OneAnswer, AnswerFits, Awaiting
<1>5. f \in Notices
  <2>1. 1 \in DOMAIN net
    BY <1>3
  <2> QED BY <1>1, <1>4, <2>1, HeadIs
<1>6. /\ past[0] \in Moments /\ past[1] \in Moments /\ Follows(past[0], f, past[1])
      /\ Len(past[1].text) <= MaxItem
  <2>1. Len(buffer) = 0 /\ 0 + 1 = 1
    BY <1>2
  <2> QED BY <1>1, <1>2, <2>1, PastAnswer
<1>7. Plain => \A i \in DOMAIN past[1].text : IsInjective(past[1].text[i])
  <2>1. Later(past[1], Now)
    <3>1. 1 \in 0..Len(Unheard) /\ Len(Unheard) \in Nat
      BY <1>3
    <3> QED BY <1>2, <3>1, PastIs
  <2> QED BY <1>6, <2>1, PlainPast DEF Typed
<1>8. Followed => Shows(x, past[Len(buffer) + 1])
  <2>1. SUFFICES ASSUME Followed PROVE Shows(x, past[1])
    <3>1. Len(buffer) + 1 = 1
      BY <1>2
    <3> QED BY <3>1
  <2>2. Shows(shown, past[0]) /\ List(shown)
    BY <1>1, <1>2, <2>1 DEF Hears, Typed
  <2> HIDE DEF f
  <2>3. /\ List(x) /\ NamesFit(x) /\ Len(x) = Len(past[1].text)
        /\ Agrees(shown, past[0], past[0]) => Agrees(x, past[1], past[1])
    BY <1>5, <1>6, <1>7, <2>2, AsItIs, StepFits DEF Shows
  <2> QED BY <2>2, <2>3 DEF Shows
<1>9. StatusOf(<<f>>) # "inProgress" => Len(net) = 1 /\ turn.status = StatusOf(<<f>>)
  <2>1. SUFFICES ASSUME StatusOf(<<f>>) # "inProgress"
                 PROVE  Len(net) = 1 /\ turn.status = StatusOf(<<f>>)
    OBVIOUS
  <2>2. f.kind = "turnCompleted" /\ f.status = StatusOf(<<f>>)
    BY <2>1 DEF StatusOf, Last
  <2>3. 1 \in DOMAIN net
    BY <1>3
  <2>4. turn.status = f.status /\ \A k \in DOMAIN net : k > 1 => net[k].kind = "answer"
    BY <1>2, <1>3, <2>2, <2>3 DEF LastNotice
  <2>5. Len(net) > 1 => Len(net) \in DOMAIN net
    BY <1>3
  <2> QED BY <1>3, <1>4, <2>2, <2>4, <2>5
<1>10. buffer' = <<>> /\ phase # "over" /\ UNCHANGED <<turn, link, hist>>
  BY <1>1, <1>2
<1> HIDE DEF x, f
<1> QED BY <1>1, <1>8, <1>9, <1>10, HearsSettled

\* The snapshot of a resume and what it does not say yet.
LEMMA HearsAttached ==
    ASSUME Typed, Typed', Protocol, AttachAnswered, NEW past, Followable(past)
    PROVE  Keeps
<1> DEFINE texts == net[1].snap.text
           seed  == Seed(texts)
           early == ReconcileReplayedDeltas(seed, buffer)
           n     == Len(buffer)
           x     == ApplyAll(seed, early)
<1>1. /\ phase = "attaching" /\ net # <<>> /\ net[1].kind = "answer" /\ net' = Tail(net)
      /\ net[1].snap \in Snapshots
      /\ buffer' = <<>> /\ UNCHANGED <<turn, link, submits, hist>>
      /\ Settle(x, StatusOf(early))
  BY AnswerIs DEF AttachAnswered
<1>2. History(past, Unheard, Now) /\ Hears(past)
  BY DEF Followable
<1>3. /\ past[n + 1] = past[n] /\ past[n] \in Moments /\ Len(past[n].text) <= MaxItem
      /\ n \in 0..Len(Unheard)
  BY <1>1, <1>2, PastAnswer
<1>4. /\ Unheard \in Seq(Frames) /\ buffer \in Seq(Notices) /\ n \in Nat /\ Len(Unheard) \in Nat
      /\ \A k \in 1..n : Unheard[k] = buffer[k]
  BY UnheardIs
<1>5. /\ texts \in Seq(Seq(Token)) /\ List(seed) /\ Len(seed) = Len(texts)
      /\ \A p \in 1..Len(texts) : seed[p] = Entry(ItemId(p), texts[p], 0)
  BY <1>1, SnapType, SeedType
<1>6. /\ early \in Seq(Early) /\ Len(early) = n
      /\ \A k \in 1..n :
           /\ buffer[k].kind # "delta" => early[k] = buffer[k]
           /\ buffer[k].kind = "delta" =>
                \/ early[k] = Nothing
                \/ \E t \in Seq(Token) : early[k] = Delta(buffer[k].item, t)
  <2> HIDE DEF seed
  <2> QED BY <1>4, <1>5, EarlyType
<1>7. StatusOf(early) # "inProgress" => Len(net) = 1 /\ turn.status = StatusOf(early)
  <2>1. SUFFICES ASSUME StatusOf(early) # "inProgress"
                 PROVE  Len(net) = 1 /\ turn.status = StatusOf(early)
    OBVIOUS
  <2> HIDE DEF early
  <2>2. /\ n \in 1..n /\ early[n].kind = "turnCompleted" /\ early[n].status = StatusOf(early)
    BY <1>6, <2>1, LastStatus
  <2>3. buffer[n] = early[n]
    <3>1. buffer[n].kind # "delta" => early[n] = buffer[n]
      BY <1>6, <2>2
    <3>2. buffer[n].kind = "delta" => early[n].kind \in {"nothing", "delta"}
      <4>1. Nothing.kind = "nothing" /\ \A i, t : Delta(i, t).kind = "delta"
        BY DEF Nothing, Delta
      <4>2. buffer[n].kind = "delta" =>
              \/ early[n] = Nothing
              \/ \E t \in Seq(Token) : early[n] = Delta(buffer[n].item, t)
        BY <1>6, <2>2
      <4> QED BY <4>1, <4>2
    <3> QED BY <2>2, <3>1, <3>2
  <2> QED BY <1>1, <2>2, <2>3, EndIsLast
<1>8. Followed => Shows(x, past[n + 1])
  <2>1. SUFFICES ASSUME Followed PROVE Shows(x, past[n])
    BY <1>3
  <2>2. PICK a \in 0..(n + 1) : SeedAt(past, a, texts)
    <3>1. Attaches(past) /\ 1 \in DOMAIN net
      BY <1>1, <1>2, <2>1, HeadIs, UnheardIs DEF Hears, Followed
    <3> QED BY <1>1, <3>1 DEF Attaches
  <2>3. PICK c \in 0..n : past[c] = past[a]
    <3>1. CASE a = n + 1
      BY <1>3, <1>4, <3>1
    <3>2. CASE a # n + 1
      BY <1>4, <3>2
    <3> QED BY <3>1, <3>2
  <2>4. texts = past[c].text /\ Len(past[c].text) = Len(past[0].text)
    BY <2>2, <2>3 DEF SeedAt
  <2>5. Resumed(past, buffer, c)
    <3>1. \A k \in 0..n : k \in 0..Len(Unheard)
      BY <1>3, <1>4
    <3>2. \A k \in 0..n : past[k] \in Moments
      BY <1>2, <1>4, <3>1, PastIs
    <3>3. \A k \in 1..n : Follows(past[k - 1], buffer[k], past[k])
      <4>1. \A k \in 1..n : k \in 1..Len(Unheard)
        BY <1>3, <1>4
      <4> QED BY <1>2, <1>4, <4>1 DEF History
    <3>4. \A i, j \in 0..n : i <= j => Later(past[i], past[j])
      BY <1>2, <3>1 DEF History
    <3> QED BY <2>4, <3>2, <3>3, <3>4 DEF Resumed
  <2>6. Plain => \A i \in DOMAIN past[n].text : IsInjective(past[n].text[i])
    <3>1. Later(past[n], Now)
      BY <1>2, <1>3, <1>4, PastIs
    <3> HIDE DEF n
    <3> QED BY <1>3, <3>1, PlainPast DEF Typed
  <2>7. \A k \in 1..n : Unheard[k] \in Notices /\ Variant(Unheard[k], early[k])
    <3> HIDE DEF early
    <3> QED BY <1>4, <1>6 DEF Variant
  <2>8. \A k \in 1..n : Plain /\ Unheard[k].kind = "delta" =>
                          early[k] = IF k <= c THEN Nothing ELSE Unheard[k]
    <3>1. ASSUME NEW k \in 1..n, Plain, buffer[k].kind = "delta"
          PROVE  early[k] = IF k <= c THEN Nothing ELSE buffer[k]
      <4>1. buffer[k].text # <<>>
        <5>1. Follows(past[k - 1], buffer[k], past[k])
          BY <2>5 DEF Resumed
        <5> QED BY <3>1, <5>1 DEF Follows
      <4>2. ReconcileReplayedDeltas(Seed(past[c].text), buffer)[k] =
              IF k <= c THEN Nothing ELSE buffer[k]
        BY <1>3, <1>4, <2>5, <2>6, <3>1, <4>1, ReplayFits
      <4>3. early = ReconcileReplayedDeltas(Seed(past[c].text), buffer)
        BY <2>4
      <4> HIDE DEF early
      <4> QED BY <4>2, <4>3
    <3> HIDE DEF early
    <3> QED BY <1>4, <3>1
  <2>9. /\ List(seed) /\ NamesFit(seed) /\ Len(seed) = Len(past[0].text)
        /\ Agrees(seed, past[0], past[c])
    <3>1. DOMAIN seed = 1..Len(texts)
      <4> HIDE DEF seed
      <4> QED BY <1>5 DEF List
    <3>2. ASSUME NEW p \in DOMAIN seed
          PROVE  EntryFits(seed[p], p) /\ seed[p].text = past[c].text[p]
      <4>1. seed[p] = Entry(ItemId(p), texts[p], 0)
        BY <1>5, <3>1
      <4> HIDE DEF seed, texts
      <4>2. EntryFits(seed[p], p)
        BY <4>1 DEF Entry, EntryFits, NoCursor
      <4>3. seed[p].text = texts[p]
        BY <4>1 DEF Entry
      <4> QED BY <2>4, <4>2, <4>3
    <3> HIDE DEF seed, texts
    <3> QED BY <1>5, <2>4, <3>2 DEF NamesFit, Agrees
  <2> HIDE DEF seed, early, x, n
  <2>10. LET y == ApplyAll(seed, early)
         IN  /\ List(y) /\ NamesFit(y) /\ Len(y) = Len(past[n].text)
             /\ Agrees(seed, past[0], past[c]) => Agrees(y, past[n], past[n])
    <3>1. TurnOK
      BY DEF Typed
    <3>2. History(past, Unheard, Now) /\ Unheard \in Seq(Frames) /\ n \in 0..Len(Unheard)
      BY <1>2, <1>3, <1>4
    <3>3. early \in Seq(Early) /\ Len(early) = n
      BY <1>6
    <3>4. c \in 0..n /\ Len(past[c].text) = Len(past[0].text)
      BY <2>3, <2>4
    <3>5. List(seed) /\ NamesFit(seed) /\ Len(seed) = Len(past[0].text)
      BY <2>9
    <3> QED BY <2>7, <2>8, <3>1, <3>2, <3>3, <3>4, <3>5, RunFits, Zenon
  <2> QED BY <2>9, <2>10 DEF Shows, x
<1>9. phase # "over" /\ UNCHANGED <<turn, link, hist>>
  BY <1>1
<1> HIDE DEF x, early, seed, texts
<1> QED BY <1>1, <1>7, <1>8, <1>9, HearsSettled

(***************************************************************************)
(* The invariant.                                                          *)
(***************************************************************************)
LEMMA InvInit == ASSUME Init PROVE StreamInv
<1>1. PICK p \in {"attaching", "starting"} :
        /\ phase = p
        /\ link = [sub |-> FALSE, snap |-> NoSnap,
                   asked |-> IF p = "attaching" THEN "resume" ELSE "start"]
  BY DEF Init
<1>2. /\ turn = [text |-> <<>>, open |-> FALSE, status |-> "inProgress"]
      /\ net = <<>> /\ buffer = <<>> /\ shown = <<>> /\ outcome = "none" /\ submits = 0
      /\ hist = [gap |-> FALSE, straddled |-> FALSE, late |-> FALSE]
  BY DEF Init
<1>3. TurnOK
  <2> DEFINE e == <<>>
  <2>1. e \in Seq(Seq(Token)) /\ Len(e) = 0
    OBVIOUS
  <2>2. Len(e) <= MaxItem /\ FlattenSeq(e) = <<>> /\ Len(FlattenSeq(e)) <= MaxText
    <3>1. FlattenSeq(e) = <<>>
      BY DEF FlattenSeq
    <3> QED BY <2>1, <3>1, StreamAssumption
  <2>3. \A i \in 1..Len(e) : Len(e[i]) <= MaxText
    BY <2>1
  <2> HIDE DEF e
  <2>4. TurnFits([text |-> e, open |-> FALSE, status |-> "inProgress"])
    BY <2>1, <2>2, <2>3, TurnMade DEF Statuses
  <2> QED BY <1>2, <2>4 DEF TurnOK, e
<1>4. Typed
  <2>1. 0 \in 0..MaxSubmit
    BY StreamAssumption
  <2>2. List(shown)
    BY <1>2 DEF List
  <2> QED BY <1>1, <1>2, <1>3, <2>1, <2>2 DEF Typed
<1>5. Unheard = <<>> /\ DOMAIN net = {}
  BY <1>2 DEF Unheard
<1>6. Protocol
  BY <1>1, <1>2, <1>5 DEF Protocol, OneRequest, AskedInPhase, Captured, OneAnswer, LastNotice
<1>7. Followable([k \in 0..0 |-> Now])
  <2>1. PICK past : past = [k \in 0..0 |-> Now]
    OBVIOUS
  <2>2. Now \in Moments
    BY <1>3, MomentIs DEF TurnOK, Now
  <2>3. History(past, Unheard, Now) /\ past[0] = Now
    BY <1>5, <2>1, <2>2, HistoryStart
  <2>4. Hears(past)
    BY <1>1, <1>2, <1>5, <2>3 DEF Hears, Attaches, Captured, Now
  <2> QED BY <2>1, <2>3, <2>4 DEF Followable
<1>8. ShownFits
  BY <1>2 DEF ShownFits, NamesFit
<1> QED BY <1>4, <1>6, <1>7, <1>8 DEF StreamInv

\* A wait that is over stays as it is.
LEMMA OverIsOver ==
    ASSUME Typed, Protocol, phase = "over", [Next]_vars
    PROVE  UNCHANGED vars
<1>1. link.asked = "none" /\ ~Captured
  BY DEF Protocol, OneRequest, AskedInPhase
<1>2. ~Server
  BY <1>1 DEF Server, StartItem, Say, CompleteItem, EndTurn, Running, Subscribe, Capture, SendAnswer
<1>3. ~Watch
  BY DEF Watch, SetAside, Awaiting, Answered, AttachAnswered, StartAnswered, PollAnswered,
         QueueAnswered, TakeAnswer, Receive
<1> QED BY <1>2, <1>3 DEF Next, Poll, Submit, Leave, TimeOut, ConnectionFails

\* What was shown before is the beginning of what is shown when nothing changes.
LEMMA KeptSame == ASSUME Typed, shown' = shown PROVE Kept
<1>1. ASSUME NEW k \in DOMAIN shown PROVE IsPrefix(shown[k].text, shown[k].text)
  <2>1. shown \in Seq(Entries)
    BY DEF Typed, List
  <2>2. shown[k] \in Entries
    BY <2>1
  <2>3. shown[k].text \in Seq(Token)
    BY <2>2 DEF Entries
  <2> QED BY <2>3, PrefixIs
<1> QED BY <1>1 DEF Kept

\* The server goes on with the turn: a notification follows.
LEMMA TurnFollows ==
    ASSUME Typed, StartItem \/ Say \/ CompleteItem \/ EndTurn
    PROVE  \E n \in Notices : Notify(n) /\ Follows(Now, n, Now')
<1>1. CASE StartItem
  <2> DEFINE n == Started(Len(turn.text) + 1)
  <2>1. /\ n \in Notices /\ Notify(n) /\ ~turn.open
        /\ turn' = [text |-> Append(turn.text, <<>>), open |-> TRUE, status |-> turn.status]
    BY <1>1, StartItemType DEF StartItem
  <2>2. Now' = [text |-> Append(turn.text, <<>>), open |-> TRUE]
    BY <2>1 DEF Now
  <2>3. n.kind = "started" /\ n.item = Len(turn.text) + 1
    BY DEF Started
  <2> HIDE DEF n
  <2>4. Follows(Now, n, Now')
    BY <2>1, <2>2, <2>3 DEF Follows, Now
  <2> QED BY <2>1, <2>4
<1>2. CASE Say
  <2>1. turn.open
    BY <1>2 DEF Say
  <2>2. PICK d \in Seq(Token) \ {<<>>} :
          /\ Delta(Len(turn.text), d) \in Notices /\ Notify(Delta(Len(turn.text), d))
          /\ turn' = [text |-> [turn.text EXCEPT ![Len(turn.text)] = @ \o d],
                      open |-> TRUE, status |-> turn.status]
    BY <1>2, SayType
  <2> DEFINE n == Delta(Len(turn.text), d)
  <2>3. Now' = [text |-> [turn.text EXCEPT ![Len(turn.text)] = @ \o d], open |-> TRUE]
    BY <2>2 DEF Now
  <2>4. n.kind = "delta" /\ n.item = Len(turn.text) /\ n.text = d
    BY DEF Delta
  <2>5. n \in Notices /\ Notify(n)
    BY <2>2
  <2> HIDE DEF n
  <2>6. Follows(Now, n, Now')
    BY <2>1, <2>3, <2>4 DEF Follows, Now
  <2> QED BY <2>5, <2>6
<1>3. CASE CompleteItem
  <2> DEFINE n == Completed(Len(turn.text), turn.text[Len(turn.text)])
  <2>1. /\ n \in Notices /\ Notify(n) /\ turn.open /\ turn'.text = turn.text /\ turn'.open = FALSE
    BY <1>3, CompleteItemType DEF CompleteItem
  <2>2. Now' = [text |-> turn.text, open |-> FALSE]
    BY <2>1 DEF Now
  <2>3. n.kind = "completed" /\ n.item = Len(turn.text) /\ n.text = turn.text[Len(turn.text)]
    BY DEF Completed
  <2> HIDE DEF n
  <2>4. Follows(Now, n, Now')
    BY <2>1, <2>2, <2>3 DEF Follows, Now
  <2> QED BY <2>1, <2>4
<1>4. CASE EndTurn
  <2> DEFINE n == TurnCompleted(turn'.status)
  <2>1. n \in Notices /\ Notify(n) /\ turn'.text = turn.text /\ turn'.open = turn.open
    BY <1>4, EndTurnType
  <2>2. Now' = Now
    BY <2>1 DEF Now
  <2>3. n.kind = "turnCompleted"
    BY DEF TurnCompleted
  <2> HIDE DEF n
  <2>4. Follows(Now, n, Now')
    BY <2>2, <2>3 DEF Follows
  <2> QED BY <2>1, <2>4
<1> QED BY <1>1, <1>2, <1>3, <1>4

LEMMA InvStep == ASSUME StreamInv, [Next]_vars PROVE StreamInv' /\ Kept
<1>1. Typed /\ Protocol /\ ShownFits /\ Typed' /\ Protocol'
  BY TypedStep, ProtocolStep DEF StreamInv
<1>2. CASE UNCHANGED vars
  <2>1. ShownFits' /\ shown' = shown
    BY <1>1, <1>2 DEF vars, ShownFits, Followed, NamesFit, Plain
  <2>2. phase' # "over" => \E past : Followable(past)'
    <3>1. SUFFICES ASSUME phase # "over" PROVE \E past : Followable(past)'
      BY <1>2 DEF vars
    <3>2. PICK past : Followable(past)
      BY <3>1 DEF StreamInv
    <3>3. Followable(past)'
      BY <1>2, <3>2
      DEF vars, Followable, History, Unheard, Now, Hears, Attaches, Polls, PollAt, SeedAt, Captured,
          Followed, Shows, NamesFit, Agrees, Closed, Plain
    <3> QED BY <3>3
  <2> QED BY <1>1, <2>1, <2>2, KeptSame DEF StreamInv
<1>3. CASE phase = "over"
  BY <1>1, <1>2, <1>3, OverIsOver
<1>4. CASE phase # "over" /\ Next
  <2>1. PICK past : Followable(past)
    BY <1>4 DEF StreamInv
  <2>2. CASE StartItem \/ Say \/ CompleteItem \/ EndTurn
    <3>1. PICK n \in Notices : Notify(n) /\ Follows(Now, n, Now')
      BY <1>1, <2>2, TurnFollows
    <3>2. \E p : Followable(p)'
      BY <1>1, <1>4, <2>1, <3>1, HearsNotify
    <3>3. shown' = shown /\ phase' = phase
      BY <3>1 DEF Notify
    <3> QED BY <1>1, <1>4, <3>2, <3>3, KeptSame, ShownWaiting DEF StreamInv
  <2>3. CASE Subscribe \/ Capture \/ SendAnswer
    <3>1. \E p : Followable(p)'
      BY <1>1, <2>1, <2>3, HearsSubscribe, HearsCapture, HearsSendAnswer
    <3>2. shown' = shown /\ phase' = phase
      BY <2>3 DEF Subscribe, Capture, SendAnswer
    <3> QED BY <1>1, <1>4, <3>1, <3>2, KeptSame, ShownWaiting DEF StreamInv
  <2>4. CASE SetAside
    <3>1. \E p : Followable(p)'
      BY <1>1, <2>1, <2>4, HearsSetAside
    <3>2. shown' = shown /\ phase' = phase
      BY <2>4 DEF SetAside
    <3> QED BY <1>1, <1>4, <3>1, <3>2, KeptSame, ShownWaiting DEF StreamInv
  <2>5. CASE Answered \/ Receive
    <3>1. Keeps
      BY <1>1, <2>1, <2>5, HearsAttached, HearsStarted, HearsPolled, HearsQueued, HearsReceived
      DEF Answered
    <3>2. (phase' = "over" => ShownFits') /\ Kept /\ (phase' # "over" => \E p : Followable(p)')
      BY <3>1 DEF Keeps
    <3> QED BY <1>1, <3>2, ShownWaiting DEF StreamInv
  <2>6. CASE Poll \/ Submit
    <3>1. Followable(past)'
      BY <1>1, <2>1, <2>6, HearsAsk
    <3>2. shown' = shown /\ phase' # "over"
      BY <2>6 DEF Poll, Submit
    <3> QED BY <1>1, <3>1, <3>2, KeptSame, ShownWaiting DEF StreamInv
  <2>7. CASE Leave \/ TimeOut \/ ConnectionFails
    <3>1. PICK how \in {"left", "failed"} : EndWait(how)
      BY <2>7 DEF Leave, TimeOut, ConnectionFails
    <3>2. phase' = "over" /\ outcome' \in {"left", "failed"} /\ UNCHANGED <<turn, shown, submits, hist>>
      BY <3>1 DEF EndWait
    <3>3. ShownFits'
      BY <1>1, <3>2 DEF ShownFits, Followed, NamesFit, Plain
    <3> QED BY <1>1, <3>2, <3>3, KeptSame DEF StreamInv
  <2> QED BY <1>4, <2>2, <2>3, <2>4, <2>5, <2>6, <2>7 DEF Next, Server, Watch
<1> QED BY <1>2, <1>3, <1>4

(***************************************************************************)
(* The theorems.                                                           *)
(***************************************************************************)
LEMMA StreamInvHolds == Spec => []StreamInv
<1>1. Init => StreamInv
  BY InvInit
<1>2. StreamInv /\ [Next]_vars => StreamInv'
  BY InvStep
<1> QED BY <1>1, <1>2, PTL DEF Spec

\* Every entry the watcher keeps has names the server could have given and a
\* cursor within its text (AssistantResponse), no request is under way while
\* the wait reads notifications, and the wait has an outcome exactly when it is
\* over, for any tokens, messages, prompts and frames.
THEOREM TypeCorrect == Spec => []TypeOK
<1>1. StreamInv => TypeOK
  <2> SUFFICES ASSUME StreamInv PROVE TypeOK
    OBVIOUS
  <2>1. Typed /\ Protocol
    BY DEF StreamInv
  <2>2. turn \in [text : BoundedSeq(Text, MaxItem), open : BOOLEAN,
                  status : {"inProgress", "completed", "interrupted"}]
    BY <2>1 DEF Typed, TurnOK, TurnFits, Statuses
  <2>3. /\ link.asked \in {"none", "resume", "start", "list"}
        /\ link.snap \in Snapshots \cup {NoSnap}
    BY <2>1 DEF Typed
  <2>4. phase = "waiting" => link.asked = "none"
    BY <2>1 DEF Protocol, OneRequest, AskedInPhase
  <2>5. ASSUME NEW k \in DOMAIN shown
        PROVE  /\ shown[k].item \in Id
               /\ {shown[k].live, shown[k].poll} \subseteq Id \cup {NoId}
               /\ shown[k].cursor \in {NoCursor, 0} \cup 1..(Len(shown[k].text) - 1)
    <3>1. shown \in Seq(Entries) /\ CursorFits(shown[k])
      BY <2>1 DEF Typed, List
    <3>2. shown[k] \in Entries
      BY <3>1
    <3> QED BY <3>1, <3>2 DEF Entries, CursorFits
  <2>6. /\ outcome \in {"none", "completed", "interrupted", "left", "failed"}
        /\ phase = "over" <=> outcome # "none"
        /\ submits \in 0..MaxSubmit
    BY <2>1 DEF Typed
  <2> QED BY <2>2, <2>3, <2>4, <2>5, <2>6 DEF TypeOK
<1> QED BY <1>1, StreamInvHolds, PTL

\* What is shown and what was said are lists.
LEMMA ShownAndTurn ==
    ASSUME Typed
    PROVE  shown \in Seq(Entries) /\ turn.text \in Seq(Seq(Token))
BY TurnType DEF Typed, List, TurnOK

\* An entry names its own message alone.
LEMMA NamesOwn ==
    ASSUME NEW e, NEW k, EntryFits(e, k), NEW a \in Names(e)
    PROVE  MessageOf(a) = k
BY DEF EntryFits, HasLive, Names, MessageOf, LiveId, ItemId

\* A message has one entry and an entry one message, however the live names of
\* notifications and the names of polled snapshots arrive (resolve_live and
\* sync_from_turn join them), once the turn was heard from its snapshot or its
\* start on.
THEOREM OneEntryHolds == Spec => []OneEntryPerMessage
<1>1. StreamInv => OneEntryPerMessage
  <2> SUFFICES ASSUME StreamInv, Followed,
                      NEW k \in DOMAIN shown, NEW l \in DOMAIN shown,
                      NEW a \in Names(shown[k]), NEW b \in Names(shown[l])
               PROVE  MessageOf(a) = MessageOf(b) <=> k = l
    BY DEF OneEntryPerMessage
  <2>1. EntryFits(shown[k], k) /\ EntryFits(shown[l], l)
    BY DEF StreamInv, ShownFits, NamesFit
  <2> QED BY <2>1, NamesOwn
<1> QED BY <1>1, StreamInvHolds, PTL

\* A turn that wait_for_turn_controlled reports as completed is shown with
\* exactly what was said in it, message by message, whether a notification or a
\* poll ended the wait, unless a poll was answered with an older state than what
\* had been heard.
THEOREM FinalHolds == Spec => []FinalIsSaid
<1>1. StreamInv => FinalIsSaid
  <2> SUFFICES ASSUME StreamInv, outcome = "completed", Followed, ~hist.late
               PROVE  Said([k \in DOMAIN shown |-> shown[k].text]) = Said(turn.text)
    BY DEF FinalIsSaid
  <2>1. Len(shown) = Len(turn.text) /\ \A k \in DOMAIN shown : shown[k].text = turn.text[k]
    BY DEF StreamInv, ShownFits
  <2>2. shown \in Seq(Entries) /\ turn.text \in Seq(Seq(Token))
    BY ShownAndTurn DEF StreamInv
  <2>3. [k \in DOMAIN shown |-> shown[k].text] = turn.text
    BY <2>1, <2>2
  <2> QED BY <2>3
<1> QED BY <1>1, StreamInvHolds, PTL

\* At every moment of the wait each entry shows the beginning of its message:
\* attach_turn, start_turn and poll_turn_completion neither double a delta that
\* arrives while their request is under way, nor skip one, nor add one after a
\* hole, when no message repeats a token.
THEOREM PrefixHolds == Spec => []ShownIsPrefix
<1>1. StreamInv => ShownIsPrefix
  <2> SUFFICES ASSUME StreamInv, Followed, ~hist.late, Plain, NEW k \in DOMAIN shown
               PROVE  /\ MessageOf(shown[k].item) \in DOMAIN turn.text
                      /\ IsPrefix(shown[k].text, turn.text[MessageOf(shown[k].item)])
    BY DEF ShownIsPrefix
  <2>1. /\ EntryFits(shown[k], k) /\ Len(shown) <= Len(turn.text)
        /\ IsPrefix(shown[k].text, turn.text[k])
    BY DEF StreamInv, ShownFits, NamesFit
  <2>2. shown \in Seq(Entries) /\ turn.text \in Seq(Seq(Token))
    BY ShownAndTurn DEF StreamInv
  <2>3. MessageOf(shown[k].item) = k
    BY <2>1 DEF EntryFits, HasLive, MessageOf, LiveId, ItemId
  <2>4. k \in DOMAIN turn.text
    BY <2>1, <2>2
  <2> QED BY <2>1, <2>3, <2>4
<1> QED BY <1>1, StreamInvHolds, PTL

\* No step of the wait takes back text that was emitted: what a message showed
\* stays the beginning of what it shows, through deltas, completions and polled
\* snapshots, when no message repeats a token and no poll was answered late.
THEOREM NothingTakenBackHolds == Spec => NothingTakenBack
<1>1. StreamInv /\ [Next]_vars =>
        [(Followed /\ ~hist.late /\ Plain)' =>
           \A k \in DOMAIN shown :
              k \in DOMAIN shown' /\ IsPrefix(shown[k].text, shown'[k].text)]_vars
  BY InvStep DEF Kept
<1> QED BY <1>1, StreamInvHolds, PTL DEF Spec, NothingTakenBack

=============================================================================
