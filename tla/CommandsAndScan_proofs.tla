----------------------- MODULE CommandsAndScan_proofs -----------------------
(***************************************************************************)
(* The command line: what an exit code says, and what a refused command    *)
(* has done, from the order in which a command runs its steps, as an       *)
(* invariant of what is left of them.  Then the listing of threads page by *)
(* page: what an answer has, from what the scan has kept of the threads    *)
(* its cursor went over.                                                   *)
(***************************************************************************)
EXTENDS CliCommands, ThreadScan, FiniteSetTheorems, TLAPS

(***************************************************************************)
(* The scripts.                                                            *)
(***************************************************************************)
\* A turn is the last change, a credit is redeemed after everything that can fail,
\* and neither comes with pings.
EndsWithWork(s) ==
    /\ \A i, j \in DOMAIN s : i < j /\ s[i] = "turn" => s[j] \notin Changes
    /\ \A i, j \in DOMAIN s : i < j /\ s[i] = "consume" => s[j] = "reread"
    /\ \A i, j \in DOMAIN s : s[i] \in {"turn", "consume"} => s[j] # "ping"

\* Options are looked at before any change is asked for, and so is the permission.
LooksFirst(s) ==
    /\ \A i, j \in DOMAIN s : i < j /\ s[i] \in Changes /\ s[j] = "options" =>
         \E k \in DOMAIN s : k < i /\ s[k] = "options"
    /\ \A i, j \in DOMAIN s : i < j /\ s[i] \in Changes => s[j] # "permit"

\* The steps there are.
Word == {"config", "resolve", "connect", "permit", "options", "start", "name", "check", "turn",
         "fork", "steer", "settings", "act", "read", "turns", "notes", "resume", "unsubscribe",
         "page", "probe", "select", "consume", "reread", "ping"}

Ordered(s) == s \in Seq(Word) /\ EndsWithWork(s) /\ LooksFirst(s)

LEMMA ConcatIs ==
    ASSUME NEW W, NEW s \in Seq(W), NEW t \in Seq(W), NEW u \in Seq(W),
           Len(u) = Len(s) + Len(t),
           \A i \in 1..Len(s) : u[i] = s[i],
           \A i \in 1..Len(t) : u[Len(s) + i] = t[i]
    PROVE  s \o t = u
<1> DEFINE v == s \o t
<1>1. v \in Seq(W) /\ Len(v) = Len(u)
  OBVIOUS
<1>2. \A i \in 1..Len(u) : v[i] = u[i]
  <2> TAKE i \in 1..Len(u)
  <2>1. CASE i \in 1..Len(s)
    BY <2>1
  <2>2. CASE i \notin 1..Len(s)
    <3>1. i - Len(s) \in 1..Len(t) /\ Len(s) + (i - Len(s)) = i
      BY <2>2
    <3> QED BY <2>2, <3>1
  <2> QED BY <2>1, <2>2
<1> HIDE DEF v
<1>3. v = [i \in 1..Len(u) |-> v[i]] /\ u = [i \in 1..Len(u) |-> u[i]]
  BY <1>1
<1>4. v = u
  BY <1>2, <1>3
<1> QED BY <1>4 DEF v

\* What comes before the steps proper changes nothing.
Plain == {"config", "resolve", "connect", "permit"}

LEMMA AfterPlain ==
    ASSUME NEW s \in Seq(Word), NEW t, Ordered(t), \A i \in DOMAIN s : s[i] \in Plain
    PROVE  Ordered(s \o t)
<1> DEFINE u == s \o t
           m == Len(s)
<1>1. /\ u \in Seq(Word) /\ t \in Seq(Word) /\ m \in Nat
      /\ DOMAIN u = 1..(m + Len(t)) /\ DOMAIN t = 1..Len(t) /\ Len(t) \in Nat
      /\ \A i \in 1..m : u[i] \in Plain
      /\ \A i \in 1..Len(t) : u[m + i] = t[i]
  BY DEF Ordered
<1>2. \A i \in DOMAIN u : \/ u[i] \in Plain
                          \/ i - m \in DOMAIN t /\ u[i] = t[i - m]
  <2> TAKE i \in DOMAIN u
  <2>1. CASE i \in 1..m
    BY <1>1, <2>1
  <2>2. CASE i \notin 1..m
    <3>1. i - m \in 1..Len(t) /\ m + (i - m) = i
      BY <1>1, <2>2
    <3> QED BY <1>1, <3>1
  <2> QED BY <2>1, <2>2
<1>3. \A i, j \in DOMAIN u : i < j /\ u[i] \notin Plain => u[j] = t[j - m] /\ j - m \in DOMAIN t
  <2> TAKE i \in DOMAIN u, j \in DOMAIN u
  <2> HAVE i < j /\ u[i] \notin Plain
  <2>1. i \notin 1..m /\ j \notin 1..m
    BY <1>1
  <2>2. j - m \in 1..Len(t) /\ m + (j - m) = j
    BY <1>1, <2>1
  <2> QED BY <1>1, <2>2
<1>4. \A k \in DOMAIN t : m + k \in DOMAIN u /\ u[m + k] = t[k]
  BY <1>1
<1> HIDE DEF u, m
<1>5. ASSUME NEW i \in DOMAIN u, NEW j \in DOMAIN u, i < j, u[i] \notin Plain
      PROVE  /\ i - m \in DOMAIN t /\ j - m \in DOMAIN t /\ i - m < j - m
             /\ u[i] = t[i - m] /\ u[j] = t[j - m]
  <2>1. i - m \in DOMAIN t /\ u[i] = t[i - m] /\ j - m \in DOMAIN t /\ u[j] = t[j - m]
    BY <1>2, <1>3, <1>5
  <2> QED BY <1>1, <1>5, <2>1
<1>6. "turn" \notin Plain /\ "consume" \notin Plain /\ "ping" \notin Plain /\ Changes \cap Plain = {}
  BY DEF Plain, Changes
<1> HIDE DEF Plain
<1>7. EndsWithWork(u)
  <2>1. \A i, j \in DOMAIN u : i < j /\ u[i] = "turn" => u[j] \notin Changes
    BY <1>5, <1>6 DEF Ordered, EndsWithWork
  <2>2. \A i, j \in DOMAIN u : i < j /\ u[i] = "consume" => u[j] = "reread"
    BY <1>5, <1>6 DEF Ordered, EndsWithWork
  <2>3. ASSUME NEW i \in DOMAIN u, NEW j \in DOMAIN u, u[i] \in {"turn", "consume"}
        PROVE  u[j] # "ping"
    <3>1. i - m \in DOMAIN t /\ t[i - m] \in {"turn", "consume"}
      BY <1>2, <1>6, <2>3
    <3>2. u[j] \in Plain \/ (j - m \in DOMAIN t /\ u[j] = t[j - m])
      BY <1>2
    <3> QED BY <1>6, <3>1, <3>2 DEF Ordered, EndsWithWork
  <2> QED BY <2>1, <2>2, <2>3 DEF EndsWithWork
<1>8. LooksFirst(u)
  <2>1. ASSUME NEW i \in DOMAIN u, NEW j \in DOMAIN u, i < j, u[i] \in Changes
        PROVE  /\ i - m \in DOMAIN t /\ j - m \in DOMAIN t /\ i - m < j - m
               /\ u[i] = t[i - m] /\ u[j] = t[j - m]
    BY <1>5, <1>6, <2>1
  <2>2. ASSUME NEW i \in DOMAIN u, NEW j \in DOMAIN u, i < j, u[i] \in Changes, u[j] = "options"
        PROVE  \E k \in DOMAIN u : k < i /\ u[k] = "options"
    <3>1. PICK k \in DOMAIN t : k < i - m /\ t[k] = "options"
      BY <2>1, <2>2 DEF Ordered, LooksFirst
    <3>2. m + k \in DOMAIN u /\ u[m + k] = "options"
      BY <1>4, <3>1
    <3>3. m + k < i
      BY <1>1, <3>1
    <3> QED BY <3>2, <3>3
  <2>3. ASSUME NEW i \in DOMAIN u, NEW j \in DOMAIN u, i < j, u[i] \in Changes
        PROVE  u[j] # "permit"
    BY <2>1, <2>3 DEF Ordered, LooksFirst
  <2> QED BY <2>2, <2>3 DEF LooksFirst
<1> QED BY <1>1, <1>7, <1>8 DEF Ordered, u

\* The optional steps, and those that come with them.
LEMMA IfIs == ASSUME NEW s PROVE If(TRUE, s) = s /\ If(FALSE, s) = <<>>
BY DEF If

LEMMA NameAfterStart ==
    ASSUME NEW s, s = <<"options", "start">>, NEW t, t = <<"name">>,
           NEW u, u = <<"options", "start", "name">>
    PROVE  s \o t = u
<1>1. s \in Seq(Word) /\ t \in Seq(Word) /\ u \in Seq(Word)
  BY DEF Word
<1>2. Len(u) = Len(s) + Len(t)
  OBVIOUS
<1>3. \A i \in 1..Len(s) : u[i] = s[i]
  OBVIOUS
<1>4. \A i \in 1..Len(t) : u[Len(s) + i] = t[i]
  OBVIOUS
<1> QED BY ONLY <1>1, <1>2, <1>3, <1>4, ConcatIs

LEMMA TurnAfterStart ==
    ASSUME NEW s, s = <<"options", "start">>, NEW t, t = <<"options", "check", "turn">>,
           NEW u, u = <<"options", "start", "options", "check", "turn">>
    PROVE  s \o t = u
<1>1. s \in Seq(Word) /\ t \in Seq(Word) /\ u \in Seq(Word)
  BY DEF Word
<1>2. Len(u) = Len(s) + Len(t)
  OBVIOUS
<1>3. \A i \in 1..Len(s) : u[i] = s[i]
  OBVIOUS
<1>4. \A i \in 1..Len(t) : u[Len(s) + i] = t[i]
  OBVIOUS
<1> QED BY ONLY <1>1, <1>2, <1>3, <1>4, ConcatIs

LEMMA TurnAfterName ==
    ASSUME NEW s, s = <<"options", "start", "name">>, NEW t, t = <<"options", "check", "turn">>,
           NEW u, u = <<"options", "start", "name", "options", "check", "turn">>
    PROVE  s \o t = u
<1>1. s \in Seq(Word) /\ t \in Seq(Word) /\ u \in Seq(Word)
  BY DEF Word
<1>2. Len(u) = Len(s) + Len(t)
  OBVIOUS
<1>3. \A i \in 1..Len(s) : u[i] = s[i]
  OBVIOUS
<1>4. \A i \in 1..Len(t) : u[Len(s) + i] = t[i]
  OBVIOUS
<1> QED BY ONLY <1>1, <1>2, <1>3, <1>4, ConcatIs

LEMMA NameAfterFork ==
    ASSUME NEW s, s = <<"options", "fork">>, NEW t, t = <<"name">>,
           NEW u, u = <<"options", "fork", "name">>
    PROVE  s \o t = u
<1>1. s \in Seq(Word) /\ t \in Seq(Word) /\ u \in Seq(Word)
  BY DEF Word
<1>2. Len(u) = Len(s) + Len(t)
  OBVIOUS
<1>3. \A i \in 1..Len(s) : u[i] = s[i]
  OBVIOUS
<1>4. \A i \in 1..Len(t) : u[Len(s) + i] = t[i]
  OBVIOUS
<1> QED BY ONLY <1>1, <1>2, <1>3, <1>4, ConcatIs

LEMMA ReadAfterInspect ==
    ASSUME NEW s, s = <<"resume", "unsubscribe">>, NEW t, t = <<"read", "turns">>,
           NEW u, u = <<"resume", "unsubscribe", "read", "turns">>
    PROVE  s \o t = u
<1>1. s \in Seq(Word) /\ t \in Seq(Word) /\ u \in Seq(Word)
  BY DEF Word
<1>2. Len(u) = Len(s) + Len(t)
  OBVIOUS
<1>3. \A i \in 1..Len(s) : u[i] = s[i]
  OBVIOUS
<1>4. \A i \in 1..Len(t) : u[Len(s) + i] = t[i]
  OBVIOUS
<1> QED BY ONLY <1>1, <1>2, <1>3, <1>4, ConcatIs

LEMMA NothingAdded == ASSUME NEW s \in Seq(Word) PROVE s \o <<>> = s /\ <<>> \o s = s
OBVIOUS

LEMMA NewStepsAre ==
    ASSUME NEW c \in Commands
    PROVE  NewSteps(c) \in { <<"options", "start">>,
                             <<"options", "start", "name">>,
                             <<"options", "start", "options", "check", "turn">>,
                             <<"options", "start", "name", "options", "check", "turn">> }
<1> DEFINE n == If(c.flag, <<"name">>)
           t == If(c.arg, Turn)
           s == <<"options", "start">>
<1>1. (c.flag = TRUE \/ c.flag = FALSE) /\ (c.arg = TRUE \/ c.arg = FALSE)
  BY DEF Commands
<1>2. (n = <<>> \/ n = <<"name">>) /\ (t = <<>> \/ t = Turn)
  BY <1>1, IfIs
<1>3. NewSteps(c) = (s \o n) \o t
  BY DEF NewSteps
<1>4. s \in Seq(Word) /\ s \o <<"name">> \in Seq(Word)
  BY DEF Word
<1>5. s \o <<"name">> = <<"options", "start", "name">>
  BY NameAfterStart
<1>6. s \o Turn = <<"options", "start", "options", "check", "turn">>
  BY TurnAfterStart DEF Turn
<1>7. (s \o <<"name">>) \o Turn = <<"options", "start", "name", "options", "check", "turn">>
  BY <1>5, TurnAfterName DEF Turn
<1>8. s \o <<>> = s /\ (s \o <<"name">>) \o <<>> = s \o <<"name">>
  BY <1>4, NothingAdded
<1>9. s = <<"options", "start">>
  OBVIOUS
<1> HIDE DEF n, t, s
<1> QED BY <1>2, <1>3, <1>5, <1>6, <1>7, <1>8, <1>9

LEMMA ForkStepsAre ==
    ASSUME NEW c \in Commands
    PROVE  ForkSteps(c) \in {<<"options", "fork">>, <<"options", "fork", "name">>}
<1> DEFINE n == If(c.flag, <<"name">>)
           s == <<"options", "fork">>
<1>1. c.flag = TRUE \/ c.flag = FALSE
  BY DEF Commands
<1>2. n = <<>> \/ n = <<"name">>
  BY <1>1, IfIs
<1>3. ForkSteps(c) = s \o n
  BY DEF ForkSteps
<1>4. s \in Seq(Word)
  BY DEF Word
<1>5. s \o <<"name">> = <<"options", "fork", "name">>
  BY NameAfterFork
<1>6. s \o <<>> = s
  BY <1>4, NothingAdded
<1>7. s = <<"options", "fork">>
  OBVIOUS
<1> HIDE DEF n, s
<1> QED BY <1>2, <1>3, <1>5, <1>6, <1>7

LEMMA ClearAfterProbe ==
    ASSUME NEW s, s = <<"notes", "probe">>, NEW t, t = <<"notes">>,
           NEW u, u = <<"notes", "probe", "notes">>
    PROVE  s \o t = u
<1>1. s \in Seq(Word) /\ t \in Seq(Word) /\ u \in Seq(Word)
  BY DEF Word
<1>2. Len(u) = Len(s) + Len(t)
  OBVIOUS
<1>3. \A i \in 1..Len(s) : u[i] = s[i]
  OBVIOUS
<1>4. \A i \in 1..Len(t) : u[Len(s) + i] = t[i]
  OBVIOUS
<1> QED BY ONLY <1>1, <1>2, <1>3, <1>4, ConcatIs

LEMMA PruneStepsAre ==
    ASSUME NEW c \in Commands
    PROVE  PruneSteps(c) \in {<<"notes", "probe">>, <<"notes", "probe", "notes">>}
<1> DEFINE n == If(~c.flag, <<"notes">>)
           s == <<"notes", "probe">>
<1>1. c.flag = TRUE \/ c.flag = FALSE
  BY DEF Commands
<1>2. n = <<>> \/ n = <<"notes">>
  BY <1>1 DEF If
<1>3. PruneSteps(c) = s \o n
  BY DEF PruneSteps
<1>4. s \in Seq(Word)
  BY DEF Word
<1>5. s \o <<"notes">> = <<"notes", "probe", "notes">>
  BY ClearAfterProbe
<1>6. s \o <<>> = s
  BY <1>4, NothingAdded
<1>7. s = <<"notes", "probe">>
  OBVIOUS
<1> HIDE DEF n, s
<1> QED BY <1>2, <1>3, <1>5, <1>6, <1>7

LEMMA StatusStepsAre ==
    ASSUME NEW c \in Commands
    PROVE  StatusSteps(c) \in {<<"read">>, <<"read", "turns">>,
                               <<"resume", "unsubscribe", "read", "turns">>}
<1> DEFINE n == If(c.flag, InspectSteps)
           s == <<"read", "turns">>
<1>1. (c.flag = TRUE \/ c.flag = FALSE) /\ (c.arg = TRUE \/ c.arg = FALSE)
  BY DEF Commands
<1>2. n = <<>> \/ n = InspectSteps
  BY <1>1, IfIs
<1>3. (c.arg = TRUE => StatusSteps(c) = n \o s) /\ (c.arg = FALSE => StatusSteps(c) = <<"read">>)
  BY DEF StatusSteps
<1>4. s \in Seq(Word)
  BY DEF Word
<1>5. InspectSteps \o s = <<"resume", "unsubscribe", "read", "turns">>
  BY ReadAfterInspect DEF InspectSteps
<1>6. <<>> \o s = s
  BY <1>4, NothingAdded
<1>7. s = <<"read", "turns">>
  OBVIOUS
<1> HIDE DEF n, s
<1> QED BY <1>1, <1>2, <1>3, <1>5, <1>6, <1>7

\* Scripts without a change, and those with changes.
LEMMA QuietOrdered ==
    ASSUME NEW s \in Seq(Word),
           \A i \in DOMAIN s : s[i] \notin Changes
    PROVE  Ordered(s)
<1>1. "turn" \in Changes /\ "consume" \in Changes
  BY DEF Changes
<1> QED BY <1>1 DEF Ordered, EndsWithWork, LooksFirst

LEMMA WorkOrdered ==
    ASSUME NEW s \in { <<"options", "start">>,
                       <<"options", "start", "name">>,
                       <<"options", "start", "options", "check", "turn">>,
                       <<"options", "start", "name", "options", "check", "turn">>,
                       <<"options", "fork">>, <<"options", "fork", "name">>,
                       <<"options", "check", "turn">>, <<"check", "steer">>,
                       <<"options", "settings">>, <<"options", "act">>, <<"act">>,
                       <<"permit", "read", "select", "consume", "reread">> }
    PROVE  Ordered(s)
<1>2. CASE s = <<"options", "start">>
  <2>1. s \in Seq(Word)
    BY <1>2 DEF Word
  <2> QED BY <1>2, <2>1 DEF Ordered, EndsWithWork, LooksFirst, Changes
<1>3. CASE s = <<"options", "start", "name">>
  <2>1. s \in Seq(Word)
    BY <1>3 DEF Word
  <2> QED BY <1>3, <2>1 DEF Ordered, EndsWithWork, LooksFirst, Changes
<1>4. CASE s = <<"options", "start", "options", "check", "turn">>
  <2>1. s \in Seq(Word)
    BY <1>4 DEF Word
  <2> QED BY <1>4, <2>1 DEF Ordered, EndsWithWork, LooksFirst, Changes
<1>5. CASE s = <<"options", "start", "name", "options", "check", "turn">>
  <2>1. s \in Seq(Word)
    BY <1>5 DEF Word
  <2> QED BY <1>5, <2>1 DEF Ordered, EndsWithWork, LooksFirst, Changes
<1>6. CASE s = <<"options", "fork">>
  <2>1. s \in Seq(Word)
    BY <1>6 DEF Word
  <2> QED BY <1>6, <2>1 DEF Ordered, EndsWithWork, LooksFirst, Changes
<1>7. CASE s = <<"options", "fork", "name">>
  <2>1. s \in Seq(Word)
    BY <1>7 DEF Word
  <2> QED BY <1>7, <2>1 DEF Ordered, EndsWithWork, LooksFirst, Changes
<1>8. CASE s = <<"options", "check", "turn">>
  <2>1. s \in Seq(Word)
    BY <1>8 DEF Word
  <2> QED BY <1>8, <2>1 DEF Ordered, EndsWithWork, LooksFirst, Changes
<1>9. CASE s = <<"check", "steer">>
  <2>1. s \in Seq(Word)
    BY <1>9 DEF Word
  <2> QED BY <1>9, <2>1 DEF Ordered, EndsWithWork, LooksFirst, Changes
<1>10. CASE s = <<"options", "settings">>
  <2>1. s \in Seq(Word)
    BY <1>10 DEF Word
  <2> QED BY <1>10, <2>1 DEF Ordered, EndsWithWork, LooksFirst, Changes
<1>11. CASE s = <<"options", "act">>
  <2>1. s \in Seq(Word)
    BY <1>11 DEF Word
  <2> QED BY <1>11, <2>1 DEF Ordered, EndsWithWork, LooksFirst, Changes
<1>12. CASE s = <<"act">>
  <2>1. s \in Seq(Word)
    BY <1>12 DEF Word
  <2> QED BY <1>12, <2>1 DEF Ordered, EndsWithWork, LooksFirst, Changes
<1>13. CASE s = <<"permit", "read", "select", "consume", "reread">>
  <2>1. s \in Seq(Word)
    BY <1>13 DEF Word
  <2> QED BY <1>13, <2>1 DEF Ordered, EndsWithWork, LooksFirst, Changes
<1> QED
  BY <1>2, <1>3, <1>4, <1>5, <1>6, <1>7, <1>8, <1>9, <1>10, <1>11, <1>12, <1>13

LEMMA StepsOrdered ==
    ASSUME NEW c \in Commands, c.verb \notin {"ping", "pingAll", "note"}
    PROVE  Ordered(Steps(c))
<1>0. c.verb \in Verbs
  BY DEF Commands
<1>1. CASE c.verb = "new"
  BY <1>1, NewStepsAre, WorkOrdered DEF Steps
<1>2. CASE c.verb = "fork"
  BY <1>2, ForkStepsAre, WorkOrdered DEF Steps
<1>3. CASE c.verb \in {"send", "steer", "settings", "goal", "act", "redeem"}
  <2>1. Steps(c) \in {<<"options", "check", "turn">>, <<"check", "steer">>,
                      <<"options", "settings">>, <<"options", "act">>, <<"act">>,
                      <<"permit", "read", "select", "consume", "reread">>}
    BY <1>3 DEF Steps, Turn, SteerSteps, SettingsSteps, GoalSteps, ActSteps, RedeemSteps
  <2> QED BY <2>1, WorkOrdered
<1>4. CASE c.verb \in {"show", "messages", "query", "inspect", "list", "status", "prune"}
  <2>1. Steps(c) \in {<<"read", "turns", "notes">>, <<"options", "read">>, <<"read">>,
                      <<"resume", "unsubscribe">>, <<"options", "page", "notes">>,
                      <<"read", "turns">>, <<"resume", "unsubscribe", "read", "turns">>,
                      <<"notes", "probe">>, <<"notes", "probe", "notes">>}
    <3>1. /\ c.verb = "status" => Steps(c) = StatusSteps(c)
          /\ c.verb = "prune" => Steps(c) = PruneSteps(c)
      BY DEF Steps
    <3> QED
      BY <1>4, <3>1, StatusStepsAre, PruneStepsAre
         DEF Steps, ShowSteps, MessagesSteps, InspectSteps, ListSteps
  <2>2. ASSUME NEW s \in {<<"read", "turns", "notes">>, <<"options", "read">>, <<"read">>,
                          <<"resume", "unsubscribe">>, <<"options", "page", "notes">>,
                          <<"read", "turns">>, <<"resume", "unsubscribe", "read", "turns">>,
                          <<"notes", "probe">>, <<"notes", "probe", "notes">>}
        PROVE  s \in Seq(Word) /\ \A i \in DOMAIN s : s[i] \notin Changes
    <3>1. CASE s = <<"read", "turns", "notes">>
      <4>1. s \in Seq(Word)
        BY <3>1 DEF Word
      <4>2. \A i \in DOMAIN s : s[i] \notin Changes
        BY <3>1 DEF Changes
      <4> QED BY <4>1, <4>2
    <3>2. CASE s = <<"options", "read">>
      <4>1. s \in Seq(Word)
        BY <3>2 DEF Word
      <4>2. \A i \in DOMAIN s : s[i] \notin Changes
        BY <3>2 DEF Changes
      <4> QED BY <4>1, <4>2
    <3>3. CASE s = <<"read">>
      <4>1. s \in Seq(Word)
        BY <3>3 DEF Word
      <4>2. \A i \in DOMAIN s : s[i] \notin Changes
        BY <3>3 DEF Changes
      <4> QED BY <4>1, <4>2
    <3>4. CASE s = <<"resume", "unsubscribe">>
      <4>1. s \in Seq(Word)
        BY <3>4 DEF Word
      <4>2. \A i \in DOMAIN s : s[i] \notin Changes
        BY <3>4 DEF Changes
      <4> QED BY <4>1, <4>2
    <3>5. CASE s = <<"options", "page", "notes">>
      <4>1. s \in Seq(Word)
        BY <3>5 DEF Word
      <4>2. \A i \in DOMAIN s : s[i] \notin Changes
        BY <3>5 DEF Changes
      <4> QED BY <4>1, <4>2
    <3>6. CASE s = <<"read", "turns">>
      <4>1. s \in Seq(Word)
        BY <3>6 DEF Word
      <4>2. \A i \in DOMAIN s : s[i] \notin Changes
        BY <3>6 DEF Changes
      <4> QED BY <4>1, <4>2
    <3>7. CASE s = <<"resume", "unsubscribe", "read", "turns">>
      <4>1. s \in Seq(Word)
        BY <3>7 DEF Word
      <4>2. \A i \in DOMAIN s : s[i] \notin Changes
        BY <3>7 DEF Changes
      <4> QED BY <4>1, <4>2
    <3>8. CASE s = <<"notes", "probe">>
      <4>1. s \in Seq(Word)
        BY <3>8 DEF Word
      <4>2. \A i \in DOMAIN s : s[i] \notin Changes
        BY <3>8 DEF Changes
      <4> QED BY <4>1, <4>2
    <3>9. CASE s = <<"notes", "probe", "notes">>
      <4>1. s \in Seq(Word)
        BY <3>9 DEF Word
      <4>2. \A i \in DOMAIN s : s[i] \notin Changes
        BY <3>9 DEF Changes
      <4> QED BY <4>1, <4>2
    <3> QED BY <2>2, <3>1, <3>2, <3>3, <3>4, <3>5, <3>6, <3>7, <3>8, <3>9
  <2> QED BY <2>1, <2>2, QuietOrdered
<1> QED BY <1>0, <1>1, <1>2, <1>3, <1>4 DEF Verbs

LEMMA AfterPlainSteps ==
    ASSUME NEW s, s \in {<<"config">>, <<"resolve", "permit", "connect">>, <<"resolve", "connect">>},
           NEW t, Ordered(t)
    PROVE  Ordered(s \o t)
<1>1. CASE s = <<"config">>
  <2>1. s \in Seq(Word)
    BY <1>1 DEF Word
  <2>2. \A i \in DOMAIN s : s[i] \in Plain
    BY <1>1 DEF Plain
  <2> QED BY <2>1, <2>2, AfterPlain
<1>2. CASE s = <<"resolve", "permit", "connect">>
  <2>1. s \in Seq(Word)
    BY <1>2 DEF Word
  <2>2. \A i \in DOMAIN s : s[i] \in Plain
    BY <1>2 DEF Plain
  <2> QED BY <2>1, <2>2, AfterPlain
<1>3. CASE s = <<"resolve", "connect">>
  <2>1. s \in Seq(Word)
    BY <1>3 DEF Word
  <2>2. \A i \in DOMAIN s : s[i] \in Plain
    BY <1>3 DEF Plain
  <2> QED BY <2>1, <2>2, AfterPlain
<1> QED BY <1>1, <1>2, <1>3

LEMMA ScriptOrdered ==
    ASSUME NEW c \in Commands
    PROVE  Ordered(Script(c))
<1>0. c.verb \in Verbs
  BY DEF Commands
<1>1. CASE c.verb = "ping"
  <2>1. Script(c) = <<"config">> \o <<"resolve", "ping">>
    BY <1>1 DEF Script
  <2>2. ASSUME NEW s, s = <<"resolve", "ping">>
        PROVE  Ordered(s)
    <3>1. s \in Seq(Word)
      BY <2>2 DEF Word
    <3>2. \A i \in DOMAIN s : s[i] \notin Changes
      BY <2>2 DEF Changes
    <3> QED BY <3>1, <3>2, QuietOrdered
  <2> QED BY <2>1, <2>2, AfterPlainSteps
<1>2. CASE c.verb = "note"
  <2>1. Script(c) = <<"config">> \o <<"resolve", "notes">>
    BY <1>2 DEF Script
  <2>2. ASSUME NEW s, s = <<"resolve", "notes">>
        PROVE  Ordered(s)
    <3>1. s \in Seq(Word)
      BY <2>2 DEF Word
    <3>2. \A i \in DOMAIN s : s[i] \notin Changes
      BY <2>2 DEF Changes
    <3> QED BY <3>1, <3>2, QuietOrdered
  <2> QED BY <2>1, <2>2, AfterPlainSteps
<1>3. CASE c.verb = "pingAll"
  <2> DEFINE s == [i \in 1..Cardinality(Server) |-> "ping"]
  <2>1. Script(c) = <<"config">> \o s
    BY <1>3 DEF Script
  <2>2. Cardinality(Server) \in Nat
    BY ServerAssumption, FS_CardinalityType
  <2>3. s \in Seq(Word) /\ \A i \in DOMAIN s : s[i] = "ping"
    BY <2>2 DEF Word
  <2> HIDE DEF s
  <2>4. Ordered(s)
    BY <2>3, QuietOrdered DEF Changes
  <2> QED BY <2>1, <2>4, AfterPlainSteps
<1>4. CASE c.verb = "redeem"
  <2>1. Script(c) = <<"config">> \o (<<"resolve", "permit", "connect">> \o Steps(c))
    BY <1>4 DEF Script
  <2>2. Ordered(Steps(c))
    BY <1>4, StepsOrdered
  <2>3. Ordered(<<"resolve", "permit", "connect">> \o Steps(c))
    BY <2>2, AfterPlainSteps
  <2> QED BY <2>1, <2>3, AfterPlainSteps
<1>5. CASE c.verb \notin {"ping", "note", "pingAll", "redeem"}
  <2>1. Script(c) = <<"config">> \o (<<"resolve", "connect">> \o Steps(c))
    BY <1>0, <1>5 DEF Script, Verbs
  <2>2. Ordered(Steps(c))
    BY <1>5, StepsOrdered
  <2>3. Ordered(<<"resolve", "connect">> \o Steps(c))
    BY <2>2, AfterPlainSteps
  <2> QED BY <2>1, <2>3, AfterPlainSteps
<1> QED BY <1>1, <1>2, <1>3, <1>4, <1>5

(***************************************************************************)
(* The inductive invariant.                                                *)
(***************************************************************************)
Places == DOMAIN todo

OptionsOk == cmd.valid /\ (cmd.verb = "new" /\ ~cmd.arg => cmd.wait)

\* What was asked for is done, or is still to come; a redemption was answered.
Covered ==
    \A x \in Asked(cmd) : \/ \E i \in Places : x = todo[i]
                          \/ IF x = "consume" THEN x \in heard ELSE x \in done

\* The outcome that was answered is what happened.
OutcomeKept ==
    /\ "consume" \in heard =>
         outcome \in Outcomes /\ ("consume" \in done <=> outcome \in Redeeming)
    /\ "consume" \in done => "consume" \in heard

\* Options that are still to be looked at were accepted before, or nothing has been
\* changed and nothing will be until they are.
OptionsAhead ==
    \A j \in Places : todo[j] = "options" =>
        \/ OptionsOk
        \/ /\ done = {}
           /\ \A i \in Places : i < j /\ todo[i] \in Changes =>
                \E k \in Places : k < i /\ todo[k] = "options"

PermitAhead ==
    \A j \in Places : todo[j] = "permit" =>
        done = {} /\ \A i \in Places : i < j => todo[i] \notin Changes

\* Once a redemption is answered nothing is left but to read the usage again.
AfterConsume ==
    "consume" \in heard => missed = 0 /\ \A i \in Places : todo[i] = "reread"

Running ==
    /\ todo \in Seq(Word) /\ EndsWithWork(todo)
    /\ Covered /\ OptionsAhead /\ PermitAhead /\ AfterConsume /\ OutcomeKept
    /\ (\E i \in Places : todo[i] \in {"turn", "consume"}) => missed = 0
    /\ cmd.wait => "turn" \notin done
    /\ missed \in Nat /\ code = -1 /\ failure = "none"

Waiting ==
    /\ Asked(cmd) \subseteq done /\ "turn" \in done /\ turn # "none"
    /\ missed = 0 /\ "consume" \notin heard \cup Asked(cmd)
    /\ code = -1 /\ failure = "none"

ProcessInv ==
    /\ cmd \in Commands
    /\ turn \in {"none", "running", "completed", "failed", "interrupted", "unknown"}
    /\ at \in {"steps", "wait", "over"}
    /\ at = "steps" => Running
    /\ at = "wait"  => Waiting
    /\ at = "over"  => ExitSays /\ RefusalsTouchNothing

LEMMA InitHolds == Init => ProcessInv
<1> SUFFICES ASSUME Init PROVE ProcessInv
  OBVIOUS
<1>1. /\ cmd \in Commands /\ todo = Script(cmd) /\ at = "steps" /\ heard = {} /\ missed = 0
      /\ failure = "none" /\ code = -1 /\ done = {} /\ turn = "none"
  BY DEF Init
<1>2. Ordered(todo)
  BY <1>1, ScriptOrdered
<1>3. todo \in Seq(Word) /\ EndsWithWork(todo)
  BY <1>2 DEF Ordered
<1>4. Covered
  <2> SUFFICES ASSUME NEW x \in Asked(cmd) PROVE \E i \in Places : x = todo[i]
    BY DEF Covered
  <2>1. x \in Range(todo)
    BY <1>1 DEF Asked
  <2> QED BY <2>1 DEF Range, Places
<1>5. OptionsAhead /\ PermitAhead
  BY <1>1, <1>2 DEF Ordered, LooksFirst, OptionsAhead, PermitAhead, Places
<1>6. Running
  BY <1>1, <1>3, <1>4, <1>5 DEF Running, AfterConsume, OutcomeKept
<1> QED BY <1>1, <1>6 DEF ProcessInv

LEMMA TailIs ==
    ASSUME NEW s \in Seq(Word), s # <<>>
    PROVE  /\ Tail(s) \in Seq(Word) /\ 1 \in DOMAIN s /\ s[1] = Head(s)
           /\ \A i \in DOMAIN Tail(s) : i \in Nat /\ i >= 1 /\ i + 1 \in DOMAIN s /\ Tail(s)[i] = s[i + 1]
           /\ \A j \in DOMAIN s : j = 1 \/ (j - 1 \in DOMAIN Tail(s) /\ s[j] = Tail(s)[j - 1])
           /\ \A j \in DOMAIN s : j \in Nat /\ j >= 1
OBVIOUS

\* What is left after a step that went through.
LEMMA Onward ==
    ASSUME ProcessInv, at = "steps", todo # <<>>, NEW s, s = Head(todo),
           todo' = Tail(todo), UNCHANGED <<cmd, at, code, failure>>,
           missed' \in Nat, missed' = missed \/ s = "ping",
           done' \in {done, done \cup {s}}, s \notin Changes => done' = done,
           s \in Changes \ {"consume"} => s \in done',
           heard \subseteq heard', heard' \subseteq heard \cup {s}, s = "consume" => s \in heard',
           s # "consume" => outcome' = outcome, s = "consume" => OutcomeKept',
           s = "options" => OptionsOk,
           s = "turn" => ~cmd.wait
    PROVE  Running'
<1> DEFINE t == todo'
<1>1. Running
  BY DEF ProcessInv
<1>2. todo \in Seq(Word)
  BY <1>1 DEF Running
<1>3. /\ t \in Seq(Word) /\ 1 \in Places /\ todo[1] = s
      /\ \A i \in DOMAIN t : i \in Nat /\ i >= 1 /\ i + 1 \in Places /\ t[i] = todo[i + 1]
      /\ \A j \in Places : j = 1 \/ (j - 1 \in DOMAIN t /\ todo[j] = t[j - 1])
      /\ \A j \in Places : j \in Nat /\ j >= 1
  BY <1>2, TailIs DEF Places
<1>4. Places' = DOMAIN t
  BY DEF Places
<1> HIDE DEF t
<1>5. EndsWithWork(todo)
  BY <1>1 DEF Running
<1>6. EndsWithWork(t)
  <2>1. \A i, j \in DOMAIN t : i < j => i + 1 < j + 1
    BY <1>3
  <2>2. \A i, j \in DOMAIN t : i < j /\ t[i] = "turn" => t[j] \notin Changes
    BY <1>3, <1>5, <2>1 DEF EndsWithWork, Places
  <2>3. \A i, j \in DOMAIN t : i < j /\ t[i] = "consume" => t[j] = "reread"
    BY <1>3, <1>5, <2>1 DEF EndsWithWork, Places
  <2>4. \A i, j \in DOMAIN t : t[i] \in {"turn", "consume"} => t[j] # "ping"
    BY <1>3, <1>5 DEF EndsWithWork, Places
  <2> QED BY <2>2, <2>3, <2>4 DEF EndsWithWork
<1>7. Covered'
  <2>1. ASSUME NEW x \in Asked(cmd)
        PROVE  \/ \E i \in DOMAIN t : x = t[i]
               \/ IF x = "consume" THEN x \in heard' ELSE x \in done'
    <3>1. x \in Changes
      BY <2>1 DEF Asked
    <3>2. \/ \E j \in Places : x = todo[j]
          \/ IF x = "consume" THEN x \in heard ELSE x \in done
      BY <1>1, <2>1 DEF Running, Covered
    <3>3. ASSUME NEW j \in Places, x = todo[j]
          PROVE  \/ \E i \in DOMAIN t : x = t[i]
                 \/ IF x = "consume" THEN x \in heard' ELSE x \in done'
      BY <1>3, <3>1, <3>3
    <3> QED BY <3>2, <3>3
  <2>2. Asked(cmd)' = Asked(cmd)
    BY DEF Asked
  <2> QED BY <1>4, <2>1, <2>2 DEF Covered, t
<1>8. OptionsAhead'
  <2>1. ASSUME NEW j \in DOMAIN t, t[j] = "options", ~OptionsOk
        PROVE  /\ done' = {}
               /\ \A i \in DOMAIN t : i < j /\ t[i] \in Changes =>
                    \E k \in DOMAIN t : k < i /\ t[k] = "options"
    <3>1. j + 1 \in Places /\ todo[j + 1] = "options" /\ 1 < j + 1
      BY <1>3, <2>1
    <3>2. /\ done = {}
          /\ \A i \in Places : i < j + 1 /\ todo[i] \in Changes =>
               \E k \in Places : k < i /\ todo[k] = "options"
      BY <1>1, <2>1, <3>1 DEF Running, OptionsAhead
    <3>3. s \notin Changes
      BY <1>3, <3>1, <3>2
    <3>4. s # "options"
      BY <2>1
    <3>5. ASSUME NEW i \in DOMAIN t, i < j, t[i] \in Changes
          PROVE  \E k \in DOMAIN t : k < i /\ t[k] = "options"
      <4>1. i + 1 \in Places /\ i + 1 < j + 1 /\ todo[i + 1] \in Changes
        BY <1>3, <2>1, <3>5
      <4>2. PICK k \in Places : k < i + 1 /\ todo[k] = "options"
        BY <3>2, <4>1
      <4>3. k # 1
        BY <1>3, <3>4, <4>2
      <4>4. k - 1 \in DOMAIN t /\ t[k - 1] = "options"
        BY <1>3, <4>2, <4>3
      <4>5. k - 1 < i
        BY <1>3, <4>2, SMTT(30)
      <4> QED BY <4>4, <4>5
    <3> QED BY <3>2, <3>3, <3>5
  <2>2. OptionsOk' = OptionsOk
    BY DEF OptionsOk
  <2> QED BY <1>4, <2>1, <2>2 DEF OptionsAhead, t
<1>9. PermitAhead'
  <2>1. ASSUME NEW j \in DOMAIN t, t[j] = "permit"
        PROVE  done' = {} /\ \A i \in DOMAIN t : i < j => t[i] \notin Changes
    <3>1. j + 1 \in Places /\ todo[j + 1] = "permit" /\ 1 < j + 1
      BY <1>3, <2>1
    <3>2. done = {} /\ \A i \in Places : i < j + 1 => todo[i] \notin Changes
      BY <1>1, <3>1 DEF Running, PermitAhead
    <3>3. s \notin Changes
      BY <1>3, <3>1, <3>2
    <3>4. \A i \in DOMAIN t : i < j => i + 1 < j + 1
      BY <1>3, <2>1
    <3> QED BY <1>3, <3>2, <3>3, <3>4
  <2> QED BY <1>4, <2>1 DEF PermitAhead, t
<1>10. (\E i \in Places : todo[i] \in {"turn", "consume"}) => missed = 0 /\ missed' = missed
  BY <1>1, <1>3, <1>5 DEF Running, EndsWithWork, Places
<1>11. ASSUME "consume" \in heard'
       PROVE  missed' = 0 /\ \A i \in DOMAIN t : t[i] = "reread"
  <2>1. CASE "consume" \in heard
    BY <1>1, <1>3, <2>1 DEF Running, AfterConsume
  <2>2. CASE s = "consume"
    <3>1. \A i \in DOMAIN t : 1 < i + 1 /\ i + 1 \in Places
      BY <1>3
    <3>2. \A i \in DOMAIN t : t[i] = "reread"
      BY <1>3, <1>5, <2>2, <3>1 DEF EndsWithWork, Places
    <3> QED BY <1>3, <1>10, <2>2, <3>2
  <2> QED BY <1>11, <2>1, <2>2
<1>12. (\E i \in DOMAIN t : t[i] \in {"turn", "consume"}) => missed' = 0
  BY <1>3, <1>10
<1>13. cmd'.wait => "turn" \notin done'
  BY <1>1 DEF Running
<1>15. OutcomeKept'
  <2>1. CASE s = "consume"
    BY <2>1
  <2>2. CASE s # "consume"
    <3>1. /\ "consume" \in heard' <=> "consume" \in heard
          /\ "consume" \in done' <=> "consume" \in done
          /\ outcome' = outcome
      BY <2>2
    <3> QED BY <1>1, <3>1 DEF Running, OutcomeKept
  <2> QED BY <2>1, <2>2
<1>14. missed' \in Nat /\ code' = -1 /\ failure' = "none"
  BY <1>1 DEF Running
<1> QED
  BY <1>3, <1>4, <1>6, <1>7, <1>8, <1>9, <1>11, <1>12, <1>13, <1>14, <1>15
     DEF Running, AfterConsume, t

TurnStates == {"none", "running", "completed", "failed", "interrupted", "unknown"}

\* A step that went through without a request.
LEMMA Passed ==
    ASSUME ProcessInv, NEW s, Step(s), Pass, s \notin Changes,
           UNCHANGED done, turn' \in TurnStates,
           s = "options" => OptionsOk
    PROVE  ProcessInv'
<1>1. /\ at = "steps" /\ todo # <<>> /\ s = Head(todo) /\ todo' = Tail(todo)
      /\ UNCHANGED <<cmd, at, code, failure>> /\ missed' = missed /\ heard' = heard
      /\ outcome' = outcome
  BY DEF Step, Pass
<1>2. missed \in Nat
  BY <1>1 DEF ProcessInv, Running
<1>3. s # "turn" /\ s # "consume"
  BY DEF Changes
<1>4. Running'
  BY <1>1, <1>2, <1>3, Onward
<1> QED BY <1>1, <1>4 DEF ProcessInv, TurnStates

\* A step that ended the process.  The request that may go unanswered is not one.
LEMMA Failed ==
    ASSUME ProcessInv, NEW s, Step(s), NEW e, Fail(e), s # "reread",
           turn' \in TurnStates,
           e = "usage" => done' = {}
    PROVE  ProcessInv'
<1>1. /\ at = "steps" /\ todo # <<>> /\ s = Head(todo)
      /\ at' = "over" /\ failure' = e /\ code' = CodeOf(e) /\ cmd' = cmd /\ heard' = heard
  BY DEF Step, Fail, End
<1>2. Running
  BY <1>1 DEF ProcessInv
<1>3. todo \in Seq(Word)
  BY <1>2 DEF Running
<1>4. 1 \in Places /\ todo[1] = s
  BY <1>1, <1>3, TailIs DEF Places
<1>5. "consume" \notin heard
  BY <1>2, <1>4 DEF Running, AfterConsume
<1>6. code' = 2 \/ code' = 3
  BY <1>1 DEF CodeOf
<1>7. ExitSays'
  BY <1>1, <1>5, <1>6 DEF ExitSays
<1>8. RefusalsTouchNothing'
  BY <1>1 DEF RefusalsTouchNothing
<1> QED BY <1>1, <1>7, <1>8 DEF ProcessInv, TurnStates

LEMMA RequestHolds ==
    ASSUME ProcessInv, NEW s \in Changes \cup Reads, Request(s)
    PROVE  ProcessInv'
<1>1. /\ at = "steps" /\ todo # <<>> /\ s = Head(todo) /\ Step(s)
  BY DEF Request, Step
<1>2. Running /\ turn \in TurnStates
  BY <1>1 DEF ProcessInv, TurnStates
<1>3. todo \in Seq(Word) /\ missed \in Nat
  BY <1>2 DEF Running
<1>4. 1 \in Places /\ todo[1] = s
  BY <1>1, <1>3, TailIs DEF Places
<1>5. s # "options"
  BY DEF Changes, Reads
<1>6. ASSUME NEW answer, Happens(s, answer)
      PROVE  /\ turn' \in TurnStates
             /\ done' \in {done, done \cup {s}} /\ (s \notin Changes => done' = done)
             /\ s \in Changes \ {"consume"} => s \in done'
             /\ s = "consume" /\ answer \in Redeeming => s \in done'
             /\ s = "consume" /\ answer \notin Redeeming => done' = done
  BY <1>2, <1>6 DEF Happens, TurnStates, Changes
<1>7. s \in Ignored => s \notin Changes /\ s # "options" /\ s # "turn"
  BY DEF Ignored, Changes
<1>8. s \notin Ignored => s # "reread"
  BY DEF Ignored
<1>9. CASE /\ \E answer \in IF s = "consume" THEN Outcomes ELSE {outcome} :
                Happens(s, answer) /\ outcome' = answer
           /\ heard' = heard \cup {s} /\ told' = told \cup Told(s)
           /\ todo' \in {Tail(todo)} \cup (IF s \in Repeated THEN {todo} ELSE {})
           /\ at' = IF s = "turn" /\ cmd.wait THEN "wait" ELSE at
           /\ UNCHANGED <<cmd, missed, failure, code>>
  <2>0. PICK answer \in IF s = "consume" THEN Outcomes ELSE {outcome} :
             Happens(s, answer) /\ outcome' = answer
    BY <1>9
  <2>1. CASE s = "turn" /\ cmd.wait
    <3>1. at' = "wait" /\ cmd' = cmd /\ missed' = missed /\ failure' = failure /\ code' = code
          /\ heard' = heard \cup {s}
      BY <1>9, <2>1
    <3>2. missed = 0 /\ "consume" \notin heard
      BY <1>2, <1>4, <2>1 DEF Running, AfterConsume
    <3>3. done' = done \cup {"turn"} /\ turn' = "running"
      BY <2>0, <2>1 DEF Happens, Changes
    <3>4. ASSUME NEW x \in Asked(cmd) PROVE x \in done' /\ x # "consume"
      <4>1. x \in Changes
        BY <3>4 DEF Asked
      <4>2. (x \in done /\ x # "consume") \/ \E j \in Places : x = todo[j]
        BY <1>2, <3>2, <3>4 DEF Running, Covered
      <4>3. \A j \in Places : j = 1 \/ 1 < j
        BY <1>1, <1>3, TailIs DEF Places
      <4>4. ASSUME NEW j \in Places, x = todo[j] PROVE j = 1
        BY <1>2, <1>4, <2>1, <4>1, <4>3, <4>4 DEF Running, EndsWithWork, Places
      <4> QED BY <1>4, <2>1, <3>3, <4>2, <4>4
    <3>5. Asked(cmd)' = Asked(cmd)
      BY <3>1 DEF Asked
    <3>6. failure' = "none" /\ code' = -1
      BY <1>2, <3>1 DEF Running
    <3>7. Waiting'
      BY <2>1, <3>1, <3>2, <3>3, <3>4, <3>5, <3>6 DEF Waiting
    <3> QED BY <3>1, <3>3, <3>7 DEF ProcessInv
  <2>2. CASE ~(s = "turn" /\ cmd.wait) /\ todo' = Tail(todo)
    <3>0. s = "consume" => OutcomeKept'
      <4> HAVE s = "consume"
      <4>1. "consume" \notin heard
        BY <1>2, <1>4 DEF Running, AfterConsume
      <4>2. "consume" \notin done
        BY <1>2, <4>1 DEF Running, OutcomeKept
      <4>3. /\ "consume" \in heard' /\ outcome' \in Outcomes
            /\ "consume" \in done' <=> outcome' \in Redeeming
        BY <1>6, <1>9, <2>0, <4>2
      <4> QED BY <4>3 DEF OutcomeKept
    <3>1. Running'
      <4>1. /\ done' \in {done, done \cup {s}} /\ (s \notin Changes => done' = done)
            /\ s \in Changes \ {"consume"} => s \in done'
            /\ s # "consume" => outcome' = outcome
        BY <1>6, <2>0
      <4> QED BY <1>1, <1>3, <1>5, <1>9, <2>2, <3>0, <4>1, Onward
    <3>2. cmd' = cmd /\ at' = "steps" /\ turn' \in TurnStates
      BY <1>1, <1>6, <1>9, <2>0, <2>2
    <3> QED BY <3>1, <3>2 DEF ProcessInv, TurnStates
  <2>3. CASE s \in Repeated /\ todo' = todo
    <3>1. s \notin Changes /\ s # "consume" /\ s # "turn"
      BY <2>3 DEF Changes, Repeated
    <3>2. /\ UNCHANGED <<cmd, todo, at, missed, failure, code, outcome, done>>
          /\ ("consume" \in heard' <=> "consume" \in heard) /\ heard \subseteq heard'
      BY <1>6, <1>9, <2>0, <2>3, <3>1
    <3>3. Asked(cmd)' = Asked(cmd) /\ OptionsOk' = OptionsOk
      BY <3>2 DEF Asked, OptionsOk
    <3>4. Running'
      BY <1>2, <3>2, <3>3
         DEF Running, Covered, OptionsAhead, PermitAhead, AfterConsume, OutcomeKept, Places
    <3>5. cmd' = cmd /\ at' = "steps" /\ turn' \in TurnStates
      BY <1>1, <1>6, <2>0, <3>2
    <3> QED BY <3>4, <3>5 DEF ProcessInv, TurnStates
  <2> QED BY <1>9, <2>1, <2>2, <2>3
<1>10. CASE s \in {"start", "fork", "turn"} /\ Happens(s, outcome) /\ Fail("malformed")
  BY <1>1, <1>6, <1>10, Failed
<1>11. CASE (IF s \in Ignored THEN Pass ELSE Fail("answer")) /\ UNCHANGED <<done, turn>>
  <2>1. CASE s \in Ignored
    BY <1>1, <1>2, <1>7, <1>11, <2>1, Passed
  <2>2. CASE s \notin Ignored
    BY <1>1, <1>2, <1>8, <1>11, <2>2, Failed
  <2> QED BY <2>1, <2>2
<1>12. CASE /\ (\E answer \in Outcomes : Happens(s, answer)) \/ UNCHANGED <<done, turn>>
            /\ IF s \in Ignored THEN Pass
               ELSE Fail("lost") \/ Fail("unsent") \/ Fail("notRejected")
  <2>0. turn' \in TurnStates
    BY <1>2, <1>6, <1>12
  <2>1. CASE s \in Ignored
    <3>1. done' = done
      BY <1>6, <1>7, <1>12, <2>1
    <3> QED BY <1>1, <1>7, <1>12, <2>0, <2>1, <3>1, Passed
  <2>2. CASE s \notin Ignored
    <3>1. \/ Fail("lost") \/ Fail("unsent") \/ Fail("notRejected")
      BY <1>12, <2>2
    <3>2. PICK e \in {"lost", "unsent", "notRejected"} : Fail(e)
      BY <3>1
    <3>3. e # "usage"
      BY <3>2
    <3> QED BY <1>1, <1>8, <2>0, <2>2, <3>2, <3>3, Failed
  <2> QED BY <2>1, <2>2
<1> QED BY <1>9, <1>10, <1>11, <1>12 DEF Request

LEMMA PingHolds == ASSUME ProcessInv, Ping PROVE ProcessInv'
<1>1. /\ at = "steps" /\ todo # <<>> /\ "ping" = Head(todo) /\ todo' = Tail(todo)
      /\ UNCHANGED <<cmd, at, heard, code, failure, outcome, done, turn>>
      /\ missed' \in {missed, missed + 1}
  BY DEF Ping, Step, Elsewhere
<1>2. missed \in Nat
  BY <1>1 DEF ProcessInv, Running
<1>3. "ping" \notin Changes /\ missed' \in Nat
  BY <1>1, <1>2 DEF Changes
<1>4. done' = done /\ heard' = heard /\ outcome' = outcome
  BY <1>1
<1>5. Running'
  BY <1>1, <1>3, <1>4, Onward
<1> QED BY <1>1, <1>5 DEF ProcessInv

LEMMA FinishHolds == ASSUME ProcessInv, Finish PROVE ProcessInv'
<1>1. /\ at = "steps" /\ todo = <<>> /\ at' = "over" /\ failure' = "none"
      /\ code' = (IF missed > 0 THEN 3 ELSE 0)
      /\ UNCHANGED <<cmd, heard, missed, outcome, done, turn>> /\ told' = Report
  BY DEF Finish, End, Elsewhere
<1>2. Running
  BY <1>1 DEF ProcessInv
<1>3. Asked(cmd) \ {"consume"} \subseteq done /\ ("consume" \in Asked(cmd) => "consume" \in heard)
  BY <1>1, <1>2 DEF Running, Covered, Places
<1>4. ~Waits(cmd)
  BY <1>2, <1>3 DEF Running, Waits
<1>10. "consume" \in Asked(cmd) =>
         \E o \in told' \cap Outcomes : "consume" \in done' <=> o \in Redeeming
  <2> HAVE "consume" \in Asked(cmd)
  <2>1. outcome \in Outcomes /\ ("consume" \in done <=> outcome \in Redeeming)
    BY <1>2, <1>3 DEF Running, OutcomeKept
  <2>2. outcome \in told'
    BY <1>1 DEF Report
  <2> QED BY <1>1, <2>1, <2>2
<1>5. missed \in Nat /\ ("consume" \in heard => missed = 0)
  BY <1>2 DEF Running, AfterConsume
<1>6. Asked(cmd)' = Asked(cmd) /\ Waits(cmd)' = Waits(cmd)
  BY <1>1 DEF Asked, Waits
<1>7. code' \in {0, 3} /\ (missed > 0 <=> code' = 3)
  BY <1>1
<1>8. ExitSays'
  BY <1>1, <1>3, <1>4, <1>5, <1>6, <1>7, <1>10 DEF ExitSays
<1>9. RefusalsTouchNothing'
  BY <1>1 DEF RefusalsTouchNothing
<1> QED BY <1>1, <1>8, <1>9 DEF ProcessInv

LEMMA WaitHolds ==
    ASSUME ProcessInv, WaitAnswered \/ CtrlC \/ WaitFails
    PROVE  ProcessInv'
<1>1. at = "wait" /\ UNCHANGED <<cmd, heard, missed, done, turn>> /\ at' = "over"
  BY DEF WaitAnswered, CtrlC, WaitFails, Elsewhere, End, Fail
<1>2. Waiting
  BY <1>1 DEF ProcessInv
<1>3. Asked(cmd)' = Asked(cmd) /\ Waits(cmd)' = Waits(cmd)
  BY <1>1 DEF Asked, Waits
<1>4. /\ failure' # "usage"
      /\ \/ code' \in {2, 3}
         \/ code' = 130 /\ told' = {"thread", "turn"}
         \/ code' = 0 /\ turn = "completed"
         \/ code' = 1 /\ turn \in {"failed", "interrupted"}
  <2>1. CASE WaitAnswered
    BY <2>1 DEF WaitAnswered, End, TurnCode, Ended
  <2>2. CASE CtrlC
    BY <2>2 DEF CtrlC, End
  <2>3. CASE WaitFails
    BY <2>3 DEF WaitFails, End, Fail, CodeOf
  <2> QED BY <2>1, <2>2, <2>3
<1>5. ExitSays'
  BY <1>1, <1>2, <1>3, <1>4 DEF ExitSays, Waiting, ProcessInv
<1>6. RefusalsTouchNothing'
  BY <1>4 DEF RefusalsTouchNothing
<1> QED BY <1>1, <1>5, <1>6 DEF ProcessInv

LEMMA NextHolds == ProcessInv /\ [Next]_vars => ProcessInv'
<1> SUFFICES ASSUME ProcessInv, [Next]_vars PROVE ProcessInv'
  OBVIOUS
<1>0. turn \in TurnStates
  BY DEF ProcessInv, TurnStates
<1>1. CASE LoadConfig \/ Resolve \/ Connect \/ SelectCredit \/ Notes
  <2>1. done' = done /\ turn' \in TurnStates
    BY <1>0, <1>1 DEF LoadConfig, Resolve, Connect, SelectCredit, Notes, Elsewhere
  <2>2. PICK s \in {"config", "resolve", "connect", "select", "notes"} :
            /\ Step(s)
            /\ Pass \/ \E e \in {"config", "badUrl", "unreachable", "unsent", "notRejected",
                                 "noCredit", "note"} : Fail(e)
    BY <1>1 DEF LoadConfig, Resolve, Connect, SelectCredit, Notes
  <2>3. s \notin Changes /\ s # "options" /\ s # "reread"
    BY DEF Changes
  <2>4. CASE Pass
    BY <2>1, <2>2, <2>3, <2>4, Passed
  <2>5. ASSUME NEW e \in {"config", "badUrl", "unreachable", "unsent", "notRejected",
                          "noCredit", "note"}, Fail(e)
        PROVE  ProcessInv'
    <3>1. e # "usage"
      BY <2>5
    <3> QED BY <2>1, <2>2, <2>3, <2>5, <3>1, Failed
  <2> QED BY <2>2, <2>4, <2>5
<1>2. CASE Validate
  <2>1. Step("options") /\ done' = done /\ turn' \in TurnStates
    BY <1>0, <1>2 DEF Validate, Elsewhere
  <2>2. CASE OptionsOk
    <3>1. Pass /\ "options" \notin Changes
      BY <1>2, <2>2 DEF Validate, OptionsOk, Changes
    <3> QED BY <2>1, <2>2, <3>1, Passed
  <2>3. CASE ~OptionsOk
    <3>1. Fail("usage")
      BY <1>2, <2>3 DEF Validate, OptionsOk
    <3>2. Running /\ todo # <<>> /\ Head(todo) = "options"
      BY <2>1 DEF Step, ProcessInv
    <3>3. 1 \in Places /\ todo[1] = "options"
      BY <3>2, TailIs DEF Running, Places
    <3>4. done = {}
      BY <2>3, <3>2, <3>3 DEF Running, OptionsAhead
    <3> QED BY <2>1, <3>1, <3>4, Failed
  <2> QED BY <2>2, <2>3
<1>3. CASE Permit
  <2>1. Step("permit") /\ done' = done /\ turn' \in TurnStates
    BY <1>0, <1>3 DEF Permit, Elsewhere
  <2>2. CASE Pass
    <3>1. "permit" \notin Changes
      BY DEF Changes
    <3> QED BY <2>1, <2>2, <3>1, Passed
  <2>3. CASE Fail("usage")
    <3>2. Running /\ todo # <<>> /\ Head(todo) = "permit"
      BY <2>1 DEF Step, ProcessInv
    <3>3. 1 \in Places /\ todo[1] = "permit"
      BY <3>2, TailIs DEF Running, Places
    <3>4. done = {}
      BY <3>2, <3>3 DEF Running, PermitAhead
    <3> QED BY <2>1, <2>3, <3>4, Failed
  <2> QED BY <1>3, <2>2, <2>3 DEF Permit
<1>4. CASE Ping
  BY <1>4, PingHolds
<1>5. CASE \E s \in Changes \cup Reads : Request(s)
  BY <1>5, RequestHolds
<1>6. CASE Finish
  BY <1>6, FinishHolds
<1>7. CASE WaitAnswered \/ CtrlC \/ WaitFails
  BY <1>7, WaitHolds
<1>8. CASE TurnEnds
  <2>1. UNCHANGED <<cmd, todo, at, heard, missed, failure, code, outcome, done>> /\ at # "over"
        /\ turn' \in {"completed", "failed", "interrupted", "unknown"}
    BY <1>8 DEF TurnEnds, Ended, procVars
  <2>2. Asked(cmd)' = Asked(cmd) /\ OptionsOk' = OptionsOk
    BY <2>1 DEF Asked, OptionsOk
  <2>3. Running => Running'
    BY <2>1, <2>2 DEF Running, Covered, OptionsAhead, PermitAhead, AfterConsume, OutcomeKept, Places
  <2>4. Waiting => Waiting'
    BY <2>1, <2>2 DEF Waiting
  <2> QED BY <2>1, <2>3, <2>4 DEF ProcessInv
<1>10. CASE NothingToProbe
  <2>1. Step("probe") /\ Pass /\ done' = done /\ turn' \in TurnStates
    BY <1>0, <1>10 DEF NothingToProbe, Elsewhere
  <2>2. "probe" \notin Changes
    BY DEF Changes
  <2> QED BY <2>1, <2>2, Passed
<1>9. CASE UNCHANGED vars
  <2>1. UNCHANGED <<cmd, todo, at, heard, missed, told, failure, code, outcome, done, turn>>
    BY <1>9 DEF vars, procVars
  <2>2. Asked(cmd)' = Asked(cmd) /\ OptionsOk' = OptionsOk /\ Waits(cmd)' = Waits(cmd)
    BY <2>1 DEF Asked, OptionsOk, Waits
  <2>3. Running => Running'
    BY <2>1, <2>2 DEF Running, Covered, OptionsAhead, PermitAhead, AfterConsume, OutcomeKept, Places
  <2>4. Waiting => Waiting'
    BY <2>1, <2>2 DEF Waiting
  <2>5. ExitSays /\ RefusalsTouchNothing => ExitSays' /\ RefusalsTouchNothing'
    BY <2>1, <2>2 DEF ExitSays, RefusalsTouchNothing
  <2> QED BY <2>1, <2>3, <2>4, <2>5 DEF ProcessInv
<1> QED
  BY <1>1, <1>2, <1>3, <1>4, <1>5, <1>6, <1>7, <1>8, <1>9, <1>10 DEF Next, Process

LEMMA ProcessInvHolds == Spec => []ProcessInv
<1>1. Init => ProcessInv
  BY InitHolds
<1>2. ProcessInv /\ [Next]_vars => ProcessInv'
  BY NextHolds
<1> QED BY <1>1, <1>2, PTL DEF Spec

\* What an exit code says of the server is so, for any number of servers and any
\* command (app.rs, the commands; turns.rs, turn_terminal).
THEOREM ExitCodesHold == Spec => []ExitSays
<1>1. ProcessInv => ExitSays
  BY DEF ProcessInv, Running, Waiting, ExitSays, AfterConsume
<1> QED BY <1>1, ProcessInvHolds, PTL

\* A command that is refused for its options has had no effect (app.rs,
\* new_command, fork_command, settings_set_command, start_turn).
THEOREM RefusalsHold == Spec => []RefusalsTouchNothing
<1>1. ProcessInv => RefusalsTouchNothing
  BY DEF ProcessInv, Running, Waiting, RefusalsTouchNothing
<1> QED BY <1>1, ProcessInvHolds, PTL

(***************************************************************************)
(* The listing page by page: what it has of the threads that stayed as     *)
(* they were, and how far it has come.                                     *)
(***************************************************************************)
Wanted(th) == Newer(th) /\ FromStart(th) /\ (request.local => th \in Matching)

\* The cursor has gone over a thread.
GoneOver(th, cursor) == cursor # NoCursor /\ Place(th) <= cursor

\* Every thread of one set comes before every one of another.
Below(S, T) == \A a \in S \ changed, b \in T \ changed : Place(a) < Place(b)

Ascending(s) ==
    \A i, j \in DOMAIN s : i < j /\ s[i] \notin changed /\ s[j] \notin changed =>
      Place(s[i]) < Place(s[j])

ScanTypeOK ==
    /\ request \in Requests /\ start \in Int
    /\ scan \in [at : {"idle", "reading", "done", "failed"}, cursor : Int, left : Nat,
                 got : Seq(Thread), found : Seq(Thread), next : Int, tick : BOOLEAN]
    /\ updated \in [Thread -> Nat]
    /\ changed \subseteq Thread

\* A thread that stayed as it was is there.
UnchangedAreThere == \A th \in Thread \ changed : updated[th] # 0

\* What is kept is in order and behind the cursor.
KeptInOrder ==
    /\ Ascending(scan.found) /\ Ascending(scan.got)
    /\ Below(Range(scan.found), Range(scan.got))
    /\ \A th \in (Range(scan.found) \cup Range(scan.got)) \ changed : GoneOver(th, scan.cursor)

\* What is kept is asked for; what the batch has goes through the local filters at its
\* end.  The cursor is never before the one that was given.
KeptWanted ==
    /\ \A th \in Range(scan.found) \ changed : Wanted(th)
    /\ \A th \in Range(scan.got) \ changed : Newer(th) /\ FromStart(th)
    /\ start # NoCursor => scan.cursor # NoCursor /\ start <= scan.cursor

\* What the cursor went over and the request asks for is kept.
NothingPassedOver ==
    \A th \in Thread \ changed :
      Wanted(th) /\ GoneOver(th, scan.cursor) => th \in Range(scan.found) \cup Range(scan.got)

\* Rows are kept for later only with a time, and from batch to batch only with local
\* filters.
KeptFor ==
    /\ request.since = 0 => scan.got = <<>>
    /\ ~request.local => scan.found = <<>>

ScanInv ==
    /\ ScanTypeOK
    /\ UnchangedAreThere
    /\ scan.at = "reading" => KeptInOrder /\ KeptWanted /\ NothingPassedOver /\ KeptFor
    /\ ScanSkipsNothing /\ ScanListsOnce

Rank(A, i) == Cardinality({j \in A : j <= i})

\* The ranks in a set of numbers are the numbers up to its size, each once and in
\* their order.
LEMMA RankIs ==
    ASSUME NEW A \in SUBSET Nat, IsFiniteSet(A)
    PROVE  /\ Cardinality(A) \in Nat
           /\ \A i \in A : Rank(A, i) \in 1..Cardinality(A)
           /\ \A i, k \in A : Rank(A, i) < Rank(A, k) => i < k
           /\ \A n \in 1..Cardinality(A) : \E i \in A : Rank(A, i) = n
           /\ \A i, k \in A : i # k => Rank(A, i) # Rank(A, k)
<1> DEFINE Upto(i) == {j \in A : j <= i}
           c == Cardinality(A)
           r == [i \in A |-> Rank(A, i)]
<1>1. c \in Nat
  BY FS_CardinalityType
<1>2. ASSUME NEW i \in A
      PROVE  IsFiniteSet(Upto(i)) /\ Rank(A, i) \in 1..c
  <2>1. Upto(i) \in SUBSET A /\ i \in Upto(i)
    OBVIOUS
  <2>2. IsFiniteSet(Upto(i)) /\ Cardinality(Upto(i)) <= c
    BY <2>1, FS_Subset
  <2>3. Cardinality(Upto(i)) \in Nat /\ Cardinality(Upto(i)) # 0
    BY <2>1, <2>2, FS_CardinalityType, FS_EmptySet
  <2> QED BY <1>1, <2>2, <2>3 DEF Rank
<1>3. ASSUME NEW i \in A, NEW k \in A, i < k
      PROVE  Rank(A, i) < Rank(A, k)
  <2>1. \A j \in A : j <= i => j <= k
    BY <1>3
  <2>2. k <= k /\ ~(k <= i)
    BY <1>3
  <2>3. Upto(i) \in SUBSET Upto(k) /\ k \in Upto(k) /\ k \notin Upto(i)
    BY <2>1, <2>2
  <2>4. IsFiniteSet(Upto(k)) /\ IsFiniteSet(Upto(i))
    BY <1>2
  <2>5. Cardinality(Upto(i)) <= Cardinality(Upto(k)) /\ Cardinality(Upto(i)) # Cardinality(Upto(k))
    BY <2>3, <2>4, FS_Subset
  <2> QED BY <1>2, <2>5 DEF Rank
<1>4. \A i, k \in A : i # k => Rank(A, i) # Rank(A, k)
  <2> SUFFICES ASSUME NEW i \in A, NEW k \in A, i # k PROVE Rank(A, i) # Rank(A, k)
    OBVIOUS
  <2>0. i \in Int /\ k \in Int
    OBVIOUS
  <2>1. i < k \/ k < i
    BY <2>0
  <2>2. Rank(A, i) \in Nat /\ Rank(A, k) \in Nat
    <3>1. Rank(A, i) \in 1..c /\ Rank(A, k) \in 1..c
      BY <1>2
    <3> HIDE DEF c
    <3> QED BY <1>1, <3>1
  <2>3. Rank(A, i) < Rank(A, k) \/ Rank(A, k) < Rank(A, i)
    BY <2>1, <1>3
  <2> QED BY <2>2, <2>3
<1>5. r \in Injection(A, 1..c)
  BY <1>2, <1>4 DEF Injection, IsInjective
<1>6. IsFiniteSet(1..c) /\ Cardinality(1..c) = c
  BY <1>1, FS_Interval
<1>7. r \in Surjection(A, 1..c)
  BY <1>5, <1>6, FS_Injection
<1>8. \A n \in 1..c : \E i \in A : Rank(A, i) = n
  BY <1>7 DEF Surjection
<1>9. \A i, k \in A : Rank(A, i) < Rank(A, k) => i < k
  <2> SUFFICES ASSUME NEW i \in A, NEW k \in A, Rank(A, i) < Rank(A, k), ~(i < k) PROVE FALSE
    OBVIOUS
  <2>0. i \in Int /\ k \in Int
    OBVIOUS
  <2>1. i = k \/ k < i
    BY <2>0
  <2>2. Rank(A, i) \in Nat /\ Rank(A, k) \in Nat
    <3>1. Rank(A, i) \in 1..c /\ Rank(A, k) \in 1..c
      BY <1>2
    <3> HIDE DEF c
    <3> QED BY <1>1, <3>1
  <2>3. Rank(A, i) = Rank(A, k) \/ Rank(A, k) < Rank(A, i)
    BY <2>1, <1>3
  <2> QED BY <2>2, <2>3
<1> QED BY <1>1, <1>2, <1>4, <1>8, <1>9

\* What is picked from a sequence is what stands at those places, in its order.
LEMMA PickedIs ==
    ASSUME NEW T, NEW s \in Seq(T), NEW P \in SUBSET DOMAIN s
    PROVE  /\ Picked(s, P) \in Seq(T)
           /\ Len(Picked(s, P)) <= Len(s)
           /\ Range(Picked(s, P)) = {s[i] : i \in P}
           /\ \A n, m \in DOMAIN Picked(s, P) : n < m =>
                \E i, k \in P : i < k /\ Picked(s, P)[n] = s[i] /\ Picked(s, P)[m] = s[k]
<1> DEFINE Pick(n) == CHOOSE i \in P : Rank(P, i) = n
           c == Cardinality(P)
           t == [n \in 1..c |-> s[Pick(n)]]
<1>1. P \in SUBSET Nat /\ IsFiniteSet(P) /\ c <= Len(s)
  <2>0. Len(s) \in Nat
    OBVIOUS
  <2>1. IsFiniteSet(1..Len(s)) /\ Cardinality(1..Len(s)) = Len(s)
    BY <2>0, FS_Interval
  <2>2. P \subseteq 1..Len(s)
    OBVIOUS
  <2>3. IsFiniteSet(P) /\ c <= Cardinality(1..Len(s))
    BY <2>1, <2>2, FS_Subset
  <2> QED BY <2>1, <2>2, <2>3
<1>2. Picked(s, P) = t
  BY DEF Picked, Rank
<1>3. \A n \in 1..c : Pick(n) \in P /\ Rank(P, Pick(n)) = n
  BY <1>1, RankIs
<1>4. c \in Nat /\ \A i \in P : Rank(P, i) \in 1..c
  BY <1>1, RankIs
<1>5. \A i \in P : Pick(Rank(P, i)) = i
  <2> SUFFICES ASSUME NEW i \in P PROVE Pick(Rank(P, i)) = i
    OBVIOUS
  <2>1. Rank(P, i) \in 1..c
    BY <1>4
  <2>2. Pick(Rank(P, i)) \in P /\ Rank(P, Pick(Rank(P, i))) = Rank(P, i)
    BY <1>3, <2>1
  <2>3. \A j, k \in P : j # k => Rank(P, j) # Rank(P, k)
    BY <1>1, RankIs
  <2> HIDE DEF Pick
  <2> QED BY <2>2, <2>3
<1>6. \A i, k \in P : Rank(P, i) < Rank(P, k) => i < k
  BY <1>1, RankIs
<1> HIDE DEF Pick
<1>7. \A n \in 1..c : s[Pick(n)] \in T
  BY <1>3
<1> HIDE DEF c
<1>8. t \in Seq(T) /\ Len(t) = c /\ DOMAIN t = 1..c
  BY <1>4, <1>7
<1>9. Range(t) = {s[i] : i \in P}
  <2>1. ASSUME NEW n \in 1..c PROVE t[n] \in {s[i] : i \in P}
    BY <1>3
  <2>2. ASSUME NEW i \in P PROVE s[i] \in Range(t)
    <3>1. Rank(P, i) \in 1..c /\ Pick(Rank(P, i)) = i
      BY <1>4, <1>5
    <3> QED BY <3>1, <1>8 DEF Range
  <2> QED BY <2>1, <2>2, <1>8 DEF Range
<1>10. ASSUME NEW n \in 1..c, NEW m \in 1..c, n < m
       PROVE  \E i, k \in P : i < k /\ t[n] = s[i] /\ t[m] = s[k]
  <2>1. Pick(n) \in P /\ Pick(m) \in P /\ Rank(P, Pick(n)) = n /\ Rank(P, Pick(m)) = m
    BY <1>3
  <2>2. Pick(n) < Pick(m)
    BY <2>1, <1>6, <1>10
  <2> QED BY <2>1, <2>2
<1> HIDE DEF t
<1>11. Len(t) <= Len(s)
  BY <1>1, <1>8
<1> QED BY <1>2, <1>8, <1>9, <1>10, <1>11

\* The first n of a sequence.
LEMMA TruncatedIs ==
    ASSUME NEW T, NEW s \in Seq(T), NEW n \in Nat
    PROVE  /\ Truncated(s, n) \in Seq(T)
           /\ Len(Truncated(s, n)) = IF Len(s) <= n THEN Len(s) ELSE n
           /\ \A i \in DOMAIN Truncated(s, n) : i \in DOMAIN s /\ Truncated(s, n)[i] = s[i]
           /\ Len(s) <= n => Truncated(s, n) = s
BY DEF Truncated

LEMMA RangeIs ==
    ASSUME NEW T, NEW s \in Seq(T), NEW t \in Seq(T)
    PROVE  /\ s \o t \in Seq(T)
           /\ Range(s \o t) = Range(s) \cup Range(t)
           /\ Range(s) \subseteq T
           /\ \A i \in DOMAIN s : s[i] \in Range(s)
<1> DEFINE u == s \o t
<1>1. /\ u \in Seq(T) /\ Len(u) = Len(s) + Len(t)
      /\ DOMAIN u = 1..Len(u) /\ DOMAIN s = 1..Len(s) /\ DOMAIN t = 1..Len(t)
      /\ \A i \in 1..Len(s) : i \in 1..Len(u) /\ u[i] = s[i]
      /\ \A i \in 1..Len(t) : Len(s) + i \in 1..Len(u) /\ u[Len(s) + i] = t[i]
  OBVIOUS
<1>2. \A i \in 1..Len(u) : i \in 1..Len(s) \/ (i - Len(s) \in 1..Len(t) /\ u[i] = t[i - Len(s)])
  OBVIOUS
<1> HIDE DEF u
<1>3. Range(u) \subseteq Range(s) \cup Range(t)
  BY <1>1, <1>2 DEF Range
<1>4. Range(s) \cup Range(t) \subseteq Range(u)
  BY <1>1 DEF Range
<1>5. Range(s) \subseteq T /\ \A i \in DOMAIN s : s[i] \in Range(s)
  BY DEF Range
<1> QED BY <1>1, <1>3, <1>4, <1>5 DEF u

LEMMA RequestIs ==
    ASSUME request \in Requests
    PROVE  /\ request.since \in Nat /\ request.limit \in Nat
           /\ request.local \in BOOLEAN /\ request.asc \in BOOLEAN
           /\ NewestFirst => ~request.local
<1> DEFINE times == 0..Cardinality(Thread)
           limits == 1..MaxLimit
<1>1. times \subseteq Nat /\ limits \subseteq Nat
  <2>1. Cardinality(Thread) \in Nat /\ MaxLimit \in Nat
    BY ScanAssumption, FS_CardinalityType
  <2> QED BY <2>1
<1>2. \/ request \in [method : {"list"}, sort : {"default", "created", "updated"}, asc : BOOLEAN,
                     since : times, limit : limits, local : {FALSE}]
      \/ request \in [method : {"search"}, sort : {"default"}, asc : {FALSE},
                     since : times, limit : limits, local : BOOLEAN]
  BY DEF Requests
<1> HIDE DEF times, limits
<1> QED BY <1>1, <1>2 DEF NewestFirst

LEMMA PlaceIs ==
    ASSUME ScanTypeOK
    PROVE  \A th \in Thread : /\ updated[th] \in Nat /\ Place(th) \in Int
                              /\ updated[th] # 0 => Place(th) # NoCursor
<1>1. \A th \in Thread : th \in Nat /\ th # 0 /\ updated[th] \in Nat
  BY ScanAssumption DEF ScanTypeOK
<1> QED BY <1>1 DEF Place, NoCursor

LEMMA FirstRowsIs ==
    ASSUME ScanTypeOK, NEW cursor \in Int, NEW limit \in Nat, NEW rows \in FirstRows(cursor, limit)
    PROVE  /\ rows \in Seq(Thread) /\ Len(rows) <= limit
           /\ \A i \in DOMAIN rows : rows[i] \in Behind(cursor)
<1>1. PICK n \in 0..limit : rows \in [1..n -> Behind(cursor)]
  BY DEF FirstRows, BoundedSeq, SeqOf
<1>2. Behind(cursor) \subseteq Thread
  BY DEF Behind
<1>3. rows \in Seq(Thread) /\ Len(rows) = n /\ DOMAIN rows = 1..n
  BY <1>1, <1>2
<1> QED BY <1>1, <1>3

\* A page goes on where its cursor was and passes over nothing.
LEMMA PageIs ==
    ASSUME ScanTypeOK, NEW cursor \in Int, NEW limit \in Nat, NEW page \in Pages(cursor, limit)
    PROVE  /\ page.rows \in Seq(Thread) /\ Len(page.rows) <= limit /\ page.next \in Int
           /\ \A i \in DOMAIN page.rows : cursor = NoCursor \/ Place(page.rows[i]) > cursor
           /\ \A i, j \in DOMAIN page.rows : i < j => Place(page.rows[i]) < Place(page.rows[j])
           /\ \A th \in Behind(cursor) :
                th \in Range(page.rows) \/ (page.next # NoCursor /\ Place(th) > page.next)
           /\ page.next # NoCursor =>
                /\ cursor = NoCursor \/ cursor <= page.next
                /\ \A i \in DOMAIN page.rows : Place(page.rows[i]) <= page.next
<1> DEFINE first == FirstRows(cursor, limit)
<1>1. \A th \in Thread : Place(th) \in Int /\ (updated[th] # 0 => Place(th) # NoCursor)
  BY PlaceIs
<1>2. \A th \in Behind(cursor) : /\ th \in Thread /\ updated[th] # 0
                                 /\ cursor = NoCursor \/ Place(th) > cursor
  BY DEF Behind
<1> DEFINE r == page.rows
<1>3. ASSUME r \in first
      PROVE  /\ r \in Seq(Thread) /\ Len(r) <= limit
             /\ \A i \in DOMAIN r : r[i] \in Behind(cursor)
             /\ \A i \in DOMAIN r : cursor = NoCursor \/ Place(r[i]) > cursor
             /\ \A i, j \in DOMAIN r : i < j => Place(r[i]) < Place(r[j])
             /\ \A th \in Behind(cursor) \ Range(r), i \in DOMAIN r : Place(r[i]) < Place(th)
  <2>1. r \in Seq(Thread) /\ Len(r) <= limit /\ \A i \in DOMAIN r : r[i] \in Behind(cursor)
    BY <1>3, FirstRowsIs
  <2>2. \A i \in DOMAIN r : cursor = NoCursor \/ Place(r[i]) > cursor
    BY <1>2, <2>1
  <2> QED BY <1>3, <2>1, <2>2 DEF FirstRows
<1>4. CASE r \in first \ {<<>>} /\ page.next = Place(Last(r))
  <2> HIDE DEF r
  <2>1. Len(r) \in DOMAIN r /\ Last(r) = r[Len(r)] /\ Last(r) \in Behind(cursor)
    BY <1>3, <1>4 DEF Last
  <2>2. page.next = Place(r[Len(r)]) /\ page.next \in Int /\ page.next # NoCursor
    BY <1>1, <1>2, <1>4, <2>1
  <2>3. \A i \in DOMAIN r : Place(r[i]) <= page.next
    <3> SUFFICES ASSUME NEW i \in DOMAIN r PROVE Place(r[i]) <= page.next
      OBVIOUS
    <3>1. r[i] \in Thread /\ (i < Len(r) \/ i = Len(r))
      BY <1>3, <1>4, <2>1
    <3>2. Place(r[i]) \in Int
      BY <1>1, <3>1
    <3>3. i < Len(r) => Place(r[i]) < Place(r[Len(r)])
      BY <1>3, <1>4, <2>1
    <3> QED BY <2>2, <3>1, <3>2, <3>3
  <2>4. cursor = NoCursor \/ cursor <= page.next
    <3>1. cursor = NoCursor \/ Place(r[Len(r)]) > cursor
      BY <1>3, <1>4, <2>1
    <3> QED BY <2>2, <3>1
  <2>5. ASSUME NEW th \in Behind(cursor) \ Range(r) PROVE Place(th) > page.next
    <3>1. Place(r[Len(r)]) < Place(th)
      BY <1>3, <1>4, <2>1, <2>5
    <3>2. Place(th) \in Int
      BY <1>1, <1>2
    <3> QED BY <2>2, <3>1, <3>2
  <2> QED BY <1>3, <1>4, <2>2, <2>3, <2>4, <2>5 DEF r
<1>5. CASE r \in first /\ Behind(cursor) \subseteq Range(r) /\ page.next = NoCursor
  BY <1>3, <1>5 DEF NoCursor
<1>6. CASE page = [rows |-> <<>>, next |-> cursor] /\ cursor # NoCursor
  <2>1. page.rows = <<>> /\ page.next = cursor /\ page.next # NoCursor
    BY <1>6
  <2>2. <<>> \in Seq(Thread) /\ Len(<<>>) = 0 /\ DOMAIN <<>> = {}
    OBVIOUS
  <2>3. \A th \in Behind(cursor) : Place(th) > cursor
    BY <1>2, <2>1
  <2> QED BY <2>1, <2>2, <2>3
<1>7. \/ r \in first \ {<<>>} /\ page.next = Place(Last(r))
      \/ r \in first /\ Behind(cursor) \subseteq Range(r) /\ page.next = NoCursor
      \/ page = [rows |-> <<>>, next |-> cursor] /\ cursor # NoCursor
  BY DEF Pages
<1> QED BY <1>4, <1>5, <1>6, <1>7

LEMMA AscendingPicked ==
    ASSUME NEW s \in Seq(Thread), Ascending(s), NEW P \in SUBSET DOMAIN s
    PROVE  Ascending(Picked(s, P))
<1> DEFINE t == Picked(s, P)
<1>1. \A n, m \in DOMAIN t : n < m => \E i, k \in P : i < k /\ t[n] = s[i] /\ t[m] = s[k]
  BY PickedIs
<1> HIDE DEF t
<1>2. Ascending(t)
  BY <1>1 DEF Ascending
<1> QED BY <1>2 DEF t

LEMMA AscendingJoin ==
    ASSUME NEW s \in Seq(Thread), NEW t \in Seq(Thread),
           Ascending(s), Ascending(t), Below(Range(s), Range(t))
    PROVE  Ascending(s \o t)
<1> DEFINE u == s \o t
<1>1. /\ DOMAIN u = 1..(Len(s) + Len(t)) /\ DOMAIN s = 1..Len(s) /\ DOMAIN t = 1..Len(t)
      /\ \A i \in 1..Len(s) : u[i] = s[i]
      /\ \A i \in DOMAIN u : i \in 1..Len(s) \/ (i - Len(s) \in 1..Len(t) /\ u[i] = t[i - Len(s)])
  OBVIOUS
<1>2. (\A i \in DOMAIN s : s[i] \in Range(s)) /\ (\A i \in DOMAIN t : t[i] \in Range(t))
  BY DEF Range
<1>3. Len(s) \in Nat /\ Len(t) \in Nat
  OBVIOUS
<1> HIDE DEF u
<1> SUFFICES ASSUME NEW i \in DOMAIN u, NEW j \in DOMAIN u, i < j,
                    u[i] \notin changed, u[j] \notin changed
             PROVE  Place(u[i]) < Place(u[j])
  BY DEF u, Ascending
<1>4. CASE i \in 1..Len(s) /\ j \in 1..Len(s)
  BY <1>1, <1>4 DEF Ascending
<1>5. CASE i \in 1..Len(s) /\ j \notin 1..Len(s)
  BY <1>1, <1>2, <1>5 DEF Below
<1>6. CASE i \notin 1..Len(s)
  <2>1. i \in Int /\ j \in Int /\ j \notin 1..Len(s)
    BY <1>1, <1>3, <1>6
  <2>2. /\ i - Len(s) \in DOMAIN t /\ j - Len(s) \in DOMAIN t /\ i - Len(s) < j - Len(s)
        /\ u[i] = t[i - Len(s)] /\ u[j] = t[j - Len(s)]
    BY <1>1, <1>3, <1>6, <2>1
  <2> QED BY <2>2 DEF Ascending
<1> QED BY <1>4, <1>5, <1>6

\* Of a page, every newer row is taken: where an older one ends the scan, only older
\* ones come after it.
LEMMA TakenIs ==
    ASSUME ScanTypeOK, NEW rows \in Seq(Thread), Len(rows) <= scan.left,
           \A i, j \in DOMAIN rows : i < j => Place(rows[i]) < Place(rows[j])
    PROVE  /\ Taken(rows).rows \in Seq(Thread) /\ Len(Taken(rows).rows) <= Len(rows)
           /\ Ascending(Taken(rows).rows)
           /\ Range(Taken(rows).rows) = {th \in Range(rows) : Newer(th)}
<1> DEFINE new == {i \in DOMAIN rows : IF NewestFirst THEN \A j \in 1..i : Newer(rows[j])
                                                      ELSE Newer(rows[i])}
           p == Picked(rows, new)
<1>1. scan.left \in Nat /\ Len(rows) \in Nat /\ DOMAIN rows = 1..Len(rows)
  BY DEF ScanTypeOK
<1>2. \A i \in DOMAIN rows : /\ rows[i] \in Thread /\ updated[rows[i]] \in Nat
                             /\ Place(rows[i]) \in Int
  BY PlaceIs
<1>3. new = {i \in DOMAIN rows : Newer(rows[i])}
  <2>1. ASSUME NewestFirst, NEW i \in DOMAIN rows, Newer(rows[i]), NEW j \in 1..i
        PROVE  Newer(rows[j])
    <3>1. j \in DOMAIN rows /\ (j < i \/ j = i)
      BY <1>1
    <3>2. CASE j < i
      <4>1. Place(rows[j]) < Place(rows[i])
        BY <3>1, <3>2
      <4>2. Place(rows[j]) = -updated[rows[j]] /\ Place(rows[i]) = -updated[rows[i]]
        BY <2>1 DEF NewestFirst, Place
      <4>3. updated[rows[i]] >= request.since /\ request.since \in Nat
        BY <2>1, RequestIs DEF Newer, ScanTypeOK
      <4>4. updated[rows[j]] \in Nat /\ updated[rows[i]] \in Nat
        BY <1>2, <3>1
      <4> QED BY <4>1, <4>2, <4>3, <4>4 DEF Newer
    <3> QED BY <2>1, <3>1, <3>2
  <2>2. ASSUME NEW i \in DOMAIN rows PROVE i \in 1..i
    BY <1>1
  <2> QED BY <2>1, <2>2
<1>4. /\ p \in Seq(Thread) /\ Len(p) <= Len(rows)
      /\ Range(p) = {rows[i] : i \in new}
  BY PickedIs, new \subseteq DOMAIN rows
<1>5. Ascending(p)
  BY AscendingPicked, new \subseteq DOMAIN rows DEF Ascending
<1>6. Truncated(p, scan.left) = p
  <2> HIDE DEF p
  <2> QED BY <1>1, <1>4, TruncatedIs
<1>7. Taken(rows).rows = p
  BY <1>6 DEF Taken
<1>8. Range(p) = {th \in Range(rows) : Newer(th)}
  <2> HIDE DEF p, new
  <2> QED BY <1>3, <1>4 DEF Range
<1> QED BY <1>4, <1>5, <1>7, <1>8

\* What the batch has after a page, and where the cursor of the page stands to it.
LEMMA BatchIs ==
    ASSUME ScanTypeOK, UnchangedAreThere, KeptInOrder, KeptWanted, NothingPassedOver, KeptFor,
           NEW page \in Pages(scan.cursor, PageLimit)
    PROVE  LET b == Batch(page) IN
           /\ b.got \in Seq(Thread) /\ b.left \in Nat /\ page.next \in Int
           /\ ~b.ends => page.next # NoCursor /\ request.since # 0
           /\ Ascending(b.got) /\ Below(Range(scan.found), Range(b.got))
           /\ \A th \in (Range(scan.found) \cup Range(b.got)) \ changed :
                page.next # NoCursor => GoneOver(th, page.next)
           /\ \A th \in Range(b.got) \ changed : Newer(th) /\ FromStart(th)
           /\ start # NoCursor /\ page.next # NoCursor => start <= page.next
           /\ \A th \in Thread \ changed : Wanted(th) =>
                \/ th \in Range(scan.found) \cup Range(b.got)
                \/ page.next # NoCursor /\ Place(th) > page.next
<1> DEFINE b == Batch(page)
           n == Taken(page.rows).rows
           rest == scan.left - Len(n)
           cursor == scan.cursor
           old == Range(scan.found) \cup Range(scan.got)
<1>1. /\ cursor \in Int /\ scan.left \in Nat /\ scan.got \in Seq(Thread)
      /\ scan.found \in Seq(Thread) /\ PageLimit = scan.left
  BY DEF ScanTypeOK, PageLimit
<1>2. /\ page.rows \in Seq(Thread) /\ Len(page.rows) <= scan.left /\ page.next \in Int
      /\ \A i \in DOMAIN page.rows : cursor = NoCursor \/ Place(page.rows[i]) > cursor
      /\ \A i, j \in DOMAIN page.rows : i < j => Place(page.rows[i]) < Place(page.rows[j])
      /\ \A th \in Behind(cursor) :
           th \in Range(page.rows) \/ (page.next # NoCursor /\ Place(th) > page.next)
      /\ page.next # NoCursor =>
           /\ cursor = NoCursor \/ cursor <= page.next
           /\ \A i \in DOMAIN page.rows : Place(page.rows[i]) <= page.next
  BY <1>1, PageIs
<1>3. \A th \in Thread : updated[th] \in Nat /\ Place(th) \in Int
  BY PlaceIs
<1>4. /\ n \in Seq(Thread) /\ Len(n) <= Len(page.rows) /\ Ascending(n)
      /\ Range(n) = {th \in Range(page.rows) : Newer(th)}
  BY <1>2, TakenIs
<1>5. /\ Range(scan.found) \subseteq Thread /\ Range(scan.got) \subseteq Thread
      /\ Range(page.rows) \subseteq Thread
  BY <1>1, <1>2, RangeIs
\* The rows of the page come after what is kept.
<1>6. ASSUME NEW S \in SUBSET old, NEW T \in SUBSET Range(page.rows) PROVE Below(S, T)
  <2> SUFFICES ASSUME NEW x \in S \ changed, NEW y \in T \ changed PROVE Place(x) < Place(y)
    BY DEF Below
  <2>1. cursor # NoCursor /\ Place(x) <= cursor
    BY DEF KeptInOrder, GoneOver
  <2>2. Place(y) > cursor
    BY <1>2, <2>1 DEF Range
  <2>3. Place(x) \in Int /\ Place(y) \in Int
    BY <1>3, <1>5
  <2> QED BY <1>1, <2>1, <2>2, <2>3
<1>7. ASSUME page.next # NoCursor, NEW th \in (old \cup Range(page.rows)) \ changed
      PROVE  GoneOver(th, page.next)
  <2>1. Place(th) \in Int
    BY <1>3, <1>5
  <2>2. CASE th \in old
    BY <1>1, <1>2, <1>7, <2>1, <2>2 DEF KeptInOrder, GoneOver
  <2>3. CASE th \in Range(page.rows)
    BY <1>2, <1>7, <2>3 DEF Range, GoneOver
  <2> QED BY <2>2, <2>3
<1>8. ASSUME NEW th \in Thread \ changed, Wanted(th)
      PROVE  \/ th \in old
             \/ th \in Range(page.rows)
             \/ page.next # NoCursor /\ Place(th) > page.next
  <2>1. Place(th) \in Int /\ updated[th] # 0
    BY <1>3 DEF UnchangedAreThere
  <2>2. CASE GoneOver(th, cursor)
    BY <1>8, <2>2 DEF NothingPassedOver
  <2>3. CASE ~GoneOver(th, cursor)
    <3>1. cursor = NoCursor \/ Place(th) > cursor
      BY <1>1, <2>1, <2>3 DEF GoneOver
    <3>2. th \in Behind(cursor)
      BY <2>1, <3>1 DEF Behind
    <3> QED BY <1>2, <3>2
  <2> QED BY <2>2, <2>3
<1>12. start \in Int /\ (start # NoCursor => cursor # NoCursor /\ start <= cursor)
  BY DEF ScanTypeOK, KeptWanted
<1>13. \A th \in Range(page.rows) : FromStart(th)
  <2> SUFFICES ASSUME NEW th \in Range(page.rows), start # NoCursor PROVE Place(th) > start
    BY DEF FromStart
  <2>1. Place(th) > cursor /\ Place(th) \in Int
    BY <1>2, <1>3, <1>5, <1>12 DEF Range
  <2> QED BY <1>1, <1>12, <2>1
<1>14. start # NoCursor /\ page.next # NoCursor => start <= page.next
  BY <1>1, <1>2, <1>12
<1>9. Len(n) \in Nat /\ Len(page.rows) \in Nat /\ rest \in Nat
  <2>1. Len(n) \in Nat /\ Len(page.rows) \in Nat
    BY <1>2, <1>4
  <2> QED BY <1>1, <1>2, <1>4, <2>1
<1> HIDE DEF n
<1>10. CASE request.since = 0
  <2>1. b.got = page.rows /\ b.left = 0 /\ b.ends
    BY <1>10 DEF Batch
  <2>2. scan.got = <<>> /\ Range(scan.got) = {}
    BY <1>10 DEF KeptFor, Range
  <2>3. Ascending(page.rows)
    BY <1>2 DEF Ascending
  <2>4. Below(Range(scan.found), Range(page.rows))
    BY <1>6
  <2>5. \A th \in Range(page.rows) : Newer(th)
    BY <1>3, <1>5, <1>10 DEF Newer
  <2> HIDE DEF b
  <2> QED BY <1>2, <1>7, <1>8, <1>13, <1>14, <2>1, <2>2, <2>3, <2>4, <2>5 DEF b
<1>11. CASE request.since # 0
  <2>1. /\ b.got = scan.got \o n /\ b.left = rest
        /\ ~b.ends => page.next # NoCursor
    BY <1>11 DEF Batch, Kept, n
  <2>2. b.got \in Seq(Thread) /\ Range(b.got) = Range(scan.got) \cup Range(n)
    BY <1>1, <1>4, <2>1, RangeIs
  <2>3. Range(n) \subseteq Range(page.rows)
    BY <1>4
  <2>4. Ascending(b.got)
    <3>1. Ascending(scan.got) /\ Below(Range(scan.got), Range(n))
      BY <1>6, <2>3 DEF KeptInOrder
    <3> QED BY <1>1, <1>4, <2>1, <3>1, AscendingJoin
  <2>5. Below(Range(scan.found), Range(b.got))
    <3>1. Below(Range(scan.found), Range(n)) /\ Below(Range(scan.found), Range(scan.got))
      BY <1>6, <2>3 DEF KeptInOrder
    <3> QED BY <2>2, <3>1 DEF Below
  <2>6. ASSUME NEW th \in Thread \ changed, Wanted(th)
        PROVE  \/ th \in Range(scan.found) \cup Range(b.got)
               \/ page.next # NoCursor /\ Place(th) > page.next
    BY <1>4, <1>8, <2>2, <2>6 DEF Wanted
  <2>7. ASSUME page.next # NoCursor, NEW th \in (Range(scan.found) \cup Range(b.got)) \ changed
        PROVE  GoneOver(th, page.next)
    BY <1>7, <2>2, <2>3, <2>7
  <2>8. \A th \in Range(b.got) \ changed : Newer(th) /\ FromStart(th)
    BY <1>4, <1>13, <2>2, <2>3 DEF KeptWanted
  <2> HIDE DEF b
  <2> QED BY <1>2, <1>9, <1>11, <1>14, <2>1, <2>2, <2>4, <2>5, <2>6, <2>7, <2>8 DEF b
<1> QED BY <1>10, <1>11

\* The filters keep the order of the rows, and those they let through.
LEMMA FilteredIs ==
    ASSUME NEW rows \in Seq(Thread), Ascending(rows)
    PROVE  /\ Filtered(rows) \in Seq(Thread) /\ Ascending(Filtered(rows))
           /\ Range(Filtered(rows)) = {th \in Range(rows) : request.local => th \in Matching}
<1> DEFINE P == {i \in DOMAIN rows : rows[i] \in Matching}
           p == Picked(rows, P)
<1>1. P \subseteq DOMAIN rows
  OBVIOUS
<1>2. p \in Seq(Thread) /\ Range(p) = {rows[i] : i \in P} /\ Ascending(p)
  BY <1>1, PickedIs, AscendingPicked
<1>3. Range(p) = {th \in Range(rows) : th \in Matching}
  <2> HIDE DEF p
  <2> QED BY <1>2 DEF Range
<1> QED BY <1>2, <1>3 DEF Filtered

LEMMA ReadPageKeeps ==
    ASSUME ScanInv, ReadPage
    PROVE  ScanInv'
<1>1. scan.at = "reading" /\ UNCHANGED <<request, start, updated, changed>>
  BY DEF ReadPage
<1>2. /\ ScanTypeOK /\ UnchangedAreThere
      /\ KeptInOrder /\ KeptWanted /\ NothingPassedOver /\ KeptFor
  BY <1>1 DEF ScanInv
<1>3. PICK page \in Pages(scan.cursor, PageLimit) : scan' = AfterPage(page)
  BY DEF ReadPage
<1> DEFINE b     == Batch(page)
           found == scan.found \o Filtered(b.got)
           more  == request.local /\ page.next # NoCursor /\ Len(found) < request.limit
<1>4. /\ b.got \in Seq(Thread) /\ b.left \in Nat /\ page.next \in Int
      /\ ~b.ends => page.next # NoCursor /\ request.since # 0
      /\ Ascending(b.got) /\ Below(Range(scan.found), Range(b.got))
      /\ \A th \in (Range(scan.found) \cup Range(b.got)) \ changed :
           page.next # NoCursor => GoneOver(th, page.next)
      /\ \A th \in Range(b.got) \ changed : Newer(th) /\ FromStart(th)
      /\ start # NoCursor /\ page.next # NoCursor => start <= page.next
      /\ \A th \in Thread \ changed : Wanted(th) =>
           \/ th \in Range(scan.found) \cup Range(b.got)
           \/ page.next # NoCursor /\ Place(th) > page.next
  BY <1>2, BatchIs
<1> HIDE DEF b
<1>5. /\ Filtered(b.got) \in Seq(Thread) /\ Ascending(Filtered(b.got))
      /\ Range(Filtered(b.got)) = {th \in Range(b.got) : request.local => th \in Matching}
  BY <1>4, FilteredIs
<1>6. /\ scan.found \in Seq(Thread) /\ found \in Seq(Thread)
      /\ Range(found) = Range(scan.found) \cup Range(Filtered(b.got))
  BY <1>2, <1>5, RangeIs DEF ScanTypeOK
<1>7. Ascending(found)
  <2>1. Below(Range(scan.found), Range(Filtered(b.got)))
    BY <1>4, <1>5 DEF Below
  <2> QED BY <1>2, <1>5, <1>6, <2>1, AscendingJoin DEF KeptInOrder
<1>8. /\ \A th \in Range(found) \ changed : page.next # NoCursor => GoneOver(th, page.next)
      /\ \A th \in Thread \ changed : Wanted(th) =>
           \/ th \in Range(found)
           \/ page.next # NoCursor /\ Place(th) > page.next
      /\ \A th \in Range(found) \ changed : Wanted(th)
  BY <1>2, <1>4, <1>5, <1>6 DEF Wanted, KeptWanted
<1>9. /\ request.limit \in Nat /\ request.local \in BOOLEAN
      /\ \A th \in Thread : Place(th) \in Int
      /\ scan.tick \in BOOLEAN
      /\ scan = [at |-> scan.at, cursor |-> scan.cursor, left |-> scan.left, got |-> scan.got,
                 found |-> scan.found, next |-> scan.next, tick |-> scan.tick]
      /\ scan.next \in Int
  BY <1>2, RequestIs, PlaceIs DEF ScanTypeOK
<1>10. request' = request /\ start' = start /\ updated' = updated /\ changed' = changed /\ UnchangedAreThere'
  BY <1>1, <1>2 DEF UnchangedAreThere
<1> HIDE DEF found
<1>11. CASE ~b.ends
  <2>1. scan' = [at |-> "reading", cursor |-> page.next, left |-> b.left, got |-> b.got,
                 found |-> scan.found, next |-> scan.next, tick |-> ~scan.tick]
    BY <1>1, <1>3, <1>9, <1>11 DEF AfterPage, b
  <2>2. ScanTypeOK'
    BY <1>2, <1>4, <1>6, <1>9, <1>10, <2>1 DEF ScanTypeOK
  <2>3. KeptInOrder'
    BY <1>2, <1>4, <1>10, <1>11, <2>1 DEF KeptInOrder, Ascending, Below, GoneOver, Place
  <2>4. NothingPassedOver'
    <3> SUFFICES ASSUME NEW th \in Thread \ changed, Wanted(th), GoneOver(th, page.next)
                 PROVE  th \in Range(scan.found) \cup Range(b.got)
      BY <1>10, <2>1 DEF NothingPassedOver, Wanted, FromStart, Newer, GoneOver, Place
    <3> QED BY <1>4, <1>9 DEF GoneOver
  <2>5. KeptFor'
    BY <1>2, <1>4, <1>10, <1>11, <2>1 DEF KeptFor
  <2>6. ScanSkipsNothing' /\ ScanListsOnce'
    BY <2>1 DEF ScanSkipsNothing, ScanListsOnce
  <2>7. KeptWanted'
    BY <1>2, <1>4, <1>10, <1>11, <2>1 DEF KeptWanted, Wanted, FromStart, Newer, Place
  <2> QED BY <1>10, <2>2, <2>3, <2>4, <2>5, <2>6, <2>7 DEF ScanInv
<1>12. CASE b.ends /\ more
  <2>1. scan' = [at |-> "reading", cursor |-> page.next, left |-> request.limit, got |-> <<>>,
                 found |-> found, next |-> NoCursor, tick |-> ~scan.tick]
    BY <1>3, <1>12 DEF AfterPage, b, found, NewScan
  <2>2. ScanTypeOK'
    BY <1>2, <1>4, <1>6, <1>9, <1>10, <2>1 DEF ScanTypeOK, NoCursor
  <2>3. Range(<<>>) = {}
    BY DEF Range
  <2>4. KeptInOrder'
    <3>1. Ascending(scan.found)' /\ Ascending(scan.got)'
      BY <1>7, <1>10, <2>1 DEF Ascending, Place
    <3>2. Below(Range(scan.found), Range(scan.got))'
      BY <2>1, <2>3 DEF Below
    <3>3. \A th \in Range(found) \ changed : GoneOver(th, page.next)
      BY <1>8, <1>12
    <3>4. (\A th \in (Range(scan.found) \cup Range(scan.got)) \ changed : GoneOver(th, scan.cursor))'
      BY <1>10, <2>1, <2>3, <3>3 DEF GoneOver, Place
    <3> QED BY <3>1, <3>2, <3>4 DEF KeptInOrder
  <2>5. NothingPassedOver'
    <3> SUFFICES ASSUME NEW th \in Thread \ changed, Wanted(th), GoneOver(th, page.next)
                 PROVE  th \in Range(found)
      BY <1>10, <2>1 DEF NothingPassedOver, Wanted, FromStart, Newer, GoneOver, Place
    <3> QED BY <1>4, <1>8, <1>9 DEF GoneOver
  <2>6. KeptFor'
    BY <1>10, <1>12, <2>1 DEF KeptFor
  <2>7. ScanSkipsNothing' /\ ScanListsOnce'
    BY <2>1 DEF ScanSkipsNothing, ScanListsOnce
  <2>8. KeptWanted'
    BY <1>4, <1>8, <1>10, <1>12, <2>1, <2>3 DEF KeptWanted, Wanted, FromStart, Newer, Place
  <2> QED BY <1>10, <2>2, <2>4, <2>5, <2>6, <2>7, <2>8 DEF ScanInv
<1>13. CASE b.ends /\ ~more
  <2> DEFINE answer == IF request.local THEN Truncated(found, request.limit) ELSE found
             next   == IF request.local THEN NoCursor ELSE page.next
  <2>1. scan' = [at |-> "done", cursor |-> NoCursor, left |-> 0, got |-> <<>>,
                 found |-> answer, next |-> next, tick |-> FALSE]
    BY <1>3, <1>13 DEF AfterPage, b, found, NewScan, Idle
  <2>2. /\ Truncated(found, request.limit) \in Seq(Thread)
        /\ Len(Truncated(found, request.limit)) =
             IF Len(found) <= request.limit THEN Len(found) ELSE request.limit
        /\ \A i \in DOMAIN Truncated(found, request.limit) :
             i \in DOMAIN found /\ Truncated(found, request.limit)[i] = found[i]
        /\ Len(found) <= request.limit => Truncated(found, request.limit) = found
    BY <1>6, <1>9, TruncatedIs
  <2>3. answer \in Seq(Thread) /\ next \in Int /\ NoCursor \in Int
    BY <1>4, <1>6, <2>2 DEF NoCursor
  <2>4. ScanTypeOK'
    <3> HIDE DEF answer, next
    <3> QED BY <1>2, <1>10, <2>1, <2>3 DEF ScanTypeOK
  <2>5. ASSUME NEW th \in Thread \ changed, Wanted(th)
        PROVE  \/ th \in Range(answer)
               \/ next # NoCursor /\ Place(th) > next
               \/ /\ request.local /\ Len(answer) = request.limit
                  /\ \A i \in DOMAIN answer : answer[i] \in changed \/ Place(answer[i]) < Place(th)
    <3>1. CASE ~request.local
      BY <1>8, <2>5, <3>1
    <3>2. CASE request.local /\ Len(found) <= request.limit /\ th \in Range(found)
      BY <2>2, <3>2
    <3>3. CASE request.local /\ Len(found) > request.limit /\ th \in Range(found)
      <4>1. PICK k \in DOMAIN found : th = found[k]
        BY <3>3 DEF Range
      <4>2. answer = Truncated(found, request.limit) /\ Len(answer) = request.limit
        BY <1>6, <1>9, <2>2, <3>3
      <4>3. DOMAIN answer = 1..request.limit /\ \A i \in DOMAIN answer :
              i \in DOMAIN found /\ answer[i] = found[i]
        BY <2>2, <4>2
      <4> HIDE DEF answer
      <4>4. CASE k <= request.limit
        <5>1. k \in DOMAIN answer /\ answer[k] = th
          BY <1>6, <1>9, <4>1, <4>3, <4>4
        <5> QED BY <5>1 DEF Range
      <4>5. CASE ~(k <= request.limit)
        <5>1. \A i \in DOMAIN answer : i < k
          BY <1>6, <1>9, <4>1, <4>3, <4>5
        <5>2. \A i \in DOMAIN answer : answer[i] \in changed \/ Place(answer[i]) < Place(th)
          BY <1>7, <4>1, <4>3, <5>1 DEF Ascending
        <5> QED BY <3>3, <4>2, <5>2
      <4> QED BY <4>4, <4>5
    <3>4. CASE request.local /\ th \notin Range(found)
      <4>1. page.next # NoCursor /\ Place(th) > page.next
        BY <1>8, <2>5, <3>4
      <4>2. ~(Len(found) < request.limit)
        BY <1>13, <3>4, <4>1
      <4>3. Len(answer) = request.limit
        BY <1>6, <1>9, <2>2, <3>4, <4>2
      <4>4. \A i \in DOMAIN answer : i \in DOMAIN found /\ answer[i] = found[i]
        BY <2>2, <3>4
      <4> HIDE DEF answer
      <4>5. ASSUME NEW i \in DOMAIN answer, answer[i] \notin changed
            PROVE  Place(answer[i]) < Place(th)
        <5>1. answer[i] \in Range(found) /\ answer[i] \in Thread
          BY <1>6, <4>4 DEF Range
        <5>2. Place(answer[i]) <= page.next
          BY <1>8, <4>1, <4>5, <5>1 DEF GoneOver
        <5> QED BY <1>4, <1>9, <4>1, <5>1, <5>2
      <4> QED BY <3>4, <4>3, <4>5
    <3> QED BY <1>6, <1>9, <3>1, <3>2, <3>3, <3>4
  <2>6. ScanSkipsNothing'
    <3> HIDE DEF answer, next
    <3> QED BY <1>10, <2>1, <2>5 DEF ScanSkipsNothing, Wanted, FromStart, Newer, Place
  <2>7. ~(scan.at = "reading")'
    BY <2>1
  <2>8. \A i \in DOMAIN answer : i \in DOMAIN found /\ answer[i] = found[i]
    BY <2>2
  <2>9. ASSUME NEW th \in Range(answer) \ changed
        PROVE  Wanted(th) /\ (next # NoCursor => Place(th) <= next)
    <3>1. th \in Range(found) \ changed
      <4> HIDE DEF answer
      <4> QED BY <2>8, <2>9 DEF Range
    <3> QED BY <1>8, <3>1 DEF GoneOver
  <2>10. \A i, j \in DOMAIN answer : i < j /\ answer[i] \notin changed /\ answer[j] \notin changed =>
           Place(answer[i]) < Place(answer[j])
    <3> HIDE DEF answer
    <3> QED BY <1>7, <2>8 DEF Ascending
  <2>11. ScanListsOnce'
    <3> HIDE DEF answer, next
    <3> QED BY <1>10, <2>1, <2>9, <2>10 DEF ScanListsOnce, Wanted, FromStart, Newer, Place
  <2> QED BY <1>10, <2>4, <2>6, <2>7, <2>11 DEF ScanInv
<1> QED BY <1>11, <1>12, <1>13

\* A change of another client touches one thread, and nothing is said of it from then on.
LEMMA ChangeKeeps ==
    ASSUME ScanInv, NEW th \in Thread, Change(th)
    PROVE  ScanInv'
<1>1. /\ scan.at = "reading" /\ UNCHANGED <<request, start, scan>> /\ changed' = changed \cup {th}
      /\ \E time \in {0, Cardinality(Thread) + Cardinality(changed) + 1} :
           updated' = [updated EXCEPT ![th] = time]
  BY DEF Change
<1>2. /\ ScanTypeOK /\ UnchangedAreThere
      /\ KeptInOrder /\ KeptWanted /\ NothingPassedOver /\ KeptFor
  BY <1>1 DEF ScanInv
<1>3. Cardinality(Thread) \in Nat /\ Cardinality(changed) \in Nat
  BY <1>2, ScanAssumption, FS_CardinalityType, FS_Subset DEF ScanTypeOK
<1>4. updated \in [Thread -> Nat] /\ changed \subseteq Thread
  BY <1>2 DEF ScanTypeOK
<1>5. updated' \in [Thread -> Nat] /\ changed' \subseteq Thread
  <2>1. PICK time \in {0, Cardinality(Thread) + Cardinality(changed) + 1} :
          updated' = [updated EXCEPT ![th] = time]
    BY <1>1
  <2>2. time \in Nat
    BY <1>3
  <2> QED BY <1>1, <1>4, <2>1, <2>2
<1>6. \A x \in Thread \ changed' : x \in Thread \ changed /\ updated'[x] = updated[x]
  BY <1>1, <1>4
<1>7. ScanTypeOK'
  BY <1>1, <1>2, <1>5 DEF ScanTypeOK
<1>8. UnchangedAreThere'
  BY <1>2, <1>6 DEF UnchangedAreThere
<1>9. \A x \in Thread \ changed' : /\ Place(x)' = Place(x)
                                    /\ (Newer(x)' <=> Newer(x)) /\ (Wanted(x)' <=> Wanted(x))
                                    /\ (FromStart(x)' <=> FromStart(x))
  BY <1>1, <1>6 DEF Place, Wanted, FromStart, Newer
<1>10. \A x \in Thread \ changed' : GoneOver(x, scan.cursor)' <=> GoneOver(x, scan.cursor)
  BY <1>1, <1>9 DEF GoneOver
<1>11. scan.found \in Seq(Thread) /\ scan.got \in Seq(Thread) /\ scan' = scan
  BY <1>1, <1>2 DEF ScanTypeOK
<1>12. Range(scan.found) \subseteq Thread /\ Range(scan.got) \subseteq Thread
  BY <1>11, RangeIs
<1>13. KeptInOrder'
  <2>1. Ascending(scan.found)'
    <3>1. \A i \in DOMAIN scan.found : scan.found[i] \in Thread
      BY <1>11
    <3> QED BY <1>2, <1>6, <1>9, <1>11, <3>1 DEF KeptInOrder, Ascending
  <2>2. Ascending(scan.got)'
    <3>1. \A i \in DOMAIN scan.got : scan.got[i] \in Thread
      BY <1>11
    <3> QED BY <1>2, <1>6, <1>9, <1>11, <3>1 DEF KeptInOrder, Ascending
  <2>3. Below(Range(scan.found), Range(scan.got))'
    BY <1>2, <1>6, <1>9, <1>11, <1>12 DEF KeptInOrder, Below
  <2>4. (\A x \in (Range(scan.found) \cup Range(scan.got)) \ changed : GoneOver(x, scan.cursor))'
    BY <1>2, <1>6, <1>10, <1>11, <1>12 DEF KeptInOrder
  <2> QED BY <2>1, <2>2, <2>3, <2>4 DEF KeptInOrder
<1>14. NothingPassedOver'
  BY <1>2, <1>6, <1>9, <1>10, <1>11 DEF NothingPassedOver
<1>15. KeptFor' /\ ScanSkipsNothing' /\ ScanListsOnce'
  BY <1>1, <1>2 DEF KeptFor, ScanSkipsNothing, ScanListsOnce
<1>16. KeptWanted'
  BY <1>1, <1>2, <1>6, <1>9, <1>11, <1>12 DEF KeptWanted, Wanted
<1> QED BY <1>7, <1>8, <1>13, <1>14, <1>15, <1>16 DEF ScanInv

LEMMA ScanStarts == ScanInit => ScanInv
<1> SUFFICES ASSUME ScanInit PROVE ScanInv
  OBVIOUS
<1>1. scan = [at |-> "idle", cursor |-> NoCursor, left |-> 0, got |-> <<>>, found |-> <<>>,
              next |-> NoCursor, tick |-> FALSE]
  BY DEF ScanInit, Idle, NewScan
<1>2. updated \in [Thread -> 1..Cardinality(Thread)] /\ changed = {} /\ request \in Requests
  BY DEF ScanInit
<1>3. Cardinality(Thread) \in Nat
  BY ScanAssumption, FS_CardinalityType
<1>4. \A th \in Thread : updated[th] \in Nat /\ updated[th] # 0
  BY <1>2, <1>3
<1>6. start \in Int
  <2>1. \A th \in Thread : th \in Int /\ updated[th] \in Int
    BY <1>4, ScanAssumption
  <2>2. \A th \in Thread : Place(th) \in Int
    BY <2>1 DEF Place
  <2>3. start = NoCursor \/ \E th \in Thread : start = Place(th)
    BY DEF ScanInit
  <2> QED BY <2>2, <2>3 DEF NoCursor
<1>5. ScanTypeOK
  BY <1>1, <1>2, <1>4, <1>6 DEF ScanTypeOK, NoCursor
<1> QED BY <1>1, <1>4, <1>5 DEF ScanInv, UnchangedAreThere, ScanSkipsNothing, ScanListsOnce

LEMMA BeginKeeps ==
    ASSUME ScanInv, Begin
    PROVE  ScanInv'
<1>1. /\ scan' = [at |-> "reading", cursor |-> start, left |-> request.limit, got |-> <<>>,
                  found |-> <<>>, next |-> NoCursor, tick |-> FALSE]
      /\ UNCHANGED <<request, start, updated, changed>>
  BY DEF Begin, NewScan
<1>2. ScanTypeOK /\ UnchangedAreThere /\ request.limit \in Nat
  BY RequestIs DEF ScanInv, ScanTypeOK
<1>3. ScanTypeOK' /\ UnchangedAreThere'
  BY <1>1, <1>2 DEF ScanTypeOK, UnchangedAreThere, NoCursor
<1>4. Range(<<>>) = {}
  BY DEF Range
<1>5. KeptInOrder' /\ KeptWanted' /\ KeptFor'
  BY <1>1, <1>2, <1>4 DEF ScanTypeOK, KeptInOrder, KeptWanted, Ascending, Below, KeptFor
<1>7. NothingPassedOver'
  <2> SUFFICES ASSUME NEW th \in Thread, FromStart(th)', GoneOver(th, start)' PROVE FALSE
    BY <1>1 DEF NothingPassedOver, Wanted
  <2>1. start \in Int /\ Place(th)' \in Int
    BY <1>1, <1>2, PlaceIs DEF ScanTypeOK, Place
  <2>2. start # NoCursor /\ Place(th)' <= start /\ Place(th)' > start
    BY <1>1 DEF FromStart, GoneOver
  <2> QED BY <2>1, <2>2
<1>6. ScanSkipsNothing' /\ ScanListsOnce'
  BY <1>1 DEF ScanSkipsNothing, ScanListsOnce
<1> QED BY <1>3, <1>5, <1>6, <1>7 DEF ScanInv

LEMMA PageFailsKeeps ==
    ASSUME ScanInv, PageFails
    PROVE  ScanInv'
<1>1. /\ scan' = [at |-> "failed", cursor |-> NoCursor, left |-> 0, got |-> <<>>,
                  found |-> <<>>, next |-> NoCursor, tick |-> FALSE]
      /\ UNCHANGED <<request, start, updated, changed>>
  BY DEF PageFails, NewScan, Idle
<1>2. ScanTypeOK' /\ UnchangedAreThere'
  BY <1>1 DEF ScanInv, ScanTypeOK, UnchangedAreThere, NoCursor
<1> QED BY <1>1, <1>2 DEF ScanInv, ScanSkipsNothing, ScanListsOnce

LEMMA ScanKeeps == ScanInv /\ [ScanNext]_scanVars => ScanInv'
<1> SUFFICES ASSUME ScanInv, [ScanNext]_scanVars PROVE ScanInv'
  OBVIOUS
<1>1. CASE Begin
  BY <1>1, BeginKeeps
<1>2. CASE ReadPage
  BY <1>2, ReadPageKeeps
<1>3. CASE PageFails
  BY <1>3, PageFailsKeeps
<1>4. CASE \E th \in Thread : Change(th)
  BY <1>4, ChangeKeeps
<1>5. CASE UNCHANGED scanVars
  <2>1. UNCHANGED <<request, start, scan, updated, changed>>
    BY <1>5 DEF scanVars
  <2> QED BY <2>1 DEF ScanInv, ScanTypeOK, UnchangedAreThere, KeptInOrder, Ascending, Below,
                      KeptWanted, NothingPassedOver, Wanted, FromStart, GoneOver, Newer, Place, KeptFor,
                      ScanSkipsNothing, ScanListsOnce
<1> QED BY <1>1, <1>2, <1>3, <1>4, <1>5 DEF ScanNext

\* What a scan has when it ends, however its pages are cut and whatever other clients
\* do meanwhile: every thread that stayed as it was and that the request asks for is in
\* the answer or behind the cursor that was returned, and a search with local filters
\* that leaves one out has as many before it as were asked for (session.rs,
\* scan_since_filtered; mod.rs, search_threads_with_local_filters).
THEOREM NoThreadIsSkipped == ScanSpec => []ScanSkipsNothing
<1>1. ScanInv => ScanSkipsNothing
  BY DEF ScanInv
<1> QED BY <1>1, ScanStarts, ScanKeeps, PTL DEF ScanSpec

\* An answer has no thread that stayed as it was twice, out of its order or unasked,
\* and a listing that goes on with the cursor of the answer does not have it again
\* (session.rs, scan_since_filtered).
THEOREM NoThreadIsListedTwice == ScanSpec => []ScanListsOnce
<1>1. ScanInv => ScanListsOnce
  BY DEF ScanInv
<1> QED BY <1>1, ScanStarts, ScanKeeps, PTL DEF ScanSpec

\* With every page that does not end it a scan has come further, whatever pages the
\* server sends: what can be proved here of the promise that a scan ends (session.rs,
\* the check of the cursor in scan_since_filtered).
THEOREM EveryPageMovesOn == ScanSpec => CursorMovesOn
<1> DEFINE Moved == scan.at = "reading" /\ scan'.at = "reading" /\ ~request.local =>
                      /\ scan'.cursor # NoCursor
                      /\ scan.cursor = NoCursor \/ scan'.cursor > scan.cursor
<1>1. ASSUME ScanInv, ScanNext PROVE UNCHANGED scan \/ Moved
  <2>1. CASE Begin \/ PageFails \/ \E th \in Thread : Change(th)
    BY <2>1 DEF Begin, PageFails, Idle, NewScan, Change
  <2>2. CASE ReadPage /\ scan'.at = "reading" /\ ~request.local
    <3>1. scan.at = "reading" /\ ScanTypeOK /\ scan.cursor \in Int /\ PageLimit \in Nat
      BY <1>1, <2>2 DEF ReadPage, ScanInv, ScanTypeOK, PageLimit
    <3>2. PICK page \in Pages(scan.cursor, PageLimit) : scan' = AfterPage(page)
      BY <2>2 DEF ReadPage
    <3>3. ~Batch(page).ends
      BY <2>2, <3>2 DEF AfterPage, Idle, NewScan
    <3>4. scan'.cursor = page.next
      BY <3>1, <3>2, <3>3 DEF AfterPage, ScanTypeOK
    <3>5. page.next # NoCursor /\ page.next # scan.cursor
      BY <3>3 DEF Batch, Repeats
    <3>6. page.next \in Int /\ (scan.cursor = NoCursor \/ scan.cursor <= page.next)
      BY <3>1, <3>5, PageIs
    <3> QED BY <3>1, <3>4, <3>5, <3>6
  <2>3. CASE ReadPage /\ ~(scan'.at = "reading" /\ ~request.local)
    BY <2>3
  <2> QED BY <1>1, <2>1, <2>2, <2>3 DEF ScanNext
<1>2. ScanInv /\ [ScanNext]_scanVars => [Moved]_scan
  BY <1>1 DEF scanVars
<1> QED BY <1>2, ScanStarts, ScanKeeps, PTL DEF ScanSpec, CursorMovesOn

=============================================================================
