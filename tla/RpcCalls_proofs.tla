-------------------------- MODULE RpcCalls_proofs --------------------------
(***************************************************************************)
(* What an operation says of its action is true, for any number of         *)
(* operations and connections: the inductive invariant RpcInv, that a      *)
(* connection fails one operation at most, that requests of the server are *)
(* rejected, and that RpcCalls implements RemoteAction.                    *)
(***************************************************************************)
EXTENDS RpcCalls, TLAPS

(***************************************************************************)
(* The script of an operation.                                             *)
(***************************************************************************)
LEMMA FirstIsStep ==
    ASSUME NEW kind \in Kinds
    PROVE  First(kind) \in Steps /\ First(kind) # "status"
BY DEF First, Kinds, Steps

\* The request for the action is the last of a script, but for the status.
LEMMA AfterIsStep ==
    ASSUME NEW kind \in Kinds, NEW step \in Steps
    PROVE  /\ After(kind, step) \in Steps \cup {"end"}
           /\ After(kind, step) \in {"end", "status"} <=> Asks(step) \/ step = "status"
           /\ After(kind, step) = "status" => Asks(step)
<1>1. CASE step = "initialize"
  BY <1>1, FirstIsStep DEF After, Steps, Asks, First
<1>2. CASE step # "initialize"
  BY <1>2 DEF After, Steps, Asks
<1> QED BY <1>1, <1>2

\* An action is asked for again only after the answer that the thread is not
\* loaded, and an answer that ends an operation well is that of its action.
LEMMA FollowingIsStep ==
    ASSUME op \in Slots, NEW m, m.reply \in Replies
    PROVE  /\ Following(m) \in Steps \cup {"end"}
           /\ Following(m) # "end" /\ Asks(op.step) =>
                 m.reply = "notFound" \/ Following(m) = "status"
           /\ Following(m) = "status" => Asks(op.step) /\ m.reply \in {"ok", "barred"}
           /\ Following(m) = "end" /\ m.reply \in {"ok", "barred"} =>
                 Asks(op.step) \/ op.step = "status"
           /\ op.step = "status" => Following(m) = "end"
           /\ Following(m) = "end" /\ Ignored => op.step = "status"
<1>1. op.kind \in Kinds /\ op.step \in Steps
  BY DEF Slots
<1>2. /\ After(op.kind, op.step) \in Steps \cup {"end"}
      /\ After(op.kind, op.step) \in {"end", "status"} <=>
            Asks(op.step) \/ op.step = "status"
      /\ After(op.kind, op.step) = "status" => Asks(op.step)
  BY <1>1, AfterIsStep
<1>3. Ignored => ~Asks(op.step)
  BY DEF Ignored, Asks
<1>4. op.step = "status" => ~Asks(op.step) /\ Ignored
  BY DEF Ignored, Asks
<1>5. Ignored => op.step \in {"unsubscribe", "status"}
  BY DEF Ignored
<1> QED BY <1>1, <1>2, <1>3, <1>4, <1>5 DEF Following, Steps, Replies

(***************************************************************************)
(* Types, step by step.                                                    *)
(***************************************************************************)
LEMMA ChangeStep ==
    ASSUME op \in Slots, NEW step \in Steps
    PROVE  /\ AtStep(step) \in Slots
           /\ AtStep(step).n = op.n /\ AtStep(step).conn = op.conn
           /\ AtStep(step).step = step /\ AtStep(step).phase = "send"
BY DEF AtStep, Slots

LEMMA IdleIsSlot ==
    /\ Idle \in Slots
    /\ Idle.n = 0 /\ Idle.conn = 0 /\ Idle.phase = "idle"
BY DEF Idle, Slots, Kinds, Steps

\* Which operation is under way, and where it is sent.
LEMMA Working ==
    ASSUME RpcAssumption, TypeOK, SlotInv, op.phase # "idle"
    PROVE  /\ op.n \in Op /\ op.n = ops /\ said[op.n] = "asked"
           /\ op.conn # 0 => op.conn # cache
           /\ op.phase \in {"send", "wait"} =>
                 op.conn \in Conn /\ op.conn <= conns /\ op.conn # 0
<1>1. /\ op.n = ops /\ op.n \in {0} \cup Op /\ ops \in {0} \cup Op
      /\ op.conn \in {0} \cup Conn /\ conns \in Nat /\ cache \in {0} \cup Conn
  BY DEF TypeOK, SlotInv, Slots, RpcAssumption, Conn
<1>2. op.n \in Op /\ said[op.n] = "asked"
  BY <1>1 DEF SlotInv
<1>3. op.phase \in {"idle", "connect", "send", "wait"}
  BY DEF TypeOK, Slots
<1> QED BY <1>1, <1>2, <1>3 DEF SlotInv, Conn

LEMMA RequestIsRequest ==
    ASSUME RpcAssumption, TypeOK, SlotInv, op.phase \in {"send", "wait"}, NEW id \in Nat
    PROVE  /\ Request(id) \in Requests
           /\ Request(id).conn = op.conn /\ Request(id).id = id
           /\ Request(id).op = op.n /\ Request(id).step = op.step
BY Working DEF Request, Requests, TypeOK, Slots

LEMMA AnswerIsMessage ==
    ASSUME NEW r \in Requests, NEW reply \in Replies
    PROVE  /\ Answer(r, reply) \in Messages
           /\ Answer(r, reply).conn = r.conn /\ Answer(r, reply).id = r.id
           /\ Answer(r, reply).op = r.op /\ Answer(r, reply).step = r.step
           /\ Answer(r, reply).reply = reply
BY DEF Answer, Requests, Messages

LEMMA AnswersAreAnswers ==
    ASSUME NEW m \in Messages, m.reply # "ask"
    PROVE  /\ m.conn \in Conn /\ m.id \in Nat /\ m.op \in Op /\ m.step \in Steps
           /\ m.reply \in Replies
BY DEF Messages

LEMMA AsksAreAsks ==
    ASSUME NEW m \in Messages
    PROVE  /\ m.conn \in Conn /\ m.id \in Nat
           /\ AskOf(m) \in [conn : Conn, id : Nat]
           /\ AskOf(m).conn = m.conn
BY DEF Messages, AskOf

(***************************************************************************)
(* What the steps of the client have in common: less is on its way, and    *)
(* the server has done nothing.                                            *)
(***************************************************************************)
LEMMA FewerAnswers ==
    ASSUME down' \subseteq down
    PROVE  Answers' \subseteq Answers
BY DEF Answers

LEMMA SentIsRecord ==
    ASSUME TypeOK, NEW r \in Sent
    PROVE  r.conn \in Conn /\ r.id \in Nat /\ r.op \in Op /\ r.step \in Steps
BY AnswersAreAnswers DEF Sent, Answers, TypeOK, Requests

LEMMA SentStays ==
    ASSUME RpcAssumption, TypeOK, SentInv,
           up' \subseteq up, Answers' \subseteq Answers, ops' = ops, conns' = conns,
           \A c \in Conn : next'[c] \in Nat /\ next'[c] >= next[c]
    PROVE  SentInv'
<1> SUFFICES ASSUME NEW r \in Sent'
             PROVE  r.id < next'[r.conn] /\ r.conn <= conns /\ r.op <= ops
  BY DEF SentInv
<1>1. r \in Sent
  BY DEF Sent
<1>2. r.conn \in Conn /\ r.id \in Nat
  BY <1>1, SentIsRecord
<1> QED BY <1>1, <1>2 DEF SentInv, TypeOK

LEMMA TrafficStays ==
    ASSUME TrafficInv, up' \subseteq up, Answers' \subseteq Answers, did' = did
    PROVE  TrafficInv'
BY DEF TrafficInv

LEMMA UnsentStays ==
    ASSUME NEW o, Unsent(o), up' \subseteq up, Answers' \subseteq Answers
    PROVE  Unsent(o)'
BY DEF Unsent, Sent

\* A request is sent: the only one for an action, if it asks for one.
LEMMA Sending ==
    ASSUME RpcAssumption, RpcInv, op.phase = "send",
           next' = [next EXCEPT ![op.conn] = @ + 1],
           up' = up \cup {Request(next[op.conn])}, down' \subseteq down,
           UNCHANGED <<ops, conns, did>>
    PROVE  /\ up' \subseteq Requests
           /\ SentInv' /\ TrafficInv'
           /\ \A o \in Op : Unsent(o) /\ (o # op.n \/ ~Asks(op.step)) => Unsent(o)'
           /\ \A r \in Sent' : r.conn = op.conn /\ r.id = next[op.conn] =>
                 r.op = op.n /\ r.step = op.step
<1> USE DEF RpcInv
<1> DEFINE new == Request(next[op.conn])
<1>1. /\ op.n \in Op /\ op.n = ops /\ op.conn \in Conn /\ op.conn <= conns
      /\ next[op.conn] \in Nat
  BY Working DEF TypeOK
<1>2. /\ new \in Requests /\ new.conn = op.conn /\ new.id = next[op.conn]
      /\ new.op = op.n /\ new.step = op.step
  BY <1>1, RequestIsRequest
<1> HIDE DEF new
<1>3. up' = up \cup {new} /\ Answers' \subseteq Answers
  BY FewerAnswers DEF new
<1>4. Sent' \subseteq Sent \cup {new}
  BY <1>3 DEF Sent
<1>5. (Asks(op.step) => did[op.n] = 0) /\ Unsent(op.n)
  BY DEF ActionInv, Due, Asks
<1>6. up' \subseteq Requests
  BY <1>2, <1>3 DEF TypeOK
<1>7. SentInv'
  <2> SUFFICES ASSUME NEW r \in Sent'
               PROVE  r.id < next'[r.conn] /\ r.conn <= conns /\ r.op <= ops
    BY DEF SentInv
  <2>1. CASE r = new
    BY <2>1, <1>1, <1>2 DEF TypeOK, Op
  <2>2. CASE r \in Sent
    <3>1. r.conn \in Conn /\ r.id \in Nat
      BY <2>2, SentIsRecord
    <3> QED BY <2>2, <3>1, <1>1 DEF SentInv, TypeOK
  <2> QED BY <1>4, <2>1, <2>2
<1>8. TrafficInv'
  <2>1. \A r \in up : Asks(r.step) /\ Asks(new.step) => r.op # new.op
    BY <1>2, <1>5 DEF Unsent, Sent
  <2>2. \A m \in Answers : Asks(m.step) /\ Asks(new.step) => m.op # new.op
    BY <1>2, <1>5 DEF Unsent, Sent
  <2>3. Asks(new.step) => did[new.op] = 0
    BY <1>2, <1>5
  <2> QED BY <1>3, <2>1, <2>2, <2>3 DEF TrafficInv
<1>9. \A o \in Op : Unsent(o) /\ (o # op.n \/ ~Asks(op.step)) => Unsent(o)'
  BY <1>2, <1>4 DEF Unsent
<1>10. \A r \in Sent : r.conn = op.conn => r.id # next[op.conn]
  BY <1>1, SentIsRecord DEF SentInv
<1> QED BY <1>2, <1>4, <1>6, <1>7, <1>8, <1>9, <1>10

\* The operation under way goes on to another request.
LEMMA GoingOn ==
    ASSUME RpcAssumption, RpcInv, op.phase \in {"send", "wait"},
           NEW step \in Steps, op' = AtStep(step),
           NEW n, n = op.n, did[n] = Due(step), Unsent(n)',
           \A o \in Op : o # n /\ Unsent(o) => Unsent(o)',
           UNCHANGED <<cache, said, blamed, ops, conns, did>>
    PROVE  SlotInv' /\ WaitInv' /\ ActionInv' /\ EndInv' /\ BlameInv'
<1> USE DEF RpcInv
<1>1. op \in Slots
  BY DEF TypeOK
<1>2. /\ op'.n = op.n /\ op'.conn = op.conn /\ op'.phase = "send" /\ op'.step = step
  BY <1>1, ChangeStep
<1>3. SlotInv'
  BY <1>2 DEF SlotInv
<1>4. WaitInv'
  BY <1>2 DEF WaitInv
<1>5. ActionInv'
  BY <1>2 DEF ActionInv
<1>6. EndInv'
  BY DEF EndInv
<1>7. BlameInv'
  BY <1>2 DEF BlameInv, FailsOnce, InUse
<1> QED BY <1>3, <1>4, <1>5, <1>6, <1>7

\* The operation under way ends, and keeps its connection or drops it.
LEMMA Ending ==
    ASSUME RpcAssumption, RpcInv, op.phase # "idle",
           NEW verdict \in {"done", "refused", "failed"}, NEW keep \in BOOLEAN,
           Finish(verdict, keep), keep => op.phase \in {"send", "wait"},
           \/ UNCHANGED blamed
           \/ /\ op.phase \in {"send", "wait"} /\ ~keep
              /\ blamed' = [blamed EXCEPT ![op.n] = op.conn],
           UNCHANGED <<ops, conns, did>>
    PROVE  SlotInv' /\ WaitInv' /\ ActionInv' /\ BlameInv'
<1> USE DEF RpcInv
<1>1. op' = Idle /\ op'.n = 0 /\ op'.conn = 0 /\ op'.phase = "idle"
  BY IdleIsSlot DEF Finish
<1>2. /\ op.n \in Op /\ op.n = ops /\ said[op.n] = "asked"
      /\ op.conn # 0 => op.conn # cache
      /\ op.phase \in {"send", "wait"} =>
            op.conn \in Conn /\ op.conn <= conns /\ op.conn # 0
  BY Working
<1>3. /\ said' = [said EXCEPT ![op.n] = verdict]
      /\ cache' \in {0, cache, op.conn} /\ (cache' = op.conn /\ op.conn # 0 => keep)
  BY <1>2 DEF Finish
<1>4. SlotInv'
  <2>1. cache' <= conns
    BY <1>2, <1>3 DEF SlotInv, TypeOK, Conn, RpcAssumption
  <2>2. \A o \in Op : (said'[o] = "none" <=> o > ops) /\ said'[o] # "asked"
    BY <1>2, <1>3 DEF SlotInv, TypeOK
  <2> QED BY <1>1, <2>1, <2>2 DEF SlotInv
<1>5. WaitInv' /\ ActionInv'
  BY <1>1 DEF WaitInv, ActionInv
<1>6. BlameInv'
  <2>1. InUse' \subseteq InUse
    BY <1>1, <1>3 DEF InUse
  <2>2. CASE UNCHANGED blamed
    BY <2>1, <2>2 DEF BlameInv, FailsOnce
  <2>3. CASE /\ op.phase \in {"send", "wait"} /\ ~keep
             /\ blamed' = [blamed EXCEPT ![op.n] = op.conn]
    <3>1. op.conn \in InUse /\ op.conn \notin InUse'
      BY <1>1, <1>2, <1>3, <2>3 DEF InUse
    <3>2. \A o \in Op : blamed'[o] = IF o = op.n THEN op.conn ELSE blamed[o]
      BY <2>3 DEF TypeOK
    <3> QED BY <1>2, <2>1, <3>1, <3>2 DEF BlameInv, FailsOnce
  <2> QED BY <2>2, <2>3
<1> QED BY <1>4, <1>5, <1>6

\* What an operation ends with is true.
LEMMA EndingTruly ==
    ASSUME RpcAssumption, TypeOK, SlotInv, EndInv, op.phase # "idle",
           NEW verdict \in {"done", "refused", "failed"}, NEW n, n = op.n,
           said' = [said EXCEPT ![n] = verdict], did' = did,
           verdict = "done" => did[n] = 1,
           verdict = "refused" => did[n] = 0 /\ Unsent(n)',
           \A o \in Op : o # n /\ Unsent(o) => Unsent(o)'
    PROVE  EndInv'
<1>1. n \in Op
  BY Working
<1>2. \A o \in Op : said'[o] = IF o = n THEN verdict ELSE said[o]
  BY DEF TypeOK
<1> SUFFICES ASSUME NEW o \in Op
             PROVE  /\ did[o] \in {0, 1}
                    /\ said'[o] = "none" => did[o] = 0
                    /\ said'[o] = "done" => did[o] = 1
                    /\ said'[o] = "refused" => did[o] = 0 /\ Unsent(o)'
  BY DEF EndInv
<1> QED BY <1>1, <1>2 DEF EndInv

\* Nobody's script goes on.
LEMMA StandingBy ==
    ASSUME RpcAssumption, RpcInv, UNCHANGED clientVars,
           up' \subseteq up, Answers' \subseteq Answers, did' = did
    PROVE  SlotInv' /\ SentInv' /\ WaitInv' /\ TrafficInv' /\ ActionInv' /\ EndInv' /\ BlameInv'
<1> USE DEF RpcInv, clientVars
<1>1. SlotInv' /\ BlameInv'
  BY DEF SlotInv, BlameInv, FailsOnce, InUse
<1>2. SentInv'
  <2>1. \A c \in Conn : next[c] \in Nat /\ next[c] >= next[c]
    BY DEF TypeOK
  <2> QED BY <2>1, SentStays
<1>3. TrafficInv'
  BY TrafficStays
<1>4. Sent' \subseteq Sent
  BY DEF Sent
<1>5. WaitInv'
  BY <1>4 DEF WaitInv
<1>6. ActionInv' /\ EndInv'
  BY <1>4 DEF ActionInv, EndInv, Unsent
<1> QED BY <1>1, <1>2, <1>3, <1>5, <1>6

(***************************************************************************)
(* The steps of the client.                                                *)
(***************************************************************************)
LEMMA BeginStep ==
    ASSUME RpcAssumption, RpcInv, NEW kind \in Kinds, Begin(kind)
    PROVE  RpcInv'
<1> USE DEF RpcInv
<1>1. /\ op.phase = "idle" /\ ops + 1 \in Op /\ ops \in Nat
      /\ ops' = ops + 1 /\ said' = [said EXCEPT ![ops + 1] = "asked"]
      /\ UNCHANGED <<conns, next, blamed, lost, up, down, serverVars>>
  BY DEF Begin, TypeOK, Op, RpcAssumption
<1>2. /\ op' \in Slots /\ op'.n = ops + 1
      /\ \/ /\ cache # 0 /\ op'.phase = "send" /\ op'.conn = cache /\ cache' = 0
         \/ /\ op'.phase = "connect" /\ op'.conn = 0 /\ op'.step = "initialize"
            /\ cache' = cache
  <2>1. First(kind) \in Steps
    BY FirstIsStep
  <2>2. CASE /\ Cached(kind) /\ cache # 0 /\ cache' = 0
             /\ op' = [n |-> ops + 1, kind |-> kind, step |-> First(kind), conn |-> cache,
                       id |-> 0, phase |-> "send"]
    BY <1>1, <2>1, <2>2 DEF Slots, TypeOK
  <2>3. CASE /\ cache' = cache
             /\ op' = [n |-> ops + 1, kind |-> kind, step |-> "initialize", conn |-> 0,
                       id |-> 0, phase |-> "connect"]
    BY <1>1, <2>3 DEF Slots, Steps
  <2> QED BY <2>2, <2>3 DEF Begin
<1>3. TypeOK'
  BY <1>1, <1>2 DEF TypeOK, serverVars
<1>4. \A o \in Op : said'[o] = IF o = ops + 1 THEN "asked" ELSE said[o]
  BY <1>1 DEF TypeOK
<1>5. \A o \in Op : o <= ops <=> ~(o > ops)
  BY <1>1 DEF Op
<1>6. SlotInv'
  <2>1. \A o \in Op : said[o] # "asked"
    BY <1>1 DEF SlotInv
  <2>2. \A o \in Op : (said'[o] = "none") <=> o > ops + 1
    BY <1>1, <1>4 DEF SlotInv, Op
  <2>3. \A o \in Op : said'[o] = "asked" <=> o = op'.n
    BY <1>2, <1>4, <2>1
  <2>4. /\ op'.phase = "send" => op'.conn \in 1..conns /\ op'.conn # cache'
        /\ cache' <= conns
    BY <1>1, <1>2 DEF SlotInv, TypeOK, Conn, RpcAssumption
  <2> QED BY <1>1, <1>2, <2>2, <2>3, <2>4 DEF SlotInv
<1>7. Sent' = Sent
  BY <1>1 DEF Sent, Answers
<1>8. SentInv'
  <2>1. \A r \in Sent : r.op \in Op
    BY SentIsRecord
  <2> QED BY <1>1, <1>7, <2>1 DEF SentInv, Op
<1>9. WaitInv' /\ TrafficInv'
  BY <1>1, <1>2, <1>7 DEF WaitInv, TrafficInv, Answers, serverVars
<1>10. did[ops + 1] = 0 /\ \A r \in Sent : r.op # ops + 1
  <2>1. said[ops + 1] = "none"
    BY <1>1 DEF SlotInv
  <2>2. \A r \in Sent : r.op \in Op
    BY SentIsRecord
  <2> QED BY <1>1, <2>1, <2>2 DEF EndInv, SentInv, Op
<1>11. ActionInv'
  <2>1. op'.step # "status"
    BY FirstIsStep DEF Begin
  <2> QED BY <1>1, <1>2, <1>7, <1>10, <2>1 DEF ActionInv, Due, Unsent, serverVars
<1>12. EndInv'
  BY <1>1, <1>4, <1>7, <1>10 DEF EndInv, Unsent, serverVars
<1>13. BlameInv'
  BY <1>1, <1>2 DEF BlameInv, FailsOnce, InUse
<1> QED BY <1>3, <1>6, <1>8, <1>9, <1>11, <1>12, <1>13

LEMMA ConnectStep ==
    ASSUME RpcAssumption, RpcInv, Connect
    PROVE  RpcInv'
<1> USE DEF RpcInv
<1>1. /\ op.phase = "connect" /\ conns \in Nat /\ conns + 1 \in Conn
      /\ conns' = conns + 1 /\ op' = [op EXCEPT !.conn = conns + 1, !.phase = "send"]
      /\ UNCHANGED <<ops, cache, next, said, blamed, lost, up, down, serverVars>>
  BY DEF Connect, TypeOK, Conn, RpcAssumption
<1>2. /\ op' \in Slots /\ op'.n = op.n /\ op'.conn = conns + 1
      /\ op'.step = op.step /\ op'.phase = "send"
  BY <1>1 DEF TypeOK, Slots
<1>3. TypeOK'
  BY <1>1, <1>2 DEF TypeOK, serverVars
<1>4. cache \in Nat /\ cache <= conns
  BY <1>1 DEF TypeOK, Conn, SlotInv
<1>5. SlotInv'
  BY <1>1, <1>2, <1>4 DEF SlotInv
<1>6. Sent' = Sent /\ Answers' = Answers
  BY <1>1 DEF Sent, Answers
<1>7. SentInv'
  <2>1. \A r \in Sent : r.conn \in Conn
    BY SentIsRecord
  <2> QED BY <1>1, <1>6, <2>1 DEF SentInv, Conn
<1>8. WaitInv' /\ TrafficInv'
  BY <1>1, <1>2, <1>6 DEF WaitInv, TrafficInv, serverVars
<1>9. ActionInv' /\ EndInv'
  BY <1>1, <1>2, <1>6 DEF ActionInv, EndInv, Unsent, serverVars
<1>10. BlameInv'
  <2>1. \A o \in Op : blamed[o] \in {0} \cup Conn
    BY DEF TypeOK
  <2> QED BY <1>1, <1>2, <2>1 DEF BlameInv, FailsOnce, InUse, Conn
<1> QED BY <1>3, <1>5, <1>7, <1>8, <1>9, <1>10

LEMMA FinishTypes ==
    ASSUME RpcAssumption, TypeOK, SlotInv, op.phase # "idle",
           NEW verdict \in {"done", "refused", "failed"}, NEW keep \in BOOLEAN,
           Finish(verdict, keep)
    PROVE  /\ op' \in Slots /\ cache' \in {0} \cup Conn
           /\ said' \in [Op -> {"none", "asked", "done", "refused", "failed"}]
           /\ InUse' \subseteq InUse /\ op'.conn = 0
<1>1. op.conn \in {0} \cup Conn
  BY DEF TypeOK, Slots
<1> QED BY <1>1, IdleIsSlot DEF Finish, TypeOK, InUse

LEMMA ConnectFailsStep ==
    ASSUME RpcAssumption, RpcInv, ConnectFails
    PROVE  RpcInv'
<1> USE DEF RpcInv
<1>1. /\ op.phase = "connect" /\ Finish("failed", FALSE)
      /\ down' \subseteq down
      /\ UNCHANGED <<ops, conns, next, blamed, lost, up, serverVars>>
  BY DEF ConnectFails, Give, Heard
<1>2. TypeOK'
  BY <1>1, FinishTypes DEF TypeOK, serverVars
<1>3. SlotInv' /\ WaitInv' /\ ActionInv' /\ BlameInv'
  BY <1>1, Ending DEF serverVars
<1>4. Answers' \subseteq Answers
  BY <1>1, FewerAnswers
<1>5. SentInv' /\ TrafficInv'
  BY <1>1, <1>4, SentStays, TrafficStays DEF TypeOK, serverVars
<1>6. EndInv'
  <2>1. PICK n : n = op.n
    OBVIOUS
  <2>2. said' = [said EXCEPT ![n] = "failed"] /\ did' = did
    BY <1>1, <2>1 DEF Finish, serverVars
  <2>3. \A o \in Op : o # n /\ Unsent(o) => Unsent(o)'
    BY <1>1, <1>4, UnsentStays
  <2> QED BY <1>1, <2>1, <2>2, <2>3, EndingTruly
<1> QED BY <1>2, <1>3, <1>5, <1>6

LEMMA SendStep ==
    ASSUME RpcAssumption, RpcInv, Send
    PROVE  RpcInv'
<1> USE DEF RpcInv
<1>1. /\ op.phase = "send"
      /\ up' = up \cup {Request(next[op.conn])}
      /\ op' = [op EXCEPT !.id = next[op.conn], !.phase = "wait"]
      /\ next' = [next EXCEPT ![op.conn] = @ + 1]
      /\ UNCHANGED <<ops, cache, conns, said, blamed, lost, down, serverVars>>
  BY DEF Send
<1>2. op.conn \in Conn /\ next[op.conn] \in Nat
  BY <1>1, Working DEF TypeOK
<1>3. /\ op' \in Slots /\ op'.n = op.n /\ op'.conn = op.conn /\ op'.id = next[op.conn]
      /\ op'.step = op.step /\ op'.phase = "wait"
  BY <1>1, <1>2 DEF TypeOK, Slots
<1>4. /\ up' \subseteq Requests
      /\ SentInv' /\ TrafficInv'
      /\ \A o \in Op : Unsent(o) /\ (o # op.n \/ ~Asks(op.step)) => Unsent(o)'
      /\ \A r \in Sent' : r.conn = op.conn /\ r.id = next[op.conn] =>
            r.op = op.n /\ r.step = op.step
  BY <1>1, Sending DEF serverVars
<1>5. TypeOK'
  <2>1. next' \in [Conn -> Nat]
    BY <1>1, <1>2 DEF TypeOK
  <2> QED BY <1>1, <1>3, <1>4, <2>1 DEF TypeOK, serverVars
<1>6. SlotInv' /\ BlameInv'
  BY <1>1, <1>3 DEF SlotInv, BlameInv, FailsOnce, InUse
<1>7. WaitInv'
  <2>1. next'[op.conn] = next[op.conn] + 1
    BY <1>1, <1>2 DEF TypeOK
  <2> QED BY <1>2, <1>3, <1>4, <2>1 DEF WaitInv
<1>8. did[op.n] = Due(op.step) /\ Unsent(op.n) /\ op.n \in Op
  BY <1>1, Working DEF ActionInv
<1>9. ActionInv'
  <2>1. PICK n : n = op.n
    OBVIOUS
  <2>2. ~Asks(op.step) => Unsent(n)'
    BY <1>4, <1>8, <2>1
  <2> QED BY <1>1, <1>3, <1>8, <2>1, <2>2 DEF ActionInv, serverVars
<1>10. EndInv'
  <2>1. said[op.n] = "asked"
    BY <1>1, Working
  <2>2. \A o \in Op : said[o] = "refused" => Unsent(o)'
    BY <1>4, <2>1 DEF EndInv
  <2> QED BY <1>1, <2>2 DEF EndInv, serverVars
<1> QED BY <1>4, <1>5, <1>6, <1>7, <1>9, <1>10

\* A request ends without an answer; nothing more of the script's action is on
\* its way, unless the request that failed was sent after all.
LEMMA GivingUp ==
    ASSUME RpcAssumption, RpcInv, op.phase \in {"send", "wait"},
           NEW messages, messages \subseteq down, GiveUp(messages),
           \A o \in Op : Unsent(o) /\ (o # op.n \/ ~Asks(op.step)) => Unsent(o)'
    PROVE  /\ op' \in Slots /\ cache' \in {0} \cup Conn
           /\ said' \in [Op -> {"none", "asked", "done", "refused", "failed"}]
           /\ blamed' \in [Op -> {0} \cup Conn]
           /\ down' \subseteq down
           /\ SlotInv' /\ WaitInv' /\ ActionInv' /\ EndInv' /\ BlameInv'
<1> USE DEF RpcInv
<1>1. down' \subseteq down /\ UNCHANGED <<ops, conns, did>>
  BY DEF GiveUp, Heard, serverVars
<1>2. /\ op.n \in Op /\ op.conn \in Conn
  BY Working
<1>3. PICK n : n = op.n
  OBVIOUS
<1>4. CASE op.step = "unsubscribe"
  <2>1. op' = AtStep("method") /\ UNCHANGED <<cache, said, blamed>>
    BY <1>4 DEF GiveUp, Ignored
  <2>2. "method" \in Steps /\ ~Asks(op.step)
    BY <1>4 DEF Steps, Asks
  <2>3. did[n] = Due("method") /\ Unsent(n)'
    BY <1>2, <1>3, <1>4, <2>2 DEF ActionInv, Due
  <2>4. \A o \in Op : o # n /\ Unsent(o) => Unsent(o)'
    BY <1>3
  <2>5. SlotInv' /\ WaitInv' /\ ActionInv' /\ EndInv' /\ BlameInv'
    BY <1>1, <1>3, <2>1, <2>2, <2>3, <2>4, GoingOn
  <2>6. op' \in Slots
    BY <2>1, <2>2, ChangeStep DEF TypeOK
  <2> QED BY <1>1, <2>1, <2>5, <2>6 DEF TypeOK
<1>6. CASE op.step = "status"
  <2>1. Finish("done", TRUE) /\ UNCHANGED blamed
    BY <1>6 DEF GiveUp, Ignored
  <2>2. /\ op' \in Slots /\ cache' \in {0} \cup Conn
        /\ said' \in [Op -> {"none", "asked", "done", "refused", "failed"}]
    BY <2>1, FinishTypes
  <2>3. SlotInv' /\ WaitInv' /\ ActionInv' /\ BlameInv'
    BY <1>1, <2>1, Ending
  <2>4. said' = [said EXCEPT ![n] = "done"] /\ did[n] = 1
    BY <1>3, <1>6, <2>1 DEF Finish, ActionInv, Due, Asks
  <2>5. EndInv'
    BY <1>1, <1>3, <2>4, EndingTruly
  <2> QED BY <1>1, <1>2, <2>1, <2>2, <2>3, <2>5 DEF TypeOK
<1>5. CASE ~Ignored
  <2>1. Finish("failed", FALSE) /\ blamed' = [blamed EXCEPT ![op.n] = op.conn]
    BY <1>5 DEF GiveUp, Ignored
  <2>2. /\ op' \in Slots /\ cache' \in {0} \cup Conn
        /\ said' \in [Op -> {"none", "asked", "done", "refused", "failed"}]
    BY <2>1, FinishTypes
  <2>3. SlotInv' /\ WaitInv' /\ ActionInv' /\ BlameInv'
    BY <1>1, <2>1, Ending
  <2>4. said' = [said EXCEPT ![n] = "failed"]
    BY <1>3, <2>1 DEF Finish
  <2>5. EndInv'
    BY <1>1, <1>3, <2>4, EndingTruly
  <2> QED BY <1>1, <1>2, <2>1, <2>2, <2>3, <2>5 DEF TypeOK
<1> QED BY <1>4, <1>5, <1>6 DEF Ignored

LEMMA NextIds ==
    ASSUME TypeOK, NEW c \in Conn, next' = [next EXCEPT ![c] = @ + 1] \/ next' = next
    PROVE  /\ next' \in [Conn -> Nat]
           /\ \A d \in Conn : next'[d] \in Nat /\ next'[d] >= next[d]
BY DEF TypeOK

\* Giving up without sending.
LEMMA GiveUpStep ==
    ASSUME RpcAssumption, RpcInv, op.phase \in {"send", "wait"},
           NEW messages, messages \subseteq down, GiveUp(messages),
           next' = [next EXCEPT ![op.conn] = @ + 1] \/ next' = next,
           lost' \subseteq [conn : Conn, id : Nat], up' = up
    PROVE  RpcInv'
<1> USE DEF RpcInv
<1>1. down' \subseteq down /\ UNCHANGED <<ops, conns, serverVars>>
  BY DEF GiveUp, Heard
<1>2. Answers' \subseteq Answers
  BY <1>1, FewerAnswers
<1>3. /\ op' \in Slots /\ cache' \in {0} \cup Conn
      /\ said' \in [Op -> {"none", "asked", "done", "refused", "failed"}]
      /\ blamed' \in [Op -> {0} \cup Conn]
      /\ SlotInv' /\ WaitInv' /\ ActionInv' /\ EndInv' /\ BlameInv'
  <2>1. \A o \in Op : Unsent(o) => Unsent(o)'
    BY <1>2, UnsentStays
  <2> QED BY <2>1, GivingUp
<1>4. /\ next' \in [Conn -> Nat]
      /\ \A c \in Conn : next'[c] \in Nat /\ next'[c] >= next[c]
  BY Working, NextIds
<1>5. SentInv' /\ TrafficInv'
  BY <1>1, <1>2, <1>4, SentStays, TrafficStays DEF serverVars
<1>6. TypeOK'
  BY <1>1, <1>3, <1>4 DEF TypeOK, serverVars
<1> QED BY <1>3, <1>5, <1>6

LEMMA SendFailsStep ==
    ASSUME RpcAssumption, RpcInv, SendFails
    PROVE  RpcInv'
<1> USE DEF RpcInv
<1>1. /\ op.phase = "send" /\ GiveUp(down) /\ lost' = lost
      /\ next' = [next EXCEPT ![op.conn] = @ + 1]
      /\ up' = up \/ up' = up \cup {Request(next[op.conn])}
  BY DEF SendFails
<1>2. CASE up' = up
  BY <1>1, <1>2, GiveUpStep DEF TypeOK
<1>3. CASE up' = up \cup {Request(next[op.conn])}
  <2>1. down' \subseteq down /\ UNCHANGED <<ops, conns, serverVars>>
    BY <1>1 DEF GiveUp, Heard
  <2>2. /\ up' \subseteq Requests /\ SentInv' /\ TrafficInv'
        /\ \A o \in Op : Unsent(o) /\ (o # op.n \/ ~Asks(op.step)) => Unsent(o)'
    BY <1>1, <1>3, <2>1, Sending DEF serverVars
  <2>3. /\ op' \in Slots /\ cache' \in {0} \cup Conn
        /\ said' \in [Op -> {"none", "asked", "done", "refused", "failed"}]
        /\ blamed' \in [Op -> {0} \cup Conn]
        /\ SlotInv' /\ WaitInv' /\ ActionInv' /\ EndInv' /\ BlameInv'
    BY <1>1, <2>2, GivingUp
  <2>4. next' \in [Conn -> Nat]
    BY <1>1, Working, NextIds
  <2>5. TypeOK'
    BY <1>1, <2>1, <2>2, <2>3, <2>4 DEF TypeOK, serverVars
  <2> QED BY <2>2, <2>3, <2>5
<1> QED BY <1>1, <1>2, <1>3

LEMMA TimeOutStep ==
    ASSUME RpcAssumption, RpcInv, TimeOut \/ ReadFails
    PROVE  RpcInv'
<1>1. /\ op.phase = "wait" /\ GiveUp(down) /\ UNCHANGED <<next, lost, up>>
  BY DEF TimeOut, ReadFails
<1> QED BY <1>1, GiveUpStep DEF RpcInv, TypeOK

LEMMA RejectFailsStep ==
    ASSUME RpcAssumption, RpcInv, NEW m \in down, RejectFails(m)
    PROVE  RpcInv'
<1>1. /\ op.phase = "wait" /\ GiveUp(down \ {m}) /\ UNCHANGED <<next, up>>
      /\ lost' = lost \cup {AskOf(m)}
  BY DEF RejectFails
<1>2. lost' \subseteq [conn : Conn, id : Nat]
  BY <1>1, AsksAreAsks DEF RpcInv, TypeOK
<1> QED BY <1>1, <1>2, GiveUpStep

LEMMA RejectStep ==
    ASSUME RpcAssumption, RpcInv, NEW m \in down, Reject(m) \/ Skip(m)
    PROVE  RpcInv'
<1> USE DEF RpcInv
<1>1. /\ down' \subseteq down /\ unanswered' \subseteq unanswered
      /\ UNCHANGED <<clientVars, lost, up, ended, draining, loaded, accepts, did>>
  BY DEF Reject, Skip, serverVars
<1>2. Answers' \subseteq Answers
  BY <1>1, FewerAnswers
<1>3. SlotInv' /\ SentInv' /\ WaitInv' /\ TrafficInv' /\ ActionInv' /\ EndInv' /\ BlameInv'
  BY <1>1, <1>2, StandingBy
<1>4. TypeOK'
  BY <1>1 DEF TypeOK, clientVars
<1> QED BY <1>3, <1>4

\* The answer that is waited for is the last of the request it answers.
LEMMA AnswerTaken ==
    ASSUME RpcAssumption, RpcInv, NEW m \in down, op.phase = "wait", m.conn = op.conn,
           IsMine(m), up' = up, down' \subseteq down \ {m}
    PROVE  /\ m.reply \in Replies /\ m.op = op.n /\ m.step = op.step
           /\ m.reply \in {"ok", "barred"} /\ Asks(op.step) => did[op.n] = 1
           /\ ~Asks(op.step) => did[op.n] = Due(op.step)
           /\ Asks(op.step) /\ m.reply \in {"notFound", "draining"} => did[op.n] = 0
           /\ \A o \in Op : Unsent(o) \/ o = op.n => Unsent(o)'
<1> USE DEF RpcInv
<1>1. m \in Answers /\ m \in Sent /\ m.reply \in Replies
  BY AnswersAreAnswers DEF IsMine, Answers, Sent, TypeOK
<1>2. m.op = op.n /\ m.step = op.step
  BY <1>1 DEF WaitInv, IsMine
<1>3. m.reply \in {"ok", "barred"} /\ Asks(op.step) => did[op.n] = 1
  BY <1>1, <1>2 DEF TrafficInv
<1>4. /\ ~Asks(op.step) => did[op.n] = Due(op.step)
      /\ Asks(op.step) /\ m.reply \in {"notFound", "draining"} => did[op.n] = 0
  BY <1>1, <1>2 DEF TrafficInv, ActionInv
<1>5. Sent' \subseteq Sent /\ Answers' \subseteq Answers
  BY DEF Sent, Answers
<1>6. SUFFICES ASSUME NEW r \in Sent', r.op = op.n, Asks(r.step)
               PROVE  FALSE
  BY <1>1, <1>2, <1>3, <1>4, <1>5 DEF Unsent
<1>7. CASE ~Asks(op.step)
  BY <1>5, <1>6, <1>7 DEF ActionInv, Unsent
<1>8. CASE Asks(op.step)
  <2>1. CASE r \in up
    BY <1>1, <1>2, <1>6, <1>8, <2>1 DEF TrafficInv
  <2>2. CASE r \in Answers'
    <3>1. r \in Answers /\ r # m
      BY <1>5, <2>2 DEF Answers
    <3> QED BY <1>1, <1>2, <1>6, <1>8, <3>1 DEF TrafficInv
  <2> QED BY <2>1, <2>2 DEF Sent
<1> QED BY <1>7, <1>8

LEMMA TakeAnswerStep ==
    ASSUME RpcAssumption, RpcInv, NEW m \in down, TakeAnswer(m)
    PROVE  RpcInv'
<1> USE DEF RpcInv
<1>1. /\ op.phase = "wait" /\ m.conn = op.conn /\ IsMine(m)
      /\ GoOn(m) \/ Stop(m)
      /\ down' \subseteq down \ {m}
      /\ UNCHANGED <<ops, conns, next, lost, up, serverVars>>
  BY DEF TakeAnswer, Heard
<1>2. /\ m.reply \in Replies
      /\ m.reply \in {"ok", "barred"} /\ Asks(op.step) => did[op.n] = 1
      /\ ~Asks(op.step) => did[op.n] = Due(op.step)
      /\ Asks(op.step) /\ m.reply \in {"notFound", "draining"} => did[op.n] = 0
      /\ \A o \in Op : Unsent(o) \/ o = op.n => Unsent(o)'
  BY <1>1, AnswerTaken
<1>3. /\ Following(m) \in Steps \cup {"end"}
      /\ Following(m) # "end" /\ Asks(op.step) =>
            m.reply = "notFound" \/ Following(m) = "status"
      /\ Following(m) = "status" => Asks(op.step) /\ m.reply \in {"ok", "barred"}
      /\ Following(m) = "end" /\ m.reply \in {"ok", "barred"} =>
            Asks(op.step) \/ op.step = "status"
      /\ op.step = "status" => Following(m) = "end"
      /\ Following(m) = "end" /\ Ignored => op.step = "status"
  BY <1>2, FollowingIsStep DEF TypeOK
<1>4. op.n \in Op /\ op.conn \in Conn /\ op \in Slots
  BY <1>1, Working DEF TypeOK
<1>5. PICK n : n = op.n
  OBVIOUS
<1>6. /\ op' \in Slots /\ cache' \in {0} \cup Conn
      /\ said' \in [Op -> {"none", "asked", "done", "refused", "failed"}]
      /\ blamed' \in [Op -> {0} \cup Conn]
      /\ SlotInv' /\ WaitInv' /\ ActionInv' /\ EndInv' /\ BlameInv'
  <2>1. CASE GoOn(m)
    <3>1. /\ Following(m) \in Steps /\ op' = AtStep(Following(m))
          /\ UNCHANGED <<cache, said, blamed>>
      BY <1>3, <2>1 DEF GoOn
    <3>2. did[n] = Due(Following(m)) /\ Unsent(n)'
      BY <1>2, <1>3, <1>4, <1>5, <2>1 DEF GoOn, Due
    <3>3. SlotInv' /\ WaitInv' /\ ActionInv' /\ EndInv' /\ BlameInv'
      BY <1>1, <1>2, <1>5, <3>1, <3>2, GoingOn DEF serverVars
    <3> QED BY <1>4, <3>1, <3>3, ChangeStep DEF TypeOK
  <2>2. CASE Stop(m)
    <3>1. PICK verdict \in {"done", "refused", "failed"}, keep \in BOOLEAN :
            /\ Finish(verdict, keep)
            /\ verdict = "done" => did[n] = 1
            /\ verdict = "refused" => did[n] = 0
            /\ keep /\ m.reply \in {"draining", "empty"} => Ignored
      <4>1. CASE Barred(m)
        <5>1. Finish("refused", FALSE) /\ ~Asks(op.step)
          BY <2>2, <4>1 DEF Stop, Barred, Asks
        <5>2. Due(op.step) = 0
          BY <4>1 DEF Barred, Due
        <5> QED BY <1>2, <1>5, <5>1, <5>2
      <4>2. CASE ~Barred(m)
        <5>1. Following(m) = "end" /\ Finish(Verdict(m), Keeps(m))
          BY <2>2, <4>2 DEF Stop
        <5>2. /\ Verdict(m) \in {"done", "refused", "failed"}
              /\ Verdict(m) = "done" => did[n] = 1
              /\ Verdict(m) = "refused" => did[n] = 0
          BY <1>2, <1>3, <1>5, <5>1 DEF Verdict, Due, Asks
        <5>3. /\ Keeps(m) \in BOOLEAN
              /\ Keeps(m) /\ m.reply \in {"draining", "empty"} => Ignored
          BY DEF Keeps, Ignored
        <5> QED BY <5>1, <5>2, <5>3
      <4> QED BY <4>1, <4>2
    <3>2. \/ UNCHANGED blamed
          \/ ~keep /\ blamed' = [blamed EXCEPT ![op.n] = op.conn]
      BY <2>2, <3>1 DEF Stop
    <3>3. SlotInv' /\ WaitInv' /\ ActionInv' /\ BlameInv'
      BY <1>1, <3>1, <3>2, Ending DEF serverVars
    <3>4. EndInv'
      <4>1. said' = [said EXCEPT ![n] = verdict]
        BY <1>5, <3>1 DEF Finish
      <4> QED BY <1>1, <1>2, <1>4, <1>5, <3>1, <4>1, EndingTruly DEF serverVars
    <3>5. /\ op' \in Slots /\ cache' \in {0} \cup Conn
          /\ said' \in [Op -> {"none", "asked", "done", "refused", "failed"}]
      BY <1>1, <3>1, FinishTypes
    <3> QED BY <1>4, <3>2, <3>3, <3>4, <3>5 DEF TypeOK
  <2> QED BY <1>1, <2>1, <2>2
<1>7. Answers' \subseteq Answers
  BY <1>1, FewerAnswers
<1>8. SentInv' /\ TrafficInv'
  BY <1>1, <1>7, SentStays, TrafficStays DEF TypeOK, serverVars
<1>9. TypeOK'
  BY <1>1, <1>6 DEF TypeOK, serverVars
<1> QED BY <1>6, <1>8, <1>9

(***************************************************************************)
(* The steps of the server.                                                *)
(***************************************************************************)
\* A request is served: it leaves, its answer may come, and the action it asks
\* for may be done, for the first time.
LEMMA Serving ==
    ASSUME RpcAssumption, RpcInv, NEW r \in up, NEW reply \in Replies,
           up' = up \ {r}, AddDown(Answer(r, reply)), UNCHANGED clientVars,
           \/ did' = did /\ reply \notin {"ok", "barred"}
           \/ did' = did /\ ~Asks(r.step)
           \/ /\ Asks(r.step) /\ did' = [did EXCEPT ![r.op] = @ + 1]
              /\ reply \notin {"notFound", "draining"}
    PROVE  /\ up' \subseteq Requests /\ down' \subseteq Messages /\ did' \in [Op -> Nat]
           /\ SlotInv' /\ SentInv' /\ WaitInv' /\ TrafficInv' /\ ActionInv' /\ EndInv' /\ BlameInv'
<1> USE DEF RpcInv
<1> DEFINE new == Answer(r, reply)
<1>1. r \in Requests /\ r \in Sent /\ r.op \in Op
  BY SentIsRecord DEF TypeOK, Sent
<1>2. /\ new \in Messages /\ new.conn = r.conn /\ new.id = r.id
      /\ new.op = r.op /\ new.step = r.step /\ new.reply = reply
  BY <1>1, AnswerIsMessage
<1> HIDE DEF new
<1>3. down' \subseteq down \cup {new}
  BY DEF AddDown, new
<1>4. Answers' \subseteq Answers \cup {new}
  BY <1>3 DEF Answers
<1>5. Sent' \subseteq Sent \cup {new}
  BY <1>4 DEF Sent
<1>6. up' \subseteq Requests /\ down' \subseteq Messages
  BY <1>2, <1>3 DEF TypeOK
<1>7. /\ did' \in [Op -> Nat]
      /\ \A o \in Op : did'[o] = did[o] \/ (o = r.op /\ Asks(r.step) /\ did'[o] = did[o] + 1)
      /\ Asks(r.step) /\ reply \in {"ok", "barred"} => did'[r.op] = did[r.op] + 1
      /\ reply \in {"notFound", "draining"} => did' = did
  BY <1>1 DEF TypeOK
<1>8. Asks(r.step) =>
        /\ did[r.op] = 0
        /\ \A q \in up' : Asks(q.step) => q.op # r.op
        /\ \A m \in Answers : Asks(m.step) => m.op # r.op
  BY DEF TrafficInv
<1>9. SlotInv' /\ BlameInv'
  BY DEF SlotInv, BlameInv, FailsOnce, InUse, clientVars
<1>10. SentInv' /\ WaitInv'
  BY <1>1, <1>2, <1>5 DEF SentInv, WaitInv, clientVars
<1>11. TrafficInv'
  <2>1. \A q \in up' : Asks(q.step) => did'[q.op] = 0
    <3> SUFFICES ASSUME NEW q \in up', Asks(q.step)
                 PROVE  did'[q.op] = 0
      OBVIOUS
    <3>1. q \in up /\ q.op \in Op /\ did[q.op] = 0
      BY SentIsRecord DEF Sent, TrafficInv
    <3> QED BY <1>7, <1>8, <3>1
  <2>2. \A m \in Answers : Asks(m.step) => m.op \in Op /\ did'[m.op] = did[m.op]
    <3> SUFFICES ASSUME NEW m \in Answers, Asks(m.step)
                 PROVE  m.op \in Op /\ did'[m.op] = did[m.op]
      OBVIOUS
    <3>1. m.op \in Op
      BY SentIsRecord DEF Sent
    <3> QED BY <1>7, <1>8, <3>1
  <2>3. Asks(new.step) =>
          /\ new.reply \in {"ok", "barred"} => did'[new.op] = 1
          /\ new.reply \in {"notFound", "draining"} => did'[new.op] = 0
    BY <1>2, <1>7, <1>8
  <2>4. \A q, p \in up' : Asks(q.step) /\ Asks(p.step) /\ q.op = p.op => q = p
    BY DEF TrafficInv
  <2>5. \A q \in up', m \in Answers' : Asks(q.step) /\ Asks(m.step) => q.op # m.op
    BY <1>2, <1>4, <1>8 DEF TrafficInv
  <2>6. \A m, n \in Answers' : Asks(m.step) /\ Asks(n.step) /\ m.op = n.op => m = n
    BY <1>2, <1>4, <1>8 DEF TrafficInv
  <2>7. \A m \in Answers' : Asks(m.step) =>
          /\ m.reply \in {"ok", "barred"} => did'[m.op] = 1
          /\ m.reply \in {"notFound", "draining"} => did'[m.op] = 0
    BY <1>4, <2>2, <2>3 DEF TrafficInv
  <2> QED BY <2>1, <2>4, <2>5, <2>6, <2>7 DEF TrafficInv
<1>12. \A o \in Op : Unsent(o) => Unsent(o)' /\ did'[o] = did[o]
  BY <1>1, <1>2, <1>5, <1>7 DEF Unsent
<1>13. ActionInv'
  <2> SUFFICES ASSUME op.phase # "idle", op.phase = "wait" => ~Asks(op.step)
               PROVE  did'[op.n] = Due(op.step) /\ \A q \in Sent' : q.op = op.n => ~Asks(q.step)
    BY DEF ActionInv, Unsent, clientVars
  <2>1. op.n \in Op /\ did[op.n] = Due(op.step) /\ Unsent(op.n)
    BY Working DEF ActionInv
  <2>2. PICK n \in Op : n = op.n
    BY <2>1
  <2> QED BY <1>12, <2>1, <2>2 DEF Unsent
<1>14. EndInv'
  <2> SUFFICES ASSUME NEW o \in Op
               PROVE  /\ did'[o] \in {0, 1}
                      /\ said[o] = "none" => did'[o] = 0
                      /\ said[o] = "done" => did'[o] = 1
                      /\ said[o] = "refused" => did'[o] = 0 /\ Unsent(o)'
    BY DEF EndInv, clientVars
  <2>1. did'[o] = did[o] \/ (o = r.op /\ Asks(r.step) /\ did[o] = 0 /\ did'[o] = 1)
    BY <1>7, <1>8
  <2>2. o = r.op /\ Asks(r.step) => said[o] # "refused" /\ said[o] # "none"
    <3>1. Unsent(o) /\ o = r.op => ~Asks(r.step)
      BY <1>1 DEF Unsent
    <3>2. o = r.op => said[o] # "none"
      BY <1>1 DEF SentInv, SlotInv, Op, TypeOK
    <3> QED BY <3>1, <3>2 DEF EndInv
  <2> QED BY <1>12, <2>1, <2>2 DEF EndInv
<1> QED BY <1>6, <1>7, <1>9, <1>10, <1>11, <1>13, <1>14

\* The four ways a request is served are covered by it.
LEMMA ServeCases ==
    ASSUME RpcAssumption, RpcInv, NEW r \in up, Serve(r)
    PROVE  /\ UNCHANGED <<clientVars, lost, unanswered, ended, draining, accepts>>
           /\ up' = up \ {r} /\ loaded' \in BOOLEAN
           /\ \E reply \in Replies :
                 /\ AddDown(Answer(r, reply))
                 /\ \/ did' = did /\ reply \notin {"ok", "barred"}
                    \/ did' = did /\ ~Asks(r.step)
                    \/ /\ Asks(r.step) /\ did' = [did EXCEPT ![r.op] = @ + 1]
                       /\ reply \notin {"notFound", "draining"}
<1>1. loaded \in BOOLEAN
  BY DEF RpcInv, TypeOK
<1>2. Agreed(r) \in {"ok", "barred"}
  BY DEF Agreed
<1>3. \A reply : reply \in {"ok", "barred", "empty", "error", "notFound", "draining"} =>
          reply \in Replies
  BY DEF Replies
<1>4. UNCHANGED <<clientVars, lost, unanswered, ended, draining, accepts>> /\ up' = up \ {r}
  BY DEF Serve
<1>5. CASE /\ \E reply \in {"ok", "empty", "error"} :
                  AddDown(Answer(r, IF reply = "ok" THEN Agreed(r) ELSE reply))
           /\ Asks(r.step) => loaded
           /\ did' = IF Asks(r.step) THEN [did EXCEPT ![r.op] = @ + 1] ELSE did
           /\ loaded' = (loaded \/ r.step \in {"resume", "reload"})
  <2>1. PICK reply \in {"ok", "barred", "empty", "error"} : AddDown(Answer(r, reply))
    BY <1>2, <1>5
  <2>2. reply \in Replies /\ reply \notin {"notFound", "draining"}
    BY <1>3, <2>1
  <2>3. \/ did' = did /\ ~Asks(r.step)
        \/ Asks(r.step) /\ did' = [did EXCEPT ![r.op] = @ + 1]
    BY <1>5
  <2> QED BY <1>4, <1>5, <2>1, <2>2, <2>3
<1>6. CASE /\ \/ AddDown(Answer(r, "draining"))
              \/ AddDown(Answer(r, "notFound"))
              \/ AddDown(Answer(r, "error"))
           /\ UNCHANGED <<loaded, did>>
  BY <1>1, <1>3, <1>4, <1>6
<1> QED BY <1>5, <1>6 DEF Serve

LEMMA ServeStep ==
    ASSUME RpcAssumption, RpcInv, NEW r \in up, Serve(r)
    PROVE  RpcInv'
<1>1. /\ up' \subseteq Requests /\ down' \subseteq Messages /\ did' \in [Op -> Nat]
      /\ SlotInv' /\ SentInv' /\ WaitInv' /\ TrafficInv' /\ ActionInv' /\ EndInv' /\ BlameInv'
  BY ServeCases, Serving
<1>2. TypeOK'
  BY <1>1, ServeCases DEF RpcInv, TypeOK, clientVars
<1> QED BY <1>1, <1>2 DEF RpcInv

LEMMA ServerStep ==
    ASSUME RpcAssumption, RpcInv,
           \/ \E c \in Conn : Drain(c) \/ Close(c) \/ (\E id \in AskId : ServerAsks(c, id))
           \/ Unload
    PROVE  RpcInv'
<1> USE DEF RpcInv
<1>1. UNCHANGED clientVars /\ UNCHANGED <<lost, accepts, did>> /\ up' \subseteq up
  BY DEF Drain, Close, ServerAsks, Unload
<1>2. /\ down' \subseteq Messages /\ Answers' \subseteq Answers
      /\ unanswered' \subseteq [conn : Conn, id : Nat]
  <2>1. CASE \E c \in Conn, id \in AskId : ServerAsks(c, id)
    <3>1. PICK c \in Conn, id \in AskId : ServerAsks(c, id)
      BY <2>1
    <3> DEFINE ask == [conn |-> c, id |-> id, reply |-> "ask"]
    <3>2. ask \in Messages /\ ask.reply = "ask" /\ [conn |-> c, id |-> id] \in [conn : Conn, id : Nat]
      BY <3>1 DEF Messages, RpcAssumption
    <3>3. down' = down \cup {ask} /\ unanswered' = unanswered \cup {[conn |-> c, id |-> id]}
      BY <3>1 DEF ServerAsks
    <3> HIDE DEF ask
    <3> QED BY <3>2, <3>3 DEF TypeOK, Answers
  <2>2. CASE down' = down /\ unanswered' = unanswered
    BY <2>2 DEF TypeOK, Answers
  <2> QED BY <2>1, <2>2 DEF Drain, Close, Unload
<1>3. ended' \subseteq Conn /\ draining' \subseteq Conn /\ loaded' \in BOOLEAN
  BY DEF Drain, Close, ServerAsks, Unload, TypeOK
<1>4. TypeOK'
  BY <1>1, <1>2, <1>3 DEF TypeOK, clientVars
<1> QED BY <1>1, <1>2, <1>4, StandingBy

(***************************************************************************)
(* The theorems.                                                           *)
(***************************************************************************)
LEMMA RpcInit ==
    ASSUME RpcAssumption, Init
    PROVE  RpcInv
<1> USE DEF Init
<1>1. TypeOK
  BY IdleIsSlot DEF TypeOK, Requests, Messages
<1>2. SlotInv
  BY IdleIsSlot DEF SlotInv, Op, RpcAssumption
<1>3. Sent = {} /\ Answers = {}
  BY DEF Sent, Answers
<1>4. SentInv /\ WaitInv /\ TrafficInv /\ ActionInv /\ EndInv
  BY <1>3, IdleIsSlot DEF SentInv, WaitInv, TrafficInv, ActionInv, EndInv, Unsent
<1>5. BlameInv
  BY DEF BlameInv, FailsOnce
<1> QED BY <1>1, <1>2, <1>4, <1>5 DEF RpcInv

LEMMA RpcStep ==
    ASSUME RpcAssumption, RpcInv, [Next]_vars
    PROVE  RpcInv'
<1>1. CASE \E kind \in Kinds : Begin(kind)
  BY <1>1, BeginStep
<1>2. CASE Connect
  BY <1>2, ConnectStep
<1>3. CASE ConnectFails
  BY <1>3, ConnectFailsStep
<1>4. CASE Send
  BY <1>4, SendStep
<1>5. CASE SendFails
  BY <1>5, SendFailsStep
<1>6. CASE TimeOut \/ ReadFails
  BY <1>6, TimeOutStep
<1>7. CASE \E m \in down : Receive(m)
  BY <1>7, RejectStep, RejectFailsStep, TakeAnswerStep DEF Receive
<1>8. CASE \E r \in up : Serve(r)
  BY <1>8, ServeStep
<1>9. CASE \/ \E c \in Conn : Drain(c) \/ Close(c) \/ (\E id \in AskId : ServerAsks(c, id))
           \/ Unload
  BY <1>9, ServerStep
<1>10. CASE UNCHANGED vars
  <2>1. /\ UNCHANGED clientVars /\ UNCHANGED <<lost, up, down, serverVars>>
    BY <1>10 DEF vars
  <2>2. up' \subseteq up /\ Answers' \subseteq Answers /\ did' = did
    BY <2>1 DEF Answers, serverVars
  <2>3. TypeOK'
    BY <2>1 DEF RpcInv, TypeOK, clientVars, serverVars
  <2> QED BY <2>1, <2>2, <2>3, StandingBy DEF RpcInv
<1> QED BY <1>1, <1>2, <1>3, <1>4, <1>5, <1>6, <1>7, <1>8, <1>9, <1>10 DEF Next

\* The ids, the requests and answers on their way, what was done and what was
\* said of it agree, in every run of the client (RpcClient, request_with_timeout).
THEOREM RpcInvariant == Spec => []RpcInv
<1>1. Init => RpcInv
  BY RpcInit, RpcAssumption
<1>2. RpcInv /\ [Next]_vars => RpcInv'
  BY RpcStep, RpcAssumption
<1> QED BY <1>1, <1>2, PTL DEF Spec

\* A connection that was found unusable fails one operation at most
\* (keep_client_after_error).
THEOREM ConnectionFailsOnce == Spec => []FailsOnce
<1>1. RpcInv => FailsOnce
  BY DEF RpcInv, BlameInv, FailsOnce
<1> QED BY <1>1, RpcInvariant, PTL

(***************************************************************************)
(* The caller.                                                             *)
(***************************************************************************)
LEMMA CallerEnds ==
    ASSUME TypeOK, NEW o \in Op, NEW verdict \in {"done", "refused", "failed"},
           said[o] = "asked", said' = [said EXCEPT ![o] = verdict], did' = did,
           verdict = "done" => did[o] = 1, verdict = "refused" => did[o] = 0
    PROVE  Caller!Next
<1>1. Caller!End(o, verdict)
  BY DEF Caller!End
<1> QED BY <1>1 DEF Caller!Next

LEMMA GiveUpCalls ==
    ASSUME RpcAssumption, RpcInv, op.phase # "idle", did' = did,
           \/ said' = said
           \/ said' = [said EXCEPT ![op.n] = "failed"]
           \/ said' = [said EXCEPT ![op.n] = "done"] /\ did[op.n] = 1
    PROVE  Caller!Next \/ UNCHANGED <<did, said>>
BY Working, CallerEnds DEF RpcInv

LEMMA CallerStep ==
    ASSUME RpcAssumption, RpcInv, Next
    PROVE  Caller!Next \/ UNCHANGED <<did, said>>
<1> USE DEF RpcInv
<1>1. CASE \E kind \in Kinds : Begin(kind)
  <2>1. /\ ops + 1 \in Op /\ ops \in Nat
        /\ said' = [said EXCEPT ![ops + 1] = "asked"] /\ did' = did
    BY <1>1 DEF Begin, TypeOK, Op, RpcAssumption, serverVars
  <2>2. said[ops + 1] = "none"
    BY <2>1 DEF SlotInv
  <2>3. Caller!Ask(ops + 1)
    BY <2>1, <2>2 DEF Caller!Ask
  <2> QED BY <2>1, <2>3 DEF Caller!Next
<1>2. CASE Connect \/ Send \/ Unload
  BY <1>2 DEF Connect, Send, Unload, serverVars, clientVars
<1>3. CASE ConnectFails
  BY <1>3, GiveUpCalls DEF ConnectFails, Give, Finish, serverVars
<1>4. CASE SendFails \/ TimeOut \/ ReadFails \/ (\E m \in down : RejectFails(m))
  <2>1. op.phase # "idle" /\ \E messages \in SUBSET down : GiveUp(messages)
    BY <1>4 DEF SendFails, TimeOut, ReadFails, RejectFails
  <2>2. op.step = "status" => did[op.n] = 1
    BY <2>1 DEF ActionInv, Due, Asks
  <2>3. /\ did' = did
        /\ \/ said' = said
           \/ said' = [said EXCEPT ![op.n] = "failed"]
           \/ said' = [said EXCEPT ![op.n] = "done"] /\ did[op.n] = 1
    BY <2>1, <2>2 DEF GiveUp, Finish, serverVars
  <2> QED BY <2>1, <2>3, GiveUpCalls
<1>5. CASE \E m \in down : Reject(m) \/ Skip(m)
  BY <1>5 DEF Reject, Skip, clientVars, serverVars
<1>6. CASE \E m \in down : TakeAnswer(m)
  <2>1. PICK m \in down : TakeAnswer(m)
    BY <1>6
  <2>2. /\ op.phase = "wait" /\ m.conn = op.conn /\ IsMine(m)
        /\ GoOn(m) \/ Stop(m)
        /\ up' = up /\ down' \subseteq down \ {m} /\ did' = did
    BY <2>1 DEF TakeAnswer, Heard, serverVars
  <2>3. /\ m.reply \in Replies
        /\ m.reply \in {"ok", "barred"} /\ Asks(op.step) => did[op.n] = 1
        /\ ~Asks(op.step) => did[op.n] = Due(op.step)
        /\ Asks(op.step) /\ m.reply \in {"notFound", "draining"} => did[op.n] = 0
    BY <2>2, AnswerTaken
  <2>4. op.n \in Op /\ said[op.n] = "asked"
    BY <2>2, Working
  <2>5. CASE GoOn(m)
    BY <2>2, <2>5 DEF GoOn
  <2>6. CASE Stop(m) /\ Barred(m)
    <3>1. said' = [said EXCEPT ![op.n] = "refused"] /\ ~Asks(op.step)
      BY <2>6 DEF Stop, Barred, Asks, Finish
    <3>2. Due(op.step) = 0
      BY <2>6 DEF Barred, Due
    <3> QED BY <2>2, <2>3, <2>4, <3>1, <3>2, CallerEnds
  <2>7. CASE Stop(m) /\ ~Barred(m)
    <3>1. Following(m) = "end" /\ said' = [said EXCEPT ![op.n] = Verdict(m)]
      BY <2>7 DEF Stop, Finish
    <3>2. /\ m.reply \in {"ok", "barred"} => Asks(op.step) \/ op.step = "status"
          /\ Ignored => op.step = "status"
      BY <2>3, <3>1, FollowingIsStep DEF TypeOK
    <3>3. /\ Verdict(m) \in {"done", "refused", "failed"}
          /\ Verdict(m) = "done" => did[op.n] = 1
          /\ Verdict(m) = "refused" => did[op.n] = 0
      BY <2>3, <3>2 DEF Verdict, Due, Asks
    <3> QED BY <2>2, <2>4, <3>1, <3>3, CallerEnds
  <2> QED BY <2>2, <2>5, <2>6, <2>7
<1>7. CASE \E r \in up : Serve(r)
  <2>1. PICK r \in up : Serve(r)
    BY <1>7
  <2>2. said' = said
    BY <2>1, ServeCases DEF clientVars
  <2>3. r \in Sent /\ r.op \in Op
    BY SentIsRecord DEF Sent
  <2>4. did' = did \/ (Asks(r.step) /\ did' = [did EXCEPT ![r.op] = @ + 1])
    BY <2>1, ServeCases
  <2>5. CASE Asks(r.step) /\ did' = [did EXCEPT ![r.op] = @ + 1]
    <3>1. did[r.op] = 0
      BY <2>1, <2>5 DEF TrafficInv
    <3>2. said[r.op] \in {"asked", "failed"}
      <4>1. said[r.op] # "none"
        BY <2>3 DEF SentInv, SlotInv, Op, TypeOK
      <4>2. said[r.op] # "refused"
        BY <2>3, <2>5 DEF EndInv, Unsent
      <4>3. said[r.op] # "done"
        BY <2>3, <3>1 DEF EndInv
      <4> QED BY <2>3, <4>1, <4>2, <4>3 DEF TypeOK
    <3>3. did' = [did EXCEPT ![r.op] = 1]
      BY <2>3, <2>5, <3>1 DEF TypeOK
    <3>4. Caller!Happen(r.op)
      BY <2>2, <3>1, <3>2, <3>3 DEF Caller!Happen
    <3> QED BY <2>3, <3>4 DEF Caller!Next
  <2> QED BY <2>2, <2>4, <2>5
<1>8. CASE \E c \in Conn : Drain(c) \/ Close(c) \/ (\E id \in AskId : ServerAsks(c, id))
  BY <1>8 DEF Drain, Close, ServerAsks, clientVars
<1> QED BY <1>1, <1>2, <1>3, <1>4, <1>5, <1>6, <1>7, <1>8 DEF Next, Receive

\* The retry after a resume does not repeat an action, what is reported done was
\* done, and what is reported refused never will be: RpcCalls implements
\* RemoteAction (session.rs, request_with_resume_retry; rpc.rs, format_rpc_error).
THEOREM CallsImplementAction == Spec => ActsAsSaid
<1>1. Init => Caller!Init
  BY DEF Init, Caller!Init
<1>2. RpcInv /\ [Next]_vars => [Caller!Next]_(Caller!vars)
  <2> SUFFICES ASSUME RpcInv, [Next]_vars
               PROVE  Caller!Next \/ UNCHANGED <<did, said>>
    BY DEF Caller!vars
  <2>1. CASE Next
    BY <2>1, CallerStep, RpcAssumption
  <2>2. CASE UNCHANGED vars
    BY <2>2 DEF vars, clientVars, serverVars
  <2> QED BY <2>1, <2>2
<1> QED BY <1>1, <1>2, RpcInvariant, PTL DEF Spec, ActsAsSaid, Caller!Spec

(***************************************************************************)
(* The requests of the server.                                             *)
(***************************************************************************)
AskInv == AsksRejected /\ \A u \in unanswered : u.conn <= conns

\* The client comes to hold no connection but a new one.
LEMMA HoldsNoOther ==
    ASSUME RpcAssumption, RpcInv, Next
    PROVE  /\ conns \in Nat /\ conns' \in Nat /\ conns' >= conns
           /\ \A c \in InUse' : c \in InUse \/ c > conns
<1> USE DEF RpcInv
<1>1. conns \in Nat
  BY DEF TypeOK, Conn
<1>2. op \in Slots
  BY DEF TypeOK
<1>3. CASE \E kind \in Kinds : Begin(kind)
  BY <1>1, <1>3 DEF Begin, InUse
<1>4. CASE Connect
  <2>1. op'.conn = conns + 1 /\ cache' = cache /\ conns' = conns + 1
    BY <1>2, <1>4 DEF Connect, Slots
  <2> QED BY <1>1, <2>1 DEF InUse
<1>5. CASE Send
  <2>1. op'.conn = op.conn /\ cache' = cache /\ conns' = conns
    BY <1>2, <1>5 DEF Send, Slots
  <2> QED BY <1>1, <2>1 DEF InUse
<1>6. CASE /\ conns' = conns /\ op.phase # "idle"
           /\ \/ \E step \in Steps : op' = AtStep(step) /\ cache' = cache
              \/ \E verdict \in {"done", "refused", "failed"}, keep \in BOOLEAN :
                    Finish(verdict, keep)
  <2>1. InUse' \subseteq InUse
    BY <1>2, <1>6, ChangeStep, FinishTypes DEF InUse
  <2> QED BY <1>1, <1>6, <2>1
<1>7. CASE ConnectFails
  BY <1>6, <1>7 DEF ConnectFails, Give
<1>8. CASE \E messages : GiveUp(messages) /\ op.phase # "idle"
  <2>1. "method" \in Steps
    BY DEF Steps
  <2> QED BY <1>6, <1>8, <2>1 DEF GiveUp
<1>9. CASE \E m \in down : TakeAnswer(m)
  <2>1. PICK m \in down : TakeAnswer(m)
    BY <1>9
  <2>2. /\ op.phase = "wait" /\ m.conn = op.conn /\ IsMine(m) /\ conns' = conns
        /\ GoOn(m) \/ Stop(m)
        /\ up' = up /\ down' \subseteq down \ {m}
    BY <2>1 DEF TakeAnswer, Heard
  <2>3. CASE GoOn(m)
    <3>1. Following(m) \in Steps
      BY <2>2, <2>3, AnswerTaken, FollowingIsStep DEF GoOn, TypeOK
    <3> QED BY <1>6, <2>2, <2>3, <3>1 DEF GoOn
  <2>4. CASE Stop(m)
    <3>1. Verdict(m) \in {"done", "refused", "failed"} /\ Keeps(m) \in BOOLEAN
      BY DEF Verdict, Keeps
    <3> QED BY <1>6, <2>2, <2>4, <3>1 DEF Stop
  <2> QED BY <2>2, <2>3, <2>4
<1>10. CASE UNCHANGED clientVars
  BY <1>1, <1>10 DEF clientVars, InUse
<1> QED
  BY <1>3, <1>4, <1>5, <1>7, <1>8, <1>9, <1>10
  DEF Next, Receive, SendFails, TimeOut, ReadFails, Reject, RejectFails, Skip, Serve,
      Drain, Close, ServerAsks, Unload

\* No step of the client loses a request of the server on a connection it keeps,
\* unless it is read; then it is rejected, or the rejection is lost.
LEMMA AskStep ==
    ASSUME RpcAssumption, RpcInv, AskInv, [Next]_vars
    PROVE  AskInv'
<1>1. CASE UNCHANGED vars
  BY <1>1 DEF vars, clientVars, serverVars, AskInv, AsksRejected, InUse
<1>2. CASE Next
  <2>1. /\ conns \in Nat /\ conns' \in Nat /\ conns' >= conns
        /\ \A c \in InUse' : c \in InUse \/ c > conns
    BY <1>2, HoldsNoOther
  <2>2. \A u \in unanswered : u.conn \in Nat
    BY DEF RpcInv, TypeOK, Conn
  <2>3. CASE \E c \in Conn, id \in AskId : ServerAsks(c, id)
    <3>1. PICK c \in Conn, id \in AskId : ServerAsks(c, id)
      BY <2>3
    <3> DEFINE ask == [conn |-> c, id |-> id, reply |-> "ask"]
               mark == [conn |-> c, id |-> id]
    <3>2. ask.reply = "ask" /\ AskOf(ask) = mark /\ mark.conn = c
      BY DEF AskOf
    <3>3. /\ down' = down \cup {ask} /\ unanswered' = unanswered \cup {mark}
          /\ c \in InUse /\ UNCHANGED clientVars /\ lost' = lost
      BY <3>1 DEF ServerAsks
    <3> HIDE DEF ask, mark
    <3>4. InUse' = InUse /\ conns' = conns /\ c <= conns
      <4>1. op.conn \in {0} \cup Conn /\ op.phase \in {"idle", "connect", "send", "wait"}
        BY DEF RpcInv, TypeOK, Slots
      <4>2. \A d \in InUse : d <= conns
        BY <4>1, IdleIsSlot DEF RpcInv, SlotInv, InUse
      <4> QED BY <3>3, <4>2 DEF clientVars, InUse
    <3> QED BY <3>2, <3>3, <3>4 DEF AskInv, AsksRejected, AskOf
  <2>4. CASE /\ unanswered' \subseteq unanswered /\ lost \subseteq lost'
             /\ \A m \in down :
                   m.reply = "ask" /\ m.conn \in InUse' /\ AskOf(m) \in unanswered' \ lost'
                      => m \in down'
    <3>1. \A m : AskOf(m).conn = m.conn
      BY DEF AskOf
    <3>2. \A u \in unanswered' : u.conn <= conns'
      BY <2>1, <2>2, <2>4 DEF AskInv
    <3>3. AsksRejected'
      <4> SUFFICES ASSUME NEW u \in unanswered' \ lost', u.conn \in InUse'
                   PROVE  \E m \in down' : m.reply = "ask" /\ AskOf(m) = u
        BY DEF AsksRejected, AskOf
      <4>1. u \in unanswered \ lost /\ u.conn \in InUse
        BY <2>1, <2>2, <2>4 DEF AskInv
      <4>2. PICK m \in down : m.reply = "ask" /\ AskOf(m) = u
        BY <4>1 DEF AskInv, AsksRejected
      <4> QED BY <2>4, <3>1, <4>2
    <3> QED BY <3>2, <3>3 DEF AskInv
  <2>5. InUse' \subseteq Held
    BY DEF InUse, Held
  <2>6. CASE UNCHANGED <<unanswered, lost, down>>
    BY <2>4, <2>6
  <2>7. CASE \E messages : GiveUp(messages) /\ messages = down /\ lost' = lost
    BY <2>4, <2>5, <2>7 DEF GiveUp, Heard, serverVars
  <2>8. CASE ConnectFails
    BY <2>4, <2>5, <2>8 DEF ConnectFails, Give, Heard, serverVars
  <2>9. CASE \E m \in down : Receive(m)
    <3>1. PICK m \in down : Receive(m)
      BY <2>9
    <3>2. CASE Reject(m)
      BY <2>4, <3>2 DEF Reject, clientVars
    <3>3. CASE RejectFails(m)
      BY <2>4, <2>5, <3>3 DEF RejectFails, GiveUp, Heard, serverVars
    <3>4. CASE Skip(m)
      BY <2>4, <3>4 DEF Skip, serverVars
    <3>5. CASE TakeAnswer(m)
      BY <2>4, <2>5, <3>5 DEF TakeAnswer, IsMine, Heard, serverVars
    <3> QED BY <3>1, <3>2, <3>3, <3>4, <3>5 DEF Receive
  <2>10. CASE \E r \in up : Serve(r)
    <3>1. PICK r \in up : Serve(r)
      BY <2>10
    <3>2. PICK reply \in Replies : AddDown(Answer(r, reply))
      BY <3>1, ServeCases
    <3> QED BY <2>4, <3>1, <3>2, ServeCases DEF AddDown
  <2>11. CASE \/ \E kind \in Kinds : Begin(kind)
              \/ Connect \/ Send \/ Unload
              \/ \E c \in Conn : Drain(c) \/ Close(c)
    BY <2>6, <2>11 DEF Begin, Connect, Send, Unload, Drain, Close, serverVars
  <2>12. CASE SendFails \/ TimeOut \/ ReadFails
    BY <2>7, <2>12 DEF SendFails, TimeOut, ReadFails
  <2> QED BY <1>2, <2>3, <2>8, <2>9, <2>10, <2>11, <2>12 DEF Next
<1> QED BY <1>1, <1>2

\* While the client waits for an answer it rejects what the server asks of it, and
\* takes neither for the other (rpc.rs, request_with_timeout).
THEOREM ServerIsAnswered == Spec => []AsksRejected
<1>1. Init => AskInv
  BY DEF Init, AskInv, AsksRejected
<1>2. RpcInv /\ AskInv /\ [Next]_vars => AskInv'
  BY AskStep, RpcAssumption
<1>3. AskInv => AsksRejected
  BY DEF AskInv
<1> QED BY <1>1, <1>2, <1>3, RpcInvariant, PTL DEF Spec

=============================================================================
