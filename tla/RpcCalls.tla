------------------------------ MODULE RpcCalls ------------------------------
(***************************************************************************)
(* The RPC client and the two ways the program uses it.  A worker keeps    *)
(* the connection of its last operation and takes it for the next one; a   *)
(* task connects for itself and drops the connection.  An operation is a   *)
(* script of requests, sent one at a time; a request ends with the answer  *)
(* of its id, with the end of the connection or at its deadline.  An       *)
(* action on a thread the server has not loaded is repeated once, after a  *)
(* resume.  Answers come back in any order; bodies are left out.           *)
(***************************************************************************)
EXTENDS Integers, FiniteSets

CONSTANTS
    MaxOps,   \* bound: operations
    MaxConn,  \* bound: connections
    AskId     \* bound: the ids of the requests the server makes

ASSUME RpcAssumption ==
    /\ MaxOps \in Nat
    /\ MaxConn \in Nat
    /\ AskId \subseteq Nat

Op    == 1..MaxOps
Conn  == 1..MaxConn
Kinds == {"fetch", "detail", "load", "act", "direct"}

\* "method" is the request that asks for the action; "again" repeats it; "status"
\* asks how a thread is whose turns were fetched.
Steps == {"initialize", "read", "resume", "unsubscribe", "method", "reload", "again",
          "status"}

Asks(step) == step \in {"method", "again"}

VARIABLES
    op,        \* the operation under way: its script, request and connection
    ops,       \* the operations begun
    cache,     \* the connection the worker has kept, or 0
    conns,     \* the connections made
    next,      \* the next request id of each connection
    up,        \* requests on their way to the server
    down,      \* answers and requests of the server on their way here
    unanswered,\* (server) its own requests that are not rejected yet
    lost,      \* those among them that were read, and whose rejection failed
    ended,     \* (server) the connections it has closed
    draining,  \* (server) the connections on which it rejects new work
    loaded,    \* (server) the thread is loaded
    accepts,   \* (server) the thread accepts direct input
    did,       \* (server) how often the action of each operation was done
    said,      \* how each operation ended
    blamed     \* on which connection each failed operation found it unusable

serverVars == <<unanswered, ended, draining, loaded, accepts, did>>
clientVars == <<op, ops, cache, conns, next, said, blamed>>
vars == <<clientVars, lost, up, down, serverVars>>

Idle == [n |-> 0, kind |-> "fetch", step |-> "method", conn |-> 0, id |-> 0, phase |-> "idle"]

Cached(kind) == kind \in {"fetch", "detail", "load"}
Retries(kind) == kind \in {"act", "direct"}

First(kind) ==
    CASE kind = "load"   -> "resume"
      [] kind = "direct" -> "read"
      [] OTHER           -> "method"

\* The request after an answered one, or "end".
After(kind, step) ==
    CASE step = "method" /\ kind = "detail" -> "status"
      [] step = "initialize"  -> First(kind)
      [] step = "read"        -> "method"
      [] step = "resume"      -> "unsubscribe"
      [] step = "unsubscribe" -> "method"
      [] step = "reload"      -> "again"
      [] OTHER                -> "end"

Requests == [conn : Conn, id : Nat, op : Op, step : Steps]
Replies  == {"ok", "barred", "notFound", "draining", "error", "empty"}
Messages ==
    [conn : Conn, id : Nat, op : Op, step : Steps, reply : Replies]
      \cup [conn : Conn, id : Nat, reply : {"ask"}]

Answer(r, reply) ==
    [conn |-> r.conn, id |-> r.id, op |-> r.op, step |-> r.step, reply |-> reply]

-----------------------------------------------------------------------------
(* The operations.                                                         *)

\* The request is not sent yet.
AtStep(step) == [op EXCEPT !.step = step, !.phase = "send"]

Begin(kind) ==
    /\ op.phase = "idle" /\ ops < MaxOps
    /\ ops' = ops + 1
    /\ said' = [said EXCEPT ![ops + 1] = "asked"]
    /\ \/ /\ Cached(kind) /\ cache # 0
          /\ op' = [n |-> ops + 1, kind |-> kind, step |-> First(kind), conn |-> cache,
                    id |-> 0, phase |-> "send"]
          /\ cache' = 0
       \/ /\ Cached(kind) => cache = 0
          /\ op' = [n |-> ops + 1, kind |-> kind, step |-> "initialize", conn |-> 0,
                    id |-> 0, phase |-> "connect"]
          /\ UNCHANGED cache
    /\ UNCHANGED <<conns, next, blamed, lost, up, down, serverVars>>

\* The operation is over; the worker keeps the connection or drops it.  What
\* was sent on a dropped connection may still reach the server.
Finish(verdict, keep) ==
    /\ said' = [said EXCEPT ![op.n] = verdict]
    /\ cache' = IF Cached(op.kind) THEN (IF keep THEN op.conn ELSE 0) ELSE cache
    /\ op' = Idle

\* What the server sent on a connection nobody holds is lost.
Held == {cache', op'.conn}
Heard(messages) == {m \in messages : m.conn \in Held}

Give(verdict) ==
    /\ Finish(verdict, FALSE)
    /\ down' = Heard(down)
    /\ UNCHANGED <<ops, conns, next>>

Connect ==
    /\ op.phase = "connect" /\ conns < MaxConn
    /\ conns' = conns + 1
    /\ op' = [op EXCEPT !.conn = conns + 1, !.phase = "send"]
    /\ UNCHANGED <<ops, cache, next, said, blamed, lost, up, down, serverVars>>

ConnectFails ==
    /\ op.phase = "connect"
    /\ Give("failed")
    /\ UNCHANGED <<blamed, lost, up, serverVars>>

Request(id) == [conn |-> op.conn, id |-> id, op |-> op.n, step |-> op.step]

\* Mutation: the id is not counted up.
SendSameId ==
    /\ op.phase = "send" /\ op.conn \notin ended
    /\ up' = up \cup {Request(next[op.conn])}
    /\ op' = [op EXCEPT !.id = next[op.conn], !.phase = "wait"]
    /\ UNCHANGED <<ops, cache, conns, next, said, blamed, lost, down, serverVars>>

Send ==
    /\ op.phase = "send" /\ op.conn \notin ended
    /\ up' = up \cup {Request(next[op.conn])}
    /\ op' = [op EXCEPT !.id = next[op.conn], !.phase = "wait"]
    /\ next' = [next EXCEPT ![op.conn] = @ + 1]
    /\ UNCHANGED <<ops, cache, conns, said, blamed, lost, down, serverVars>>

\* The outcome of these is ignored, whatever it is.
Ignored == op.step \in {"unsubscribe", "status"}

\* A request ends without an answer; the messages are left to be read.
GiveUp(messages) ==
    /\ \/ /\ op.step = "unsubscribe"
          /\ op' = AtStep("method")
          /\ UNCHANGED <<cache, said, blamed>>
       \/ /\ op.step = "status"
          /\ Finish("done", TRUE)
          /\ UNCHANGED blamed
       \/ /\ ~Ignored
          /\ Finish("failed", FALSE)
          /\ blamed' = [blamed EXCEPT ![op.n] = op.conn]
    /\ down' = Heard(messages)
    /\ UNCHANGED <<ops, conns, serverVars>>

\* A send that timed out may leave the request in the buffer of the socket.
SendFails ==
    /\ op.phase = "send"
    /\ next' = [next EXCEPT ![op.conn] = @ + 1]
    /\ \/ UNCHANGED up
       \/ op.conn \notin ended /\ up' = up \cup {Request(next[op.conn])}
    /\ GiveUp(down)
    /\ UNCHANGED lost

TimeOut ==
    /\ op.phase = "wait"
    /\ GiveUp(down)
    /\ UNCHANGED <<next, lost, up>>

\* The connection closed, or what arrived was not a frame of the protocol.
ReadFails ==
    /\ op.phase = "wait" /\ op.conn \in ended
    /\ ~\E m \in down : m.conn = op.conn
    /\ GiveUp(down)
    /\ UNCHANGED <<next, lost, up>>

AskOf(m) == [conn |-> m.conn, id |-> m.id]

\* Mutation: a request of the server is read and forgotten.
RejectSilently(m) ==
    /\ op.phase = "wait" /\ m.conn = op.conn /\ m.reply = "ask"
    /\ down' = down \ {m}
    /\ UNCHANGED <<clientVars, lost, up, serverVars>>

\* A request of the server is rejected, whatever its id, before the wait goes on.
Reject(m) ==
    /\ op.phase = "wait" /\ m.conn = op.conn /\ m.reply = "ask"
    /\ down' = down \ {m}
    /\ unanswered' = unanswered \ {AskOf(m)}
    /\ UNCHANGED <<clientVars, lost, up, ended, draining, loaded, accepts, did>>

RejectFails(m) ==
    /\ op.phase = "wait" /\ m.conn = op.conn /\ m.reply = "ask"
    /\ GiveUp(down \ {m})
    /\ lost' = lost \cup {AskOf(m)}
    /\ UNCHANGED <<next, up>>

\* Mutation: any answer is taken for the one that is waited for.
IsAnyAnswer(m) == m.reply # "ask"

IsMine(m) == m.reply # "ask" /\ m.id = op.id

\* The late answer of a request that was given up.
Skip(m) ==
    /\ op.phase = "wait" /\ m.conn = op.conn /\ m.reply # "ask" /\ ~IsMine(m)
    /\ down' = down \ {m}
    /\ UNCHANGED <<clientVars, lost, up, serverVars>>

\* The request to send after the answer; "end" when there is none.
Following(m) ==
    IF m.reply \in {"ok", "barred"} \/ Ignored THEN After(op.kind, op.step)
    ELSE IF m.reply = "notFound" /\ op.step = "method" /\ Retries(op.kind)
    THEN "reload" ELSE "end"

\* The thread takes no direct input.
Barred(m) ==
    m.reply = "barred" /\ op.kind = "direct" /\ op.step \in {"read", "reload"}

\* Mutation: a draining server does not count.
KeepsDraining(m) == op.step # "initialize" /\ m.reply # "empty"

\* A worker keeps the connection it got an answer on, were it an error, unless
\* the server is draining.
Keeps(m) ==
    \/ m.reply \in {"ok", "barred"} \/ Ignored
    \/ op.step # "initialize" /\ m.reply \in {"notFound", "error"}

Verdict(m) ==
    IF m.reply \in {"ok", "barred"} \/ Ignored THEN "done"
    ELSE IF m.reply \in {"notFound", "draining"} /\ Asks(op.step) THEN "refused"
    ELSE "failed"

GoOn(m) ==
    /\ ~Barred(m) /\ Following(m) # "end"
    /\ op' = AtStep(Following(m))
    /\ UNCHANGED <<cache, said, blamed>>

Stop(m) ==
    /\ Barred(m) \/ Following(m) = "end"
    /\ IF Barred(m)
       THEN Finish("refused", FALSE)
       ELSE Finish(Verdict(m), Keeps(m))
    /\ blamed' = IF m.reply \in {"draining", "empty"} /\ ~Ignored
                 THEN [blamed EXCEPT ![op.n] = op.conn] ELSE blamed

TakeAnswer(m) ==
    /\ op.phase = "wait" /\ m.conn = op.conn /\ IsMine(m)
    /\ GoOn(m) \/ Stop(m)
    /\ down' = Heard(down \ {m})
    /\ UNCHANGED <<ops, conns, next, lost, up, serverVars>>

Receive(m) == Reject(m) \/ RejectFails(m) \/ Skip(m) \/ TakeAnswer(m)

-----------------------------------------------------------------------------
(* The server.  It answers in any order, and may act on a request whose    *)
(* connection the client has dropped.                                      *)

InUse == {cache, op.conn} \ {0}

AddDown(m) == down' = IF m.conn \in InUse THEN down \cup {m} ELSE down

\* What a thread says of itself includes whether it takes direct input.
Agreed(r) ==
    IF r.step \in {"read", "resume", "reload"} /\ ~accepts THEN "barred" ELSE "ok"

\* An error may come before the action or after it.
Serve(r) ==
    /\ up' = up \ {r}
    /\ \/ /\ r.conn \in draining
          /\ AddDown(Answer(r, "draining"))
          /\ UNCHANGED <<loaded, did>>
       \/ /\ Asks(r.step) /\ ~loaded
          /\ AddDown(Answer(r, "notFound"))
          /\ UNCHANGED <<loaded, did>>
       \/ /\ \E reply \in {"ok", "empty", "error"} :
               AddDown(Answer(r, IF reply = "ok" THEN Agreed(r) ELSE reply))
          /\ Asks(r.step) => loaded
          /\ did' = IF Asks(r.step) THEN [did EXCEPT ![r.op] = @ + 1] ELSE did
          /\ loaded' = (loaded \/ r.step \in {"resume", "reload"})
       \/ /\ AddDown(Answer(r, "error"))
          /\ UNCHANGED <<loaded, did>>
    /\ UNCHANGED <<clientVars, lost, unanswered, ended, draining, accepts>>

\* The ids of the server's requests may be those of the client's, too.
ServerAsks(c, id) ==
    /\ c \in InUse \ ended
    /\ [conn |-> c, id |-> id] \notin unanswered
    /\ unanswered' = unanswered \cup {[conn |-> c, id |-> id]}
    /\ down' = down \cup {[conn |-> c, id |-> id, reply |-> "ask"]}
    /\ UNCHANGED <<clientVars, lost, up, ended, draining, loaded, accepts, did>>

\* From now on the server rejects what it is asked on the connection.
Drain(c) ==
    /\ c \in InUse \ draining
    /\ draining' = draining \cup {c}
    /\ UNCHANGED <<clientVars, lost, up, down, unanswered, ended, loaded, accepts, did>>

\* What the server had not read is lost.
Close(c) ==
    /\ c \in InUse \ ended
    /\ ended' = ended \cup {c}
    /\ up' = {r \in up : r.conn # c}
    /\ UNCHANGED <<clientVars, lost, down, unanswered, draining, loaded, accepts, did>>

Unload ==
    /\ loaded
    /\ loaded' = FALSE
    /\ UNCHANGED <<clientVars, lost, up, down, unanswered, ended, draining, accepts, did>>

-----------------------------------------------------------------------------
Init ==
    /\ op = Idle
    /\ ops = 0
    /\ cache = 0
    /\ conns = 0
    /\ next = [c \in Conn |-> 1]
    /\ up = {} /\ down = {} /\ lost = {}
    /\ unanswered = {} /\ ended = {} /\ draining = {}
    /\ loaded \in BOOLEAN /\ accepts \in BOOLEAN
    /\ did = [o \in Op |-> 0]
    /\ said = [o \in Op |-> "none"]
    /\ blamed = [o \in Op |-> 0]

Next ==
    \/ \E kind \in Kinds : Begin(kind)
    \/ Connect \/ ConnectFails
    \/ Send \/ SendFails \/ TimeOut \/ ReadFails
    \/ \E m \in down : Receive(m)
    \/ \E r \in up : Serve(r)
    \/ \E c \in Conn : Drain(c) \/ Close(c) \/ (\E id \in AskId : ServerAsks(c, id))
    \/ Unload

Spec == Init /\ [][Next]_vars

-----------------------------------------------------------------------------
(* Properties.                                                             *)

Slots == [n : {0} \cup Op, kind : Kinds, step : Steps, conn : {0} \cup Conn, id : Nat,
          phase : {"idle", "connect", "send", "wait"}]

TypeOK ==
    /\ op \in Slots
    /\ ops \in {0} \cup Op /\ cache \in {0} \cup Conn /\ conns \in {0} \cup Conn
    /\ next \in [Conn -> Nat]
    /\ up \subseteq Requests /\ down \subseteq Messages
    /\ unanswered \subseteq [conn : Conn, id : Nat] /\ lost \subseteq [conn : Conn, id : Nat]
    /\ ended \subseteq Conn /\ draining \subseteq Conn
    /\ loaded \in BOOLEAN /\ accepts \in BOOLEAN
    /\ did \in [Op -> Nat]
    /\ said \in [Op -> {"none", "asked", "done", "refused", "failed"}]
    /\ blamed \in [Op -> {0} \cup Conn]

Answers == {m \in down : m.reply # "ask"}
Sent    == up \cup Answers

\* The operation under way is the last one begun, and owns its connection.
SlotInv ==
    /\ op.phase = "idle" => op = Idle
    /\ op.phase # "idle" => op.n = ops /\ op.n \in Op
    /\ op.phase = "connect" => op.conn = 0 /\ op.step = "initialize"
    /\ op.phase \in {"send", "wait"} => op.conn \in 1..conns /\ op.conn # cache
    /\ cache <= conns /\ ops \in {0} \cup Op
    /\ \A o \in Op : said[o] = "none" <=> o > ops
    /\ \A o \in Op : said[o] = "asked" <=> (o = op.n /\ op.phase # "idle")

\* What is on its way was sent by an operation that was begun, on a connection
\* that was made, and an id is used once on a connection.
SentInv == \A r \in Sent : r.id < next[r.conn] /\ r.conn <= conns /\ r.op <= ops

\* Only the request that is waited for has the id that is waited for: what was
\* given up is answered under another.
WaitInv ==
    op.phase = "wait" =>
        /\ op.id < next[op.conn]
        /\ \A r \in Sent : r.conn = op.conn /\ r.id = op.id => r.op = op.n /\ r.step = op.step

\* The request for the action is not on its way, nor is its answer.
Unsent(o) == \A r \in Sent : r.op = o => ~Asks(r.step)

\* A request for the action is in one place, and its answer tells whether the
\* action was done.
TrafficInv ==
    /\ \A r, q \in up : Asks(r.step) /\ Asks(q.step) /\ r.op = q.op => r = q
    /\ \A r \in up, m \in Answers : Asks(r.step) /\ Asks(m.step) => r.op # m.op
    /\ \A m, n \in Answers : Asks(m.step) /\ Asks(n.step) /\ m.op = n.op => m = n
    /\ \A r \in up : Asks(r.step) => did[r.op] = 0
    /\ \A m \in Answers : Asks(m.step) =>
          /\ m.reply \in {"ok", "barred"} => did[m.op] = 1
          /\ m.reply \in {"notFound", "draining"} => did[m.op] = 0

\* How often the action was done when a request is made.
Due(step) == IF step = "status" THEN 1 ELSE 0

\* The action is asked for, again or for the first time, only when it was not
\* done and nothing that asks for it is on its way; the status, once it was done.
ActionInv ==
    op.phase # "idle" /\ (op.phase = "wait" => ~Asks(op.step)) =>
        did[op.n] = Due(op.step) /\ Unsent(op.n)

EndInv ==
    \A o \in Op :
        /\ did[o] \in {0, 1}
        /\ said[o] = "none" => did[o] = 0
        /\ said[o] = "done" => did[o] = 1
        /\ said[o] = "refused" => did[o] = 0 /\ Unsent(o)

\* A connection that closed, timed out or is draining fails one operation at
\* most: the worker does not take it for the next one
\* (mod.rs, keep_client_after_error).  A status that is not answered fails nothing,
\* though the connection is kept: the next operation is the one that fails.
FailsOnce ==
    \A p, q \in Op : blamed[p] = blamed[q] /\ blamed[p] # 0 => p = q

BlameInv ==
    /\ \A o \in Op : blamed[o] # 0 => blamed[o] \notin InUse /\ blamed[o] <= conns
    /\ FailsOnce

\* The inductive invariant.  The answer the client takes is the one to its own
\* request, and an action is asked for again only when it was not done.
RpcInv ==
    /\ TypeOK /\ SlotInv /\ SentInv /\ WaitInv
    /\ TrafficInv /\ ActionInv /\ EndInv /\ BlameInv

\* A request the server made on a connection still in use waits to be read or
\* was rejected, unless the rejection itself failed: an answer that carries the
\* same id does not stand for it (rpc.rs, request_with_timeout).
AsksRejected ==
    \A u \in unanswered \ lost :
        u.conn \in InUse => \E m \in down : m.reply = "ask" /\ AskOf(m) = u

Caller == INSTANCE RemoteAction

\* The retry after a resume does not repeat an action, "done" is said of what was
\* done, and a rejection is never followed by the action (session.rs,
\* request_with_resume_retry; rpc.rs, format_rpc_error).
ActsAsSaid == Caller!Spec

=============================================================================
