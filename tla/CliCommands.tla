----------------------------- MODULE CliCommands ----------------------------
(***************************************************************************)
(* One process of the command line: it reads its configuration, connects,  *)
(* runs the requests of its command one after the other, waits for a turn  *)
(* if it started one, and ends with an exit code.  What a request does is  *)
(* left to the server; module RpcCalls has how it is sent and answered.    *)
(***************************************************************************)
EXTENDS Integers, Sequences, FiniteSets, Functions

CONSTANT Server  \* the configured servers

ASSUME ServerAssumption == IsFiniteSet(Server)

VARIABLES
    cmd,      \* the command and its options
    todo,     \* the steps that are left of it
    at,       \* "steps", "wait" or "over"
    heard,    \* the requests that were answered
    missed,   \* servers that could not be reached by a ping
    told,     \* what was printed: ids, and the outcome of a redemption
    failure,  \* the error that ended the process, or "none"
    code,     \* the exit code
    outcome,  \* what the answer to a redemption said
    done,     \* (server) the requests that had their effect
    turn      \* (server) the turn that was started

procVars == <<cmd, todo, at, heard, missed, told, failure, code, outcome>>
vars     == <<procVars, done, turn>>

Verbs == {"new", "fork", "send", "steer", "settings", "goal", "act", "show", "messages", "query",
          "inspect", "status", "redeem", "note", "prune", "ping", "pingAll", "list"}

\* Of the options, those that change what is asked, what is waited for or what is
\* printed.  arg is the PROMPT of new or the THREAD of status, flag is --name, --load
\* or --dry-run, quiet is --json without --stream; valid stands for all other checks.
Commands ==
    [verb : Verbs, arg : BOOLEAN, flag : BOOLEAN, wait : BOOLEAN, quiet : BOOLEAN,
     valid : BOOLEAN, permitted : BOOLEAN]

-----------------------------------------------------------------------------
(* The steps of a command.                                                 *)

If(b, steps) == IF b THEN steps ELSE <<>>

\* Options are looked at before the first request that changes anything, and once
\* more where a turn is started.
Turn == <<"options", "check", "turn">>

\* Mutation: the options of new are looked at when its turn is started, not before.
NewStepsLate(c) == <<"start">> \o If(c.flag, <<"name">>) \o If(c.arg, Turn)

NewSteps(c) == <<"options", "start">> \o If(c.flag, <<"name">>) \o If(c.arg, Turn)

ForkSteps(c) == <<"options", "fork">> \o If(c.flag, <<"name">>)

SettingsSteps == <<"options", "settings">>

SteerSteps == <<"check", "steer">>

\* interrupt, name, archive, unarchive, and the commands on sections.
ActSteps == <<"act">>

GoalSteps == <<"options", "act">>

ShowSteps == <<"read", "turns", "notes">>

MessagesSteps == <<"options", "read">>

InspectSteps == <<"resume", "unsubscribe">>

StatusSteps(c) ==
    IF c.arg THEN If(c.flag, InspectSteps) \o <<"read", "turns">> ELSE <<"read">>

\* list and search threads: module ThreadScan has what is asked for page by page.
ListSteps == <<"options", "page", "notes">>

RedeemSteps == <<"permit", "read", "select", "consume", "reread">>

\* Each annotated thread is read, and the annotations of those that are gone go.
PruneSteps(c) == <<"notes", "probe">> \o If(~c.flag, <<"notes">>)

Steps(c) ==
    CASE c.verb = "new"      -> NewSteps(c)
      [] c.verb = "fork"     -> ForkSteps(c)
      [] c.verb = "send"     -> Turn
      [] c.verb = "steer"    -> SteerSteps
      [] c.verb = "settings" -> SettingsSteps
      [] c.verb = "goal"     -> GoalSteps
      [] c.verb = "act"      -> ActSteps
      [] c.verb = "show"     -> ShowSteps
      [] c.verb = "messages" -> MessagesSteps
      [] c.verb = "query"    -> <<"read">>
      [] c.verb = "inspect"  -> InspectSteps
      [] c.verb = "status"   -> StatusSteps(c)
      [] c.verb = "list"     -> ListSteps
      [] c.verb = "redeem"   -> RedeemSteps
      [] c.verb = "prune"    -> PruneSteps(c)

\* What comes before them.  Annotations need no connection, except to prune them; a
\* ping is one.
Script(c) ==
    <<"config">> \o
    CASE c.verb = "ping"    -> <<"resolve", "ping">>
      [] c.verb = "pingAll" -> [i \in 1..Cardinality(Server) |-> "ping"]
      [] c.verb = "note"    -> <<"resolve", "notes">>
      [] c.verb = "redeem"  -> <<"resolve", "permit", "connect">> \o Steps(c)
      [] OTHER              -> <<"resolve", "connect">> \o Steps(c)

Changes == {"start", "fork", "name", "turn", "steer", "settings", "act", "consume"}
Reads   == {"check", "read", "turns", "resume", "unsubscribe", "reread", "page",
            "probe"}
Ignored == {"unsubscribe", "reread"}
Repeated == {"page", "probe"}

\* What the server makes of a redemption that it accepts.  The process ends in the
\* same way after each of them.
Outcomes  == {"reset", "alreadyRedeemed", "nothingToReset", "noCredit", "unrecognized"}
Redeeming == {"reset", "alreadyRedeemed"}

Asked(c) == Changes \cap Range(Script(c))

Waits(c) == c.wait /\ "turn" \in Asked(c)

-----------------------------------------------------------------------------
(* How a process ends.                                                     *)

\* The texts of these errors hold none of the words classify_error looks for, or
\* are errors of their own code; a URL that is not one is told by "websocket".
CodeOf(error) ==
    IF error \in {"usage", "config", "note", "noCredit", "unsent", "notRejected"} THEN 2 ELSE 3

End(error, c) ==
    /\ at' = "over" /\ failure' = error /\ code' = c
    /\ todo' = <<>>

Fail(error) == End(error, CodeOf(error)) /\ UNCHANGED <<cmd, heard, missed, told, outcome>>

\* Mutation: an interrupted turn is as good as a completed one.
TurnCodeFailedOnly == IF turn = "failed" THEN 1 ELSE 0

TurnCode == IF turn = "completed" THEN 0 ELSE 1

-----------------------------------------------------------------------------
(* The steps.                                                              *)

Step(s) == at = "steps" /\ todo # <<>> /\ Head(todo) = s

Pass ==
    /\ todo' = Tail(todo)
    /\ UNCHANGED <<cmd, at, heard, missed, told, failure, code, outcome>>

Elsewhere == <<done, turn>>

\* A file that cannot be read, parsed or accepted.
LoadConfig ==
    /\ Step("config")
    /\ Pass \/ Fail("config")
    /\ UNCHANGED Elsewhere

\* No server, or too many to choose from, or one whose endpoint or token will not do.
Resolve ==
    /\ Step("resolve")
    /\ Pass \/ Fail("config") \/ Fail("badUrl")
    /\ UNCHANGED Elsewhere

\* The last message of a connection's set-up is a notification.
Connect ==
    /\ Step("connect")
    /\ Pass \/ Fail("unreachable") \/ Fail("unsent") \/ Fail("notRejected")
    /\ UNCHANGED Elsewhere

Validate ==
    /\ Step("options")
    /\ IF cmd.valid /\ (cmd.verb = "new" /\ ~cmd.arg => cmd.wait) THEN Pass ELSE Fail("usage")
    /\ UNCHANGED Elsewhere

Permit ==
    /\ Step("permit")
    /\ IF cmd.permitted THEN Pass ELSE Fail("usage")
    /\ UNCHANGED Elsewhere

\* The credits that were read may leave nothing to choose.
SelectCredit ==
    /\ Step("select")
    /\ Pass \/ Fail("noCredit")
    /\ UNCHANGED Elsewhere

\* The annotations of this machine: a file that is missing or cannot be read.
Notes ==
    /\ Step("notes")
    /\ Pass \/ Fail("note")
    /\ UNCHANGED Elsewhere

Ping ==
    /\ Step("ping")
    /\ missed' \in {missed, missed + 1}
    /\ todo' = Tail(todo)
    /\ UNCHANGED <<cmd, at, heard, told, failure, code, outcome, Elsewhere>>

\* Without an annotation no thread is read.
NothingToProbe ==
    /\ Step("probe")
    /\ Pass
    /\ UNCHANGED Elsewhere

\* The effect of a request that the server carries out, and what it answers.
Happens(s, answer) ==
    /\ done' = IF s \in Changes /\ (s = "consume" => answer \in Redeeming) THEN done \cup {s}
                                                                            ELSE done
    /\ turn' = IF s = "turn" THEN "running" ELSE turn

\* An accepted turn is printed, unless the whole result will be.
Told(s) ==
    IF s = "turn" /\ (~cmd.quiet \/ ~cmd.wait) THEN {"thread", "turn"} ELSE {}

Request(s) ==
    /\ Step(s) /\ s \in Changes \cup Reads
    /\ \/ \* answered
          /\ \E answer \in IF s = "consume" THEN Outcomes ELSE {outcome} :
               Happens(s, answer) /\ outcome' = answer
          /\ heard' = heard \cup {s} /\ told' = told \cup Told(s)
          /\ todo' \in {Tail(todo)} \cup (IF s \in Repeated THEN {todo} ELSE {})
          /\ at' = IF s = "turn" /\ cmd.wait THEN "wait" ELSE at
          /\ UNCHANGED <<cmd, missed, failure, code>>
       \/ \* answered without the id
          /\ s \in {"start", "fork", "turn"}
          /\ Happens(s, outcome) /\ Fail("malformed")
       \/ \* refused, other than for a thread that is gone when annotations are pruned
          /\ IF s \in Ignored THEN Pass ELSE Fail("answer")
          /\ UNCHANGED <<done, turn>>
       \/ \* no answer: the effect is not known
          /\ (\E answer \in Outcomes : Happens(s, answer)) \/ UNCHANGED <<done, turn>>
          /\ IF s \in Ignored THEN Pass
             ELSE Fail("lost") \/ Fail("unsent") \/ Fail("notRejected")

\* What the last line tells.
Report ==
    told \cup (IF cmd.verb \in {"new", "fork"} /\ "turn" \notin Asked(cmd) THEN {"thread"} ELSE {})
         \cup (IF "consume" \in Asked(cmd) THEN {outcome} ELSE {})

Finish ==
    /\ at = "steps" /\ todo = <<>>
    /\ End("none", IF missed > 0 THEN 3 ELSE 0)
    /\ told' = Report
    /\ UNCHANGED <<cmd, heard, missed, outcome, Elsewhere>>

-----------------------------------------------------------------------------
(* The wait for the turn.                                                  *)

Ended == {"completed", "failed", "interrupted"}

\* The turn may end at any time, with a status the program may not know (external).
TurnEnds ==
    /\ turn = "running" /\ at # "over"
    /\ turn' \in Ended \cup {"unknown"}
    /\ UNCHANGED <<procVars, done>>

\* A notification or a poll says so.
WaitAnswered ==
    /\ at = "wait" /\ turn \in Ended
    /\ End("none", TurnCode)
    /\ told' = {"thread", "turn"}
    /\ UNCHANGED <<cmd, heard, missed, outcome, Elsewhere>>

CtrlC ==
    /\ at = "wait"
    /\ End("none", 130)
    /\ told' = {"thread", "turn"}
    /\ UNCHANGED <<cmd, heard, missed, outcome, Elsewhere>>

\* After an hour, when the connection is lost, when a poll cannot be sent, or when
\* the status of the turn is none the program knows.
WaitFails ==
    /\ at = "wait"
    /\ \/ /\ End("timeout", 3)
          /\ told' = told \cup {"turn"}
          /\ UNCHANGED <<cmd, heard, missed, outcome>>
       \/ Fail("lost") \/ Fail("unsent") \/ Fail("notRejected")
       \/ turn = "unknown" /\ Fail("answer")
    /\ UNCHANGED Elsewhere

-----------------------------------------------------------------------------
Init ==
    /\ cmd \in Commands
    /\ todo = Script(cmd)
    /\ at = "steps" /\ heard = {} /\ missed = 0 /\ told = {}
    /\ failure = "none" /\ code = -1 /\ outcome = "none"
    /\ done = {} /\ turn = "none"

Process ==
    \/ LoadConfig \/ Resolve \/ Connect
    \/ Validate \/ Permit \/ SelectCredit \/ Notes \/ Ping \/ NothingToProbe
    \/ \E s \in Changes \cup Reads : Request(s)
    \/ Finish
    \/ WaitAnswered \/ CtrlC \/ WaitFails

Next == Process \/ TurnEnds

Spec == Init /\ [][Next]_vars

-----------------------------------------------------------------------------
(* Properties.                                                             *)

\* What an exit code says is so.  0: all that was asked for was done, the turn that
\* was waited for completed, and of a redemption, which ends so whatever the server
\* made of it, the outcome that is printed tells whether a credit was redeemed; 1: the
\* turn ended otherwise; 130: it was started, and its ids were printed.  An outcome
\* that was heard is told, whatever becomes of the usage that is read after it
\* (README, "Exit codes"; app.rs, the commands; turns.rs, turn_terminal).
ExitSays ==
    /\ code = 0 => /\ Asked(cmd) \ {"consume"} \subseteq done /\ missed = 0
                   /\ Waits(cmd) => turn = "completed"
                   /\ "consume" \in Asked(cmd) =>
                        \E o \in told \cap Outcomes :
                          "consume" \in done <=> o \in Redeeming
    /\ code = 1 => turn \in {"failed", "interrupted"}
    /\ code = 130 => "turn" \in done /\ told = {"thread", "turn"}
    /\ at = "over" /\ "consume" \in heard => code = 0

\* A command that is refused for its options, or for a permission it lacks, has
\* changed nothing on the server (app.rs, new_command, fork_command,
\* settings_set_command, start_turn, usage_redeem_command).
RefusalsTouchNothing == failure = "usage" => done = {}

\* README, "Exit codes": 2 is for usage, validation, configuration and local lookup,
\* and 3 for the server and the connection.  It is not so (rpc.rs, the context
\* "failed to send", which classify_error does not know).
TwoIsLocal == code = 2 => failure \in {"usage", "config", "note", "noCredit"}

\* README, "Commands that create or start work always return enough follow-up
\* identifiers".  It is not so: a name that cannot be set, or a turn that cannot be
\* started, ends the process with the new thread unnamed in what it prints.
CreatedIsReported ==
    at = "over" /\ heard \cap {"start", "fork"} # {} => "thread" \in told

=============================================================================
