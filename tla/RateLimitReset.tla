--------------------------- MODULE RateLimitReset ---------------------------
(***************************************************************************)
(* The usage modal of the TUI and the redemption of a banked rate-limit    *)
(* reset: the keys of Mode::Usage and Mode::ConfirmRateLimitReset, the     *)
(* fetch worker, which takes one request at a time, the events it sends    *)
(* back, and, external to the program, the servers that hold the credits.  *)
(*                                                                         *)
(* An idempotency key is its position in the order the TUI made them, 0    *)
(* standing for None: keys carry the clock's milliseconds, and two of them *)
(* are taken to differ.  The plan, the limits and all wording are left     *)
(* out; of the snapshot only the reset credits matter.                     *)
(***************************************************************************)
EXTENDS Naturals, Sequences

CONSTANTS
    Server,    \* the configured servers
    Credit,    \* reset credits, as records of an id and two times
    Banks,     \* what may have become of each server's credits when the TUI starts
    NoServer,
    NoCredit,
    MaxKey,    \* bound: idempotency keys made
    MaxFetch,  \* bound: usage and reset requests queued for the fetch worker
    MaxApp     \* bound: usage and reset events queued for the UI

\* A time the server leaves out counts as i64::MAX: a number above the others.
ASSUME ResetAssumption ==
    /\ NoServer \notin Server
    /\ NoCredit \notin Credit
    /\ Credit \subseteq [id : Nat, expires : Nat, granted : Nat]
    /\ \A c, d \in Credit : c.id = d.id => c = d
    /\ Banks \subseteq [Server -> [Credit -> {"future", "available", "spent"}]]
    /\ MaxKey \in Nat
    /\ MaxFetch \in Nat
    /\ MaxApp \in Nat

VARIABLES
    modal,   \* the UsageModalState, and which of its two modes is shown, if any
    made,    \* the idempotency keys made so far
    fetch,   \* the fetch channel
    work,    \* the request the fetch worker is on
    app,     \* the app-event channel
    bank,    \* (servers) what became of each credit
    sent     \* the redemptions requested so far, with what each one asked for

vars == <<modal, made, fetch, work, app, bank, sent>>

Closed == [mode |-> "closed", server |-> NoServer, loading |-> FALSE, redeeming |-> FALSE,
           counted |-> FALSE, offer |-> {}, key |-> 0, credit |-> NoCredit]

Request(op, s, k, c) == [op |-> op, server |-> s, key |-> k, credit |-> c]
NoWork == Request("none", NoServer, 0, NoCredit)

Event(type, s, counted, offer) ==
    [type |-> type, server |-> s, counted |-> counted, offer |-> offer]

(***************************************************************************)
(* select_best_rate_limit_reset_credit: the earliest expiry, then the      *)
(* oldest grant, then the id.                                              *)
(***************************************************************************)
Before(c, d) ==
    \/ c.expires < d.expires
    \/ c.expires = d.expires /\ c.granted < d.granted
    \/ c.expires = d.expires /\ c.granted = d.granted /\ c.id < d.id

MostUrgent(offer) == {c \in offer : \A d \in offer : d = c \/ Before(c, d)}

(***************************************************************************)
(* Keys in the usage modal and in its confirmation.                        *)
(***************************************************************************)
\* try_send on the fetch channel, which others fill too.
Scheduled(r)   == Len(fetch) < MaxFetch /\ fetch' = Append(fetch, r)
NotScheduled   == UNCHANGED fetch
UsageLoad(s)   == Request("usage", s, 0, NoCredit)

\* u
OpenUsage(s) ==
    /\ modal.mode = "closed"
    /\ \E ok \in BOOLEAN :
         /\ modal' = [Closed EXCEPT !.mode = "usage", !.server = s, !.loading = ok]
         /\ IF ok THEN Scheduled(UsageLoad(s)) ELSE NotScheduled
    /\ UNCHANGED <<made, work, app, bank, sent>>

\* r, or Enter on Refresh.
Refresh ==
    /\ modal.mode = "usage"
    /\ ~modal.redeeming
    /\ \E ok \in BOOLEAN :
         /\ modal' = [modal EXCEPT !.loading = ok]
         /\ IF ok THEN Scheduled(UsageLoad(modal.server)) ELSE NotScheduled
    /\ UNCHANGED <<made, work, app, bank, sent>>

\* Esc, or Enter on Close.
CloseUsage ==
    /\ modal.mode = "usage"
    /\ ~modal.redeeming
    /\ modal' = Closed
    /\ UNCHANGED <<made, fetch, work, app, bank, sent>>

\* Enter on Redeem.
AskRedeem ==
    /\ modal.mode = "usage"
    /\ ~modal.redeeming
    /\ ~modal.loading
    /\ modal.counted
    /\ \E c \in MostUrgent(modal.offer) :
         modal' = [modal EXCEPT !.mode = "confirm", !.credit = c]
    /\ UNCHANGED <<made, fetch, work, app, bank, sent>>

\* Esc, or Enter on Cancel.
Decline ==
    /\ modal.mode = "confirm"
    /\ modal' = [modal EXCEPT !.mode = "usage"]
    /\ UNCHANGED <<made, fetch, work, app, bank, sent>>

\* Mutation: a key that was just made is not remembered as made.
KeyToUseAgain == IF modal.key = 0 THEN made ELSE modal.key

\* reset_idempotency_key, or a new one.
KeyToUse == IF modal.key = 0 THEN made + 1 ELSE modal.key

\* Mutation: a reset that could not be scheduled leaves the modal redeeming.
ConfirmRedeemStuck ==
    /\ modal.mode = "confirm"
    /\ KeyToUse <= MaxKey
    /\ made' = IF modal.key = 0 THEN made + 1 ELSE made
    /\ LET r == Request("consume", modal.server, KeyToUse, modal.credit)
       IN  \E ok \in BOOLEAN :
             /\ modal' = [modal EXCEPT !.mode = "usage", !.redeeming = TRUE, !.key = r.key]
             /\ IF ok THEN Scheduled(r) /\ sent' = sent \cup {r}
                ELSE NotScheduled /\ UNCHANGED sent
    /\ UNCHANGED <<work, app, bank>>

\* Enter on Redeem in the confirmation.
ConfirmRedeem ==
    /\ modal.mode = "confirm"
    /\ KeyToUse <= MaxKey
    /\ made' = IF modal.key = 0 THEN made + 1 ELSE made
    /\ LET r == Request("consume", modal.server, KeyToUse, modal.credit)
       IN  \E ok \in BOOLEAN :
             /\ modal' = [modal EXCEPT !.mode = "usage", !.redeeming = ok, !.key = r.key]
             /\ IF ok THEN Scheduled(r) /\ sent' = sent \cup {r}
                ELSE NotScheduled /\ UNCHANGED sent
    /\ UNCHANGED <<work, app, bank>>

\* The refresh after a stream finished, a detail that was replaced or an attach
\* snapshot shows the detail, whatever the mode was.
Overtaken ==
    /\ modal.mode # "closed"
    /\ modal' = Closed
    /\ UNCHANGED <<made, fetch, work, app, bank, sent>>

(***************************************************************************)
(* The servers.                                                            *)
(***************************************************************************)
Available(s) == {c \in Credit : bank[s][c] = "available"}

\* account/rateLimitResetCredit/consume; a credit is spent once.
Acts(s, c) == bank' = [bank EXCEPT ![s][c] = IF @ = "available" THEN "spent" ELSE @]

Granted(s, c) ==
    /\ bank[s][c] = "future"
    /\ bank' = [bank EXCEPT ![s][c] = "available"]
    /\ UNCHANGED <<modal, made, fetch, work, app, sent>>

\* Another client redeems it, or it expires.
SpentElsewhere(s, c) ==
    /\ bank[s][c] = "available"
    /\ bank' = [bank EXCEPT ![s][c] = "spent"]
    /\ UNCHANGED <<modal, made, fetch, work, app, sent>>

(***************************************************************************)
(* fetch_worker: one request at a time, each with one event at its end.    *)
(***************************************************************************)
Take ==
    /\ work = NoWork
    /\ fetch # <<>>
    /\ work' = Head(fetch)
    /\ fetch' = Tail(fetch)
    /\ UNCHANGED <<modal, made, app, bank, sent>>

Post(e) ==
    /\ Len(app) < MaxApp
    /\ app' = Append(app, e)

Failed(type) == Post(Event(type, work.server, FALSE, {}))

\* account/rateLimits/read: the count, and the credits if the server details them.
Reads(type) ==
    \E offer \in {Available(work.server), {}} :
        Post(Event(type, work.server, Available(work.server) # {}, offer))

\* FetchRequest::Usage
LoadUsage ==
    /\ work.op = "usage"
    /\ Reads("loaded") \/ Failed("loadFailed")
    /\ work' = NoWork
    /\ UNCHANGED <<modal, made, fetch, bank, sent>>

\* consume_rate_limit_reset_with_client, up to the answer of the server.
Consume ==
    /\ work.op = "consume"
    /\ Acts(work.server, work.credit)
    /\ work' = [work EXCEPT !.op = "reload"]
    /\ UNCHANGED <<modal, made, fetch, app, sent>>

\* Mutation: a failed redemption is not reported.
ConsumeFailsSilently ==
    /\ work.op = "consume"
    /\ work' = NoWork
    /\ UNCHANGED <<modal, made, fetch, app, bank, sent>>

\* The same when it fails; the server may have acted, and its answer was lost.
ConsumeFails ==
    /\ work.op = "consume"
    /\ Acts(work.server, work.credit) \/ UNCHANGED bank
    /\ Failed("consumeFailed")
    /\ work' = NoWork
    /\ UNCHANGED <<modal, made, fetch, sent>>

\* And the usage it reads after a redemption.
Reload ==
    /\ work.op = "reload"
    /\ Reads("consumed") \/ Failed("consumedOnly")
    /\ work' = NoWork
    /\ UNCHANGED <<modal, made, fetch, bank, sent>>

(***************************************************************************)
(* App events.                                                             *)
(***************************************************************************)
Receiving(types) ==
    /\ app # <<>>
    /\ Head(app).type \in types
    /\ app' = Tail(app)
    /\ UNCHANGED <<made, fetch, work, bank, sent>>

\* The modal takes an event of its server, and only while it is shown itself.
Shown(e) == modal.mode = "usage" /\ modal.server = e.server

\* Mutation: a refresh keeps the retry key.
LoadedKeepsKey(e) ==
    [modal EXCEPT !.loading = FALSE, !.redeeming = FALSE, !.counted = e.counted,
                  !.offer = e.offer, !.credit = NoCredit]

\* apply_usage_loaded
Loaded(e) ==
    [modal EXCEPT !.loading = FALSE, !.redeeming = FALSE, !.counted = e.counted,
                  !.offer = e.offer, !.key = 0, !.credit = NoCredit]

\* UsageLoaded, and RateLimitResetConsumed with the usage read after it.
HandleLoaded ==
    /\ Receiving({"loaded", "consumed"})
    /\ modal' = IF Shown(Head(app)) THEN Loaded(Head(app)) ELSE modal

\* UsageLoadFailed: apply_usage_error.
HandleLoadFailed ==
    /\ Receiving({"loadFailed"})
    /\ modal' = IF Shown(Head(app))
                THEN [modal EXCEPT !.loading = FALSE, !.redeeming = FALSE] ELSE modal

\* RateLimitResetConsumed without the usage: the offer counts for nothing now.
HandleConsumedOnly ==
    /\ Receiving({"consumedOnly"})
    /\ modal' = IF Shown(Head(app))
                THEN [modal EXCEPT !.loading = FALSE, !.redeeming = FALSE,
                                   !.counted = FALSE, !.key = 0, !.credit = NoCredit]
                ELSE modal

\* RateLimitResetConsumeFailed: the key is kept for a retry.
HandleConsumeFailed ==
    /\ Receiving({"consumeFailed"})
    /\ modal' = IF Shown(Head(app)) THEN [modal EXCEPT !.redeeming = FALSE] ELSE modal

(***************************************************************************)
(* The specification.                                                      *)
(***************************************************************************)
Init ==
    /\ modal = Closed
    /\ made = 0
    /\ fetch = <<>>
    /\ work = NoWork
    /\ app = <<>>
    /\ bank \in Banks
    /\ sent = {}

UserStep ==
    \/ \E s \in Server : OpenUsage(s)
    \/ Refresh
    \/ CloseUsage
    \/ AskRedeem
    \/ Decline
    \/ ConfirmRedeem

Worker ==
    \/ Take
    \/ LoadUsage
    \/ Consume
    \/ ConsumeFails
    \/ Reload

AppStep ==
    \/ HandleLoaded
    \/ HandleLoadFailed
    \/ HandleConsumedOnly
    \/ HandleConsumeFailed

ServerStep == \E s \in Server, c \in Credit : Granted(s, c) \/ SpentElsewhere(s, c)

Next == UserStep \/ Overtaken \/ Worker \/ AppStep \/ ServerStep

Spec == Init /\ [][Next]_vars

\* The worker task and the UI loop run.
FairSpec == Spec /\ WF_vars(Worker) /\ WF_vars(AppStep)

(***************************************************************************)
(* Properties.                                                             *)
(***************************************************************************)
Key0     == 0..MaxKey
Modals   == [mode : {"closed", "usage", "confirm"}, server : Server \cup {NoServer},
             loading : BOOLEAN, redeeming : BOOLEAN, counted : BOOLEAN,
             offer : SUBSET Credit, key : Key0, credit : Credit \cup {NoCredit}]
Requests == [op : {"none", "usage", "consume", "reload"}, server : Server \cup {NoServer},
             key : Key0, credit : Credit \cup {NoCredit}]
Events   == [type : {"loaded", "loadFailed", "consumed", "consumedOnly", "consumeFailed"},
             server : Server \cup {NoServer}, counted : BOOLEAN, offer : SUBSET Credit]

\* The state's types; no key is in use that was not made.
TypeOK ==
    /\ modal \in Modals
    /\ made \in Key0
    /\ fetch \in Seq(Requests)
    /\ work \in Requests
    /\ app \in Seq(Events)
    /\ bank \in [Server -> [Credit -> {"future", "available", "spent"}]]
    /\ sent \subseteq Requests
    /\ modal.key <= made
    /\ \A r \in sent : r.key \in 1..made

\* The comment in apply_usage_loaded: a retry key is never reused for another
\* redemption.  Whatever failed, was refreshed or was reopened in between, the
\* requests made under one key ask one server for one credit.
KeyNamesOneCredit == \A r, q \in sent : r.key = q.key => r = q

\* What keeps it so: the key at hand, if it was ever sent, was sent for what the
\* modal would redeem now.
KeyFitsOffer ==
    /\ modal.mode = "confirm" => modal.credit \in MostUrgent(modal.offer)
    /\ \A r \in sent : r.key = modal.key =>
         r.op = "consume" /\ r.server = modal.server /\ r.credit \in MostUrgent(modal.offer)

\* The inductive invariant.
ResetInv ==
    /\ TypeOK
    /\ \A r \in sent : r.op = "consume"
    /\ KeyNamesOneCredit
    /\ KeyFitsOffer

Underway(s, ops, types) ==
    \/ \E k \in DOMAIN fetch : fetch[k].server = s /\ fetch[k].op \in ops
    \/ work.server = s /\ work.op \in ops
    \/ \E k \in DOMAIN app : app[k].server = s /\ app[k].type \in types

Redeeming(s) ==
    Underway(s, {"consume", "reload"}, {"consumed", "consumedOnly", "consumeFailed"})

\* A modal that refuses to close, or shows a load, waits for an answer that is on
\* its way: refused requests, lost answers and reopened modals do not lock it.
ModalWaitIsBacked ==
    /\ modal.redeeming => Redeeming(modal.server)
    /\ modal.loading => Underway(modal.server, {"usage"}, {"loaded", "loadFailed"})

\* The modal does not stay locked: a redemption settles, one way or the other.
RedeemSettles == modal.redeeming ~> ~modal.redeeming

\* Test usage_modal_cannot_close_while_reset_redemption_is_in_flight: while the
\* redemption the modal asked for is on its way, the modal waits for it.
ModalHoldsRedemption ==
    modal.mode # "closed" /\ Redeeming(modal.server) /\ modal.key # 0
        => modal.redeeming

=============================================================================
