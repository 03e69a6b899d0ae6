------------------------ MODULE RateLimitReset_proofs ------------------------
(***************************************************************************)
(* ResetInv is an invariant of RateLimitReset, for every set of servers    *)
(* and credits: a retry key never comes to name another redemption.        *)
(***************************************************************************)
EXTENDS RateLimitReset, TLAPS

(***************************************************************************)
(* The order select_best_rate_limit_reset_credit sorts by picks at most    *)
(* one credit: two that are both most urgent are the same.                 *)
(***************************************************************************)
LEMMA MostUrgentUnique ==
    ASSUME NEW offer \in SUBSET Credit,
           NEW c \in MostUrgent(offer), NEW d \in MostUrgent(offer)
    PROVE  c = d
<1>1. c \in offer /\ d \in offer /\ (d = c \/ Before(c, d)) /\ (c = d \/ Before(d, c))
  BY DEF MostUrgent
<1>2. /\ c.id \in Nat /\ c.expires \in Nat /\ c.granted \in Nat
      /\ d.id \in Nat /\ d.expires \in Nat /\ d.granted \in Nat
  BY <1>1, ResetAssumption
<1>3. ~(Before(c, d) /\ Before(d, c))
  BY <1>2 DEF Before
<1> QED
  BY <1>1, <1>3

LEMMA MostUrgentOffered ==
    ASSUME NEW offer \in SUBSET Credit, NEW c \in MostUrgent(offer)
    PROVE  c \in offer /\ c \in Credit
  BY DEF MostUrgent

(***************************************************************************)
(* The parts of ResetInv that speak of the modal and of what it sent, apart *)
(* from the types.                                                         *)
(***************************************************************************)
KeysOf(m, n, requests) ==
    /\ m.key <= n
    /\ \A r \in requests : r.key \in 1..n /\ r.op = "consume"
    /\ \A r, q \in requests : r.key = q.key => r = q
    /\ m.mode = "confirm" => m.credit \in MostUrgent(m.offer)
    /\ \A r \in requests : r.key = m.key =>
         r.server = m.server /\ r.credit \in MostUrgent(m.offer)

OtherTypes ==
    /\ modal \in Modals
    /\ made \in Key0
    /\ fetch \in Seq(Requests)
    /\ work \in Requests
    /\ app \in Seq(Events)
    /\ bank \in [Server -> [Credit -> {"future", "available", "spent"}]]
    /\ sent \subseteq Requests

LEMMA ResetInvParts == ResetInv <=> OtherTypes /\ KeysOf(modal, made, sent)
  BY DEF ResetInv, TypeOK, KeyNamesOneCredit, KeyFitsOffer, OtherTypes, KeysOf

LEMMA ResetInvPartsNext ==
    ResetInv' <=> OtherTypes' /\ KeysOf(modal', made', sent')
  BY DEF ResetInv, TypeOK, KeyNamesOneCredit, KeyFitsOffer, OtherTypes, KeysOf

\* A modal without a key is one no request was sent for.
LEMMA KeylessModal ==
    ASSUME NEW n \in Key0, NEW requests, NEW m, NEW old, KeysOf(old, n, requests),
           m.key = 0,
           m.mode = "confirm" => m.credit \in MostUrgent(m.offer)
    PROVE  KeysOf(m, n, requests)
  BY ResetAssumption DEF KeysOf, Key0

\* A modal with the same key, server and offer keeps what its key stands for.
LEMMA SameKeyModal ==
    ASSUME NEW n, NEW requests, NEW m, NEW old, KeysOf(old, n, requests),
           m.key = old.key, m.server = old.server, m.offer = old.offer,
           m.mode = "confirm" => m.credit \in MostUrgent(m.offer)
    PROVE  KeysOf(m, n, requests)
  BY DEF KeysOf

(***************************************************************************)
(* Requests and events.                                                    *)
(***************************************************************************)
LEMMA NoneTypes == Closed \in Modals /\ NoWork \in Requests
  BY ResetAssumption DEF Closed, Modals, NoWork, Request, Requests, Key0

LEMMA ScheduledType ==
    ASSUME fetch \in Seq(Requests), NEW r \in Requests,
           Scheduled(r) \/ NotScheduled
    PROVE  fetch' \in Seq(Requests)
  BY DEF Scheduled, NotScheduled

LEMMA UsageLoadType ==
    ASSUME NEW s \in Server \cup {NoServer}
    PROVE  UsageLoad(s) \in Requests
  BY ResetAssumption DEF UsageLoad, Request, Requests, Key0

LEMMA PostType ==
    ASSUME app \in Seq(Events), NEW type, NEW s \in Server \cup {NoServer},
           NEW counted \in BOOLEAN, NEW offer \in SUBSET Credit,
           type \in {"loaded", "loadFailed", "consumed", "consumedOnly", "consumeFailed"},
           Post(Event(type, s, counted, offer))
    PROVE  app' \in Seq(Events)
<1>1. Event(type, s, counted, offer) \in Events
  BY DEF Event, Events
<1> QED
  BY <1>1 DEF Post

LEMMA FailedType ==
    ASSUME OtherTypes, NEW type,
           type \in {"loaded", "loadFailed", "consumed", "consumedOnly", "consumeFailed"},
           Failed(type)
    PROVE  app' \in Seq(Events)
<1>1. work.server \in Server \cup {NoServer}
  BY DEF OtherTypes, Requests
<1> QED
  BY <1>1, PostType, FALSE \in BOOLEAN, {} \in SUBSET Credit DEF Failed, OtherTypes

LEMMA ReadsType ==
    ASSUME OtherTypes, NEW type,
           type \in {"loaded", "loadFailed", "consumed", "consumedOnly", "consumeFailed"},
           Reads(type)
    PROVE  app' \in Seq(Events)
<1>1. work.server \in Server \cup {NoServer}
  BY DEF OtherTypes, Requests
<1>2. PICK offer \in {Available(work.server), {}} :
        Post(Event(type, work.server, Available(work.server) # {}, offer))
  BY DEF Reads
<1>3. offer \in SUBSET Credit /\ (Available(work.server) # {}) \in BOOLEAN
  BY DEF Available
<1> QED
  BY <1>1, <1>2, <1>3, PostType DEF OtherTypes

LEMMA ReceivingTypes ==
    ASSUME OtherTypes, NEW types, Receiving(types)
    PROVE  /\ Head(app) \in Events
           /\ app' \in Seq(Events)
  BY DEF Receiving, OtherTypes

(***************************************************************************)
(* Each group of steps preserves ResetInv.                                 *)
(***************************************************************************)
LEMMA InitReset == Init => ResetInv
<1> SUFFICES ASSUME Init PROVE OtherTypes /\ KeysOf(modal, made, sent)
  BY ResetInvParts
<1>1. OtherTypes
  <2>1. fetch \in Seq(Requests) /\ app \in Seq(Events) /\ sent \subseteq Requests
    BY DEF Init
  <2>2. made \in Key0
    BY ResetAssumption DEF Init, Key0
  <2>3. bank \in [Server -> [Credit -> {"future", "available", "spent"}]]
    BY ResetAssumption DEF Init
  <2> QED
    BY <2>1, <2>2, <2>3, NoneTypes DEF Init, OtherTypes
<1>2. KeysOf(modal, made, sent)
  BY ResetAssumption DEF Init, KeysOf, Closed
<1> QED
  BY <1>1, <1>2

LEMMA UserStepReset == ResetInv /\ UserStep => ResetInv'
<1> SUFFICES ASSUME OtherTypes, KeysOf(modal, made, sent), UserStep
             PROVE  OtherTypes' /\ KeysOf(modal', made', sent')
  BY ResetInvParts, ResetInvPartsNext
<1> USE ResetAssumption
<1>0. /\ modal.server \in Server \cup {NoServer} /\ modal.key \in Key0
      /\ modal.credit \in Credit \cup {NoCredit} /\ modal.offer \in SUBSET Credit
  BY DEF OtherTypes, Modals
<1>1. ASSUME NEW s \in Server, OpenUsage(s)
      PROVE  OtherTypes' /\ KeysOf(modal', made', sent')
  <2>1. PICK ok \in BOOLEAN :
          /\ modal' = [Closed EXCEPT !.mode = "usage", !.server = s, !.loading = ok]
          /\ IF ok THEN Scheduled(UsageLoad(s)) ELSE NotScheduled
    BY <1>1 DEF OpenUsage
  <2>2. modal' \in Modals /\ modal'.key = 0 /\ modal'.mode = "usage"
    BY <2>1, NoneTypes DEF Modals, Closed
  <2>3. fetch' \in Seq(Requests)
    BY <2>1, UsageLoadType, ScheduledType DEF OtherTypes
  <2>4. OtherTypes'
    BY <1>1, <2>2, <2>3 DEF OpenUsage, OtherTypes
  <2>5. KeysOf(modal', made', sent')
    BY <1>1, <2>2, KeylessModal DEF OpenUsage, OtherTypes
  <2> QED
    BY <2>4, <2>5
<1>2. CASE Refresh
  <2>1. PICK ok \in BOOLEAN :
          /\ modal' = [modal EXCEPT !.loading = ok]
          /\ IF ok THEN Scheduled(UsageLoad(modal.server)) ELSE NotScheduled
    BY <1>2 DEF Refresh
  <2>2. /\ modal' \in Modals /\ modal'.key = modal.key /\ modal'.mode = modal.mode
        /\ modal'.server = modal.server /\ modal'.offer = modal.offer
        /\ modal'.credit = modal.credit
    BY <2>1 DEF OtherTypes, Modals
  <2>3. fetch' \in Seq(Requests)
    BY <1>0, <2>1, UsageLoadType, ScheduledType DEF OtherTypes
  <2>4. OtherTypes'
    BY <1>2, <2>2, <2>3 DEF Refresh, OtherTypes
  <2>5. modal'.mode # "confirm"
    BY <1>2, <2>2 DEF Refresh
  <2>6. KeysOf(modal', made', sent')
    BY <1>2, <2>2, <2>5, SameKeyModal DEF Refresh
  <2> QED
    BY <2>4, <2>6
<1>3. CASE CloseUsage
  <2>1. modal' \in Modals /\ modal'.key = 0 /\ modal'.mode = "closed"
    BY <1>3, NoneTypes DEF CloseUsage, Closed
  <2>2. OtherTypes'
    BY <1>3, <2>1 DEF CloseUsage, OtherTypes
  <2>3. KeysOf(modal', made', sent')
    BY <1>3, <2>1, KeylessModal DEF CloseUsage, OtherTypes
  <2> QED
    BY <2>2, <2>3
<1>4. CASE AskRedeem
  <2>1. PICK c \in MostUrgent(modal.offer) :
          modal' = [modal EXCEPT !.mode = "confirm", !.credit = c]
    BY <1>4 DEF AskRedeem
  <2>2. /\ modal' \in Modals /\ modal'.key = modal.key /\ modal'.credit = c
        /\ modal'.server = modal.server /\ modal'.offer = modal.offer
    BY <1>0, <2>1, MostUrgentOffered DEF OtherTypes, Modals
  <2>3. OtherTypes'
    BY <1>4, <2>2 DEF AskRedeem, OtherTypes
  <2>4. KeysOf(modal', made', sent')
    BY <1>4, <2>2, SameKeyModal DEF AskRedeem
  <2> QED
    BY <2>3, <2>4
<1>5. CASE Decline
  <2>1. /\ modal' \in Modals /\ modal'.key = modal.key /\ modal'.mode = "usage"
        /\ modal'.server = modal.server /\ modal'.offer = modal.offer
    BY <1>5 DEF Decline, OtherTypes, Modals
  <2>2. OtherTypes'
    BY <1>5, <2>1 DEF Decline, OtherTypes
  <2>3. KeysOf(modal', made', sent')
    BY <1>5, <2>1, SameKeyModal DEF Decline
  <2> QED
    BY <2>2, <2>3
<1>6. CASE ConfirmRedeem
  <2> DEFINE r == Request("consume", modal.server, KeyToUse, modal.credit)
  <2>1. PICK ok \in BOOLEAN :
          /\ modal' = [modal EXCEPT !.mode = "usage", !.redeeming = ok, !.key = r.key]
          /\ IF ok THEN Scheduled(r) /\ sent' = sent \cup {r}
             ELSE NotScheduled /\ UNCHANGED sent
    BY <1>6 DEF ConfirmRedeem
  <2>2. /\ r.key = KeyToUse /\ r.op = "consume"
        /\ r.server = modal.server /\ r.credit = modal.credit
    BY DEF Request
  <2>3. KeyToUse \in 1..made' /\ made' \in Key0 /\ made \in Key0 /\ made <= made'
    BY <1>0, <1>6 DEF ConfirmRedeem, KeyToUse, KeysOf, OtherTypes, Key0
  <2>4. r \in Requests
    BY <1>0, <2>3 DEF Request, Requests, Key0
  <2>5. /\ modal' \in Modals /\ modal'.key = KeyToUse /\ modal'.mode = "usage"
        /\ modal'.server = modal.server /\ modal'.offer = modal.offer
    <3>1. KeyToUse \in Key0
      BY <2>3 DEF Key0
    <3>2. modal' = [modal EXCEPT !.mode = "usage", !.redeeming = ok, !.key = KeyToUse]
      BY <2>1, <2>2
    <3>3. modal \in Modals
      BY DEF OtherTypes
    <3> HIDE DEF r
    <3> QED
      BY <3>1, <3>2, <3>3 DEF Modals
  <2>6. modal.credit \in MostUrgent(modal.offer)
    BY <1>6 DEF ConfirmRedeem, KeysOf
  <2>7. \A q \in sent : q.key = KeyToUse =>
          q.op = "consume" /\ q.server = modal.server /\ q.credit = modal.credit
    <3> SUFFICES ASSUME NEW q \in sent, q.key = KeyToUse
                 PROVE  q.op = "consume" /\ q.server = modal.server /\ q.credit = modal.credit
      OBVIOUS
    <3>1. q.key = modal.key
      BY <1>0 DEF KeyToUse, KeysOf, OtherTypes, Key0
    <3>2. q.op = "consume" /\ q.server = modal.server /\ q.credit \in MostUrgent(modal.offer)
      BY <3>1 DEF KeysOf
    <3> QED
      BY <1>0, <2>6, <3>2, MostUrgentUnique
  <2>8. \A q \in sent : q.key = KeyToUse => q = r
    <3> SUFFICES ASSUME NEW q \in sent, q.key = KeyToUse PROVE q = r
      OBVIOUS
    <3>1. q = Request(q.op, q.server, q.key, q.credit)
      BY DEF OtherTypes, Requests, Request
    <3> QED
      BY <2>7, <3>1
  <2>9. OtherTypes'
    <3>1. fetch' \in Seq(Requests) /\ sent' \subseteq Requests
      BY <2>1, <2>4, ScheduledType DEF OtherTypes
    <3> QED
      BY <1>6, <2>3, <2>5, <3>1 DEF ConfirmRedeem, OtherTypes
  <2>10. sent' \subseteq sent \cup {r}
    BY <2>1
  <2>11. \A q \in sent' : q \in sent \/ q = r
    BY <2>10
  <2>12. /\ \A q \in sent' : q.key \in 1..made' /\ q.op = "consume"
         /\ \A q, p \in sent' : q.key = p.key => q = p
         /\ \A q \in sent' : q.key = KeyToUse =>
              q.server = modal.server /\ q.credit \in MostUrgent(modal.offer)
    <3>1. \A q \in sent' : q.key \in 1..made' /\ q.op = "consume"
      BY <2>2, <2>3, <2>11 DEF KeysOf, Key0
    <3>2. \A q, p \in sent' : q.key = p.key => q = p
      BY <2>2, <2>8, <2>11 DEF KeysOf
    <3>3. \A q \in sent' : q.key = KeyToUse =>
            q.server = modal.server /\ q.credit \in MostUrgent(modal.offer)
      BY <2>2, <2>6, <2>7, <2>11
    <3> QED
      BY <3>1, <3>2, <3>3
  <2>13. modal'.key <= made'
    BY <2>3, <2>5 DEF Key0
  <2>14. KeysOf(modal', made', sent')
    BY <2>5, <2>12, <2>13 DEF KeysOf
  <2> QED
    BY <2>9, <2>14
<1> QED
  BY <1>1, <1>2, <1>3, <1>4, <1>5, <1>6 DEF UserStep

LEMMA OvertakenReset == ResetInv /\ Overtaken => ResetInv'
<1> SUFFICES ASSUME OtherTypes, KeysOf(modal, made, sent), Overtaken
             PROVE  OtherTypes' /\ KeysOf(modal', made', sent')
  BY ResetInvParts, ResetInvPartsNext
<1>1. modal' \in Modals /\ modal'.key = 0 /\ modal'.mode = "closed"
  BY NoneTypes DEF Overtaken, Closed
<1>2. OtherTypes'
  BY <1>1 DEF Overtaken, OtherTypes
<1>3. KeysOf(modal', made', sent')
  BY <1>1, KeylessModal DEF Overtaken, OtherTypes
<1> QED
  BY <1>2, <1>3

\* The worker and the servers leave the modal and the requests made alone.
LEMMA WorkerReset == ResetInv /\ Worker => ResetInv'
<1> SUFFICES ASSUME OtherTypes, KeysOf(modal, made, sent), Worker
             PROVE  OtherTypes' /\ KeysOf(modal', made', sent')
  BY ResetInvParts, ResetInvPartsNext
<1>1. UNCHANGED <<modal, made, sent>>
  BY DEF Worker, Take, LoadUsage, Consume, ConsumeFails, Reload
<1>2. OtherTypes'
  <2>1. CASE Take
    <3>1. work' \in Requests /\ fetch' \in Seq(Requests)
      BY <2>1 DEF Take, OtherTypes
    <3> QED
      BY <2>1, <3>1 DEF Take, OtherTypes
  <2>2. CASE LoadUsage
    <3>1. app' \in Seq(Events)
      BY <2>2, ReadsType, FailedType DEF LoadUsage
    <3> QED
      BY <2>2, <3>1, NoneTypes DEF LoadUsage, OtherTypes
  <2>3. ASSUME Acts(work.server, work.credit)
        PROVE  bank' \in [Server -> [Credit -> {"future", "available", "spent"}]]
    BY <2>3 DEF Acts, OtherTypes
  <2>4. CASE Consume
    <3>1. work' \in Requests
      BY <2>4 DEF Consume, OtherTypes, Requests
    <3> QED
      BY <2>3, <2>4, <3>1 DEF Consume, OtherTypes
  <2>5. CASE ConsumeFails
    <3>1. app' \in Seq(Events)
      BY <2>5, FailedType DEF ConsumeFails
    <3>2. bank' \in [Server -> [Credit -> {"future", "available", "spent"}]]
      BY <2>3, <2>5 DEF ConsumeFails, OtherTypes
    <3> QED
      BY <2>5, <3>1, <3>2, NoneTypes DEF ConsumeFails, OtherTypes
  <2>6. CASE Reload
    <3>1. app' \in Seq(Events)
      BY <2>6, ReadsType, FailedType DEF Reload
    <3> QED
      BY <2>6, <3>1, NoneTypes DEF Reload, OtherTypes
  <2> QED
    BY <2>1, <2>2, <2>4, <2>5, <2>6 DEF Worker
<1> QED
  BY <1>1, <1>2

LEMMA ServerStepReset == ResetInv /\ ServerStep => ResetInv'
<1> SUFFICES ASSUME OtherTypes, KeysOf(modal, made, sent), ServerStep
             PROVE  OtherTypes' /\ KeysOf(modal', made', sent')
  BY ResetInvParts, ResetInvPartsNext
<1>1. PICK s \in Server, c \in Credit : Granted(s, c) \/ SpentElsewhere(s, c)
  BY DEF ServerStep
<1>2. bank' \in [Server -> [Credit -> {"future", "available", "spent"}]]
  BY <1>1 DEF Granted, SpentElsewhere, OtherTypes
<1> QED
  BY <1>1, <1>2 DEF Granted, SpentElsewhere, OtherTypes

LEMMA AppStepReset == ResetInv /\ AppStep => ResetInv'
<1> SUFFICES ASSUME OtherTypes, KeysOf(modal, made, sent), AppStep
             PROVE  OtherTypes' /\ KeysOf(modal', made', sent')
  BY ResetInvParts, ResetInvPartsNext
<1>1. PICK types : Receiving(types)
  BY DEF AppStep, HandleLoaded, HandleLoadFailed, HandleConsumedOnly, HandleConsumeFailed
<1>2. Head(app) \in Events /\ app' \in Seq(Events)
  BY <1>1, ReceivingTypes
<1>3. UNCHANGED <<made, fetch, work, bank, sent>>
  BY <1>1 DEF Receiving
<1>4. /\ modal.mode = "confirm" => modal.credit \in MostUrgent(modal.offer)
      /\ made \in Key0
  BY DEF KeysOf, OtherTypes
<1>5. CASE modal' = modal
  BY <1>2, <1>3, <1>5 DEF OtherTypes, KeysOf
<1>6. ASSUME Shown(Head(app)), modal' \in Modals, modal'.mode = modal.mode,
             \/ modal'.key = 0
             \/ /\ modal'.key = modal.key
                /\ modal'.server = modal.server
                /\ modal'.offer = modal.offer
      PROVE  OtherTypes' /\ KeysOf(modal', made', sent')
  <2>1. modal'.mode # "confirm"
    BY <1>6 DEF Shown
  <2>2. KeysOf(modal', made, sent)
    BY <1>4, <1>6, <2>1, KeylessModal, SameKeyModal
  <2>3. OtherTypes'
    BY <1>2, <1>3, <1>6 DEF OtherTypes
  <2> QED
    BY <1>3, <2>2, <2>3
<1>7. modal' = modal \/ (/\ Shown(Head(app)) /\ modal' \in Modals /\ modal'.mode = modal.mode
                        /\ \/ modal'.key = 0
                           \/ /\ modal'.key = modal.key
                              /\ modal'.server = modal.server
                              /\ modal'.offer = modal.offer)
  <2>0. 0 \in Key0
    BY ResetAssumption DEF Key0
  <2>1. CASE HandleLoaded
    <3>1. CASE modal' = modal
      BY <3>1
    <3>2. CASE Shown(Head(app)) /\ modal' = Loaded(Head(app))
      <4>1. modal \in Modals
        BY DEF OtherTypes
      <4>2. Head(app).counted \in BOOLEAN /\ Head(app).offer \in SUBSET Credit
        BY <1>2 DEF Events
      <4>3. modal' \in Modals /\ modal'.mode = modal.mode /\ modal'.key = 0
        BY <2>0, <3>2, <4>1, <4>2 DEF Loaded, Modals
      <4> QED
        BY <3>2, <4>3
    <3> QED
      BY <2>1, <3>1, <3>2 DEF HandleLoaded
  <2>2. CASE HandleLoadFailed
    BY <2>2 DEF HandleLoadFailed, OtherTypes, Modals
  <2>3. CASE HandleConsumedOnly
    BY <2>0, <2>3 DEF HandleConsumedOnly, OtherTypes, Modals
  <2>4. CASE HandleConsumeFailed
    BY <2>4 DEF HandleConsumeFailed, OtherTypes, Modals
  <2> QED
    BY <2>1, <2>2, <2>3, <2>4 DEF AppStep
<1> QED
  BY <1>5, <1>6, <1>7

(***************************************************************************)
(* The theorems.                                                           *)
(***************************************************************************)
\* ResetInv holds in every reachable state, for all servers, credits, and
\* bounds: what the modal and its requests under one key have in common.
THEOREM ResetInvariant == Spec => []ResetInv
<1>1. ResetInv /\ [Next]_vars => ResetInv'
  <2>1. ResetInv /\ UNCHANGED vars => ResetInv'
    BY DEF ResetInv, TypeOK, KeyNamesOneCredit, KeyFitsOffer, vars
  <2> QED
    BY <2>1, UserStepReset, OvertakenReset, WorkerReset, AppStepReset, ServerStepReset
       DEF Next
<1> QED
  BY <1>1, InitReset, PTL DEF Spec

\* The comment in apply_usage_loaded: a retry key is never reused for another
\* redemption, whatever failed, was refreshed or was reopened in between.
THEOREM KeyReuse == Spec => []KeyNamesOneCredit
<1>1. ResetInv => KeyNamesOneCredit
  BY DEF ResetInv
<1> QED
  BY <1>1, ResetInvariant, PTL

\* The types hold in every reachable state, and no key is in use that the TUI did
\* not make.
THEOREM TypeCorrect == Spec => []TypeOK
<1>1. ResetInv => TypeOK
  BY DEF ResetInv
<1> QED
  BY <1>1, ResetInvariant, PTL

(***************************************************************************)
(* Who waits is waited for.  That only a modal that is shown waits makes   *)
(* ModalWaitIsBacked inductive: the confirmation and another screen do not *)
(* take the events that would end a wait.                                  *)
(***************************************************************************)
Loading(s) == Underway(s, {"usage"}, {"loaded", "loadFailed"})

OnlyShownWaits == modal.mode # "usage" => ~modal.redeeming /\ ~modal.loading

WaitInv == OnlyShownWaits /\ ModalWaitIsBacked

\* A request that is scheduled takes no other off the queue.
LEMMA ScheduledKeeps ==
    ASSUME OtherTypes, NEW s, NEW ops, NEW types, NEW r \in Requests,
           Scheduled(r) \/ NotScheduled, UNCHANGED <<work, app>>
    PROVE  /\ Underway(s, ops, types) => Underway(s, ops, types)'
           /\ Scheduled(r) /\ r.server = s /\ r.op \in ops => Underway(s, ops, types)'
<1>1. CASE NotScheduled /\ ~Scheduled(r)
  BY <1>1 DEF NotScheduled, Underway
<1>2. CASE Scheduled(r)
  <2>1. /\ DOMAIN fetch' = 1..(Len(fetch) + 1) /\ DOMAIN fetch = 1..Len(fetch)
        /\ \A k \in 1..Len(fetch) : fetch'[k] = fetch[k]
        /\ fetch'[Len(fetch) + 1] = r
        /\ Len(fetch) \in Nat
    BY <1>2 DEF Scheduled, OtherTypes
  <2>2. \A k \in DOMAIN fetch : k \in DOMAIN fetch' /\ fetch'[k] = fetch[k]
    BY <2>1
  <2>3. Len(fetch) + 1 \in DOMAIN fetch'
    BY <2>1
  <2> QED
    BY <2>1, <2>2, <2>3 DEF Underway
<1> QED
  BY <1>1, <1>2

\* So does an event that is posted.
LEMMA PostKeeps ==
    ASSUME OtherTypes, NEW s, NEW ops, NEW types, NEW e, Post(e), UNCHANGED fetch,
           work.server = s /\ work.op \in ops => e.server = s /\ e.type \in types
    PROVE  Underway(s, ops, types) => Underway(s, ops, types)'
<1>1. /\ DOMAIN app' = 1..(Len(app) + 1) /\ DOMAIN app = 1..Len(app)
      /\ \A k \in 1..Len(app) : app'[k] = app[k]
      /\ app'[Len(app) + 1] = e
      /\ Len(app) \in Nat
  BY DEF Post, OtherTypes
<1>2. \A k \in DOMAIN app : k \in DOMAIN app' /\ app'[k] = app[k]
  BY <1>1
<1>3. Len(app) + 1 \in DOMAIN app'
  BY <1>1
<1> QED
  BY <1>1, <1>2, <1>3 DEF Underway

\* The worker's request becomes its event.
LEMMA FailedKeeps ==
    ASSUME OtherTypes, NEW s, NEW ops, NEW types, NEW type, Failed(type), UNCHANGED fetch,
           work.op \in ops => type \in types
    PROVE  Underway(s, ops, types) => Underway(s, ops, types)'
<1>1. /\ Event(type, work.server, FALSE, {}).server = work.server
      /\ Event(type, work.server, FALSE, {}).type = type
  BY DEF Event
<1> QED
  BY <1>1, PostKeeps DEF Failed

LEMMA ReadsKeeps ==
    ASSUME OtherTypes, NEW s, NEW ops, NEW types, NEW type, Reads(type), UNCHANGED fetch,
           work.op \in ops => type \in types
    PROVE  Underway(s, ops, types) => Underway(s, ops, types)'
<1>1. PICK offer : Post(Event(type, work.server, Available(work.server) # {}, offer))
  BY DEF Reads
<1>2. /\ Event(type, work.server, Available(work.server) # {}, offer).server = work.server
      /\ Event(type, work.server, Available(work.server) # {}, offer).type = type
  BY DEF Event
<1> QED
  BY <1>1, <1>2, PostKeeps

\* No step of the worker loses a request: it is queued, served, or answered.
LEMMA WorkerKeeps ==
    ASSUME OtherTypes, Worker, NEW s
    PROVE  (Redeeming(s) => Redeeming(s)') /\ (Loading(s) => Loading(s)')
<1>1. CASE Take
  <2>1. \A k \in DOMAIN fetch :
          (k = 1 /\ work' = fetch[k]) \/ (k - 1 \in DOMAIN fetch' /\ fetch'[k - 1] = fetch[k])
    BY <1>1 DEF Take, OtherTypes
  <2>2. work.op = "none" /\ UNCHANGED app
    BY <1>1 DEF Take, NoWork, Request
  <2> QED
    BY <2>1, <2>2 DEF Redeeming, Loading, Underway
<1>2. CASE LoadUsage
  BY <1>2, ReadsKeeps, FailedKeeps DEF LoadUsage, Redeeming, Loading
<1>3. CASE Consume
  <2>1. work'.op = "reload" /\ work'.server = work.server
    BY <1>3 DEF Consume, OtherTypes, Requests
  <2> QED
    BY <1>3, <2>1 DEF Consume, Redeeming, Loading, Underway
<1>4. CASE ConsumeFails
  BY <1>4, FailedKeeps DEF ConsumeFails, Redeeming, Loading
<1>5. CASE Reload
  BY <1>5, ReadsKeeps, FailedKeeps DEF Reload, Redeeming, Loading
<1> QED
  BY <1>1, <1>2, <1>3, <1>4, <1>5 DEF Worker

\* An event that is handled was waited for only if it bears the server and a type
\* of the answer.
LEMMA ReceivingKeeps ==
    ASSUME OtherTypes, NEW s, NEW ops, NEW types, NEW handled, Receiving(handled),
           ~(Head(app).server = s /\ Head(app).type \in types)
    PROVE  Underway(s, ops, types) => Underway(s, ops, types)'
<1>1. \A k \in DOMAIN app :
        (k = 1 /\ Head(app) = app[k]) \/ (k - 1 \in DOMAIN app' /\ app'[k - 1] = app[k])
  BY DEF Receiving, OtherTypes
<1>2. UNCHANGED <<fetch, work>>
  BY DEF Receiving
<1> QED
  BY <1>1, <1>2 DEF Underway

LEMMA UserStepWait ==
    ASSUME OtherTypes, WaitInv, UserStep
    PROVE  WaitInv'
<1> USE DEF WaitInv, OnlyShownWaits, ModalWaitIsBacked
<1>0. modal \in Modals /\ modal.server \in Server \cup {NoServer} /\ UNCHANGED <<work, app>>
  BY DEF OtherTypes, Modals, UserStep, OpenUsage, Refresh, CloseUsage, AskRedeem, Decline,
         ConfirmRedeem
<1>1. ASSUME NEW s \in Server, OpenUsage(s) PROVE WaitInv'
  <2>1. PICK ok \in BOOLEAN :
          /\ modal' = [Closed EXCEPT !.mode = "usage", !.server = s, !.loading = ok]
          /\ IF ok THEN Scheduled(UsageLoad(s)) ELSE NotScheduled
    BY <1>1 DEF OpenUsage
  <2>2. /\ modal'.mode = "usage" /\ modal'.server = s /\ modal'.loading = ok
        /\ modal'.redeeming = FALSE
    BY <2>1 DEF Closed
  <2>3. UsageLoad(s) \in Requests /\ UsageLoad(s).server = s /\ UsageLoad(s).op = "usage"
    BY UsageLoadType DEF UsageLoad, Request
  <2>4. ok => Loading(s)'
    BY <1>0, <2>1, <2>3, ScheduledKeeps DEF Loading
  <2> QED
    BY <2>2, <2>4 DEF Loading
<1>2. CASE Refresh
  <2>1. PICK ok \in BOOLEAN :
          /\ modal' = [modal EXCEPT !.loading = ok]
          /\ IF ok THEN Scheduled(UsageLoad(modal.server)) ELSE NotScheduled
    BY <1>2 DEF Refresh
  <2>2. /\ modal'.mode = modal.mode /\ modal'.server = modal.server /\ modal'.loading = ok
        /\ modal'.redeeming = modal.redeeming
    BY <1>0, <2>1 DEF Modals
  <2>3. /\ UsageLoad(modal.server) \in Requests
        /\ UsageLoad(modal.server).server = modal.server
        /\ UsageLoad(modal.server).op = "usage"
    BY <1>0, UsageLoadType DEF UsageLoad, Request
  <2>4. ok => Loading(modal.server)'
    <3>1. ASSUME NEW s, s = modal.server, ok PROVE Loading(s)'
      BY <1>0, <2>1, <2>3, <3>1, ScheduledKeeps DEF Loading
    <3> QED
      BY <2>2, <3>1
  <2> QED
    BY <1>2, <2>2, <2>4 DEF Refresh, Loading
<1>3. CASE CloseUsage
  BY <1>3 DEF CloseUsage, Closed
<1>4. CASE AskRedeem
  <2>1. ~modal'.redeeming /\ ~modal'.loading
    BY <1>0, <1>4 DEF AskRedeem, Modals
  <2> QED
    BY <2>1
<1>5. CASE Decline
  <2>1. ~modal'.redeeming /\ ~modal'.loading
    BY <1>0, <1>5 DEF Decline, Modals
  <2> QED
    BY <2>1
<1>6. CASE ConfirmRedeem
  <2> DEFINE r == Request("consume", modal.server, KeyToUse, modal.credit)
  <2>1. PICK ok \in BOOLEAN :
          /\ modal' = [modal EXCEPT !.mode = "usage", !.redeeming = ok, !.key = r.key]
          /\ IF ok THEN Scheduled(r) /\ sent' = sent \cup {r}
             ELSE NotScheduled /\ UNCHANGED sent
    BY <1>6 DEF ConfirmRedeem
  <2>2. /\ modal'.mode = "usage" /\ modal'.server = modal.server
        /\ modal'.loading = modal.loading /\ modal'.redeeming = ok
    BY <1>0, <2>1 DEF Modals
  <2>3. ~modal.loading
    BY <1>6 DEF ConfirmRedeem
  <2>4. r \in Requests
    <3>1. KeyToUse \in Key0
      BY <1>0, <1>6, ResetAssumption DEF ConfirmRedeem, KeyToUse, OtherTypes, Modals, Key0
    <3>2. modal.credit \in Credit \cup {NoCredit}
      BY <1>0 DEF Modals
    <3> QED
      BY <1>0, <3>1, <3>2 DEF Request, Requests
  <2>5. r.server = modal.server /\ r.op = "consume"
    BY DEF Request
  <2>6. ok => Redeeming(modal.server)'
    <3> HIDE DEF r
    <3>1. ASSUME NEW s, s = modal.server, ok PROVE Redeeming(s)'
      BY <1>0, <2>1, <2>4, <2>5, <3>1, ScheduledKeeps DEF Redeeming
    <3> QED
      BY <2>2, <3>1
  <2> QED
    BY <2>2, <2>3, <2>6
<1> QED
  BY <1>1, <1>2, <1>3, <1>4, <1>5, <1>6 DEF UserStep

\* The event a modal waits for ends its wait; the others leave the wait backed.
LEMMA AppStepWait ==
    ASSUME OtherTypes, WaitInv, AppStep
    PROVE  WaitInv'
<1> USE DEF WaitInv, OnlyShownWaits, ModalWaitIsBacked
<1> DEFINE e == Head(app)
<1>0. modal \in Modals /\ \E types : Receiving(types)
  BY DEF OtherTypes, AppStep, HandleLoaded, HandleLoadFailed, HandleConsumedOnly,
         HandleConsumeFailed
<1>1. /\ modal'.mode = modal.mode /\ modal'.server = modal.server
      /\ modal'.redeeming => modal.redeeming
      /\ modal'.loading => modal.loading
      /\ Shown(e) /\ e.type \in {"consumed", "consumedOnly", "consumeFailed"} => ~modal'.redeeming
      /\ Shown(e) /\ e.type \in {"loaded", "loadFailed"} => ~modal'.loading
  <2>1. CASE HandleLoaded
    BY <1>0, <2>1 DEF HandleLoaded, Receiving, Loaded, Modals
  <2>2. CASE HandleLoadFailed
    BY <1>0, <2>2 DEF HandleLoadFailed, Receiving, Modals
  <2>3. CASE HandleConsumedOnly
    BY <1>0, <2>3 DEF HandleConsumedOnly, Receiving, Modals
  <2>4. CASE HandleConsumeFailed
    BY <1>0, <2>4 DEF HandleConsumeFailed, Receiving, Modals
  <2> QED
    BY <2>1, <2>2, <2>3, <2>4 DEF AppStep
<1>2. ASSUME modal'.redeeming PROVE Redeeming(modal.server)'
  <2>1. modal.mode = "usage" /\ Redeeming(modal.server)
    BY <1>1, <1>2
  <2>2. ~(e.server = modal.server /\ e.type \in {"consumed", "consumedOnly", "consumeFailed"})
    BY <1>1, <1>2, <2>1 DEF Shown
  <2>3. ASSUME NEW s, s = modal.server PROVE Redeeming(s)'
    BY <1>0, <2>1, <2>2, <2>3, ReceivingKeeps DEF Redeeming
  <2> QED
    BY <1>1, <2>3
<1>3. ASSUME modal'.loading PROVE Loading(modal.server)'
  <2>1. modal.mode = "usage" /\ Loading(modal.server)
    BY <1>1, <1>3 DEF Loading
  <2>2. ~(e.server = modal.server /\ e.type \in {"loaded", "loadFailed"})
    BY <1>1, <1>3, <2>1 DEF Shown
  <2>3. ASSUME NEW s, s = modal.server PROVE Loading(s)'
    BY <1>0, <2>1, <2>2, <2>3, ReceivingKeeps DEF Loading
  <2> QED
    BY <1>1, <2>3
<1> HIDE DEF e
<1> QED
  BY <1>1, <1>2, <1>3 DEF Loading

\* A modal that refuses to close, or shows a load, waits for an answer that is on
\* its way: no refused request, lost answer or reopened modal locks it.
THEOREM ModalWaits == Spec => []ModalWaitIsBacked
<1>1. Init => WaitInv
  BY DEF Init, WaitInv, OnlyShownWaits, ModalWaitIsBacked, Closed
<1>2. ResetInv /\ WaitInv /\ [Next]_vars => WaitInv'
  <2> SUFFICES ASSUME OtherTypes, WaitInv, [Next]_vars PROVE WaitInv'
    BY ResetInvParts
  <2> USE DEF WaitInv, OnlyShownWaits, ModalWaitIsBacked
  <2>1. CASE UNCHANGED <<modal, fetch, work, app>>
    BY <2>1 DEF Redeeming, Underway
  <2>2. CASE UserStep
    BY <2>2, UserStepWait
  <2>3. CASE Overtaken
    BY <2>3 DEF Overtaken, Closed
  <2>4. CASE Worker
    <3>1. UNCHANGED modal
      BY <2>4 DEF Worker, Take, LoadUsage, Consume, ConsumeFails, Reload
    <3>2. ASSUME NEW s PROVE (Redeeming(s) => Redeeming(s)') /\ (Loading(s) => Loading(s)')
      BY <2>4, WorkerKeeps
    <3> QED
      BY <3>1, <3>2 DEF Loading
  <2>5. CASE AppStep
    BY <2>5, AppStepWait
  <2>6. CASE ServerStep
    BY <2>1, <2>6 DEF ServerStep, Granted, SpentElsewhere
  <2> QED
    BY <2>1, <2>2, <2>3, <2>4, <2>5, <2>6 DEF Next, vars
<1>3. WaitInv => ModalWaitIsBacked
  BY DEF WaitInv
<1> QED
  BY <1>1, <1>2, <1>3, ResetInvariant, PTL DEF Spec

=============================================================================
