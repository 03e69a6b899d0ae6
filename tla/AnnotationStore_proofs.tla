----------------------- MODULE AnnotationStore_proofs -----------------------
(***************************************************************************)
(* The annotation store for every number of tasks and processes: the       *)
(* inductive invariant StoreInv, the fate of the notes of live threads,    *)
(* and that the store implements the atomic map.                           *)
(***************************************************************************)
EXTENDS AnnotationStore, TLAPS

\* A file that is not torn holds a map.
LEMMA ContentsIsMap ==
    ASSUME NEW f \in Files, f.data # Torn
    PROVE  Contents(f) \in Maps
BY StoreAssumption DEF Contents, Files, Maps, Empty

\* Writing a text gives a map again.
LEMMA WrittenIsMap ==
    ASSUME NEW m \in Maps, NEW ths, NEW x \in Text \cup {NoText}
    PROVE  Written(m, ths, x) \in Maps
BY DEF Written, Maps

\* The initial state.
LEMMA InitInv == Init => StoreInv
<1> SUFFICES ASSUME Init PROVE StoreInv
    OBVIOUS
<1>1. Empty \in Maps
    BY DEF Empty, Maps
<1>2. NoCommand \in Commands
    BY <1>1 DEF NoCommand, Command, Commands
<1>3. TypeOK
    BY <1>1, <1>2, StoreAssumption DEF Init, TypeOK, NoneThere, Files, Steps
<1>4. LockHeld /\ LoadedIsCurrent /\ TempIsOwn
    BY StoreAssumption DEF Init, LockHeld, LoadedIsCurrent, TempIsOwn, Writing
<1>5. FileIsWhole
    BY StoreAssumption DEF Init, FileIsWhole, NoneThere
<1>6. TargetsGone /\ OpAtStep
    BY DEF Init, TargetsGone, OpAtStep, NoCommand, Command, Writing
<1> QED
    BY <1>3, <1>4, <1>5, <1>6 DEF StoreInv

(***************************************************************************)
(* What the steps have in common.                                          *)
(***************************************************************************)
\* The task t goes to the step next with the command c, which fits there.
Moves(t, next, c) ==
    /\ pc' = [pc EXCEPT ![t] = next]
    /\ cmd' = [cmd EXCEPT ![t] = c]
    /\ threads' \subseteq threads
    /\ c.op = "prune" \/ (c.op = "delete" /\ next # "delete")
           => c.targets \cap threads' = {}
    /\ next \in {"share", "look"} => c.op \in {"read", "prune"}
    /\ next = "check" => c.op = "prune"
    /\ next = "delete" => c.op = "delete"
    /\ next \in {"lock"} \cup Writing => c.op \in {"set", "clear", "prune", "delete"}
    /\ c.op = "set" => c.text # NoText

LEMMA CommandIsCommand ==
    ASSUME NEW op \in {"none", "set", "clear", "read", "prune", "delete"},
           NEW ths \in SUBSET Thread, NEW x \in Text \cup {NoText}
    PROVE  /\ Command(op, ths, x) \in Commands
           /\ Command(op, ths, x).op = op
           /\ Command(op, ths, x).targets = ths
           /\ Command(op, ths, x).text = x
<1>1. Empty \in Maps
    BY DEF Empty, Maps
<1> QED
    BY <1>1 DEF Command, Commands

\* The step is one of the atomic map, or none at all.
Refines == Abstract!Next \/ UNCHANGED Abstract!vars

\* The conjuncts about the commands follow for every step.
LEMMA MovesInv ==
    ASSUME StoreInv, NEW t \in Task, NEW next \in Steps, NEW c \in Commands,
           Moves(t, next, c)
    PROVE  /\ pc' \in [Task -> Steps]
           /\ cmd' \in [Task -> Commands]
           /\ threads' \subseteq Thread
           /\ TargetsGone'
           /\ OpAtStep'
           /\ pc'[t] = next /\ cmd'[t] = c
           /\ \A u \in Task \ {t} : pc'[u] = pc[u] /\ cmd'[u] = cmd[u]
<1>1. /\ pc'[t] = next /\ cmd'[t] = c
      /\ \A u \in Task \ {t} : pc'[u] = pc[u] /\ cmd'[u] = cmd[u]
    BY DEF Moves, StoreInv, TypeOK
<1>2. /\ pc' \in [Task -> Steps]
      /\ cmd' \in [Task -> Commands]
      /\ threads' \subseteq Thread
    BY DEF Moves, StoreInv, TypeOK
<1>3. TargetsGone'
    BY <1>1 DEF Moves, StoreInv, TargetsGone
<1>4. OpAtStep'
    BY <1>1 DEF Moves, StoreInv, OpAtStep
<1> QED
    BY <1>1, <1>2, <1>3, <1>4

\* A step of one task changes the call of no other.
LEMMA CallOfOne ==
    ASSUME NEW t \in Task,
           \A u \in Task : u # t => pc'[u] = pc[u] /\ cmd'[u] = cmd[u]
    PROVE  Call' = [Call EXCEPT ![t] = Call'[t]]
BY DEF Call

\* A task that begins to wait for the lock asks.
LEMMA AskRefines ==
    ASSUME StoreInv, NEW t \in Task, NEW c \in Commands, Moves(t, "lock", c),
           pc[t] \notin {"lock"} \cup Writing, UNCHANGED fileVars
    PROVE  Refines
<1>1. /\ pc'[t] = "lock" /\ cmd'[t] = c
      /\ \A u \in Task : u # t => pc'[u] = pc[u] /\ cmd'[u] = cmd[u]
    BY MovesInv DEF Steps
<1>2. /\ Call[t] = NoCall
      /\ Call'[t] = [threads |-> c.targets, text |-> c.text, taken |-> FALSE]
    BY <1>1 DEF Call
<1>3. c.targets \in SUBSET Thread /\ c.text \in Text \cup {NoText}
    BY DEF Commands
<1>4. Abstract!Ask(t)
    BY <1>1, <1>2, <1>3, CallOfOne DEF Abstract!Ask, Abstract!Update, fileVars, Contents
<1> QED
    BY <1>4 DEF Refines, Abstract!Next

\* A task that neither enters nor leaves an update leaves the calls as they are.
LEMMA StutterRefines ==
    ASSUME StoreInv, NEW t \in Task, NEW next \in Steps, NEW c \in Commands,
           Moves(t, next, c),
           \/ pc[t] \notin {"lock"} \cup Writing /\ next \notin {"lock"} \cup Writing
           \/ /\ pc[t] \in {"lock"} \cup Writing /\ next \in {"lock"} \cup Writing
              /\ pc[t] # "renamed" /\ next # "renamed"
              /\ c.targets = cmd[t].targets /\ c.text = cmd[t].text,
           UNCHANGED <<file, disk>>
    PROVE  Refines
<1>1. /\ pc'[t] = next /\ cmd'[t] = c
      /\ \A u \in Task : u # t => pc'[u] = pc[u] /\ cmd'[u] = cmd[u]
    BY MovesInv
<1>2. Call'[t] = Call[t]
    BY <1>1 DEF Call
<1>3. Call' = Call
    BY <1>1, <1>2 DEF Call
<1> QED
    BY <1>3 DEF Refines, Abstract!vars, Contents

\* A step of a task that holds no lock before or after it, and leaves the files.
LEMMA OutsideInv ==
    ASSUME StoreInv, NEW t \in Task, NEW next \in Steps, NEW c \in Commands,
           Moves(t, next, c),
           pc[t] \notin {"look", "lock"} \cup Writing, next \notin {"look"} \cup Writing,
           UNCHANGED <<fileVars, lockVars>>
    PROVE  StoreInv' /\ Refines
<1>1. TypeOK' /\ TargetsGone' /\ OpAtStep'
    BY MovesInv DEF StoreInv, TypeOK, fileVars, lockVars
<1>2. \A u \in Task : u # t => pc'[u] = pc[u] /\ cmd'[u] = cmd[u]
    BY MovesInv
<1>3. pc'[t] = next
    BY MovesInv
<1>4. LockHeld'
    BY <1>2, <1>3 DEF StoreInv, LockHeld, lockVars
<1>5. LoadedIsCurrent' /\ TempIsOwn'
    BY <1>2, <1>3 DEF StoreInv, LoadedIsCurrent, TempIsOwn, Updated, Contents, fileVars,
                      Writing
<1>6. FileIsWhole'
    BY DEF StoreInv, FileIsWhole, fileVars
<1>7. Refines
    BY AskRefines, StutterRefines DEF fileVars
<1> QED
    BY <1>1, <1>4, <1>5, <1>6, <1>7 DEF StoreInv

\* The end of a command fits everywhere.
LEMMA EndsMoves ==
    ASSUME NEW t \in Task, Ends(t), threads' \subseteq threads
    PROVE  Moves(t, "over", NoCommand)
BY CommandIsCommand DEF Ends, Moves, NoCommand, Writing

LEMMA NoCommandIsCommand == NoCommand \in Commands
BY CommandIsCommand DEF NoCommand

(***************************************************************************)
(* The steps outside the lock.                                             *)
(***************************************************************************)
\* Five ways to begin.
LEMMA StartInv ==
    ASSUME StoreInv, NEW t \in Task, Start(t)
    PROVE  StoreInv' /\ Refines
<1>1. CASE SetAnnotation(t)
    <2>1. PICK th \in Thread, x \in Text : Begin(t, "set", {th}, x, "lock")
        BY <1>1 DEF SetAnnotation
    <2>2. Moves(t, "lock", Command("set", {th}, x))
        BY <2>1, CommandIsCommand, StoreAssumption DEF Begin, Moves
    <2> QED
        BY <2>1, <2>2, OutsideInv, CommandIsCommand DEF Begin, Writing, Steps
<1>2. CASE ClearAnnotation(t)
    <2>1. PICK th \in Thread : Begin(t, "clear", {th}, NoText, "lock")
        BY <1>2 DEF ClearAnnotation
    <2>2. Moves(t, "lock", Command("clear", {th}, NoText))
        BY <2>1, CommandIsCommand DEF Begin, Moves
    <2> QED
        BY <2>1, <2>2, OutsideInv, CommandIsCommand DEF Begin, Writing, Steps
<1>3. CASE ReadAnnotations(t)
    <2>1. Moves(t, "share", Command("read", {}, NoText))
        BY <1>3, CommandIsCommand DEF ReadAnnotations, Begin, Moves, Writing
    <2> QED
        BY <1>3, <2>1, OutsideInv, CommandIsCommand
        DEF ReadAnnotations, Begin, Writing, Steps
<1>4. CASE Prune(t)
    <2>1. Moves(t, "share", Command("prune", {}, NoText))
        BY <1>4, CommandIsCommand DEF Prune, Begin, Moves, Writing
    <2> QED
        BY <1>4, <2>1, OutsideInv, CommandIsCommand DEF Prune, Begin, Writing, Steps
<1>5. CASE Delete(t)
    <2>1. PICK th \in Thread : Begin(t, "delete", {th}, NoText, "delete")
        BY <1>5 DEF Delete
    <2>2. Moves(t, "delete", Command("delete", {th}, NoText))
        BY <2>1, CommandIsCommand DEF Begin, Moves, Writing
    <2> QED
        BY <2>1, <2>2, OutsideInv, CommandIsCommand DEF Begin, Writing, Steps
<1> QED
    BY <1>1, <1>2, <1>3, <1>4, <1>5 DEF Start

\* The server's answer to a deletion.
LEMMA ServerDeletesInv ==
    ASSUME StoreInv, NEW t \in Task, ServerDeletes(t)
    PROVE  StoreInv' /\ Refines
<1>1. CASE Ends(t) /\ UNCHANGED threads
    BY <1>1, EndsMoves, NoCommandIsCommand, OutsideInv DEF ServerDeletes, Writing, Steps
<1>2. CASE threads' = threads \ cmd[t].targets /\ Goes(t, "lock")
    <2>1. cmd[t].op = "delete"
        BY DEF StoreInv, OpAtStep, ServerDeletes
    <2>2. cmd[t] \in Commands /\ cmd' = [cmd EXCEPT ![t] = cmd[t]]
        BY <1>2 DEF StoreInv, TypeOK, Goes
    <2>3. Moves(t, "lock", cmd[t])
        BY <1>2, <2>1, <2>2 DEF Moves, Goes
    <2> QED
        BY <2>2, <2>3, OutsideInv DEF ServerDeletes, Writing, Steps
<1> QED
    BY <1>1, <1>2 DEF ServerDeletes

\* A prune asks about one thread, which exists, or does not.
LEMMA ReadThreadInv ==
    ASSUME StoreInv, NEW t \in Task, ReadThread(t)
    PROVE  StoreInv' /\ Refines
<1> USE DEF ReadThread
<1>1. CASE Ends(t)
    BY <1>1, EndsMoves, NoCommandIsCommand, OutsideInv DEF Writing, Steps
<1>2. CASE ~Ends(t)
    <2>1. PICK th \in cmd[t].unread :
              cmd' = [cmd EXCEPT ![t].unread = @ \ {th},
                                 ![t].targets = @ \cup ({th} \ threads)]
        BY <1>2
    <2> DEFINE c == [cmd[t] EXCEPT !.unread = @ \ {th},
                                   !.targets = @ \cup ({th} \ threads)]
    <2>2. cmd[t] \in Commands /\ cmd[t].op = "prune" /\ cmd[t].targets \cap threads = {}
        BY DEF StoreInv, TypeOK, OpAtStep, TargetsGone
    <2>3. c \in Commands /\ c.op = "prune" /\ c.targets \cap threads = {}
        BY <2>2 DEF Commands
    <2>4. cmd' = [cmd EXCEPT ![t] = c]
        BY <2>1, <2>2 DEF StoreInv, TypeOK, Commands
    <2>5. pc' = [pc EXCEPT ![t] = "check"]
        BY <1>2 DEF StoreInv, TypeOK
    <2> HIDE DEF c
    <2>6. Moves(t, "check", c)
        BY <2>3, <2>4, <2>5 DEF Moves, Writing
    <2> QED
        BY <2>3, <2>6, OutsideInv DEF Writing, Steps
<1> QED
    BY <1>1, <1>2

\* A prune turns to its update, or ends.
LEMMA ClearStaleInv ==
    ASSUME StoreInv, NEW t \in Task, ClearStale(t)
    PROVE  StoreInv' /\ Refines
<1> USE DEF ClearStale
<1>1. CASE Ends(t)
    BY <1>1, EndsMoves, NoCommandIsCommand, OutsideInv DEF Writing, Steps
<1>2. CASE Goes(t, "lock")
    <2>1. cmd[t].op = "prune" /\ cmd[t].targets \cap threads = {}
        BY DEF StoreInv, OpAtStep, TargetsGone
    <2>2. cmd[t] \in Commands /\ cmd' = [cmd EXCEPT ![t] = cmd[t]]
        BY <1>2 DEF StoreInv, TypeOK, Goes
    <2>3. Moves(t, "lock", cmd[t])
        BY <1>2, <2>1, <2>2 DEF Moves, Goes
    <2> QED
        BY <2>2, <2>3, OutsideInv DEF Writing, Steps
<1> QED
    BY <1>1, <1>2

\* What follows a read of a map is a step outside the lock.
LEMMA AfterReadMoves ==
    ASSUME StoreInv, NEW t \in Task, NEW m, AfterRead(t, m), UNCHANGED threads,
           cmd[t].op \in {"read", "prune"}
    PROVE  \E next \in {"check", "over"}, c \in Commands : Moves(t, next, c)
<1>1. CASE cmd[t].op = "read"
    BY <1>1, EndsMoves, NoCommandIsCommand DEF AfterRead
<1>2. CASE cmd[t].op = "prune"
    <2> DEFINE c == [cmd[t] EXCEPT !.unread = {th \in Thread : m[th] # NoText}]
    <2>1. cmd[t] \in Commands /\ cmd[t].targets \cap threads = {}
        BY <1>2 DEF StoreInv, TypeOK, TargetsGone
    <2>2. c \in Commands /\ c.op = "prune" /\ c.targets \cap threads = {}
        BY <1>2, <2>1 DEF Commands
    <2>3. /\ cmd' = [cmd EXCEPT ![t] = c]
          /\ pc' = [pc EXCEPT ![t] = "check"]
        BY <1>2 DEF AfterRead, StoreInv, TypeOK
    <2> HIDE DEF c
    <2>4. Moves(t, "check", c)
        BY <2>2, <2>3 DEF Moves, Writing
    <2> QED
        BY <2>2, <2>4
<1> QED
    BY <1>1, <1>2

\* A read without a file.
LEMMA ReadMissingInv ==
    ASSUME StoreInv, NEW t \in Task, ReadMissing(t)
    PROVE  StoreInv' /\ Refines
<1>1. cmd[t].op \in {"read", "prune"}
    BY DEF StoreInv, OpAtStep, ReadMissing
<1>2. PICK next \in {"check", "over"}, c \in Commands : Moves(t, next, c)
    BY <1>1, AfterReadMoves DEF ReadMissing
<1>3. next \in Steps /\ next \notin {"look"} \cup Writing
    BY DEF Steps, Writing
<1> QED
    BY <1>2, <1>3, OutsideInv DEF ReadMissing, Writing

(***************************************************************************)
(* The readers.                                                            *)
(***************************************************************************)
\* A reader takes the lock.
LEMMA LockSharedInv ==
    ASSUME StoreInv, NEW t \in Task, LockShared(t)
    PROVE  StoreInv' /\ Refines
<1>1. cmd[t] \in Commands /\ cmd[t].op \in {"read", "prune"}
    BY DEF StoreInv, TypeOK, OpAtStep, LockShared
<1>2. cmd' = [cmd EXCEPT ![t] = cmd[t]]
    BY DEF LockShared, Goes, StoreInv, TypeOK
<1>3. cmd[t].op = "prune" => cmd[t].targets \cap threads = {}
    BY DEF StoreInv, TargetsGone
<1>4. Moves(t, "look", cmd[t])
    BY <1>1, <1>2, <1>3 DEF LockShared, Goes, Moves, StoreInv, TypeOK, OpAtStep, Writing
<1>5. "look" \in Steps
    BY DEF Steps
<1>6. TypeOK' /\ TargetsGone' /\ OpAtStep'
    BY <1>1, <1>4, <1>5, MovesInv DEF StoreInv, TypeOK, LockShared, fileVars
<1>7. /\ pc'[t] = "look"
      /\ \A u \in Task : u # t => pc'[u] = pc[u] /\ cmd'[u] = cmd[u]
    BY <1>1, <1>4, <1>5, MovesInv
<1>8. LockHeld'
    BY <1>7, StoreAssumption DEF StoreInv, LockHeld, LockShared, Writing
<1>9. LoadedIsCurrent' /\ TempIsOwn'
    BY <1>7 DEF StoreInv, LoadedIsCurrent, TempIsOwn, Updated, Contents, LockShared, fileVars
<1>10. FileIsWhole'
    BY DEF StoreInv, FileIsWhole, LockShared, fileVars
<1>11. Refines
    BY <1>1, <1>4, <1>5, StutterRefines DEF LockShared, fileVars, Writing
<1> QED
    BY <1>6, <1>8, <1>9, <1>10, <1>11 DEF StoreInv

\* A reader reads and gives the lock back; what it reads is not torn.
LEMMA LookInv ==
    ASSUME StoreInv, NEW t \in Task, Look(t)
    PROVE  StoreInv' /\ Refines
<1>1. cmd[t].op \in {"read", "prune"}
    BY DEF StoreInv, OpAtStep, Look
<1>2. PICK next \in {"check", "over"}, c \in Commands : Moves(t, next, c)
    BY <1>1, AfterReadMoves, EndsMoves, NoCommandIsCommand DEF Look
<1>3. next \in Steps /\ next \notin {"look"} \cup Writing
    BY DEF Steps, Writing
<1>4. TypeOK' /\ TargetsGone' /\ OpAtStep'
    BY <1>2, <1>3, MovesInv DEF StoreInv, TypeOK, Look, fileVars
<1>5. /\ pc'[t] = next
      /\ \A u \in Task : u # t => pc'[u] = pc[u] /\ cmd'[u] = cmd[u]
    BY <1>2, <1>3, MovesInv
<1>6. LockHeld'
    BY <1>3, <1>5 DEF StoreInv, LockHeld, Look, Writing
<1>7. LoadedIsCurrent' /\ TempIsOwn'
    BY <1>3, <1>5
    DEF StoreInv, LoadedIsCurrent, TempIsOwn, Updated, Contents, Look, fileVars, Writing
<1>8. FileIsWhole'
    BY DEF StoreInv, FileIsWhole, Look, fileVars
<1>9. Refines
    BY <1>2, <1>3, StutterRefines DEF Look, fileVars, Writing
<1> QED
    BY <1>4, <1>6, <1>7, <1>8, <1>9 DEF StoreInv

(***************************************************************************)
(* The writers.                                                            *)
(***************************************************************************)
\* A writer goes on with the command it has.
LEMMA WriterMoves ==
    ASSUME StoreInv, NEW t \in Task, NEW next \in Writing,
           pc[t] \in {"lock"} \cup Writing, Goes(t, next), UNCHANGED threads
    PROVE  /\ next \in Steps
           /\ cmd[t] \in Commands
           /\ Moves(t, next, cmd[t])
<1>1. cmd[t] \in Commands /\ cmd' = [cmd EXCEPT ![t] = cmd[t]]
    BY DEF Goes, StoreInv, TypeOK
<1>2. next \in Steps
    BY DEF Steps
<1>3. /\ cmd[t].op \in {"set", "clear", "prune", "delete"}
      /\ cmd[t].op = "set" => cmd[t].text # NoText
    BY DEF StoreInv, OpAtStep
<1>4. pc[t] # "delete"
    BY DEF Writing
<1>5. cmd[t].op \in {"prune", "delete"} => cmd[t].targets \cap threads = {}
    BY <1>4 DEF StoreInv, TargetsGone
<1> QED
    BY <1>1, <1>2, <1>3, <1>5 DEF Moves, Goes, Writing

\* A writer is alone: nobody else holds the lock.
LEMMA WriterAlone ==
    ASSUME StoreInv, NEW t \in Task, pc[t] \in Writing
    PROVE  /\ writer = t /\ readers = {}
           /\ \A u \in Task : u # t => pc[u] \notin Writing
BY StoreAssumption DEF StoreInv, LockHeld

\* A writer takes the lock.
LEMMA LockExclusiveInv ==
    ASSUME StoreInv, NEW t \in Task, LockExclusive(t)
    PROVE  StoreInv' /\ Refines
<1>1. /\ "load" \in Steps /\ cmd[t] \in Commands /\ Moves(t, "load", cmd[t])
    BY WriterMoves DEF LockExclusive, Writing
<1>2. TypeOK' /\ TargetsGone' /\ OpAtStep'
    BY <1>1, MovesInv DEF StoreInv, TypeOK, LockExclusive, fileVars
<1>3. /\ pc'[t] = "load"
      /\ \A u \in Task : u # t => pc'[u] = pc[u] /\ cmd'[u] = cmd[u]
    BY <1>1, MovesInv
<1>4. LockHeld'
    BY <1>3, StoreAssumption DEF StoreInv, LockHeld, LockExclusive, Writing
<1>5. LoadedIsCurrent' /\ TempIsOwn'
    BY <1>3
    DEF StoreInv, LoadedIsCurrent, TempIsOwn, Updated, Contents, LockExclusive, fileVars
<1>6. FileIsWhole'
    BY DEF StoreInv, FileIsWhole, LockExclusive, fileVars
<1>7. Refines
    BY <1>1, StutterRefines DEF LockExclusive, fileVars, Writing
<1> QED
    BY <1>2, <1>4, <1>5, <1>6, <1>7 DEF StoreInv

\* A command that gets no lock is over, and the update it asked for with it.
LEMMA LockFailsInv ==
    ASSUME StoreInv, NEW t \in Task, LockFails(t)
    PROVE  StoreInv' /\ Refines
<1>1. Moves(t, "over", NoCommand) /\ "over" \in Steps /\ NoCommand \in Commands
    BY EndsMoves, NoCommandIsCommand DEF LockFails, Steps
<1>2. CASE pc[t] = "share"
    BY <1>1, <1>2, OutsideInv DEF LockFails, Writing
<1>3. CASE pc[t] = "lock"
    <2>1. TypeOK' /\ TargetsGone' /\ OpAtStep'
        BY <1>1, MovesInv DEF StoreInv, TypeOK, LockFails, fileVars, lockVars
    <2>2. /\ pc'[t] = "over"
          /\ \A u \in Task : u # t => pc'[u] = pc[u] /\ cmd'[u] = cmd[u]
        BY <1>1, MovesInv
    <2>3. LockHeld'
        BY <1>3, <2>2 DEF StoreInv, LockHeld, LockFails, lockVars, Writing
    <2>4. LoadedIsCurrent' /\ TempIsOwn' /\ FileIsWhole'
        BY <2>2 DEF StoreInv, LoadedIsCurrent, TempIsOwn, FileIsWhole, Updated, Contents,
                    LockFails, fileVars
    <2>5. Call' = [u \in Task |-> IF u \in {t} THEN NoCall ELSE Call[u]]
        BY <2>2 DEF Call, Writing
    <2>6. Abstract!Leave({t})
        BY <2>5 DEF Abstract!Leave, Contents, LockFails, fileVars
    <2>7. Refines
        BY <2>6 DEF Refines, Abstract!Next
    <2> QED
        BY <2>1, <2>3, <2>4, <2>7 DEF StoreInv
<1> QED
    BY <1>2, <1>3 DEF LockFails

\* A writer that loads the file goes on; it is not torn.
LEMMA LoadedInv ==
    ASSUME StoreInv, NEW t \in Task, Load(t), ~Ends(t)
    PROVE  StoreInv' /\ Refines
<1> DEFINE c == [cmd[t] EXCEPT !.map = Contents(file)]
<1>1. file \in Files /\ file.data # Torn
    BY DEF StoreInv, TypeOK, FileIsWhole
<1>2. /\ pc' = [pc EXCEPT ![t] = "create"]
      /\ cmd' = [cmd EXCEPT ![t] = c]
      /\ UNCHANGED <<fileVars, lockVars, threads>>
    BY <1>1 DEF Load, lockVars, StoreInv, TypeOK
<1>3. /\ c \in Commands /\ c.map = Contents(file)
      /\ c.op = cmd[t].op /\ c.targets = cmd[t].targets /\ c.text = cmd[t].text
    BY <1>1, ContentsIsMap DEF StoreInv, TypeOK, Commands
<1> HIDE DEF c
<1>4. /\ cmd[t].op \in {"set", "clear", "prune", "delete"}
      /\ cmd[t].op = "set" => cmd[t].text # NoText
      /\ cmd[t].op \in {"prune", "delete"} => cmd[t].targets \cap threads = {}
    BY DEF StoreInv, OpAtStep, TargetsGone, Load, Writing
<1>5. Moves(t, "create", c) /\ "create" \in Steps
    BY <1>2, <1>3, <1>4 DEF Moves, Steps, Writing
<1>6. TypeOK' /\ TargetsGone' /\ OpAtStep'
    BY <1>2, <1>3, <1>5, MovesInv DEF StoreInv, TypeOK, fileVars, lockVars
<1>7. /\ pc'[t] = "create" /\ cmd'[t] = c
      /\ \A u \in Task : u # t => pc'[u] = pc[u] /\ cmd'[u] = cmd[u]
    BY <1>3, <1>5, MovesInv
<1>8. LockHeld'
    BY <1>2, <1>7 DEF StoreInv, LockHeld, Load, lockVars, Writing
<1>9. LoadedIsCurrent' /\ TempIsOwn'
    BY <1>2, <1>3, <1>7
    DEF StoreInv, LoadedIsCurrent, TempIsOwn, Updated, Contents, fileVars
<1>10. FileIsWhole'
    BY <1>2 DEF StoreInv, FileIsWhole, fileVars
<1>11. Refines
    BY <1>2, <1>3, <1>5, StutterRefines DEF Load, fileVars, Writing
<1> QED
    BY <1>6, <1>8, <1>9, <1>10, <1>11 DEF StoreInv

\* The state an update leaves is a map.
LEMMA UpdatedIsMap ==
    ASSUME StoreInv, NEW t \in Task
    PROVE  Updated(t) \in Maps
<1>1. cmd[t].map \in Maps /\ cmd[t].text \in Text \cup {NoText}
    BY DEF StoreInv, TypeOK, Commands
<1> QED
    BY <1>1, WrittenIsMap DEF Updated

\* A step of the writer that puts its temporary file.
LEMMA PutTempInv ==
    ASSUME StoreInv, NEW t \in Task, NEW data \in Maps \cup {NoFile, Torn},
           NEW synced \in BOOLEAN, NEW next \in {"write", "sync", "rename"},
           pc[t] \in {"create", "write", "sync", "rename"},
           PutTemp(t, data, synced, next),
           next \in {"sync", "rename"} => data = Updated(t),
           next = "rename" => synced
    PROVE  StoreInv' /\ Refines
<1>1. pc[t] \in Writing /\ next \in Writing
    BY DEF Writing
<1>2. next \in Steps /\ cmd[t] \in Commands /\ Moves(t, next, cmd[t])
    BY <1>1, WriterMoves DEF PutTemp
<1>3. temp' \in [Process -> Files] /\ temp'[Pid[t]] = [data |-> data, synced |-> synced]
    BY StoreAssumption DEF PutTemp, StoreInv, TypeOK, Files
<1>4. TypeOK' /\ TargetsGone' /\ OpAtStep'
    BY <1>2, <1>3, MovesInv DEF StoreInv, TypeOK, PutTemp, lockVars
<1>5. /\ pc'[t] = next /\ cmd'[t] = cmd[t]
      /\ \A u \in Task : u # t => pc'[u] = pc[u] /\ cmd'[u] = cmd[u]
    BY <1>2, MovesInv
<1>6. LockHeld'
    BY <1>1, <1>5 DEF StoreInv, LockHeld, PutTemp, lockVars, Writing
<1>7. \A u \in Task : u # t => pc'[u] \notin Writing
    BY <1>1, <1>5, WriterAlone
<1>8. LoadedIsCurrent'
    BY <1>5, <1>7 DEF StoreInv, LoadedIsCurrent, Contents, PutTemp, Writing
<1>9. TempIsOwn'
    BY <1>3, <1>5, <1>7 DEF TempIsOwn, Updated, PutTemp, Writing
<1>10. FileIsWhole'
    BY DEF StoreInv, FileIsWhole, PutTemp
<1>11. Refines
    BY <1>1, <1>2, StutterRefines DEF PutTemp, Writing
<1> QED
    BY <1>4, <1>6, <1>8, <1>9, <1>10, <1>11 DEF StoreInv

\* Creating, filling and syncing the temporary file.
LEMMA TempInv ==
    ASSUME StoreInv, NEW t \in Task, CreateTemp(t) \/ WriteTemp(t) \/ SyncTemp(t)
    PROVE  StoreInv' /\ Refines
<1>1. CASE CreateTemp(t)
    BY <1>1, PutTempInv DEF CreateTemp
<1>2. CASE WriteTemp(t)
    BY <1>2, PutTempInv, UpdatedIsMap DEF WriteTemp
<1>3. CASE SyncTemp(t)
    <2>1. temp[Pid[t]].data = Updated(t) /\ Updated(t) \in Maps
        BY <1>3, UpdatedIsMap DEF SyncTemp, StoreInv, TempIsOwn
    <2> QED
        BY <1>3, <2>1, PutTempInv DEF SyncTemp
<1> QED
    BY <1>1, <1>2, <1>3

\* A writer gives the lock back, with the file whole.
LEMMA ReleaseInv ==
    ASSUME StoreInv, NEW t \in Task, pc[t] \in Writing, Ends(t),
           writer' = NoTask, UNCHANGED <<file, readers, threads>>,
           temp' \in [Process -> Files], disk' \in {disk, file}
    PROVE  StoreInv' /\ Refines
<1>1. Moves(t, "over", NoCommand) /\ "over" \in Steps /\ NoCommand \in Commands
    BY EndsMoves, NoCommandIsCommand DEF Steps
<1>2. TypeOK' /\ TargetsGone' /\ OpAtStep'
    BY <1>1, MovesInv DEF StoreInv, TypeOK
<1>3. /\ pc'[t] = "over"
      /\ \A u \in Task : u # t => pc'[u] = pc[u] /\ cmd'[u] = cmd[u]
    BY <1>1, MovesInv
<1>4. \A u \in Task : pc'[u] \notin Writing
    BY <1>3, WriterAlone DEF Writing
<1>5. LockHeld'
    BY <1>3, <1>4, WriterAlone, StoreAssumption DEF StoreInv, LockHeld
<1>6. LoadedIsCurrent' /\ TempIsOwn'
    BY <1>4 DEF LoadedIsCurrent, TempIsOwn, Writing
<1>7. FileIsWhole'
    BY DEF StoreInv, FileIsWhole
<1>8. Call' = [u \in Task |-> IF u \in {t} THEN NoCall ELSE Call[u]]
    BY <1>3 DEF Call, Writing
<1>9. Abstract!Leave({t})
    BY <1>8 DEF Abstract!Leave, Contents
<1>10. Refines
    BY <1>9 DEF Refines, Abstract!Next
<1> QED
    BY <1>2, <1>5, <1>6, <1>7, <1>10 DEF StoreInv

\* A writer loads the file, or gives up.
LEMMA LoadInv ==
    ASSUME StoreInv, NEW t \in Task, Load(t)
    PROVE  StoreInv' /\ Refines
<1>1. CASE Ends(t)
    <2>1. pc[t] \in Writing /\ pc' = [pc EXCEPT ![t] = "over"]
        BY <1>1 DEF Load, Writing, Ends
    <2>2. writer' = NoTask
        BY <2>1 DEF Load, StoreInv, TypeOK
    <2> QED
        BY <1>1, <2>1, <2>2, ReleaseInv DEF Load, fileVars, StoreInv, TypeOK
<1> QED
    BY <1>1, LoadedInv

LEMMA WriteFailsInv ==
    ASSUME StoreInv, NEW t \in Task, WriteFails(t)
    PROVE  StoreInv' /\ Refines
<1>1. temp' \in [Process -> Files]
    BY DEF WriteFails, StoreInv, TypeOK, NoneThere, Files
<1> QED
    BY <1>1, ReleaseInv DEF WriteFails, Writing

LEMMA ReturnInv ==
    ASSUME StoreInv, NEW t \in Task, Return(t)
    PROVE  StoreInv' /\ Refines
BY ReleaseInv DEF Return, Writing, StoreInv, TypeOK

\* The rename: the file is then what the writer wrote.
LEMMA RenameInv ==
    ASSUME StoreInv, NEW t \in Task, Rename(t)
    PROVE  StoreInv' /\ Refines
<1>1. pc[t] \in Writing
    BY DEF Rename, Writing
<1>2. "renamed" \in Steps /\ cmd[t] \in Commands /\ Moves(t, "renamed", cmd[t])
    BY <1>1, WriterMoves DEF Rename, Writing
<1>3. /\ temp' \in [Process -> Files] /\ file' \in Files
      /\ file'.data = Updated(t) /\ file'.synced
    BY StoreAssumption DEF Rename, StoreInv, TypeOK, TempIsOwn, NoneThere, Files
<1>4. TypeOK' /\ TargetsGone' /\ OpAtStep'
    BY <1>2, <1>3, MovesInv DEF StoreInv, TypeOK, Rename, lockVars
<1>5. /\ pc'[t] = "renamed" /\ cmd'[t] = cmd[t]
      /\ \A u \in Task : u # t => pc'[u] = pc[u] /\ cmd'[u] = cmd[u]
    BY <1>2, MovesInv
<1>6. LockHeld'
    BY <1>1, <1>5 DEF StoreInv, LockHeld, Rename, lockVars, Writing
<1>7. \A u \in Task : u # t => pc'[u] \notin Writing
    BY <1>1, <1>5, WriterAlone
<1>8. LoadedIsCurrent' /\ TempIsOwn'
    BY <1>5, <1>7 DEF LoadedIsCurrent, TempIsOwn, Writing
<1>9. FileIsWhole'
    BY <1>3, UpdatedIsMap, StoreAssumption DEF StoreInv, FileIsWhole, Rename
<1>10. Contents(file') = Written(Contents(file), cmd[t].targets, cmd[t].text)
    BY <1>3, UpdatedIsMap, StoreAssumption
    DEF StoreInv, LoadedIsCurrent, Rename, Contents, Updated
<1>11. /\ Call[t] = [threads |-> cmd[t].targets, text |-> cmd[t].text, taken |-> FALSE]
       /\ Call'[t] = [threads |-> cmd[t].targets, text |-> cmd[t].text, taken |-> TRUE]
    BY <1>1, <1>5 DEF Call, Rename, Writing
<1>12. cmd[t].targets \in SUBSET Thread /\ cmd[t].text \in Text \cup {NoText}
    BY <1>2 DEF Commands
<1>13. Call[t] \in [threads : SUBSET Thread, text : Text \cup {NoText}, taken : BOOLEAN]
    BY <1>11, <1>12
<1>14. Call' = [Call EXCEPT ![t] = Abstract!Update(@.threads, @.text, TRUE)]
    <2>1. Call'[t] = Abstract!Update(Call[t].threads, Call[t].text, TRUE)
        BY <1>11 DEF Abstract!Update
    <2>2. \A u \in Task : u # t => Call'[u] = Call[u]
        BY <1>5 DEF Call
    <2>3. Call = [u \in Task |-> Call[u]] /\ Call' = [u \in Task |-> Call'[u]]
        BY DEF Call
    <2> QED
        BY <2>1, <2>2, <2>3
<1>15. Abstract!Take(t)
    <2>1. Call[t] # NoCall
        BY <1>13, StoreAssumption
    <2>2. Contents(file') = Abstract!Written(Contents(file), Call[t].threads, Call[t].text)
        BY <1>10, <1>11 DEF Abstract!Written, Written
    <2> QED
        BY <1>11, <1>14, <2>1, <2>2 DEF Abstract!Take, Contents, Rename
<1>16. Refines
    BY <1>15 DEF Refines, Abstract!Next
<1> QED
    BY <1>4, <1>6, <1>8, <1>9, <1>16 DEF StoreInv

(***************************************************************************)
(* The failures.                                                           *)
(***************************************************************************)
\* Tasks that are gone no longer disturb the conjuncts about commands.
LEMMA GoneInv ==
    ASSUME StoreInv, NEW tasks, Gone(tasks), UNCHANGED threads
    PROVE  /\ pc' \in [Task -> Steps]
           /\ cmd' \in [Task -> Commands]
           /\ TargetsGone'
           /\ OpAtStep'
<1>1. /\ NoCommand \in Commands /\ NoCommand.op = "none"
    BY NoCommandIsCommand, CommandIsCommand DEF NoCommand
<1>2. \A t \in Task : /\ pc'[t] = IF t \in tasks THEN "over" ELSE pc[t]
                      /\ cmd'[t] = IF t \in tasks THEN NoCommand ELSE cmd[t]
    BY DEF Gone
<1>3. pc' \in [Task -> Steps] /\ cmd' \in [Task -> Commands]
    BY <1>1 DEF Gone, StoreInv, TypeOK, Steps
<1>4. TargetsGone'
    BY <1>1, <1>2 DEF StoreInv, TargetsGone
<1>5. OpAtStep'
    BY <1>1, <1>2 DEF StoreInv, OpAtStep, Writing
<1> QED
    BY <1>3, <1>4, <1>5

LEMMA DieInv ==
    ASSUME StoreInv, NEW p \in Process, Die(p)
    PROVE  StoreInv' /\ Refines
<1> DEFINE tasks == {t \in Task : Pid[t] = p}
<1>1. Gone(tasks)
    BY DEF Die
<1>2. \A t \in Task : /\ Pid[t] = p => pc'[t] = "over"
                      /\ Pid[t] # p => pc'[t] = pc[t] /\ cmd'[t] = cmd[t]
    BY DEF Die, Gone
<1> HIDE DEF tasks
<1>3. TypeOK' /\ TargetsGone' /\ OpAtStep'
    BY <1>1, GoneInv DEF StoreInv, TypeOK, Die, fileVars
<1>4. LockHeld'
    BY <1>2, StoreAssumption DEF StoreInv, TypeOK, LockHeld, Die, Writing
<1>5. LoadedIsCurrent' /\ TempIsOwn'
    BY <1>2 DEF StoreInv, LoadedIsCurrent, TempIsOwn, Updated, Contents, Die, fileVars
<1>6. FileIsWhole'
    BY DEF StoreInv, FileIsWhole, Die, fileVars
<1>7. Call' = [t \in Task |-> IF t \in tasks THEN NoCall ELSE Call[t]]
    BY <1>1 DEF Call, Gone, Writing
<1>8. Abstract!Leave(tasks) /\ tasks \in SUBSET Task
    BY <1>7 DEF Abstract!Leave, Contents, Die, fileVars, tasks
<1>9. Refines
    BY <1>8 DEF Refines, Abstract!Next
<1> QED
    BY <1>3, <1>4, <1>5, <1>6, <1>9 DEF StoreInv

LEMMA PowerLossInv ==
    ASSUME StoreInv, PowerLoss
    PROVE  StoreInv' /\ Refines
<1>1. \A f \in Files : Survives(f) \in Files
    BY DEF Survives, Files
<1>2. \A t \in Task : pc'[t] \in {"ready", "over"}
    BY DEF PowerLoss, Gone, Busy
<1>3. TypeOK' /\ TargetsGone' /\ OpAtStep'
    BY <1>1, GoneInv DEF StoreInv, TypeOK, PowerLoss
<1>4. LockHeld'
    BY <1>2, StoreAssumption DEF LockHeld, PowerLoss, Writing
<1>5. LoadedIsCurrent' /\ TempIsOwn'
    BY <1>2 DEF LoadedIsCurrent, TempIsOwn
<1>6. FileIsWhole'
    BY DEF StoreInv, FileIsWhole, PowerLoss, Survives
<1>7. Call' = [t \in Task |-> NoCall]
    BY <1>2 DEF Call, Writing
<1>8. file' \in {file, disk} /\ disk' = file'
    BY DEF PowerLoss, Survives, StoreInv, FileIsWhole
<1>9. Abstract!PowerLoss
    BY <1>7, <1>8 DEF Abstract!PowerLoss, Contents
<1>10. Refines
    BY <1>9 DEF Refines, Abstract!Next
<1> QED
    BY <1>3, <1>4, <1>5, <1>6, <1>10 DEF StoreInv

LEMMA ThreadGoesInv ==
    ASSUME StoreInv, ThreadGoes
    PROVE  StoreInv' /\ Refines
<1>1. threads' \subseteq threads /\ UNCHANGED <<file, disk, temp, writer, readers, pc, cmd>>
    BY DEF ThreadGoes, fileVars, lockVars
<1>2. TypeOK' /\ LockHeld' /\ OpAtStep'
    BY <1>1 DEF StoreInv, TypeOK, LockHeld, OpAtStep
<1>3. LoadedIsCurrent' /\ TempIsOwn' /\ FileIsWhole'
    BY <1>1 DEF StoreInv, LoadedIsCurrent, TempIsOwn, FileIsWhole, Updated, Contents
<1>4. TargetsGone'
    BY <1>1 DEF StoreInv, TargetsGone
<1>5. Refines
    BY <1>1 DEF Refines, Abstract!vars, Contents, Call
<1> QED
    BY <1>2, <1>3, <1>4, <1>5 DEF StoreInv

\* Every step preserves the invariant, and is a step of the atomic map or none.
LEMMA NextInv == StoreInv /\ [Next]_vars => StoreInv' /\ Refines
<1> SUFFICES ASSUME StoreInv, [Next]_vars PROVE StoreInv' /\ Refines
    OBVIOUS
<1>1. CASE UNCHANGED vars
    BY <1>1 DEF vars, fileVars, lockVars, StoreInv, TypeOK, LockHeld, LoadedIsCurrent,
                TempIsOwn, FileIsWhole, TargetsGone, OpAtStep, Updated, Contents, Refines,
                Abstract!vars, Call
<1>2. ASSUME NEW t \in Task, Start(t) PROVE StoreInv' /\ Refines
    BY <1>2, StartInv
<1>3. ASSUME NEW t \in Task, Step(t) PROVE StoreInv' /\ Refines
    BY <1>3, ServerDeletesInv, ReadThreadInv, ClearStaleInv, ReadMissingInv, LockSharedInv,
       LookInv, LockExclusiveInv, LoadInv, TempInv, WriteFailsInv, RenameInv, ReturnInv
    DEF Step
<1>4. ASSUME NEW t \in Task, LockFails(t) PROVE StoreInv' /\ Refines
    BY <1>4, LockFailsInv
<1>5. ASSUME NEW p \in Process, Die(p) PROVE StoreInv' /\ Refines
    BY <1>5, DieInv
<1>6. CASE PowerLoss
    BY <1>6, PowerLossInv
<1>7. CASE ThreadGoes
    BY <1>7, ThreadGoesInv
<1> QED
    BY <1>1, <1>2, <1>3, <1>4, <1>5, <1>6, <1>7 DEF Next

\* The lock is exclusive, no update is lost, the file is always whole and a prune
\* clears only what is gone, for every number of tasks, processes and threads.
THEOREM StoreInvariant == Spec => []StoreInv
<1>1. Init => StoreInv
    BY InitInv
<1>2. StoreInv /\ [Next]_vars => StoreInv'
    BY NextInv
<1> QED
    BY <1>1, <1>2, PTL DEF Spec

(***************************************************************************)
(* The notes of the threads that exist.                                    *)
(***************************************************************************)
\* Only a clear takes away the note of a thread that exists: what a prune, a
\* deletion or a set renames over the file keeps it.
LEMMA RenameKeepsNotes ==
    ASSUME StoreInv, NEW t \in Task, Rename(t), NEW th \in threads,
           Contents(file)[th] # NoText, Contents(file')[th] = NoText
    PROVE  cmd[t].op = "clear" /\ th \in cmd[t].targets /\ pc[t] = "rename"
<1>1. pc[t] = "rename" /\ th \in Thread
    BY DEF Rename, StoreInv, TypeOK
<1>2. file'.data = Updated(t) /\ file'.data # NoFile
    BY UpdatedIsMap, StoreAssumption, <1>1 DEF Rename, StoreInv, TempIsOwn
<1>3. Contents(file') = Written(Contents(file), cmd[t].targets, cmd[t].text)
    BY <1>1, <1>2 DEF Contents, Updated, StoreInv, LoadedIsCurrent
<1>4. th \in cmd[t].targets /\ cmd[t].text = NoText
    BY <1>1, <1>3 DEF Written
<1>5. cmd[t].op \in {"set", "clear", "prune", "delete"}
    BY <1>1 DEF StoreInv, OpAtStep, Writing
<1> QED
    BY <1>1, <1>4, <1>5 DEF StoreInv, OpAtStep, TargetsGone

\* Every other step leaves the contents of the file, or falls back to the disk.
LEMMA FileChanges ==
    ASSUME StoreInv, [Next]_vars, Contents(file') # Contents(file)
    PROVE  (\E t \in Task : Rename(t)) \/ file' = disk
<1>1. CASE PowerLoss
    BY <1>1 DEF PowerLoss, Survives, StoreInv, FileIsWhole
<1>2. CASE ~PowerLoss
    <2>1. ASSUME NEW t \in Task, Start(t) PROVE UNCHANGED file
        BY <2>1 DEF Start, SetAnnotation, ClearAnnotation, ReadAnnotations, Prune, Delete,
                    Begin, fileVars
    <2>2. ASSUME NEW t \in Task, Step(t), ~Rename(t) PROVE UNCHANGED file
        BY <2>2 DEF Step, ServerDeletes, ReadThread, ClearStale, ReadMissing, LockShared,
                    Look, LockExclusive, Load, CreateTemp, WriteTemp, SyncTemp, PutTemp,
                    WriteFails, Return, fileVars
    <2>3. ASSUME NEW p \in Process, Die(p) PROVE UNCHANGED file
        BY <2>3 DEF Die, fileVars
    <2>4. ASSUME NEW t \in Task, LockFails(t) PROVE UNCHANGED file
        BY <2>4 DEF LockFails, fileVars
    <2>5. ThreadGoes \/ UNCHANGED vars => UNCHANGED file
        BY DEF ThreadGoes, vars, fileVars
    <2> QED
        BY <1>2, <2>1, <2>2, <2>3, <2>4, <2>5 DEF Next
<1> QED
    BY <1>1, <1>2

\* Neither a prune that races with the server nor a deletion that fails costs a
\* thread that exists its note.
THEOREM LiveNotesAreKept == Spec => LiveNotesKept
<1> DEFINE Kept(th) ==
        Contents(file)[th] # NoText /\ Contents(file')[th] = NoText =>
            \/ \E t \in Task : /\ cmd[t].op = "clear" /\ th \in cmd[t].targets
                             /\ pc[t] = "rename"
            \/ file' = disk
<1>1. StoreInv /\ [Next]_vars => [\A th \in threads : Kept(th)]_vars
    <2> SUFFICES ASSUME StoreInv, [Next]_vars, NEW th \in threads PROVE Kept(th)
        OBVIOUS
    <2> QED
        BY RenameKeepsNotes, FileChanges
<1>2. Spec => []StoreInv
    BY StoreInvariant
<1> QED
    BY <1>1, <1>2, PTL DEF Spec, LiveNotesKept

(***************************************************************************)
(* The refinement.                                                         *)
(***************************************************************************)
LEMMA InitRefines == Init => Abstract!Init
<1> SUFFICES ASSUME Init PROVE Abstract!Init
    OBVIOUS
<1>1. Contents(file) = Empty /\ Contents(disk) = Empty
    BY DEF Init, NoneThere, Contents
<1>2. Call = [t \in Task |-> NoCall]
    BY DEF Init, Call, Writing
<1> QED
    BY <1>1, <1>2 DEF Abstract!Init, Abstract!Empty, Empty

\* The store is the atomic map: whatever the interleaving of any number of tasks
\* and processes, and wherever they die, each update happens once or not at all.
THEOREM StoreImplementsMap == Spec => AtomicMap
<1>1. StoreInv /\ [Next]_vars => [Abstract!Next]_(Abstract!vars)
    BY NextInv DEF Refines
<1>2. Spec => []StoreInv
    BY StoreInvariant
<1> QED
    BY <1>1, <1>2, InitRefines, PTL DEF Spec, AtomicMap, Abstract!Spec

=============================================================================
