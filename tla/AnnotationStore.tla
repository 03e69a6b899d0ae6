--------------------------- MODULE AnnotationStore ---------------------------
(***************************************************************************)
(* The annotation file and those who use it: the annotate commands, each a *)
(* process of its own, and the tasks of a TUI, which share one process.    *)
(* An update takes the exclusive file lock, loads the file, changes the    *)
(* map, writes it to a temporary file named after the process, syncs it    *)
(* and renames it over the file.  A process may die at any step and the    *)
(* machine may lose power.  Of a namespace only its threads are kept, of   *)
(* an annotation only its text.                                            *)
(***************************************************************************)
CONSTANTS
    Task, Thread, Text, NoText, NoCall,
    Process,   \* the processes the tasks run in
    Pid,       \* the process of each task
    NoTask,    \* nobody holds the lock exclusively
    NoFile,    \* the file does not exist
    Torn       \* what a file holds that was not written to its end

Maps  == [Thread -> Text \cup {NoText}]
Empty == [th \in Thread |-> NoText]
Files == [data : Maps \cup {NoFile, Torn}, synced : BOOLEAN]

ASSUME StoreAssumption ==
    /\ Pid \in [Task -> Process]
    /\ NoTask \notin Task
    /\ NoText \notin Text
    /\ NoFile \notin Maps /\ Torn \notin Maps /\ NoFile # Torn
    /\ NoCall \notin [threads : SUBSET Thread, text : Text \cup {NoText}, taken : BOOLEAN]

VARIABLES
    file,     \* annotations.json
    disk,     \* the file the directory is known to name after a loss of power
    temp,     \* the temporary file of each process
    writer,   \* the task that holds the lock exclusively
    readers,  \* the tasks that share it
    pc,       \* where each task is in its command
    cmd,      \* the command of each task, and its local variables
    threads   \* (server) the threads that exist

fileVars == <<file, disk, temp>>
lockVars == <<writer, readers>>
vars == <<fileVars, lockVars, pc, cmd, threads>>

NoneThere == [data |-> NoFile, synced |-> TRUE]

\* The command; the threads it writes to and the text it writes; the state it
\* loaded; the annotated threads a prune has not asked the server about.
Commands ==
    [op : {"none", "set", "clear", "read", "prune", "delete"},
     targets : SUBSET Thread, text : Text \cup {NoText}, map : Maps,
     unread : SUBSET Thread]

Command(op, ths, x) ==
    [op |-> op, targets |-> ths, text |-> x, map |-> Empty, unread |-> {}]

NoCommand == Command("none", {}, NoText)

\* A missing file is an empty state.
Contents(f) == IF f.data = NoFile THEN Empty ELSE f.data

Written(m, ths, x) == [th \in Thread |-> IF th \in ths THEN x ELSE m[th]]

(***************************************************************************)
(* The commands.                                                           *)
(***************************************************************************)
Begin(t, op, ths, x, start) ==
    /\ pc[t] = "ready"
    /\ pc' = [pc EXCEPT ![t] = start]
    /\ cmd' = [cmd EXCEPT ![t] = Command(op, ths, x)]
    /\ UNCHANGED <<fileVars, lockVars, threads>>

Goes(t, next) == pc' = [pc EXCEPT ![t] = next] /\ UNCHANGED cmd

\* The command is over, whatever its outcome.
Ends(t) ==
    /\ pc' = [pc EXCEPT ![t] = "over"]
    /\ cmd' = [cmd EXCEPT ![t] = NoCommand]

\* annotate set, and a in the TUI; an empty text is refused or clears.
SetAnnotation(t) ==
    \E th \in Thread, x \in Text : Begin(t, "set", {th}, x, "lock")

\* annotate clear, and Ctrl-D or an empty text in the TUI.
ClearAnnotation(t) ==
    \E th \in Thread : Begin(t, "clear", {th}, NoText, "lock")

\* annotate get, list and search, and the annotations of a listing.
ReadAnnotations(t) == Begin(t, "read", {}, NoText, "share")

\* annotate prune
Prune(t) == Begin(t, "prune", {}, NoText, "share")

\* D in the TUI: spawn_delete_task.
Delete(t) ==
    \E th \in Thread : Begin(t, "delete", {th}, NoText, "delete")

\* The annotation is cleared after the server has deleted the thread, and only
\* then: if it refuses, the command is over.
ServerDeletes(t) ==
    /\ pc[t] = "delete"
    /\ \/ /\ cmd[t].targets \subseteq threads
          /\ threads' = threads \ cmd[t].targets
          /\ Goes(t, "lock")
       \/ Ends(t) /\ UNCHANGED threads
    /\ UNCHANGED <<fileVars, lockVars>>

\* Mutation: every error of thread/read means that the thread is gone.
ReadThreadAnyError(t) ==
    /\ pc[t] = "check"
    /\ \E th \in cmd[t].unread, ths \in SUBSET Thread :
         /\ ths \in {cmd[t].targets, cmd[t].targets \cup {th}}
         /\ cmd' = [cmd EXCEPT ![t].unread = @ \ {th}, ![t].targets = ths]
    /\ UNCHANGED <<fileVars, lockVars, pc, threads>>

\* thread/read of one annotated thread: it exists, it was not found, or the
\* prune is given up.
ReadThread(t) ==
    /\ pc[t] = "check"
    /\ \/ /\ \E th \in cmd[t].unread :
               cmd' = [cmd EXCEPT ![t].unread = @ \ {th},
                                  ![t].targets = @ \cup ({th} \ threads)]
          /\ UNCHANGED pc
       \/ cmd[t].unread # {} /\ Ends(t)
    /\ UNCHANGED <<fileVars, lockVars, threads>>

\* All were asked about: the stale ones are cleared in one update, if there are
\* any and --dry-run was not given.
ClearStale(t) ==
    /\ pc[t] = "check"
    /\ cmd[t].unread = {}
    /\ Ends(t) \/ (cmd[t].targets # {} /\ Goes(t, "lock"))
    /\ UNCHANGED <<fileVars, lockVars, threads>>

(***************************************************************************)
(* read_state and update_state.                                            *)
(***************************************************************************)
\* What follows a read: the command is over, or prune asks about what it read.
AfterRead(t, m) ==
    IF cmd[t].op = "read" THEN Ends(t)
    ELSE /\ pc' = [pc EXCEPT ![t] = "check"]
         /\ cmd' = [cmd EXCEPT ![t].unread = {th \in Thread : m[th] # NoText}]

\* A file that does not exist is not locked.
ReadMissing(t) ==
    /\ pc[t] = "share"
    /\ file.data = NoFile
    /\ AfterRead(t, Empty)
    /\ UNCHANGED <<fileVars, lockVars, threads>>

LockShared(t) ==
    /\ pc[t] = "share"
    /\ file.data # NoFile
    /\ writer = NoTask
    /\ readers' = readers \cup {t}
    /\ Goes(t, "look")
    /\ UNCHANGED <<fileVars, writer, threads>>

\* A file that cannot be read or parsed ends the command.
Look(t) ==
    /\ pc[t] = "look"
    /\ readers' = readers \ {t}
    /\ \/ file.data # NoFile /\ Ends(t)
       \/ file.data # Torn /\ AfterRead(t, Contents(file))
    /\ UNCHANGED <<fileVars, writer, threads>>

\* Mutation: update_state takes no lock.
LockNothing(t) ==
    /\ pc[t] = "lock"
    /\ Goes(t, "load")
    /\ UNCHANGED <<fileVars, lockVars, threads>>

LockExclusive(t) ==
    /\ pc[t] = "lock"
    /\ writer = NoTask /\ readers = {}
    /\ writer' = t
    /\ Goes(t, "load")
    /\ UNCHANGED <<fileVars, readers, threads>>

\* The directory cannot be made, or the lock file not opened or locked.
LockFails(t) ==
    /\ pc[t] \in {"share", "lock"}
    /\ pc[t] = "share" => file.data # NoFile
    /\ Ends(t)
    /\ UNCHANGED <<fileVars, lockVars, threads>>

Load(t) ==
    /\ pc[t] = "load"
    /\ \/ file.data # NoFile /\ Ends(t) /\ writer' = NoTask
       \/ /\ file.data # Torn
          /\ pc' = [pc EXCEPT ![t] = "create"]
          /\ cmd' = [cmd EXCEPT ![t].map = Contents(file)]
          /\ UNCHANGED writer
    /\ UNCHANGED <<fileVars, readers, threads>>

(***************************************************************************)
(* write_state_atomic.                                                     *)
(***************************************************************************)
PutTemp(t, data, synced, next) ==
    /\ temp' = [temp EXCEPT ![Pid[t]] = [data |-> data, synced |-> synced]]
    /\ Goes(t, next)
    /\ UNCHANGED <<file, disk, lockVars, threads>>

\* The state the update of a task leaves.
Updated(t) == Written(cmd[t].map, cmd[t].targets, cmd[t].text)

CreateTemp(t) == pc[t] = "create" /\ PutTemp(t, Torn, FALSE, "write")

\* Mutation: the temporary file is renamed without being synced.
WriteTempUnsynced(t) == pc[t] = "write" /\ PutTemp(t, Updated(t), FALSE, "rename")

\* to_writer_pretty and write_all
WriteTemp(t) == pc[t] = "write" /\ PutTemp(t, Updated(t), FALSE, "sync")

\* sync_all
SyncTemp(t) == pc[t] = "sync" /\ PutTemp(t, temp[Pid[t]].data, TRUE, "rename")

\* An error of any step up to the rename removes the temporary file.
WriteFails(t) ==
    /\ pc[t] \in {"create", "write", "sync", "rename"}
    /\ temp' = [temp EXCEPT ![Pid[t]] = NoneThere]
    /\ writer' = NoTask
    /\ Ends(t)
    /\ UNCHANGED <<file, disk, readers, threads>>

Rename(t) ==
    /\ pc[t] = "rename"
    /\ file' = temp[Pid[t]]
    /\ temp' = [temp EXCEPT ![Pid[t]] = NoneThere]
    /\ Goes(t, "renamed")
    /\ UNCHANGED <<disk, lockVars, threads>>

\* The directory is synced if that is possible, and the lock is given back.
Return(t) ==
    /\ pc[t] = "renamed"
    /\ disk' \in {disk, file}
    /\ writer' = NoTask
    /\ Ends(t)
    /\ UNCHANGED <<file, temp, readers, threads>>

(***************************************************************************)
(* What goes wrong.                                                        *)
(***************************************************************************)
Busy(t) == pc[t] \notin {"ready", "over"}

\* The tasks are gone, and their local variables with them.
Gone(tasks) ==
    /\ pc' = [t \in Task |-> IF t \in tasks THEN "over" ELSE pc[t]]
    /\ cmd' = [t \in Task |-> IF t \in tasks THEN NoCommand ELSE cmd[t]]

\* Mutation: the lock is a file that the process leaves behind.
DieLocked(p) ==
    /\ \E t \in Task : Pid[t] = p /\ Busy(t)
    /\ Gone({t \in Task : Pid[t] = p})
    /\ UNCHANGED <<fileVars, lockVars, threads>>

\* A process is killed: the system gives back its locks, its temporary file stays.
Die(p) ==
    /\ \E t \in Task : Pid[t] = p /\ Busy(t)
    /\ Gone({t \in Task : Pid[t] = p})
    /\ writer' = IF writer # NoTask /\ Pid[writer] = p THEN NoTask ELSE writer
    /\ readers' = {t \in readers : Pid[t] # p}
    /\ UNCHANGED <<fileVars, threads>>

\* What is left of a file after a loss of power: what was not synced is torn.
Survives(f) == IF f.synced THEN f ELSE [data |-> Torn, synced |-> TRUE]

PowerLoss ==
    /\ \E t \in Task : Busy(t)
    /\ \E f \in {file, disk} : file' = Survives(f)
    /\ disk' = file'
    /\ temp' = [p \in Process |-> Survives(temp[p])]
    /\ writer' = NoTask
    /\ readers' = {}
    /\ Gone({t \in Task : Busy(t)})
    /\ UNCHANGED threads

\* Another client deletes a thread.
ThreadGoes ==
    /\ \E th \in threads : threads' = threads \ {th}
    /\ UNCHANGED <<fileVars, lockVars, pc, cmd>>

(***************************************************************************)
(* The specification.                                                      *)
(***************************************************************************)
Init ==
    /\ file = NoneThere
    /\ disk = NoneThere
    /\ temp = [p \in Process |-> NoneThere]
    /\ writer = NoTask
    /\ readers = {}
    /\ pc = [t \in Task |-> "ready"]
    /\ cmd = [t \in Task |-> NoCommand]
    /\ threads = Thread

Start(t) ==
    \/ SetAnnotation(t)
    \/ ClearAnnotation(t)
    \/ ReadAnnotations(t)
    \/ Prune(t)
    \/ Delete(t)

Step(t) ==
    \/ ServerDeletes(t)
    \/ ReadThread(t)
    \/ ClearStale(t)
    \/ ReadMissing(t)
    \/ LockShared(t)
    \/ Look(t)
    \/ LockExclusive(t)
    \/ Load(t)
    \/ CreateTemp(t)
    \/ WriteTemp(t)
    \/ SyncTemp(t)
    \/ WriteFails(t)
    \/ Rename(t)
    \/ Return(t)

Next ==
    \/ \E t \in Task : Start(t) \/ Step(t) \/ LockFails(t)
    \/ \E p \in Process : Die(p)
    \/ PowerLoss
    \/ ThreadGoes

Spec == Init /\ [][Next]_vars

\* A command that has begun is run by the system; nothing is assumed of failures,
\* so that no command is helped out of a wait by the failure of its lock.
FairSpec == Spec /\ \A t \in Task : WF_vars(Step(t))

(***************************************************************************)
(* Safety.                                                                 *)
(***************************************************************************)
Writing == {"load", "create", "write", "sync", "rename", "renamed"}
Steps == {"ready", "delete", "check", "share", "look", "lock", "over"} \cup Writing

\* The state's types.
TypeOK ==
    /\ file \in Files /\ disk \in Files
    /\ temp \in [Process -> Files]
    /\ writer \in Task \cup {NoTask}
    /\ readers \subseteq Task
    /\ pc \in [Task -> Steps]
    /\ cmd \in [Task -> Commands]
    /\ threads \subseteq Thread

\* The lock is held by those who are between taking it and giving it back: one
\* writer without readers, or readers only.
LockHeld ==
    /\ \A t \in Task : pc[t] \in Writing <=> writer = t
    /\ \A t \in Task : pc[t] = "look" <=> t \in readers
    /\ writer # NoTask => readers = {}

\* The map a writer loaded is still the one in the file: no update is lost.
LoadedIsCurrent ==
    \A t \in Task :
        pc[t] \in {"create", "write", "sync", "rename"} => cmd[t].map = Contents(file)

\* The temporary file of a process holds what the task that is about to rename it
\* wrote, although the tasks of a process share its name and a dead process may
\* have left one behind.
TempIsOwn ==
    \A t \in Task :
        /\ pc[t] \in {"sync", "rename"} => temp[Pid[t]].data = Updated(t)
        /\ pc[t] = "rename" => temp[Pid[t]].synced

\* annotations.json and what a loss of power leaves of it are complete and
\* synced whatever step a process died in: no command meets a file it cannot parse.
FileIsWhole == \A f \in {file, disk} : f.data # Torn /\ f.synced

\* What a prune clears is gone from the server, and so is what a deletion clears.
TargetsGone ==
    \A t \in Task :
        \/ cmd[t].op = "prune"
        \/ cmd[t].op = "delete" /\ pc[t] # "delete"
        => cmd[t].targets \cap threads = {}

\* Which commands reach which steps; only annotate set writes a text.
OpAtStep ==
    \A t \in Task :
        /\ pc[t] \in {"share", "look"} => cmd[t].op \in {"read", "prune"}
        /\ pc[t] = "check" => cmd[t].op = "prune"
        /\ pc[t] = "delete" => cmd[t].op = "delete"
        /\ pc[t] \in {"lock"} \cup Writing =>
               cmd[t].op \in {"set", "clear", "prune", "delete"}
        /\ cmd[t].op = "set" => cmd[t].text # NoText

\* The inductive invariant.
StoreInv ==
    /\ TypeOK
    /\ LockHeld
    /\ LoadedIsCurrent
    /\ TempIsOwn
    /\ FileIsWhole
    /\ TargetsGone
    /\ OpAtStep

\* An annotation of a thread that exists disappears because someone clears it or
\* because the machine fell back to the last saved file: neither a prune that
\* races with the server nor a deletion that fails costs a live thread its note.
LiveNotesKept ==
    [][\A th \in threads :
         Contents(file)[th] # NoText /\ Contents(file')[th] = NoText =>
             \/ \E t \in Task : /\ cmd[t].op = "clear" /\ th \in cmd[t].targets
                              /\ pc[t] = "rename"
             \/ file' = disk]_vars

(***************************************************************************)
(* The promise, and liveness.                                              *)
(***************************************************************************)
\* The update a task has asked for: it holds the lock or waits for it.
Call ==
    [t \in Task |->
        IF pc[t] \in {"lock"} \cup Writing
        THEN [threads |-> cmd[t].targets, text |-> cmd[t].text,
              taken |-> pc[t] = "renamed"]
        ELSE NoCall]

Abstract ==
    INSTANCE AnnotationMap WITH
        store <- Contents(file), saved <- Contents(disk), call <- Call

\* The store is the atomic map: every interleaving of the commands, with deaths
\* at any step, is one of the atomic updates.
AtomicMap == Abstract!Spec

\* No command waits for ever for the lock, whoever died holding it.
CommandsEnd == \A t \in Task : Busy(t) ~> pc[t] = "over"

=============================================================================
