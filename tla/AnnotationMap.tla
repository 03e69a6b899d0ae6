---------------------------- MODULE AnnotationMap ----------------------------
(***************************************************************************)
(* What the annotation store promises its callers: one map from threads to *)
(* texts, updated atomically by any number of tasks in any number of       *)
(* processes.  An update that is given up, or whose process dies, has      *)
(* either happened or not; after a loss of power the map is the one that   *)
(* was current or the last one known to be saved, never a mixture.         *)
(***************************************************************************)
CONSTANTS
    Task,    \* the tasks that use the store
    Thread,  \* the threads that may be annotated
    Text,    \* annotation texts
    NoText,  \* no annotation
    NoCall   \* the task has no update under way

VARIABLES
    store,   \* the text of each thread
    saved,   \* the map that survives a loss of power
    call     \* the update each task has asked for

vars == <<store, saved, call>>

Empty == [th \in Thread |-> NoText]

\* The map after the text is put on the threads; NoText removes it.
Written(map, threads, text) ==
    [th \in Thread |-> IF th \in threads THEN text ELSE map[th]]

Update(ths, x, taken) == [threads |-> ths, text |-> x, taken |-> taken]

Ask(t) ==
    /\ call[t] = NoCall
    /\ \E ths \in SUBSET Thread, x \in Text \cup {NoText} :
         call' = [call EXCEPT ![t] = Update(ths, x, FALSE)]
    /\ UNCHANGED <<store, saved>>

Take(t) ==
    /\ call[t] # NoCall /\ ~call[t].taken
    /\ store' = Written(store, call[t].threads, call[t].text)
    /\ call' = [call EXCEPT ![t] = Update(@.threads, @.text, TRUE)]
    /\ UNCHANGED saved

\* The update of the tasks is over, done or given up.
Leave(tasks) ==
    /\ call' = [t \in Task |-> IF t \in tasks THEN NoCall ELSE call[t]]
    /\ saved' \in {saved, store}
    /\ UNCHANGED store

PowerLoss ==
    /\ store' \in {store, saved}
    /\ saved' = store'
    /\ call' = [t \in Task |-> NoCall]

Init ==
    /\ store = Empty
    /\ saved = Empty
    /\ call = [t \in Task |-> NoCall]

Next ==
    \/ \E t \in Task : Ask(t) \/ Take(t)
    \/ \E tasks \in SUBSET Task : Leave(tasks)
    \/ PowerLoss

Spec == Init /\ [][Next]_vars

=============================================================================
