---------------------------- MODULE RemoteAction ----------------------------
(***************************************************************************)
(* What a client may conclude from how an operation on the server ends.    *)
(* The action an operation asks for happens at most once, however often    *)
(* the request was sent.  An operation that ends "done" has happened; one  *)
(* that ends "refused" has not and never will; after "failed" the outcome  *)
(* is unknown, and the action may even happen later.                       *)
(***************************************************************************)
CONSTANT Op   \* the operations

VARIABLES
    did,   \* how many times the action of each operation happened
    said   \* what the caller of each operation knows

vars == <<did, said>>

Ask(o) ==
    /\ said[o] = "none"
    /\ said' = [said EXCEPT ![o] = "asked"]
    /\ UNCHANGED did

Happen(o) ==
    /\ said[o] \in {"asked", "failed"}
    /\ did[o] = 0
    /\ did' = [did EXCEPT ![o] = 1]
    /\ UNCHANGED said

\* The request whose answer was lost, or was an error, may have had its effect.
End(o, verdict) ==
    /\ said[o] = "asked"
    /\ verdict = "done" => did[o] = 1
    /\ verdict = "refused" => did[o] = 0
    /\ said' = [said EXCEPT ![o] = verdict]
    /\ UNCHANGED did

Init ==
    /\ did = [o \in Op |-> 0]
    /\ said = [o \in Op |-> "none"]

Next ==
    \E o \in Op :
        \/ Ask(o)
        \/ Happen(o)
        \/ \E verdict \in {"done", "refused", "failed"} : End(o, verdict)

Spec == Init /\ [][Next]_vars

=============================================================================
