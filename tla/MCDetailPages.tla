---------------------------- MODULE MCDetailPages ----------------------------
(* Two threads, of which one has several pages. *)
EXTENDS DetailPages, TLC

CONSTANTS a, b

TwoThreads == (a :> 3) @@ (b :> 1)

=============================================================================
