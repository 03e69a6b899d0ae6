--------------------------- MODULE MCStreamSession ---------------------------
(***************************************************************************)
(* StreamSession for TLC.  Each .cfg names the commands the user may give  *)
(* (Features) and the bounds of its run.  Messages, and threads when all   *)
(* of them exist from the start, are interchangeable; the runs that check  *)
(* temporal formulas use no symmetry.                                      *)
(***************************************************************************)
EXTENDS StreamSession, TLC

PromptSymmetry == Permutations(Prompt)
ThreadSymmetry == Permutations(Thread)

=============================================================================
