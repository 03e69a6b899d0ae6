-------------------------- MODULE MCAnnotationStore --------------------------
(***************************************************************************)
(* AnnotationStore for TLC: a TUI with two tasks and a command of its own. *)
(***************************************************************************)
EXTENDS AnnotationStore, TLC

CONSTANTS tui, cli, ui, deleter, command

OneTuiOneCommand == ui :> tui @@ deleter :> tui @@ command :> cli

=============================================================================
