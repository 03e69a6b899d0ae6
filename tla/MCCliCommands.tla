---------------------------- MODULE MCCliCommands ---------------------------
(* Any command with any of its options, and two servers to ping.            *)
EXTENDS CliCommands
=============================================================================
