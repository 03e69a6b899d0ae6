----------------------------- MODULE MCRpcCalls -----------------------------
(* One worker and its tasks, two operations on up to two connections.       *)
EXTENDS RpcCalls
=============================================================================
