----------------------------- MODULE MCExecutor -----------------------------
(***************************************************************************)
(* The executor with three tasks and a task queue of three entries: small  *)
(* enough to overflow, large enough for a stale id, a duplicate and a live *)
(* one at once.                                                            *)
(***************************************************************************)
EXTENDS Executor
=============================================================================
