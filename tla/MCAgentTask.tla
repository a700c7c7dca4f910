---------------------------- MODULE MCAgentTask -----------------------------
(***************************************************************************)
(* Small instances of AgentTask.                                           *)
(***************************************************************************)
EXTENDS AgentTask, TLC
=============================================================================
