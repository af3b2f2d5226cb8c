---------------------------- MODULE MCAgentRunner ----------------------------
(***************************************************************************)
(* Module AgentRunner for TLC; the constants are the configuration's.      *)
(***************************************************************************)
EXTENDS AgentRunner
==============================================================================
