---------------------------- MODULE MCAgentWork ----------------------------
(***************************************************************************)
(* Constants for checking AgentSession.                                    *)
(***************************************************************************)
EXTENDS AgentSession

CONSTANTS native, fallback
=============================================================================
