---------------------------- MODULE MCAgentSession ----------------------------
(* Small instances of AgentSession.                                        *)
EXTENDS AgentSession
=============================================================================
