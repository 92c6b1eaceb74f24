--------------------------- MODULE MCAgentStreams ---------------------------
(* AgentStreams on small sets of sessions, streams and readers. *)
EXTENDS AgentStreams, TLC
=============================================================================
