--------------------------- MODULE MCAgentEvents ----------------------------
(***************************************************************************)
(* AgentEvents with two keys, a cache of two entries and a batch of two    *)
(* events, one more than fits into the receiver's buffer.                  *)
(***************************************************************************)
EXTENDS AgentEvents
=============================================================================
