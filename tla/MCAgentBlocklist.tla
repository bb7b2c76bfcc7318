-------------------------- MODULE MCAgentBlocklist --------------------------
(***************************************************************************)
(* AgentBlocklist with three addresses, the text of a within the text of b   *)
(* (as 10.0.0.1 within 10.0.0.12), and payloads of two entries.  The       *)
(* initial files: none, one with a comment that shows an address, and one  *)
(* over the limit with its directive behind the entries.                   *)
(***************************************************************************)
EXTENDS AgentBlocklist

CONSTANTS a, b, c

MCWithin == {<<a, a>>, <<b, b>>, <<c, c>>, <<a, b>>}

MCFiles ==
    {Absent,
     <<[kind |-> "comment", ip |-> b, val |-> FALSE]>>,
     <<Entry(a), Entry(b), Entry(c), LocalLine(TRUE)>>}
=============================================================================
