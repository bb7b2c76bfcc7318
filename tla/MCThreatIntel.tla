--------------------------- MODULE MCThreatIntel ----------------------------
(***************************************************************************)
(* The first address is on every feed, the second on two of them and the   *)
(* third on the last.                                                      *)
(***************************************************************************)
EXTENDS ThreatIntel

CONSTANTS a, b, c

MCFeeds == <<{a}, {a, b}, {a, b, c}>>
=============================================================================
