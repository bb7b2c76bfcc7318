---------------------------- MODULE MCReputation ----------------------------
(***************************************************************************)
(* A batch of events of the first address weighs 55, two of them more than *)
(* a score can lose.  The address is also on the third feed, whose score   *)
(* is not low enough to be blocked, and the second address is on the       *)
(* second feed, whose score of 20 just is.                                 *)
(***************************************************************************)
EXTENDS Reputation

CONSTANTS a, b

MCFeeds == <<{}, {b}, {a}>>
MCBatches == [ip \in {a, b} |-> IF ip = a THEN {<<2, 2, 0>>} ELSE {}]
=============================================================================
