---------------------------- MODULE MCSocReceiver ---------------------------
(***************************************************************************)
(* SocReceiver with three descriptors, two of them for registered agents,  *)
(* and one follower.                                                       *)
(***************************************************************************)
EXTENDS SocReceiver

CONSTANT u
=============================================================================
