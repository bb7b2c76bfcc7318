--------------------------- MODULE MCNotification ---------------------------
(***************************************************************************)
(* Three events, the second of an address of its own, and batches of two.  *)
(***************************************************************************)
EXTENDS Notification

MCSenders == {{1, 3}, {2}}
=============================================================================
