---------------------------- MODULE MCAiService -----------------------------
(***************************************************************************)
(* Five events, two of them Slowloris; the model has no answer for the     *)
(* first.  Two events are analysed one by one per run, one in a batch.     *)
(***************************************************************************)
EXTENDS AiService

MCSenders == {{1, 3}, {2, 4, 5}}
=============================================================================
