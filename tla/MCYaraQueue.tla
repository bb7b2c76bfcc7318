---------------------------- MODULE MCYaraQueue -----------------------------
(***************************************************************************)
(* YaraQueue with a ring of four slots, so that it holds three uploads,    *)
(* wraps around and runs full, and three paths that come in any order.     *)
(***************************************************************************)
EXTENDS YaraQueue
=============================================================================
