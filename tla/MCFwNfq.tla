------------------------------ MODULE MCFwNfq -------------------------------
(***************************************************************************)
(* FwNfq with a remote and a local address, one detector of damage 80      *)
(* (scores 100, 20, 0: the threshold, and clamped) and two payloads: one   *)
(* naming the remote address, one covering it by a prefix only and naming  *)
(* the local address, with local blocking.                                 *)
(***************************************************************************)
EXTENDS FwNfq

CONSTANTS remote, local, bypassed, yara

MCDamage == [t \in {yara} |-> 80]

MCPayloads ==
    {[exact |-> {remote}, covers |-> {remote}, local |-> FALSE],
     [exact |-> {local}, covers |-> {remote, local}, local |-> TRUE]}
=============================================================================
