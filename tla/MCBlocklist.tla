---------------------------- MODULE MCBlocklist -----------------------------
(***************************************************************************)
(* Blocklist with 2-bit addresses, two buckets and pushes of up to three   *)
(* entries, one of them beyond the limit of two; masks of 0, 1 and 2 bits. *)
(***************************************************************************)
EXTENDS Blocklist, TLC

Net(a, m) == [ip |-> a, mask |-> m]

MCPayloads ==
    {[local |-> FALSE, entries |-> <<Net(3, 2), Net(2, 2)>>],
     [local |-> TRUE,  entries |-> <<Net(3, 1), Net(0, 2), Net(1, 2)>>],
     [local |-> FALSE, entries |-> <<Net(1, 0)>>]}

(* malloc treats all cells alike. *)
Cells == Permutations(NodeIds)
=============================================================================
