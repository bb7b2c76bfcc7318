---------------------------- MODULE MCTcpMonitor ----------------------------
(***************************************************************************)
(* TcpMonitor on a pool of two slots: two connections of address a,        *)
(* one of them sharing its slot with a connection of address b.  A history *)
(* variable follows that one for what the pool forgets: when its SYNs were *)
(* let through.                                                            *)
(***************************************************************************)
EXTENDS TcpMonitor, Functions

MCConns == {"a1", "a2", "b1"}
MCSrcIp == [c \in MCConns |-> IF c = "b1" THEN "b" ELSE "a"]
MCConnHash == [c \in MCConns |-> IF c = "a1" THEN 1 ELSE 2]

VARIABLE
    synPassed   \* [time -> Nat]: SYNs of Watched let through, by jiffy,
                \* since its entry was created

Watched == "a2"
NoSyns == [t \in 1 .. MaxTime |-> 0]

HInit ==
    /\ Init
    /\ synPassed = NoSyns

Record(p) ==
    LET before == IF Tracked(p) /\ Owns(p) THEN synPassed ELSE NoSyns
    IN synPassed' = IF p.conn # Watched THEN synPassed
                    ELSE IF Tracked(p) /\ p.syn /\ verdict' = "accept"
                    THEN [before EXCEPT ![now] = @ + 1] ELSE before

(* The other two each talk to one port only. *)
Sent(p) == p.conn = Watched \/ p.dport = (IF p.conn = "a1" THEN 80 ELSE 443)

HNext ==
    \/ \E p \in {q \in Packets : Sent(q)} : WithinBound(p) /\ Receive(p) /\ Record(p)
    \/ Tick /\ UNCHANGED synPassed

HSpec == HInit /\ [][HNext]_<<vars, synPassed>>

(* SYNs of Watched's entry let through in the second that starts at t. *)
SynsInSecond(t) ==
    SumFunctionOnSet(synPassed, {u \in 1 .. MaxTime : t <= u /\ u < t + HZ})

-----------------------------------------------------------------------------
(* What the windowed count really bounds: of one entry, no second sees     *)
(* more than twice SYN_FLOOD_THRESHOLD SYNs let through, because an        *)
(* interval of one second meets at most two windows.                       *)
SynsAtMostTwiceThreshold ==
    \A t \in 1 .. MaxTime : SynsInSecond(t) <= 2 * SYN_FLOOD_THRESHOLD
=============================================================================
