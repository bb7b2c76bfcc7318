----------------------------- MODULE TcpMonitor -----------------------------
(***************************************************************************)
(* The TCP connection monitor of kernel/tcp_monitor.c: a fixed pool of     *)
(* connection states indexed by a hash of (source ip, source port), with   *)
(* SYN-flood and Slowloris detection.  One step handles one packet the way *)
(* fw_nfq_callback does: monitor_tcp_stats, then, when that lets a port-80 *)
(* packet pass, the two register_http_* calls of inspect_http_payload.     *)
(* The pool is touched by the NFQUEUE thread only, so a packet is one      *)
(* atomic step.                                                            *)
(*                                                                         *)
(* A connection is an (ip, port) pair, here a member of Conns; SrcIp and   *)
(* ConnHash give its address and its slot.  Times are jiffies.  The field  *)
(* dest_port of the C struct is written and never read, and is left out.   *)
(***************************************************************************)
EXTENDS Integers, FiniteSets

CONSTANTS
    Conns,                \* the (src_ip, src_port) pairs that send packets
    Ips,                  \* source addresses
    SrcIp,                \* [Conns -> Ips]
    Slots,                \* the MAX_TRACKED_CONNS entries of the pool
    ConnHash,             \* [Conns -> Slots]
    DestPorts,            \* destination ports that are queued to the daemon
    NoConn,               \* src_ip = 0: the slot is free
    HZ,                   \* jiffies in a second: the SYN window
    SYN_FLOOD_THRESHOLD,  \* 100
    OpenLimit,            \* 20 incomplete requests for each address
    SlowlorisTimeout,     \* SLOWLORIS_TIMEOUT * HZ
    OverrideIdle,         \* HZ * 5: a colliding entry may be overwritten
    EvictIdle,            \* HZ * 60: an idle entry may be evicted
    HeaderCountMod,       \* 256: http_header_count is a uint8_t
    MaxTime,              \* bound on the clock
    MaxSyns               \* bound on syn_count

ASSUME TcpConstants ==
    /\ SrcIp \in [Conns -> Ips]
    /\ ConnHash \in [Conns -> Slots]
    /\ NoConn \notin Conns
    /\ IsFiniteSet(Slots)
    /\ HZ \in Nat /\ SYN_FLOOD_THRESHOLD \in Nat /\ OpenLimit \in Nat
    /\ SlowlorisTimeout \in Nat /\ OverrideIdle \in Nat /\ EvictIdle \in Nat
    /\ OverrideIdle <= EvictIdle
    /\ HeaderCountMod \in Nat \ {0}
    /\ MaxTime \in Nat /\ MaxSyns \in Nat

(* The iptables rule of entrypoint.sh queues only --dports 80,443.         *)
ASSUME QueuedPorts == DestPorts \subseteq {80, 443}

VARIABLES
    pool,     \* conn_pool: the conn_state of every slot
    now,      \* jiffies, as read at the start of monitor_tcp_stats
    verdict,  \* what happened to the packet of the last step
    event     \* the event that step raised

vars == <<pool, now, verdict, event>>

Events == {"none", "syn_flood", "max_sockets", "slow_headers"}

(***************************************************************************)
(* One conn_state, and the packets: a FIN or RST closes, whatever else it  *)
(* carries (after the early return the register calls find no entry); syn  *)
(* is SYN without ACK; the payload is absent, part of a request head, or   *)
(* holds the blank line that ends the head.                                *)
(***************************************************************************)
ConnState ==
    [conn : Conns \cup {NoConn}, last_seen : Nat, syn_window_start : Nat,
     syn_count : Nat, http_start_time : Nat,
     http_header_count : 0 .. HeaderCountMod - 1,
     is_http_complete : BOOLEAN, is_blocked : BOOLEAN]

Packets ==
    [conn : Conns, dport : DestPorts, close : {FALSE}, syn : BOOLEAN,
     payload : {"none", "part", "end"}]
    \cup
    [conn : Conns, dport : DestPorts, close : {TRUE}, syn : {FALSE},
     payload : {"none"}]

Zeroed ==
    [conn |-> NoConn, last_seen |-> 0, syn_window_start |-> 0, syn_count |-> 0,
     http_start_time |-> 0, http_header_count |-> 0,
     is_http_complete |-> FALSE, is_blocked |-> FALSE]

(* init_conn_pool.  The clock starts above 0, the "unset" http_start_time. *)
Init ==
    /\ pool = [s \in Slots |-> Zeroed]
    /\ now = 1
    /\ verdict = "accept"
    /\ event = "none"

-----------------------------------------------------------------------------
(***************************************************************************)
(* The pieces of monitor_tcp_stats, each a function of an entry.           *)
(***************************************************************************)
HttpPort(dport) == dport \in {80, 443}

SlotOf(p) == ConnHash[p.conn]

(* The slot holds the state of this packet's connection. *)
Owns(p) == pool[SlotOf(p)].conn = p.conn

(* A slot of another connection may be taken: free, idle for 60 s, or, on  *)
(* a collision, idle for 5 s.                                              *)
Reclaimable(e) ==
    \/ e.conn = NoConn
    \/ now > e.last_seen + EvictIdle
    \/ now > e.last_seen + OverrideIdle

Reclaimed(c) ==
    [Zeroed EXCEPT !.conn = c, !.syn_window_start = now, !.last_seen = now]

Touched(e, p) ==
    [e EXCEPT !.last_seen = now,
              !.http_header_count =
                 IF HttpPort(p.dport) /\ p.payload # "none"
                 THEN (@ + 1) % HeaderCountMod ELSE @]

(* SYN accounting: a new window starts the count at 1, else one more; past *)
(* the threshold the entry is blocked.                                     *)
NewSynWindow(e) == now > e.syn_window_start + HZ

(* Mutant: a new window also lifts the block. *)
SynUnblocked(e, p) ==
    IF ~p.syn THEN e
    ELSE IF NewSynWindow(e)
    THEN [e EXCEPT !.syn_count = 1, !.syn_window_start = now,
                   !.is_blocked = FALSE]
    ELSE [e EXCEPT !.syn_count = @ + 1,
                   !.is_blocked = @ \/ e.syn_count + 1 > SYN_FLOOD_THRESHOLD]

(* Mutant: the threshold is reported but does not block. *)
SynNotBlocked(e, p) ==
    IF ~p.syn THEN e
    ELSE IF NewSynWindow(e)
    THEN [e EXCEPT !.syn_count = 1, !.syn_window_start = now]
    ELSE [e EXCEPT !.syn_count = @ + 1]

SynCounted(e, p) ==
    IF ~p.syn THEN e
    ELSE IF NewSynWindow(e)
    THEN [e EXCEPT !.syn_count = 1, !.syn_window_start = now]
    ELSE [e EXCEPT !.syn_count = @ + 1,
                   !.is_blocked = @ \/ e.syn_count + 1 > SYN_FLOOD_THRESHOLD]

(* The alert goes out on the first SYN above the threshold only. *)
SynAlert(e, p) ==
    p.syn /\ ~NewSynWindow(e) /\ e.syn_count + 1 = SYN_FLOOD_THRESHOLD + 1

(* The entry of p's connection before the SYN accounting, and after it. *)
Looked(p) ==
    Touched(IF Owns(p) THEN pool[SlotOf(p)] ELSE Reclaimed(p.conn), p)

Counted(p) == SynCounted(Looked(p), p)

HttpStarted(e) ==
    [e EXCEPT !.http_start_time = IF @ = 0 THEN now ELSE @]

(* Slots that count_open_connections counts for an address. *)
OpenSlots(P, ip) ==
    {s \in Slots : /\ P[s].conn # NoConn
                   /\ SrcIp[P[s].conn] = ip
                   /\ ~P[s].is_http_complete
                   /\ ~P[s].is_blocked}

count_open_connections(P, ip) == Cardinality(OpenSlots(P, ip))

(* register_http_header_sent and register_http_complete, as called by      *)
(* inspect_http_payload for a packet with payload.                         *)
HttpRegistered(e, p) ==
    IF p.dport = 80 /\ p.payload # "none"
    THEN [e EXCEPT !.http_header_count = (@ + 1) % HeaderCountMod,
                   !.is_http_complete = @ \/ p.payload = "end"]
    ELSE e

-----------------------------------------------------------------------------
(***************************************************************************)
(* The outcomes of a packet.                                               *)
(***************************************************************************)
(* FIN or RST: the connection's own slot is zeroed; the packet passes.     *)
Close(p) ==
    /\ p.close
    /\ pool' = IF Owns(p) THEN [pool EXCEPT ![SlotOf(p)] = Zeroed] ELSE pool
    /\ verdict' = "accept"
    /\ event' = "none"
    /\ UNCHANGED now

(* The slot belongs to another active connection: let it pass, untracked.  *)
PassUntracked(p) ==
    /\ ~p.close
    /\ ~Owns(p)
    /\ ~Reclaimable(pool[SlotOf(p)])
    /\ verdict' = "accept"
    /\ event' = "none"
    /\ UNCHANGED <<pool, now>>

Tracked(p) == ~p.close /\ (Owns(p) \/ Reclaimable(pool[SlotOf(p)]))

(* The entry is blocked, now by its SYN count or since an earlier packet.  *)
DropBlocked(p) ==
    /\ Tracked(p)
    /\ Counted(p).is_blocked
    /\ pool' = [pool EXCEPT ![SlotOf(p)] = Counted(p)]
    /\ verdict' = "drop"
    /\ event' = IF SynAlert(Looked(p), p) THEN "syn_flood" ELSE "none"
    /\ UNCHANGED now

SlowlorisChecked(p) ==
    /\ Tracked(p)
    /\ ~Counted(p).is_blocked
    /\ HttpPort(p.dport)
    /\ ~Counted(p).is_http_complete

(* Mutant: the count leaves out the entry under check. *)
OpenConnsBefore(p) == count_open_connections(pool, SrcIp[p.conn])

OpenConns(p) ==
    count_open_connections(
        [pool EXCEPT ![SlotOf(p)] = HttpStarted(Counted(p))], SrcIp[p.conn])

(* Mutant: the timer runs from the last packet instead of the first. *)
TimedOutSinceLastPacket(p) == now > Looked(p).last_seen + SlowlorisTimeout

TimedOut(p) ==
    now > HttpStarted(Counted(p)).http_start_time + SlowlorisTimeout

Block(p) ==
    pool' = [pool EXCEPT ![SlotOf(p)] =
                [HttpStarted(Counted(p)) EXCEPT !.is_blocked = TRUE]]

(* More than OpenLimit incomplete requests of this address. *)
DropMaxSockets(p) ==
    /\ SlowlorisChecked(p)
    /\ OpenConns(p) > OpenLimit
    /\ Block(p)
    /\ verdict' = "drop"
    /\ event' = "max_sockets"
    /\ UNCHANGED now

(* The head took longer than SLOWLORIS_TIMEOUT; the warning is left out    *)
(* when the header counter is 0.                                           *)
DropSlowHeaders(p) ==
    /\ SlowlorisChecked(p)
    /\ OpenConns(p) <= OpenLimit
    /\ TimedOut(p)
    /\ Block(p)
    /\ verdict' = "drop"
    /\ event' = IF Counted(p).http_header_count > 0
                THEN "slow_headers" ELSE "none"
    /\ UNCHANGED now

(* The packet passes the monitor and, on port 80, is registered by the     *)
(* HTTP inspector.                                                         *)
PassTracked(p) ==
    /\ Tracked(p)
    /\ ~Counted(p).is_blocked
    /\ SlowlorisChecked(p) => OpenConns(p) <= OpenLimit /\ ~TimedOut(p)
    /\ pool' = [pool EXCEPT ![SlotOf(p)] =
                   HttpRegistered(IF SlowlorisChecked(p)
                                  THEN HttpStarted(Counted(p))
                                  ELSE Counted(p), p)]
    /\ verdict' = "accept"
    /\ event' = "none"
    /\ UNCHANGED now

Receive(p) ==
    \/ Close(p)
    \/ PassUntracked(p)
    \/ DropBlocked(p)
    \/ DropMaxSockets(p)
    \/ DropSlowHeaders(p)
    \/ PassTracked(p)

Tick ==
    /\ now < MaxTime
    /\ now' = now + 1
    /\ verdict' = "accept"
    /\ event' = "none"
    /\ UNCHANGED pool

(* Bound: a window counts no SYN beyond MaxSyns. *)
WithinBound(p) == p.syn => pool[SlotOf(p)].syn_count < MaxSyns

Next == (\E p \in Packets : WithinBound(p) /\ Receive(p)) \/ Tick

Spec == Init /\ [][Next]_vars

-----------------------------------------------------------------------------
(* Type invariant: the pool, the clock and the outcome have their types.   *)
TypeOK ==
    /\ pool \in [Slots -> ConnState]
    /\ now \in Nat \ {0}
    /\ verdict \in {"accept", "drop"}
    /\ event \in Events

(* "Limit to 20 concurrent incomplete HTTP requests per IP": after every   *)
(* packet no address has more than OpenLimit tracked requests that are     *)
(* incomplete and not blocked, whatever the order of opens, closes,        *)
(* evictions and collisions.                                               *)
OpenLimitHolds == \A ip \in Ips : count_open_connections(pool, ip) <= OpenLimit

(* Slowloris timeout: a request still open (incomplete, not blocked) was   *)
(* never let through later than SLOWLORIS_TIMEOUT after its first packet.  *)
OpenWithinTimeout ==
    \A s \in Slots :
        /\ pool[s].conn # NoConn
        /\ ~pool[s].is_http_complete
        /\ ~pool[s].is_blocked
        => /\ pool[s].http_start_time > 0
           /\ pool[s].http_start_time <= pool[s].last_seen
           /\ pool[s].last_seen <= pool[s].http_start_time + SlowlorisTimeout

(* A blocked entry stays blocked, and each further segment of its          *)
(* connection is dropped, until a FIN or RST of that connection frees it   *)
(* or another connection takes the slot after 5 s of silence.              *)
BlockedUntilFreed ==
    [][\A s \in Slots : pool[s].is_blocked =>
          \/ pool'[s] = pool[s]
          \/ /\ pool'[s].conn = pool[s].conn
             /\ pool'[s].is_blocked
             /\ verdict' = "drop"
          \/ pool'[s] = Zeroed
          \/ /\ pool'[s].conn # pool[s].conn
             /\ now > pool[s].last_seen + OverrideIdle]_vars
=============================================================================
