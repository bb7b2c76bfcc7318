------------------------------- MODULE FwNfq --------------------------------
(***************************************************************************)
(* The userspace firewall daemon (kernel/fw_nfq.c) with the reputation     *)
(* table (kernel/ip_reputation.c): the NFQUEUE thread decides one packet   *)
(* at a time (fw_nfq_callback), the listener thread owns the agent's       *)
(* connection and applies the blocklists the agent pushes                  *)
(* (agent_listener_thread), and both share agent_fd, the scores and the    *)
(* blocklist.  A step is what one thread does between two accesses to      *)
(* shared state; what runs under agent_lock or rep_lock is one step.       *)
(*                                                                         *)
(* The blocklist itself is the module Blocklist: here a payload is the set *)
(* of the addresses its entries name (exact) and of those its prefixes     *)
(* match (covers), and a lookup during an update may answer either way.    *)
(* The TCP monitor is the module TcpMonitor: here its answer is an input.  *)
(***************************************************************************)
EXTENDS Integers, FiniteSets

CONSTANTS
    Ips,             \* source addresses
    LocalIps,        \* the ones is_local_ip is true for
    BypassedIps,     \* the ones is_bypassed_ip is true for
    Threats,         \* what the HTTP inspection may find, with its damage
    Damage,          \* [Threats -> Nat], the damage argument in http_inspect.c
    Payloads,        \* blocklists the agent may push
    None, Part,
    SocketCapacity   \* events the agent's socket buffer holds

ASSUME FwNfqConstants ==
    /\ LocalIps \subseteq Ips /\ BypassedIps \subseteq Ips
    /\ Damage \in [Threats -> Nat]
    /\ Payloads \subseteq [exact : SUBSET Ips, covers : SUBSET Ips, local : BOOLEAN]
    /\ \A p \in Payloads : p.exact \subseteq p.covers
    /\ None \notin Threats \cup Payloads /\ Part \notin Payloads
    /\ SocketCapacity \in Nat

(* The TCP monitor's answer, and what the HTTP inspection would find in a  *)
(* segment the monitor passes; nothing looks at a bypassed source's.       *)
Packets ==
    {p \in [src : Ips, tcp : {"pass", "drop", "alert"}, threat : Threats \cup {None}] :
        /\ p.tcp # "pass" => p.threat = None
        /\ p.src \in BypassedIps => p.tcp = "pass" /\ p.threat = None}

ASSUME NoneIsNoPacket == None \notin Packets

VARIABLES
    status,     \* the process is running, stopped, or killed by a signal
    reputation, \* score per address; one without an entry scores 100
    blocklist,  \* the payload in the table, or being loaded when swapping
    g_block_local_ips,
    agent_fd,   \* open and usable for events
    sock,       \* the accepted connection, as the kernel keeps it
    lsn,        \* the listener thread
    nfq         \* the NFQUEUE thread

vars == <<status, reputation, blocklist, g_block_local_ips, agent_fd, sock, lsn, nfq>>

NoPayload == [exact |-> {}, covers |-> {}, local |-> FALSE]

(* connecting: an agent waits in accept's backlog.  open: the daemon's     *)
(* descriptor; peer: the agent's end; events: in flight to the agent;      *)
(* inbox: what the agent has written, a payload, a part of one, or None.   *)
NoSock == [connecting |-> FALSE, open |-> FALSE, peer |-> FALSE, events |-> 0,
           inbox |-> None]

Idle == [pc |-> "recv", pkt |-> None, next |-> "recv", verdict |-> "ACCEPT",
         shut |-> {}]

Init ==
    /\ status = "running"
    /\ reputation = [i \in Ips |-> 100]
    /\ blocklist = NoPayload
    /\ g_block_local_ips = FALSE
    /\ agent_fd = FALSE
    /\ sock = NoSock
    /\ lsn = [pc |-> "accept", payload |-> None]
    /\ nfq = Idle

-----------------------------------------------------------------------------
(***************************************************************************)
(* ip_reputation.c                                                         *)
(***************************************************************************)
BlockScore == 20

Clamped(score) == IF score > 100 THEN 100 ELSE IF score < 0 THEN 0 ELSE score

(* update_ip_reputation: an unknown address starts at 100. *)
Damaged(ip, damage) == [reputation EXCEPT ![ip] = Clamped(@ - damage)]

(* Mutant: a blocked address is pardoned although the payload lists it. *)
SyncedAll(p) ==
    [i \in Ips |-> IF reputation[i] <= BlockScore THEN 100 ELSE reputation[i]]

(* sync_reputation_with_blocklist: addresses blocked by their score that   *)
(* the payload does not name are pardoned.                                 *)
Synced(p) ==
    [i \in Ips |-> IF reputation[i] <= BlockScore /\ i \notin p.exact
                   THEN 100 ELSE reputation[i]]

-----------------------------------------------------------------------------
(***************************************************************************)
(* agent_listener_thread                                                   *)
(***************************************************************************)
(* accept, then install the descriptor under agent_lock; agent_fd is -1    *)
(* then (DescriptorClosedOnce), so there is none to close first.           *)
Accept ==
    /\ lsn.pc = "accept" /\ sock.connecting
    /\ sock' = [NoSock EXCEPT !.open = TRUE, !.peer = TRUE]
    /\ lsn' = [lsn EXCEPT !.pc = "install"]
    /\ UNCHANGED <<status, reputation, blocklist, g_block_local_ips, agent_fd,
                   nfq>>

Install ==
    /\ lsn.pc = "install"
    /\ agent_fd' = TRUE
    /\ lsn' = [lsn EXCEPT !.pc = "read"]
    /\ UNCHANGED <<status, reputation, blocklist, g_block_local_ips,
                   sock, nfq>>

(* A whole payload has been read. *)
ReadPayload ==
    /\ lsn.pc = "read" /\ sock.open
    /\ sock.inbox \in Payloads
    /\ lsn' = [pc |-> "sync", payload |-> sock.inbox]
    /\ sock' = [sock EXCEPT !.inbox = None]
    /\ UNCHANGED <<status, reputation, blocklist, g_block_local_ips, agent_fd,
                   nfq>>

(* Mutant: a payload cut short is waited for although the agent is gone. *)
ReadEndsAtEof ==
    /\ lsn.pc = "read"
    /\ ~sock.open \/ (~sock.peer /\ sock.inbox = None)
    /\ lsn' = [lsn EXCEPT !.pc = "close"]
    /\ sock' = [sock EXCEPT !.inbox = None]
    /\ UNCHANGED <<status, reputation, blocklist, g_block_local_ips, agent_fd,
                   nfq>>

(* End of file, a payload cut short by it, or a descriptor that            *)
(* send_fw_event has closed.                                               *)
ReadEnds ==
    /\ lsn.pc = "read"
    /\ ~sock.open \/ (~sock.peer /\ sock.inbox \notin Payloads)
    /\ lsn' = [lsn EXCEPT !.pc = "close"]
    /\ sock' = [sock EXCEPT !.inbox = None]
    /\ UNCHANGED <<status, reputation, blocklist, g_block_local_ips, agent_fd,
                   nfq>>

(* update_ip_blocklist: first the scores, under rep_lock, then the flag    *)
(* and the table, which the other thread may read meanwhile.               *)
Sync ==
    /\ lsn.pc = "sync"
    /\ reputation' = Synced(lsn.payload)
    /\ nfq' = [nfq EXCEPT !.shut = {w \in @ : w = "score" =>
                                        reputation'[nfq.pkt.src] <= BlockScore}]
    /\ lsn' = [lsn EXCEPT !.pc = "swap"]
    /\ UNCHANGED <<status, blocklist, g_block_local_ips, agent_fd, sock>>

SwapStart ==
    /\ lsn.pc = "swap"
    /\ g_block_local_ips' = lsn.payload.local
    /\ nfq' = [nfq EXCEPT !.shut = IF nfq.pkt # None /\ nfq.pkt.src \in LocalIps
                                   THEN {} ELSE @ \ {"list"}]
    /\ lsn' = [lsn EXCEPT !.pc = "swapping"]
    /\ UNCHANGED <<status, reputation, blocklist, agent_fd, sock>>

SwapEnd ==
    /\ lsn.pc = "swapping"
    /\ blocklist' = lsn.payload
    /\ lsn' = [pc |-> "read", payload |-> None]
    /\ UNCHANGED <<status, reputation, g_block_local_ips, agent_fd,
                   sock, nfq>>

(* The descriptor is closed unless send_fw_event has done it. *)
Disconnect ==
    /\ lsn.pc = "close"
    /\ sock' = [NoSock EXCEPT !.connecting = sock.connecting,
                              !.open = IF agent_fd THEN FALSE ELSE sock.open]
    /\ agent_fd' = FALSE
    /\ lsn' = [lsn EXCEPT !.pc = "accept"]
    /\ UNCHANGED <<status, reputation, blocklist, g_block_local_ips,
                   nfq>>

Listener ==
    /\ status = "running"
    /\ \/ Accept \/ Install \/ ReadPayload \/ ReadEnds
       \/ Sync \/ SwapStart \/ SwapEnd \/ Disconnect

-----------------------------------------------------------------------------
(***************************************************************************)
(* The agent, as far as the daemon sees it: it connects, pushes payloads,  *)
(* reads events, and may close or die at any moment, also in the middle of *)
(* a push: Part is the beginning of a payload.                             *)
(***************************************************************************)
AgentConnects ==
    /\ ~sock.peer /\ ~sock.connecting
    /\ sock' = [sock EXCEPT !.connecting = TRUE]

AgentPushes ==
    /\ sock.peer /\ sock.inbox \in {None, Part}
    /\ \E p \in Payloads \cup {Part} : sock' = [sock EXCEPT !.inbox = p]

AgentReads ==
    /\ sock.peer /\ sock.events > 0
    /\ sock' = [sock EXCEPT !.events = @ - 1]

AgentCloses ==
    /\ sock.peer
    /\ sock' = [sock EXCEPT !.peer = FALSE]

Agent ==
    /\ AgentConnects \/ AgentPushes \/ AgentReads \/ AgentCloses
    /\ UNCHANGED <<status, reputation, blocklist, g_block_local_ips, agent_fd,
                   lsn, nfq>>

-----------------------------------------------------------------------------
(***************************************************************************)
(* fw_nfq_callback.  nfq.shut is history: the reasons to keep the source   *)
(* out ("score", "list") that have held ever since the packet arrived.     *)
(***************************************************************************)
Enforced(ip) ==
    ip \notin BypassedIps /\ (ip \in LocalIps => g_block_local_ips)

Shut(ip) ==
    {w \in {"score", "list"} :
        /\ Enforced(ip)
        /\ w = "score" => reputation[ip] <= BlockScore
        /\ w = "list"  => ip \in blocklist.covers /\ lsn.pc # "swapping"}

(* A bypassed address is accepted at once. *)
Recv ==
    /\ nfq.pc = "recv"
    /\ \E pkt \in Packets :
          nfq' = [pc |-> IF pkt.src \in BypassedIps THEN "verdict" ELSE "rep",
                  pkt |-> pkt, next |-> "recv", verdict |-> "ACCEPT",
                  shut |-> Shut(pkt.src)]
    /\ UNCHANGED <<status, reputation, blocklist, g_block_local_ips, agent_fd,
                   sock, lsn>>

(* recv on the queue's socket fails: the main loop ends and the daemon stops. *)
Stop ==
    /\ nfq.pc = "recv"
    /\ status' = "stopped"
    /\ UNCHANGED <<reputation, blocklist, g_block_local_ips, agent_fd, sock,
                   lsn, nfq>>

(* The callback decides to drop, raising an event on its way to next. *)
DropWithEvent(next) ==
    nfq' = [nfq EXCEPT !.pc = "send", !.next = next, !.verdict = "DROP"]

Continue(next) == nfq' = [nfq EXCEPT !.pc = next, !.next = "recv"]

Reputation ==
    /\ nfq.pc = "rep"
    /\ IF reputation[nfq.pkt.src] <= BlockScore
       THEN DropWithEvent("list") ELSE Continue("list")
    /\ UNCHANGED <<status, reputation, blocklist, g_block_local_ips, agent_fd,
                   sock, lsn>>

(* The answers of inspect_ip_blocklist: either one while the table is      *)
(* being replaced.                                                         *)
LookupAnswers(ip) ==
    IF lsn.pc = "swapping" THEN BOOLEAN ELSE {ip \in blocklist.covers}

CheckBlocklist ==
    /\ nfq.pc = "list"
    /\ \E found \in LookupAnswers(nfq.pkt.src) :
          IF found THEN DropWithEvent("tcp") ELSE Continue("tcp")
    /\ UNCHANGED <<status, reputation, blocklist, g_block_local_ips, agent_fd,
                   sock, lsn>>

(* Mutant: a segment the TCP monitor passes is accepted. *)
MonitorDecides ==
    /\ nfq.pc = "tcp"
    /\ nfq' = CASE nfq.pkt.tcp = "alert" ->
                       [nfq EXCEPT !.pc = "send", !.next = "verdict", !.verdict = "DROP"]
                [] nfq.pkt.tcp = "drop"  ->
                       [nfq EXCEPT !.pc = "verdict", !.verdict = "DROP"]
                [] OTHER -> [nfq EXCEPT !.pc = "http", !.verdict = "ACCEPT"]
    /\ UNCHANGED <<status, reputation, blocklist, g_block_local_ips, agent_fd,
                   sock, lsn>>

(* monitor_tcp_stats drops with or without an event, or passes the segment *)
(* on to the HTTP inspection.                                              *)
Monitor ==
    /\ nfq.pc = "tcp"
    /\ \/ nfq.pkt.tcp = "alert" /\ DropWithEvent("verdict")
       \/ nfq.pkt.tcp = "drop"
          /\ nfq' = [nfq EXCEPT !.pc = "verdict", !.verdict = "DROP"]
       \/ nfq.pkt.tcp = "pass" /\ Continue("http")
    /\ UNCHANGED <<status, reputation, blocklist, g_block_local_ips, agent_fd,
                   sock, lsn>>

(* inspect_http_payload: the first detector that fires raises its event,   *)
(* then damages the score.                                                 *)
Inspect ==
    /\ nfq.pc = "http"
    /\ IF nfq.pkt.threat = None THEN Continue("verdict") ELSE DropWithEvent("damage")
    /\ UNCHANGED <<status, reputation, blocklist, g_block_local_ips, agent_fd,
                   sock, lsn>>

Punish ==
    /\ nfq.pc = "damage"
    /\ reputation' = Damaged(nfq.pkt.src, Damage[nfq.pkt.threat])
    /\ Continue("verdict")
    /\ UNCHANGED <<status, blocklist, g_block_local_ips, agent_fd, sock, lsn>>

(* send_fw_event, under agent_lock: lost without an agent; queued;         *)
(* dropped when the buffer is full; and when the agent has closed its end, *)
(* the send raises SIGPIPE, or fails and the descriptor is closed: the     *)
(* daemon inherits the disposition of that signal from who starts it.      *)
SendLost ==
    /\ ~agent_fd
    /\ UNCHANGED <<status, agent_fd, sock>>

SendQueued ==
    /\ agent_fd /\ sock.peer /\ sock.events < SocketCapacity
    /\ sock' = [sock EXCEPT !.events = @ + 1]
    /\ UNCHANGED <<status, agent_fd>>

SendDropped ==
    /\ agent_fd /\ sock.peer /\ sock.events >= SocketCapacity
    /\ UNCHANGED <<status, agent_fd, sock>>

SendKills ==
    /\ agent_fd /\ ~sock.peer
    /\ status' = "killed"
    /\ UNCHANGED <<agent_fd, sock>>

(* Mutant: agent_fd keeps the number of the closed descriptor. *)
SendFailsKeepsFd ==
    /\ agent_fd /\ ~sock.peer
    /\ sock' = [sock EXCEPT !.open = FALSE]
    /\ UNCHANGED <<status, agent_fd>>

SendFails ==
    /\ agent_fd /\ ~sock.peer
    /\ agent_fd' = FALSE
    /\ sock' = [sock EXCEPT !.open = FALSE]
    /\ UNCHANGED status

Send ==
    /\ nfq.pc = "send"
    /\ SendLost \/ SendQueued \/ SendDropped \/ SendKills \/ SendFails
    /\ Continue(nfq.next)
    /\ UNCHANGED <<reputation, blocklist, g_block_local_ips, lsn>>

(* A local address is let through unless g_block_local_ips, then the       *)
(* verdict is set and the next packet can come.                            *)
FinalVerdict ==
    IF nfq.pkt.src \in LocalIps /\ ~g_block_local_ips THEN "ACCEPT" ELSE nfq.verdict

Verdict ==
    /\ nfq.pc = "verdict"
    /\ nfq' = [nfq EXCEPT !.pc = "set", !.verdict = FinalVerdict]
    /\ UNCHANGED <<status, reputation, blocklist, g_block_local_ips, agent_fd,
                   sock, lsn>>

SetVerdict ==
    /\ nfq.pc = "set"
    /\ nfq' = Idle
    /\ UNCHANGED <<status, reputation, blocklist, g_block_local_ips, agent_fd,
                   sock, lsn>>

Nfq ==
    /\ status = "running"
    /\ \/ Recv \/ Stop \/ Reputation \/ CheckBlocklist \/ Monitor \/ Inspect
       \/ Punish \/ Send \/ Verdict \/ SetVerdict

Next == Listener \/ Agent \/ Nfq

(* Both threads are scheduled; the agent and the network owe nothing, and  *)
(* a packet that has been received is decided without waiting.             *)
Decide == Nfq /\ nfq.pc # "recv"

Spec == Init /\ [][Next]_vars /\ WF_vars(Listener) /\ WF_vars(Decide)

-----------------------------------------------------------------------------
(* Type invariant: a score stays within 0 .. 100 whatever the detectors    *)
(* take off it.                                                            *)
TypeOK ==
    /\ status \in {"running", "stopped", "killed"}
    /\ reputation \in [Ips -> 0 .. 100]
    /\ blocklist \in Payloads \cup {NoPayload}
    /\ g_block_local_ips \in BOOLEAN /\ agent_fd \in BOOLEAN
    /\ sock.events \in 0 .. SocketCapacity
    /\ lsn.pc \in {"accept", "install", "read", "sync", "swap", "swapping", "close"}
    /\ nfq.pc \in {"recv", "rep", "list", "tcp", "http", "damage", "send",
                   "verdict", "set"}
    /\ nfq.verdict \in {"ACCEPT", "DROP"}

(* The descriptor of the agent's connection is closed exactly once,        *)
(* whichever thread sees the disconnect first: agent_fd never names a      *)
(* closed descriptor, and none is left open when the listener accepts      *)
(* again.                                                                  *)
DescriptorClosedOnce ==
    /\ agent_fd => sock.open
    /\ lsn.pc = "accept" => ~sock.open /\ ~agent_fd

(* A source that was listed, or blocked by its score, when its packet      *)
(* arrived, and stayed so until the verdict, is never let through, even    *)
(* when the listener thread applies payloads meanwhile.                    *)
ShutOutIsDropped ==
    nfq.pc = "set" /\ nfq.shut # {} => nfq.verdict = "DROP"

(* An address blocked by its score stays blocked, whatever it sends, until *)
(* a payload that does not name it is applied, and then starts afresh.     *)
BlockedUntilPardoned ==
    [][\A i \in Ips :
          reputation[i] <= BlockScore /\ reputation'[i] > BlockScore =>
              /\ lsn.pc = "sync" /\ i \notin lsn.payload.exact
              /\ reputation'[i] = 100]_vars

(* An agent that waits to connect is accepted: whatever its predecessor    *)
(* left behind, a payload, a part of one or a descriptor that is closed    *)
(* already, the listener gets back to accept.                              *)
AgentIsAccepted ==
    sock.connecting ~> (lsn.pc = "install" \/ status # "running")
=============================================================================
