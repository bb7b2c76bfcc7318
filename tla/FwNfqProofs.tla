---------------------------- MODULE FwNfqProofs -----------------------------
(***************************************************************************)
(* Proofs about FwNfq, for every set of addresses, detectors and payloads: *)
(* the life of the agent's descriptor, the verdict on a source that is     *)
(* shut out, and how long a block by score lasts.                          *)
(***************************************************************************)
EXTENDS FwNfq, TLAPS

SockType ==
    [connecting : BOOLEAN, open : BOOLEAN, peer : BOOLEAN,
     events : 0 .. SocketCapacity, inbox : Payloads \cup {None, Part}]

LsnType ==
    [pc : {"accept", "install", "read", "sync", "swap", "swapping", "close"},
     payload : Payloads \cup {None}]

NfqType ==
    [pc : {"recv", "rep", "list", "tcp", "http", "damage", "send", "verdict", "set"},
     pkt : Packets \cup {None},
     next : {"recv", "list", "tcp", "damage", "verdict"},
     verdict : {"ACCEPT", "DROP"},
     shut : SUBSET {"score", "list"}]

Typing ==
    /\ TypeOK
    /\ sock \in SockType
    /\ lsn \in LsnType
    /\ nfq \in NfqType

(* agent_fd and the descriptor agree, except between accept and install. *)
Connection ==
    /\ lsn.pc = "accept"  => ~sock.open /\ ~agent_fd
    /\ lsn.pc = "install" => sock.open /\ ~agent_fd
    /\ lsn.pc \notin {"accept", "install"} => agent_fd = sock.open

(* The listener holds a payload while it applies one. *)
HoldsPayload == lsn.pc \in {"sync", "swap", "swapping"} => lsn.payload \in Payloads

(* Where the callback goes on once the event it may be sending is out. *)
At == IF nfq.pc = "send" THEN nfq.next ELSE nfq.pc

(* The callback has a packet, and a threat when it punishes one. *)
HasPacket ==
    /\ nfq.pc = "recv" => nfq.shut = {}
    /\ nfq.pc # "recv" => nfq.pkt \in Packets
    /\ nfq.pc = "send" => nfq.next # "recv"
    /\ At = "damage" => nfq.pkt.threat \in Threats

(* The reasons recorded when the packet arrived still hold. *)
ShutIsCurrent ==
    /\ nfq.shut # {} => Enforced(nfq.pkt.src)
    /\ "score" \in nfq.shut => reputation[nfq.pkt.src] <= BlockScore
    /\ "list" \in nfq.shut => /\ nfq.pkt.src \in blocklist.covers
                              /\ lsn.pc # "swapping"

(* Past the check for a reason that holds, the verdict is to drop. *)
DropDecided ==
    /\ "score" \in nfq.shut /\ At \notin {"recv", "rep"} => nfq.verdict = "DROP"
    /\ "list" \in nfq.shut /\ At \notin {"recv", "rep", "list"} => nfq.verdict = "DROP"

(* The inductive invariant. *)
IInv ==
    /\ Typing
    /\ Connection
    /\ HoldsPayload
    /\ HasPacket
    /\ ShutIsCurrent
    /\ DropDecided

-----------------------------------------------------------------------------
(***************************************************************************)
(* The listener and the agent.                                             *)
(***************************************************************************)
(* A payload is a blocklist. *)
LEMMA PayloadType ==
    ASSUME NEW p \in Payloads
    PROVE  /\ p.exact \subseteq Ips /\ p.covers \subseteq Ips
           /\ p.local \in BOOLEAN
  BY FwNfqConstants

(* Pardoned scores are scores; nobody's score falls, and one that rises    *)
(* was at most BlockScore and is not named.                                *)
LEMMA SyncedScores ==
    ASSUME reputation \in [Ips -> 0 .. 100], NEW p
    PROVE  /\ Synced(p) \in [Ips -> 0 .. 100]
           /\ \A i \in Ips : \/ Synced(p)[i] = reputation[i]
                             \/ /\ Synced(p)[i] = 100
                                /\ reputation[i] <= BlockScore
                                /\ i \notin p.exact
  BY DEF Synced

(* Damage leaves a score, and never raises one. *)
LEMMA DamagedScores ==
    ASSUME reputation \in [Ips -> 0 .. 100], NEW ip \in Ips, NEW d \in Nat
    PROVE  /\ Damaged(ip, d) \in [Ips -> 0 .. 100]
           /\ \A i \in Ips : Damaged(ip, d)[i] <= reputation[i]
  <1>1. Clamped(reputation[ip] - d) \in 0 .. 100
    BY DEF Clamped
  <1>2. Clamped(reputation[ip] - d) <= reputation[ip]
    BY DEF Clamped
  <1>3. Damaged(ip, d) = [reputation EXCEPT ![ip] = Clamped(reputation[ip] - d)]
    BY DEF Damaged
  <1> QED BY <1>1, <1>2, <1>3

(* What the socket and the listener look like after each of their steps. *)
LEMMA ListenerTypes ==
    ASSUME Typing, HoldsPayload,
           Accept \/ Install \/ ReadPayload \/ ReadEnds \/ Sync \/ SwapStart
             \/ SwapEnd \/ Disconnect
    PROVE  sock' \in SockType /\ lsn' \in LsnType /\ agent_fd' \in BOOLEAN
           /\ HoldsPayload'
  <1> USE DEF Typing
  <1>0. 0 \in 0 .. SocketCapacity
    BY FwNfqConstants
  <1>1. CASE Accept
    BY <1>0, <1>1, Zenon DEF Accept, NoSock, SockType, LsnType, HoldsPayload, TypeOK
  <1>2. CASE Install
    BY <1>2, Zenon DEF Install, SockType, LsnType, HoldsPayload, TypeOK
  <1>3. CASE ReadPayload
    BY <1>3, Zenon DEF ReadPayload, SockType, LsnType, HoldsPayload, TypeOK
  <1>4. CASE ReadEnds
    BY <1>4, Zenon DEF ReadEnds, SockType, LsnType, HoldsPayload, TypeOK
  <1>5. CASE Sync
    BY <1>5, Zenon DEF Sync, SockType, LsnType, HoldsPayload, TypeOK
  <1>6. CASE SwapStart
    BY <1>6, Zenon DEF SwapStart, SockType, LsnType, HoldsPayload, TypeOK
  <1>7. CASE SwapEnd
    BY <1>7, Zenon DEF SwapEnd, SockType, LsnType, HoldsPayload, TypeOK
  <1>8. CASE Disconnect
    BY <1>0, <1>8, Zenon DEF Disconnect, NoSock, SockType, LsnType, HoldsPayload, TypeOK
  <1> QED BY <1>1, <1>2, <1>3, <1>4, <1>5, <1>6, <1>7, <1>8

(* The descriptor is opened by accept and closed once. *)
LEMMA ListenerConnection ==
    ASSUME Typing, Connection,
           Accept \/ Install \/ ReadPayload \/ ReadEnds \/ Sync \/ SwapStart
             \/ SwapEnd \/ Disconnect
    PROVE  Connection'
  <1> USE DEF Typing
  <1>1. CASE Accept
    BY <1>1, Zenon DEF Accept, NoSock, SockType, LsnType, Connection, TypeOK
  <1>2. CASE Install
    BY <1>2, Zenon DEF Install, SockType, LsnType, Connection, TypeOK
  <1>3. CASE ReadPayload
    BY <1>3, Zenon DEF ReadPayload, SockType, LsnType, Connection, TypeOK
  <1>4. CASE ReadEnds
    BY <1>4, Zenon DEF ReadEnds, SockType, LsnType, Connection, TypeOK
  <1>5. CASE Sync
    BY <1>5, Zenon DEF Sync, SockType, LsnType, Connection, TypeOK
  <1>6. CASE SwapStart
    BY <1>6, Zenon DEF SwapStart, SockType, LsnType, Connection, TypeOK
  <1>7. CASE SwapEnd
    BY <1>7, Zenon DEF SwapEnd, SockType, LsnType, Connection, TypeOK
  <1>8. CASE Disconnect
    BY <1>8, Zenon DEF Disconnect, NoSock, SockType, LsnType, Connection, TypeOK
  <1> QED BY <1>1, <1>2, <1>3, <1>4, <1>5, <1>6, <1>7, <1>8

(* Taking reasons away from nfq.shut changes nothing else. *)
LEMMA ShutShrinks ==
    ASSUME Typing, HasPacket, DropDecided, NEW T \in SUBSET nfq.shut,
           nfq' = [nfq EXCEPT !.shut = T]
    PROVE  /\ nfq' \in NfqType /\ HasPacket' /\ DropDecided'
           /\ nfq'.pkt = nfq.pkt /\ nfq'.shut = T
  BY DEF Typing, NfqType, HasPacket, DropDecided, At

(* The callback's state survives a step that leaves it alone. *)
LEMMA NfqKept ==
    ASSUME Typing, HasPacket, DropDecided, nfq' = nfq
    PROVE  nfq' \in NfqType /\ HasPacket' /\ DropDecided'
  BY DEF Typing, HasPacket, DropDecided, At

(* A step of the listener keeps the invariant. *)
LEMMA ListenerIInv ==
    ASSUME IInv, Listener
    PROVE  IInv'
  <1> USE DEF IInv
  <1>1. /\ sock' \in SockType /\ lsn' \in LsnType /\ agent_fd' \in BOOLEAN
        /\ HoldsPayload' /\ Connection'
    BY ListenerTypes, ListenerConnection DEF Listener
  <1>2. sock'.events \in 0 .. SocketCapacity
    BY <1>1 DEF SockType
  <1>3. lsn'.pc \in {"accept", "install", "read", "sync", "swap", "swapping", "close"}
    BY <1>1 DEF LsnType
  <1>4. CASE Sync
    <2> DEFINE T == {w \in nfq.shut : w = "score" =>
                                        reputation'[nfq.pkt.src] <= BlockScore}
    <2>1. nfq' = [nfq EXCEPT !.shut = T]
      BY <1>4 DEF Sync
    <2>2. /\ nfq' \in NfqType /\ HasPacket' /\ DropDecided'
          /\ nfq'.pkt = nfq.pkt /\ nfq'.shut = T
      BY <2>1, ShutShrinks
    <2>3. reputation' \in [Ips -> 0 .. 100]
      BY <1>4, SyncedScores DEF Sync, Typing, TypeOK
    <2>4. Typing'
      BY <1>1, <1>2, <1>3, <1>4, <2>2, <2>3, Zenon DEF Sync, Typing, TypeOK, NfqType
    <2>5. ShutIsCurrent'
      BY <1>4, <2>2 DEF Sync, ShutIsCurrent, Enforced, Typing, LsnType
    <2> QED BY <1>1, <2>2, <2>4, <2>5
  <1>5. CASE SwapStart
    <2> DEFINE T == IF nfq.pkt # None /\ nfq.pkt.src \in LocalIps
                    THEN {} ELSE nfq.shut \ {"list"}
    <2>1. nfq' = [nfq EXCEPT !.shut = T]
      BY <1>5 DEF SwapStart
    <2>2. /\ nfq' \in NfqType /\ HasPacket' /\ DropDecided'
          /\ nfq'.pkt = nfq.pkt /\ nfq'.shut = T
      BY <2>1, ShutShrinks
    <2>3. g_block_local_ips' \in BOOLEAN
      BY <1>5, PayloadType DEF SwapStart, HoldsPayload
    <2>4. Typing'
      BY <1>1, <1>2, <1>3, <1>5, <2>2, <2>3 DEF SwapStart, Typing, TypeOK, NfqType
    <2>5. T # {} => nfq.pkt.src \notin LocalIps
      BY NoneIsNoPacket DEF HasPacket
    <2>6. ShutIsCurrent'
      BY <1>5, <2>2, <2>5 DEF SwapStart, ShutIsCurrent, Enforced
    <2> QED BY <1>1, <2>2, <2>4, <2>6
  <1>6. CASE SwapEnd
    <2>1. Typing'
      BY <1>1, <1>2, <1>3, <1>6 DEF SwapEnd, Typing, TypeOK, HoldsPayload
    <2>2. ShutIsCurrent'
      BY <1>6 DEF SwapEnd, ShutIsCurrent, Enforced
    <2> QED BY <1>1, <1>6, <2>1, <2>2, NfqKept DEF SwapEnd
  <1>7. CASE Accept \/ Install \/ ReadPayload \/ ReadEnds \/ Disconnect
    <2>1. UNCHANGED <<status, reputation, blocklist, g_block_local_ips, nfq>>
      BY <1>7 DEF Accept, Install, ReadPayload, ReadEnds, Disconnect
    <2>2. lsn'.pc # "swapping"
      BY <1>7 DEF Accept, Install, ReadPayload, ReadEnds, Disconnect, Typing, LsnType
    <2>3. Typing'
      BY <1>1, <1>2, <1>3, <2>1 DEF Typing, TypeOK
    <2>4. ShutIsCurrent'
      BY <2>1, <2>2 DEF ShutIsCurrent, Enforced
    <2> QED BY <1>1, <2>1, <2>3, <2>4, NfqKept
  <1> QED BY <1>4, <1>5, <1>6, <1>7 DEF Listener

(* A step of the agent touches neither its daemon's descriptor nor the     *)
(* callback.                                                               *)
LEMMA AgentIInv ==
    ASSUME IInv, Agent
    PROVE  IInv'
  <1> USE DEF IInv
  <1>1. /\ sock \in SockType /\ sock.events \in 0 .. SocketCapacity
        /\ SocketCapacity \in Nat
    BY FwNfqConstants DEF Typing, SockType
  <1>2. sock' \in SockType /\ sock'.open = sock.open
    <2>1. CASE AgentConnects
      BY <1>1, <2>1, Zenon DEF AgentConnects, SockType
    <2>2. CASE AgentPushes
      BY <1>1, <2>2, Zenon DEF AgentPushes, SockType
    <2>3. CASE AgentReads
      <3>1. sock.events - 1 \in 0 .. SocketCapacity
        BY <1>1, <2>3 DEF AgentReads
      <3> QED BY <1>1, <2>3, <3>1, Zenon DEF AgentReads, SockType
    <2>4. CASE AgentCloses
      BY <1>1, <2>4, Zenon DEF AgentCloses, SockType
    <2> QED BY <2>1, <2>2, <2>3, <2>4 DEF Agent
  <1>3. UNCHANGED <<status, reputation, blocklist, g_block_local_ips, agent_fd,
                    lsn, nfq>>
    BY DEF Agent
  <1>4. sock'.events \in 0 .. SocketCapacity
    BY <1>2 DEF SockType
  <1>5. Typing'
    BY <1>2, <1>3, <1>4 DEF Typing, TypeOK
  <1>6. Connection' /\ HoldsPayload' /\ ShutIsCurrent'
    BY <1>2, <1>3 DEF Connection, HoldsPayload, ShutIsCurrent, Enforced
  <1> QED BY <1>3, <1>5, <1>6, NfqKept

-----------------------------------------------------------------------------
(***************************************************************************)
(* The callback.                                                           *)
(***************************************************************************)
CallbackInv ==
    nfq \in NfqType /\ HasPacket /\ ShutIsCurrent /\ DropDecided

(* The callback's facts are all a step can disturb that changes nfq only. *)
LEMMA OnlyNfq ==
    ASSUME IInv, CallbackInv',
           UNCHANGED <<status, reputation, blocklist, g_block_local_ips, agent_fd,
                       sock, lsn>>
    PROVE  IInv'
  BY DEF IInv, CallbackInv, Typing, TypeOK, NfqType, Connection, HoldsPayload

(* Going on to the next check, with or without a drop, keeps the reasons   *)
(* recorded on arrival.                                                    *)
LEMMA GoesOn ==
    ASSUME IInv, nfq.pc # "recv",
           UNCHANGED <<reputation, blocklist, g_block_local_ips, lsn>>,
           NEW d \in {"ACCEPT", "DROP"},
           NEW q \in {"list", "tcp", "http", "damage", "send", "verdict", "set"},
           NEW n \in {"recv", "list", "tcp", "damage", "verdict"},
           nfq' = [nfq EXCEPT !.pc = q, !.next = n, !.verdict = d],
           q = "send" => n # "recv",
           At' = "damage" => nfq.pkt.threat \in Threats,
           \/ d = "DROP" \/ nfq.shut = {}
           \/ /\ d = nfq.verdict
              /\ "score" \in nfq.shut => At # "rep"
              /\ "list" \in nfq.shut => At \notin {"rep", "list"} \/ At' = "list"
    PROVE  CallbackInv'
  <1> USE DEF IInv, Typing
  <1>1. /\ nfq' \in NfqType
        /\ nfq'.pc = q /\ nfq'.next = n /\ nfq'.verdict = d
        /\ nfq'.pkt = nfq.pkt /\ nfq'.shut = nfq.shut
    BY Zenon DEF NfqType
  <1>2. HasPacket'
    BY <1>1 DEF HasPacket
  <1>3. ShutIsCurrent'
    BY <1>1 DEF ShutIsCurrent, Enforced
  <1>4. At # "recv"
    BY DEF HasPacket, At
  <1>5. DropDecided'
    BY <1>1, <1>4 DEF DropDecided
  <1> QED BY <1>1, <1>2, <1>3, <1>5 DEF CallbackInv

(* The form of the two ways a check ends. *)
LEMMA CheckEnds ==
    ASSUME nfq \in NfqType, NEW n
    PROVE  /\ DropWithEvent(n) => nfq' = [nfq EXCEPT !.pc = "send", !.next = n,
                                                     !.verdict = "DROP"]
           /\ Continue(n) => nfq' = [nfq EXCEPT !.pc = n, !.next = "recv",
                                                !.verdict = nfq.verdict]
  BY Zenon DEF DropWithEvent, Continue, NfqType

(* A packet arrives: the reasons to keep its source out are recorded. *)
LEMMA RecvIInv ==
    ASSUME IInv, Recv
    PROVE  IInv'
  <1> USE DEF IInv
  <1>1. PICK pkt \in Packets :
          nfq' = [pc |-> IF pkt.src \in BypassedIps THEN "verdict" ELSE "rep",
                  pkt |-> pkt, next |-> "recv", verdict |-> "ACCEPT",
                  shut |-> Shut(pkt.src)]
    BY DEF Recv
  <1>2. UNCHANGED <<status, reputation, blocklist, g_block_local_ips, agent_fd,
                    sock, lsn>>
    BY DEF Recv
  <1>3. Shut(pkt.src) \in SUBSET {"score", "list"}
    BY DEF Shut
  <1>4. nfq' \in NfqType
    BY <1>1, <1>3 DEF NfqType
  <1>5. HasPacket'
    BY <1>1 DEF HasPacket, At
  <1>6. ShutIsCurrent'
    BY <1>1, <1>2 DEF ShutIsCurrent, Shut, Enforced
  <1>7. pkt.src \in BypassedIps => Shut(pkt.src) = {}
    BY DEF Shut, Enforced
  <1>8. DropDecided'
    BY <1>1, <1>7 DEF DropDecided, At
  <1> QED BY <1>2, <1>4, <1>5, <1>6, <1>8, OnlyNfq DEF CallbackInv

(* A step of the callback keeps the invariant. *)
LEMMA NfqIInv ==
    ASSUME IInv, Nfq
    PROVE  IInv'
  <1> USE DEF IInv
  <1>0. nfq \in NfqType
    BY DEF Typing
  <1>1. CASE Recv
    BY <1>1, RecvIInv
  <1>2. CASE Stop
    BY <1>2, NfqKept DEF Stop, Typing, TypeOK, Connection, HoldsPayload,
                         ShutIsCurrent, Enforced
  <1>3. CASE Reputation
    <2>1. /\ nfq.pc = "rep" /\ At = "rep"
          /\ UNCHANGED <<status, reputation, blocklist, g_block_local_ips, agent_fd,
                         sock, lsn>>
      BY <1>3 DEF Reputation, At
    <2>2. CASE reputation[nfq.pkt.src] <= BlockScore
      <3>1. nfq' = [nfq EXCEPT !.pc = "send", !.next = "list", !.verdict = "DROP"]
        BY <1>0, <1>3, <2>2, CheckEnds, Zenon DEF Reputation
      <3>2. At' = "list"
        BY <1>0, <3>1 DEF At, NfqType
      <3>3. CallbackInv'
        BY <2>1, <3>1, <3>2, GoesOn
      <3> QED BY <2>1, <3>3, OnlyNfq
    <2>3. CASE ~(reputation[nfq.pkt.src] <= BlockScore)
      <3>1. nfq' = [nfq EXCEPT !.pc = "list", !.next = "recv", !.verdict = nfq.verdict]
        BY <1>0, <1>3, <2>3, CheckEnds, Zenon DEF Reputation
      <3>2. At' = "list"
        BY <1>0, <3>1 DEF At, NfqType
      <3>3. "score" \notin nfq.shut
        BY <2>3 DEF ShutIsCurrent
      <3>4. CallbackInv'
        BY <1>0, <2>1, <3>1, <3>2, <3>3, GoesOn, Zenon DEF NfqType
      <3> QED BY <2>1, <3>4, OnlyNfq
    <2> QED BY <2>2, <2>3
  <1>4. CASE CheckBlocklist
    <2>1. /\ nfq.pc = "list" /\ At = "list"
          /\ UNCHANGED <<status, reputation, blocklist, g_block_local_ips, agent_fd,
                         sock, lsn>>
      BY <1>4 DEF CheckBlocklist, At
    <2>2. CASE DropWithEvent("tcp")
      <3>1. nfq' = [nfq EXCEPT !.pc = "send", !.next = "tcp", !.verdict = "DROP"]
        BY <1>0, <2>2, CheckEnds, Zenon
      <3>2. At' = "tcp"
        BY <1>0, <3>1 DEF At, NfqType
      <3>3. CallbackInv'
        BY <2>1, <3>1, <3>2, GoesOn
      <3> QED BY <2>1, <3>3, OnlyNfq
    <2>3. CASE Continue("tcp") /\ FALSE \in LookupAnswers(nfq.pkt.src)
      <3>1. nfq' = [nfq EXCEPT !.pc = "tcp", !.next = "recv", !.verdict = nfq.verdict]
        BY <1>0, <2>3, CheckEnds, Zenon
      <3>2. At' = "tcp"
        BY <1>0, <3>1 DEF At, NfqType
      <3>3. "list" \notin nfq.shut
        BY <2>3, Zenon DEF ShutIsCurrent, LookupAnswers
      <3>4. CallbackInv'
        BY <1>0, <2>1, <3>1, <3>2, <3>3, GoesOn, Zenon DEF NfqType
      <3> QED BY <2>1, <3>4, OnlyNfq
    <2>4. LookupAnswers(nfq.pkt.src) \subseteq BOOLEAN
      BY DEF LookupAnswers
    <2> QED BY <1>4, <2>2, <2>3, <2>4, Zenon DEF CheckBlocklist
  <1>5. CASE Monitor
    <2>1. /\ nfq.pc = "tcp" /\ At = "tcp"
          /\ UNCHANGED <<status, reputation, blocklist, g_block_local_ips, agent_fd,
                         sock, lsn>>
      BY <1>5 DEF Monitor, At
    <2>2. PICK q \in {"send", "verdict", "http"},
               n \in {"recv", "list", "tcp", "damage", "verdict"},
               d \in {"DROP", nfq.verdict} :
            /\ nfq' = [nfq EXCEPT !.pc = q, !.next = n, !.verdict = d]
            /\ q = "send" => n = "verdict"
      <3>1. CASE DropWithEvent("verdict")
        BY <1>0, <3>1, CheckEnds, Zenon
      <3>2. CASE nfq' = [nfq EXCEPT !.pc = "verdict", !.verdict = "DROP"]
        <4>1. nfq' = [nfq EXCEPT !.pc = "verdict", !.next = nfq.next, !.verdict = "DROP"]
          BY <1>0, <3>2, Zenon DEF NfqType
        <4> QED BY <1>0, <4>1, Zenon DEF NfqType
      <3>3. CASE Continue("http")
        BY <1>0, <3>3, CheckEnds, Zenon
      <3> QED BY <1>5, <3>1, <3>2, <3>3 DEF Monitor
    <2>3. At' # "damage"
      BY <1>0, <2>2 DEF At, NfqType
    <2>4. CallbackInv'
      BY <1>0, <2>1, <2>2, <2>3, GoesOn, Zenon DEF NfqType
    <2> QED BY <2>1, <2>4, OnlyNfq
  <1>6. CASE Inspect
    <2>1. /\ nfq.pc = "http" /\ At = "http"
          /\ UNCHANGED <<status, reputation, blocklist, g_block_local_ips, agent_fd,
                         sock, lsn>>
      BY <1>6 DEF Inspect, At
    <2>2. CASE nfq.pkt.threat = None
      <3>1. nfq' = [nfq EXCEPT !.pc = "verdict", !.next = "recv", !.verdict = nfq.verdict]
        BY <1>0, <1>6, <2>2, CheckEnds, Zenon DEF Inspect
      <3>2. At' = "verdict"
        BY <1>0, <3>1 DEF At, NfqType
      <3>3. CallbackInv'
        BY <1>0, <2>1, <3>1, <3>2, GoesOn, Zenon DEF NfqType
      <3> QED BY <2>1, <3>3, OnlyNfq
    <2>3. CASE nfq.pkt.threat # None
      <3>1. nfq' = [nfq EXCEPT !.pc = "send", !.next = "damage", !.verdict = "DROP"]
        BY <1>0, <1>6, <2>3, CheckEnds, Zenon DEF Inspect
      <3>2. nfq.pkt.threat \in Threats
        BY <2>1, <2>3 DEF HasPacket, Packets
      <3>3. CallbackInv'
        BY <2>1, <3>1, <3>2, GoesOn
      <3> QED BY <2>1, <3>3, OnlyNfq
    <2> QED BY <2>2, <2>3
  <1>7. CASE Punish
    <2>1. /\ nfq.pc = "damage" /\ At = "damage"
          /\ UNCHANGED <<status, blocklist, g_block_local_ips, agent_fd, sock, lsn>>
      BY <1>7 DEF Punish, At
    <2>2. nfq.pkt \in Packets /\ nfq.pkt.src \in Ips /\ Damage[nfq.pkt.threat] \in Nat
      BY <2>1, FwNfqConstants DEF HasPacket, Packets
    <2>3. /\ reputation' \in [Ips -> 0 .. 100]
          /\ \A i \in Ips : reputation'[i] <= reputation[i]
          /\ reputation \in [Ips -> 0 .. 100]
      BY <1>7, <2>2, DamagedScores DEF Punish, Typing, TypeOK
    <2>4. /\ nfq' \in NfqType /\ nfq'.pkt = nfq.pkt /\ nfq'.shut = nfq.shut
          /\ nfq'.verdict = nfq.verdict /\ nfq'.pc = "verdict"
      BY <1>0, <1>7, Zenon DEF Punish, Continue, NfqType
    <2>5. HasPacket' /\ DropDecided'
      BY <2>1, <2>2, <2>4 DEF HasPacket, DropDecided, At
    <2>6. ShutIsCurrent'
      <3>1. reputation[nfq.pkt.src] <= BlockScore => reputation'[nfq.pkt.src] <= BlockScore
        BY <2>2, <2>3 DEF BlockScore
      <3> QED BY <2>1, <2>4, <3>1 DEF ShutIsCurrent, Enforced
    <2>7. Typing' /\ Connection' /\ HoldsPayload'
      BY <2>1, <2>3, <2>4 DEF Typing, TypeOK, NfqType, Connection, HoldsPayload
    <2> QED BY <2>5, <2>6, <2>7
  <1>8. CASE Send
    <2>1. /\ nfq.pc = "send" /\ At = nfq.next /\ nfq.next # "recv"
          /\ UNCHANGED <<reputation, blocklist, g_block_local_ips, lsn>>
      BY <1>8 DEF Send, At, HasPacket
    <2>2. nfq' = [nfq EXCEPT !.pc = nfq.next, !.next = "recv", !.verdict = nfq.verdict]
      BY <1>0, <1>8, CheckEnds, Zenon DEF Send
    <2>3. At' = At
      BY <1>0, <2>1, <2>2 DEF At, NfqType
    <2>4. nfq.next \in {"list", "tcp", "damage", "verdict"}
      BY <1>0, <2>1 DEF NfqType
    <2>5. CallbackInv'
      BY <1>0, <2>1, <2>2, <2>3, <2>4, GoesOn, Zenon DEF NfqType, HasPacket
    <2>6. /\ status' \in {"running", "stopped", "killed"}
          /\ sock' \in SockType /\ sock'.events \in 0 .. SocketCapacity
          /\ agent_fd' \in BOOLEAN /\ Connection'
      <3>1. sock \in SockType /\ sock.events \in 0 .. SocketCapacity
        BY DEF Typing, SockType
      <3>2. CASE SendLost \/ SendDropped \/ SendKills
        BY <2>1, <3>1, <3>2 DEF SendLost, SendDropped, SendKills, Connection, Typing, TypeOK
      <3>3. CASE SendQueued
        <4>1. sock.events + 1 \in 0 .. SocketCapacity
          BY <3>1, <3>3, FwNfqConstants DEF SendQueued
        <4>2. /\ sock' \in SockType /\ sock'.open = sock.open
              /\ sock'.events = sock.events + 1
          BY <3>1, <3>3, <4>1, Zenon DEF SendQueued, SockType
        <4> QED BY <2>1, <3>3, <4>1, <4>2, Zenon DEF SendQueued, Connection, Typing, TypeOK
      <3>4. CASE SendFails
        <4>1. /\ sock' \in SockType /\ sock'.open = FALSE
              /\ sock'.events = sock.events
          BY <3>1, <3>4, Zenon DEF SendFails, SockType
        <4> QED BY <2>1, <3>1, <3>4, <4>1, Zenon DEF SendFails, Connection, Typing, TypeOK
      <3> QED BY <1>8, <3>2, <3>3, <3>4 DEF Send
    <2>7. Typing' /\ HoldsPayload'
      BY <2>1, <2>5, <2>6 DEF CallbackInv, Typing, TypeOK, NfqType, HoldsPayload
    <2> QED BY <2>5, <2>6, <2>7 DEF CallbackInv
  <1>9. CASE Verdict
    <2>1. /\ nfq.pc = "verdict" /\ At = "verdict"
          /\ UNCHANGED <<status, reputation, blocklist, g_block_local_ips, agent_fd,
                         sock, lsn>>
      BY <1>9 DEF Verdict, At
    <2>2. nfq' = [nfq EXCEPT !.pc = "set", !.next = nfq.next, !.verdict = FinalVerdict]
      BY <1>0, <1>9, Zenon DEF Verdict, NfqType
    <2>3. At' = "set"
      BY <1>0, <2>2 DEF At, NfqType
    <2>4. nfq.shut # {} => FinalVerdict = nfq.verdict
      BY DEF FinalVerdict, ShutIsCurrent, Enforced
    <2>5. FinalVerdict \in {"ACCEPT", "DROP"} /\ nfq.next \in {"recv", "list", "tcp", "damage", "verdict"}
      BY <1>0 DEF FinalVerdict, NfqType
    <2>6. CallbackInv'
      BY <2>1, <2>2, <2>3, <2>4, <2>5, GoesOn, Zenon
    <2> QED BY <2>1, <2>6, OnlyNfq
  <1>10. CASE SetVerdict
    <2>1. CallbackInv'
      BY <1>10 DEF SetVerdict, Idle, CallbackInv, NfqType, HasPacket, ShutIsCurrent,
                   DropDecided, At
    <2> QED BY <1>10, <2>1, OnlyNfq DEF SetVerdict
  <1> QED
    BY <1>1, <1>2, <1>3, <1>4, <1>5, <1>6, <1>7, <1>8, <1>9, <1>10 DEF Nfq

-----------------------------------------------------------------------------
(* The daemon starts without an agent, a payload or a packet. *)
LEMMA InitIInv == Init => IInv
  <1> SUFFICES ASSUME Init PROVE IInv
    OBVIOUS
  <1>1. 0 \in 0 .. SocketCapacity /\ 100 \in 0 .. 100
    BY FwNfqConstants
  <1>2. sock \in SockType /\ sock.events \in 0 .. SocketCapacity /\ sock.open = FALSE
    BY <1>1, Zenon DEF Init, NoSock, SockType
  <1>3. lsn \in LsnType /\ nfq \in NfqType
    BY DEF Init, LsnType, NfqType, Idle
  <1>4. reputation \in [Ips -> 0 .. 100]
    BY <1>1 DEF Init
  <1>5. Typing
    BY <1>2, <1>3, <1>4, Zenon DEF Init, Typing, TypeOK, Idle
  <1>6. HasPacket /\ ShutIsCurrent /\ DropDecided
    BY DEF Init, Idle, HasPacket, ShutIsCurrent, DropDecided, At
  <1>7. Connection /\ HoldsPayload
    BY <1>2 DEF Init, Connection, HoldsPayload
  <1> QED BY <1>5, <1>6, <1>7 DEF IInv

(* Every step of either thread or of the agent keeps the invariant. *)
LEMMA NextIInv == IInv /\ [Next]_vars => IInv'
  <1> SUFFICES ASSUME IInv, [Next]_vars PROVE IInv'
    OBVIOUS
  <1>1. CASE Listener
    BY <1>1, ListenerIInv
  <1>2. CASE Agent
    BY <1>2, AgentIInv
  <1>3. CASE Nfq
    BY <1>3, NfqIInv
  <1>4. CASE UNCHANGED vars
    BY <1>4, NfqKept DEF vars, IInv, Typing, TypeOK, Connection, HoldsPayload,
                         ShutIsCurrent, Enforced
  <1> QED BY <1>1, <1>2, <1>3, <1>4 DEF Next

(* The invariants of fw_nfq.c hold in every reachable state. *)
THEOREM Invariance == Spec => []IInv
  BY InitIInv, NextIInv, PTL DEF Spec

(* Type correctness: a score stays within 0 .. 100 for any damage. *)
THEOREM TypeCorrect == Spec => []TypeOK
  <1>1. IInv => TypeOK
    BY DEF IInv, Typing
  <1> QED BY Invariance, <1>1, PTL

(* The agent's descriptor is closed exactly once, by whichever thread sees *)
(* the disconnect first (agent_listener_thread, send_fw_event).            *)
THEOREM ClosedOnce == Spec => []DescriptorClosedOnce
  <1>1. IInv => DescriptorClosedOnce
    BY DEF IInv, Connection, DescriptorClosedOnce, Typing, LsnType
  <1> QED BY Invariance, <1>1, PTL

(* fw_nfq_callback lets no source through that was shut out from the       *)
(* arrival of its packet to the verdict, whatever payloads the listener    *)
(* thread applies meanwhile.                                               *)
THEOREM ShutOutDropped == Spec => []ShutOutIsDropped
  <1>1. IInv => ShutOutIsDropped
    <2> SUFFICES ASSUME IInv, nfq.pc = "set", nfq.shut # {}
                 PROVE  nfq.verdict = "DROP"
      BY DEF ShutOutIsDropped
    <2>1. "score" \in nfq.shut \/ "list" \in nfq.shut
      BY DEF IInv, Typing, NfqType
    <2> QED BY <2>1 DEF IInv, DropDecided, At
  <1> QED BY Invariance, <1>1, PTL

(* A block by score ends only when a payload that does not name the        *)
(* address is synced (sync_reputation_with_blocklist), and then at 100.    *)
THEOREM BlockLasts == Spec => BlockedUntilPardoned
  <1> DEFINE Lasts ==
        \A i \in Ips :
          reputation[i] <= BlockScore /\ reputation'[i] > BlockScore =>
              /\ lsn.pc = "sync" /\ i \notin lsn.payload.exact
              /\ reputation'[i] = 100
  <1>1. IInv /\ [Next]_vars => [Lasts]_vars
    <2> SUFFICES ASSUME IInv, Next, NEW i \in Ips,
                        reputation[i] <= BlockScore, reputation'[i] > BlockScore
                 PROVE  /\ lsn.pc = "sync" /\ i \notin lsn.payload.exact
                        /\ reputation'[i] = 100
      OBVIOUS
    <2> USE DEF IInv
    <2>1. reputation \in [Ips -> 0 .. 100]
      BY DEF Typing, TypeOK
    <2>2. reputation' # reputation
      BY <2>1 DEF BlockScore
    <2>3. Sync \/ Punish
      BY <2>2 DEF Next, Listener, Accept, Install, ReadPayload, ReadEnds, SwapStart,
                  SwapEnd, Disconnect, Agent, Nfq, Recv, Stop, Reputation,
                  CheckBlocklist, Monitor, Inspect, Send, Verdict, SetVerdict
    <2>4. ~Punish
      <3> SUFFICES ASSUME Punish PROVE FALSE
        OBVIOUS
      <3>1. nfq.pkt.src \in Ips /\ Damage[nfq.pkt.threat] \in Nat
        BY FwNfqConstants DEF Punish, HasPacket, Packets, At
      <3>2. reputation'[i] <= reputation[i] /\ reputation'[i] \in 0 .. 100
        BY <2>1, <3>1, DamagedScores, Zenon DEF Punish
      <3> QED BY <2>1, <3>2 DEF BlockScore
    <2>5. lsn.pc = "sync" /\ reputation' = Synced(lsn.payload)
      BY <2>3, <2>4 DEF Sync
    <2>6. \/ reputation'[i] = reputation[i]
          \/ reputation'[i] = 100 /\ i \notin lsn.payload.exact
      BY <2>1, <2>5, SyncedScores
    <2>7. reputation'[i] # reputation[i]
      BY <2>1 DEF BlockScore
    <2> QED BY <2>5, <2>6, <2>7
  <1> QED BY <1>1, Invariance, PTL DEF Spec, BlockedUntilPardoned
=============================================================================
