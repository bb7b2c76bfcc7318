-------------------------- MODULE TcpMonitorProofs --------------------------
(***************************************************************************)
(* Proofs about TcpMonitor, for every pool size, hash function and limit.  *)
(***************************************************************************)
EXTENDS TcpMonitor, FiniteSetTheorems, TLAPS

(* No entry was seen in the future. *)
SeenInPast == \A s \in Slots : pool[s].last_seen <= now

(* A free slot is all zero: in particular it is not blocked. *)
FreeIsZeroed == \A s \in Slots : pool[s].conn = NoConn => pool[s] = Zeroed

(* The inductive invariant. *)
IInv ==
    /\ TypeOK
    /\ SeenInPast
    /\ FreeIsZeroed
    /\ OpenLimitHolds
    /\ OpenWithinTimeout

-----------------------------------------------------------------------------
(* A uint8_t counter stays in its range when it is incremented. *)
LEMMA HeaderCountWraps ==
    ASSUME NEW n \in 0 .. HeaderCountMod - 1
    PROVE  (n + 1) % HeaderCountMod \in 0 .. HeaderCountMod - 1
  BY TcpConstants

(* A zeroed slot is a conn_state. *)
LEMMA ZeroedType == Zeroed \in ConnState
  BY TcpConstants DEF Zeroed, ConnState

(* A new SYN window keeps the entry a conn_state. *)
LEMMA SynWindowUpdate ==
    ASSUME NEW e \in ConnState, NEW t \in Nat
    PROVE  [e EXCEPT !.syn_count = 1, !.syn_window_start = t] \in ConnState
  BY Zenon DEF ConnState

(* What the lookup and the SYN accounting leave in the packet's entry:     *)
(* the entry belongs to the packet's connection, was seen now, and keeps   *)
(* the HTTP progress of an entry already owned or starts without any.      *)
LEMMA CountedEntry ==
    ASSUME TypeOK, NEW p \in Packets
    PROVE  /\ Counted(p) \in ConnState
           /\ Counted(p).conn = p.conn
           /\ Counted(p).last_seen = now
           /\ Owns(p) =>
                /\ Counted(p).http_start_time = pool[SlotOf(p)].http_start_time
                /\ Counted(p).is_http_complete = pool[SlotOf(p)].is_http_complete
                /\ pool[SlotOf(p)].is_blocked => Counted(p).is_blocked
           /\ ~Owns(p) => Counted(p).http_start_time = 0
  <1> DEFINE base == IF Owns(p) THEN pool[SlotOf(p)] ELSE Reclaimed(p.conn)
  <1>1. p.conn \in Conns /\ SlotOf(p) \in Slots
    BY TcpConstants, Zenon DEF Packets, SlotOf
  <1>2. base \in ConnState /\ base.conn = p.conn
    BY <1>1, ZeroedType, Zenon DEF TypeOK, Owns, Reclaimed, Zeroed, ConnState
  <1>3. base.http_header_count \in 0 .. HeaderCountMod - 1
    BY <1>2 DEF ConnState
  <1>4. (base.http_header_count + 1) % HeaderCountMod \in 0 .. HeaderCountMod - 1
    BY <1>3, HeaderCountWraps
  <1>5. /\ Looked(p) \in ConnState
        /\ Looked(p).conn = p.conn
        /\ Looked(p).last_seen = now
        /\ Looked(p).http_start_time = base.http_start_time
        /\ Looked(p).is_http_complete = base.is_http_complete
        /\ Looked(p).is_blocked = base.is_blocked
    BY <1>2, <1>4, Zenon DEF Looked, Touched, ConnState, TypeOK
  <1>6. /\ Counted(p) \in ConnState
        /\ Counted(p).conn = p.conn
        /\ Counted(p).last_seen = now
        /\ Counted(p).http_start_time = base.http_start_time
        /\ Counted(p).is_http_complete = base.is_http_complete
        /\ base.is_blocked => Counted(p).is_blocked
    <2> DEFINE e == Looked(p)
               over == e.is_blocked \/ e.syn_count + 1 > SYN_FLOOD_THRESHOLD
    <2> HIDE DEF base
    <2>1. CASE ~p.syn
      BY <1>5, <2>1 DEF Counted, SynCounted
    <2>2. CASE p.syn /\ NewSynWindow(e)
      <3>1. Counted(p) = [e EXCEPT !.syn_count = 1, !.syn_window_start = now]
        BY <2>2 DEF Counted, SynCounted
      <3>2. e \in ConnState /\ now \in Nat
        BY <1>5 DEF TypeOK
      <3> HIDE DEF e
      <3>3. Counted(p) \in ConnState
        BY <3>1, <3>2, SynWindowUpdate, Zenon
      <3>4. /\ Counted(p).is_blocked = e.is_blocked
            /\ Counted(p).conn = e.conn
            /\ Counted(p).last_seen = e.last_seen
            /\ Counted(p).http_start_time = e.http_start_time
            /\ Counted(p).is_http_complete = e.is_http_complete
        BY <3>1, <3>2 DEF ConnState
      <3> QED
        BY <1>5, <3>3, <3>4 DEF e
    <2>3. CASE p.syn /\ ~NewSynWindow(e)
      <3>1. Counted(p) = [e EXCEPT !.syn_count = @ + 1, !.is_blocked = over]
        BY <2>3 DEF Counted, SynCounted
      <3>2. over \in BOOLEAN
        OBVIOUS
      <3>3. e.is_blocked => over
        OBVIOUS
      <3>4. e \in ConnState /\ e.syn_count + 1 \in Nat
        BY <1>5 DEF ConnState
      <3> HIDE DEF e, over
      <3>5. /\ Counted(p) \in ConnState
            /\ Counted(p).is_blocked = over
            /\ Counted(p).conn = e.conn
            /\ Counted(p).last_seen = e.last_seen
            /\ Counted(p).http_start_time = e.http_start_time
            /\ Counted(p).is_http_complete = e.is_http_complete
        BY <3>1, <3>2, <3>4, Zenon DEF ConnState
      <3> QED
        BY <1>5, <3>3, <3>5 DEF e
    <2> QED
      BY <2>1, <2>2, <2>3
  <1>7. ~Owns(p) => base.http_start_time = 0
    BY DEF Reclaimed, Zeroed
  <1> QED
    BY <1>6, <1>7

(* Starting the head timer touches nothing else; the timer is then set. *)
LEMMA HttpStartedEntry ==
    ASSUME NEW e \in ConnState, now \in Nat \ {0}
    PROVE  /\ HttpStarted(e) \in ConnState
           /\ HttpStarted(e).conn = e.conn
           /\ HttpStarted(e).last_seen = e.last_seen
           /\ HttpStarted(e).is_http_complete = e.is_http_complete
           /\ HttpStarted(e).is_blocked = e.is_blocked
           /\ HttpStarted(e).http_start_time > 0
           /\ HttpStarted(e).http_start_time \in {now, e.http_start_time}
  BY DEF HttpStarted, ConnState

(* The register calls count a header and may complete the request. *)
LEMMA HttpRegisteredEntry ==
    ASSUME NEW e \in ConnState, NEW p \in Packets
    PROVE  /\ HttpRegistered(e, p) \in ConnState
           /\ HttpRegistered(e, p).conn = e.conn
           /\ HttpRegistered(e, p).last_seen = e.last_seen
           /\ HttpRegistered(e, p).is_blocked = e.is_blocked
           /\ HttpRegistered(e, p).http_start_time = e.http_start_time
           /\ e.is_http_complete => HttpRegistered(e, p).is_http_complete
  <1> DEFINE n == (e.http_header_count + 1) % HeaderCountMod
             done == e.is_http_complete \/ p.payload = "end"
  <1>1. n \in 0 .. HeaderCountMod - 1
    BY HeaderCountWraps DEF ConnState
  <1>2. done \in BOOLEAN /\ (e.is_http_complete => done)
    OBVIOUS
  <1>3. HttpRegistered(e, p) \in
           {e, [e EXCEPT !.http_header_count = n, !.is_http_complete = done]}
    BY DEF HttpRegistered
  <1> HIDE DEF n, done
  <1> QED
    BY <1>1, <1>2, <1>3, Zenon DEF ConnState

(* Blocking an entry sets is_blocked and nothing else. *)
LEMMA BlockedEntry ==
    ASSUME NEW e \in ConnState
    PROVE  /\ [e EXCEPT !.is_blocked = TRUE] \in ConnState
           /\ [e EXCEPT !.is_blocked = TRUE].conn = e.conn
           /\ [e EXCEPT !.is_blocked = TRUE].last_seen = e.last_seen
           /\ [e EXCEPT !.is_blocked = TRUE].is_blocked
  BY Zenon DEF ConnState

-----------------------------------------------------------------------------
(***************************************************************************)
(* What one packet does to the pool: nothing, or it leaves entry e in its  *)
(* slot, where e is free, blocked, complete, or open within the limits.    *)
(***************************************************************************)
OpenEntry(p, e) ==
    /\ OpenConns(p) <= OpenLimit
    /\ ~HttpStarted(Counted(p)).is_blocked
    /\ ~HttpStarted(Counted(p)).is_http_complete
    /\ e.http_start_time = HttpStarted(Counted(p)).http_start_time
    /\ now <= e.http_start_time + SlowlorisTimeout

Leaves(p, e) ==
    /\ pool' = [pool EXCEPT ![SlotOf(p)] = e]
    /\ \/ e = Zeroed /\ Owns(p)
       \/ /\ e.conn = p.conn
          /\ e.last_seen = now
          /\ Owns(p) \/ Reclaimable(pool[SlotOf(p)])
          /\ Owns(p) /\ pool[SlotOf(p)].is_blocked
                => e.is_blocked /\ verdict' = "drop"
          /\ e.is_blocked \/ e.is_http_complete \/ OpenEntry(p, e)

(* Every outcome of monitor_tcp_stats has that form. *)
LEMMA ReceiveLeaves ==
    ASSUME TypeOK, NEW p \in Packets, Receive(p)
    PROVE  /\ now' = now
           /\ verdict' \in {"accept", "drop"}
           /\ event' \in Events
           /\ pool' = pool \/ \E e \in ConnState : Leaves(p, e)
  <1> DEFINE c == Counted(p)
             h == HttpStarted(c)
  <1>1. now \in Nat \ {0}
    BY DEF TypeOK
  <1>2. /\ c \in ConnState
        /\ c.conn = p.conn
        /\ c.last_seen = now
        /\ Owns(p) /\ pool[SlotOf(p)].is_blocked => c.is_blocked
    BY CountedEntry
  <1>3. /\ h \in ConnState
        /\ h.conn = p.conn
        /\ h.last_seen = now
        /\ h.is_http_complete = c.is_http_complete
        /\ h.is_blocked = c.is_blocked
        /\ h.http_start_time \in Nat
    <2> HIDE DEF c
    <2> QED BY <1>1, <1>2, HttpStartedEntry DEF ConnState
  <1>4. HttpPort(p.dport)
    BY QueuedPorts, Zenon DEF Packets, HttpPort
  <1>5. CASE Close(p)
    <2>1. pool' = pool \/ (Owns(p) /\ pool' = [pool EXCEPT ![SlotOf(p)] = Zeroed])
      BY <1>5 DEF Close
    <2>2. pool' = pool \/ Leaves(p, Zeroed)
      BY <2>1 DEF Leaves
    <2> QED
      BY <1>5, <2>2, ZeroedType DEF Close, Events
  <1>6. CASE PassUntracked(p)
    BY <1>6 DEF PassUntracked, Events
  <1>7. CASE DropBlocked(p)
    <2>1. Leaves(p, c)
      BY <1>2, <1>7 DEF DropBlocked, Tracked, Leaves
    <2> QED
      BY <1>2, <1>7, <2>1 DEF DropBlocked, Events
  <1>8. CASE DropMaxSockets(p) \/ DropSlowHeaders(p)
    <2> DEFINE b == [h EXCEPT !.is_blocked = TRUE]
    <2>1. /\ pool' = [pool EXCEPT ![SlotOf(p)] = b]
          /\ now' = now
          /\ verdict' = "drop"
          /\ event' \in Events
          /\ Owns(p) \/ Reclaimable(pool[SlotOf(p)])
      BY <1>8 DEF DropMaxSockets, DropSlowHeaders, Block, SlowlorisChecked,
                  Tracked, Events
    <2> HIDE DEF h
    <2>2. b \in ConnState /\ b.conn = p.conn /\ b.last_seen = now /\ b.is_blocked
      BY <1>3, BlockedEntry
    <2>3. Leaves(p, b)
      BY <2>1, <2>2 DEF Leaves
    <2> QED
      BY <2>1, <2>2, <2>3
  <1>9. CASE PassTracked(p)
    <2> DEFINE x == IF SlowlorisChecked(p) THEN h ELSE c
               r == HttpRegistered(x, p)
    <2>1. /\ Tracked(p)
          /\ ~c.is_blocked
          /\ pool' = [pool EXCEPT ![SlotOf(p)] = r]
          /\ now' = now
          /\ verdict' = "accept"
          /\ event' \in Events
          /\ SlowlorisChecked(p) => OpenConns(p) <= OpenLimit /\ ~TimedOut(p)
      BY <1>9 DEF PassTracked, Events
    <2>2. SlowlorisChecked(p) \/ c.is_http_complete
      BY <1>4, <2>1 DEF SlowlorisChecked
    <2>3. SlowlorisChecked(p) => now <= h.http_start_time + SlowlorisTimeout
      <3>1. ~TimedOut(p) <=> ~(now > h.http_start_time + SlowlorisTimeout)
        BY DEF TimedOut
      <3> HIDE DEF h
      <3> QED BY <1>1, <1>3, <2>1, <3>1, TcpConstants
    <2> HIDE DEF c, h
    <2>4. x \in ConnState /\ x.conn = p.conn /\ x.last_seen = now
      BY <1>2, <1>3
    <2>5. /\ r \in ConnState
          /\ r.conn = p.conn
          /\ r.last_seen = now
          /\ x.is_http_complete => r.is_http_complete
          /\ r.http_start_time = x.http_start_time
      <3> HIDE DEF x
      <3> QED BY <2>4, HttpRegisteredEntry
    <2>6. r.is_http_complete \/ OpenEntry(p, r)
      <3>1. CASE SlowlorisChecked(p)
        <4>1. ~h.is_blocked /\ ~h.is_http_complete
          BY <1>3, <3>1 DEF SlowlorisChecked, c
        <4> QED
          BY <3>1, <4>1, <2>1, <2>3, <2>5 DEF OpenEntry, h, c
      <3>2. CASE ~SlowlorisChecked(p)
        BY <3>2, <2>2, <2>5
      <3> QED BY <3>1, <3>2
    <2> HIDE DEF r
    <2>7. Leaves(p, r)
      BY <1>2, <2>1, <2>5, <2>6 DEF Leaves, Tracked
    <2> QED
      BY <2>1, <2>5, <2>7
  <1> QED
    BY <1>5, <1>6, <1>7, <1>8, <1>9 DEF Receive

-----------------------------------------------------------------------------
(* A packet never takes an address above the limit of open requests: the   *)
(* only entry it can open is the one it has just counted.                  *)
LEMMA LeavesKeepsLimit ==
    ASSUME TypeOK, OpenLimitHolds, NEW p \in Packets,
           NEW e \in ConnState, Leaves(p, e)
    PROVE  OpenLimitHolds'
  <1> DEFINE s == SlotOf(p)
             h == HttpStarted(Counted(p))
             counted == [pool EXCEPT ![s] = h]
  <1>1. p.conn \in Conns /\ s \in Slots /\ p.conn # NoConn
    BY TcpConstants, Zenon DEF Packets, SlotOf
  <1>2. pool \in [Slots -> ConnState] /\ pool' = [pool EXCEPT ![s] = e]
    BY DEF TypeOK, Leaves
  <1>3. h.conn = p.conn
    <2>1. Counted(p) \in ConnState /\ Counted(p).conn = p.conn
      BY CountedEntry
    <2>2. now \in Nat \ {0}
      BY DEF TypeOK
    <2> QED BY <2>1, <2>2, HttpStartedEntry
  <1> SUFFICES ASSUME NEW ip \in Ips
               PROVE  Cardinality(OpenSlots(pool', ip)) <= OpenLimit
    BY DEF OpenLimitHolds, count_open_connections
  <1>4. Cardinality(OpenSlots(pool, ip)) <= OpenLimit
    BY DEF OpenLimitHolds, count_open_connections
  <1>5. \A P : /\ IsFiniteSet(OpenSlots(P, ip))
               /\ Cardinality(OpenSlots(P, ip)) \in Nat
    <2> TAKE P
    <2>1. OpenSlots(P, ip) \in SUBSET Slots
      BY DEF OpenSlots
    <2> QED BY <2>1, TcpConstants, FS_Subset, FS_CardinalityType
  <1>6. CASE OpenSlots(pool', ip) \subseteq OpenSlots(pool, ip)
    <2>1. Cardinality(OpenSlots(pool', ip)) <= Cardinality(OpenSlots(pool, ip))
      BY <1>5, <1>6, FS_Subset
    <2> QED BY <2>1, <1>4, <1>5, TcpConstants
  <1>7. CASE /\ ~e.is_blocked /\ ~e.is_http_complete /\ e # Zeroed
             /\ SrcIp[p.conn] = ip
    <2>1. OpenEntry(p, e) /\ e.conn = p.conn
      BY <1>7 DEF Leaves
    <2>2. OpenConns(p) <= OpenLimit /\ ~h.is_blocked /\ ~h.is_http_complete
      BY <2>1 DEF OpenEntry
    <2>3. OpenConns(p) = Cardinality(OpenSlots(counted, ip))
      BY <1>7 DEF OpenConns, count_open_connections
    <2> HIDE DEF h
    <2>4. OpenSlots(pool', ip) \subseteq OpenSlots(counted, ip)
      BY <1>1, <1>2, <1>3, <1>7, <2>1, <2>2 DEF OpenSlots
    <2> HIDE DEF counted
    <2>5. Cardinality(OpenSlots(pool', ip)) <= Cardinality(OpenSlots(counted, ip))
      BY <1>5, <2>4, FS_Subset
    <2> QED BY <2>2, <2>3, <2>5, <1>5, TcpConstants
  <1>8. CASE e.is_blocked \/ e.is_http_complete \/ e = Zeroed \/ SrcIp[p.conn] # ip
    <2>1. e = Zeroed => e.conn = NoConn
      BY DEF Zeroed
    <2>2. e # Zeroed => e.conn = p.conn
      BY DEF Leaves
    <2>3. OpenSlots(pool', ip) \subseteq OpenSlots(pool, ip)
      BY <1>1, <1>2, <1>8, <2>1, <2>2 DEF OpenSlots
    <2> QED BY <1>6, <2>3
  <1> QED
    BY <1>7, <1>8

(* An open entry left by a packet is inside its timeout. *)
LEMMA LeavesWithinTimeout ==
    ASSUME TypeOK, SeenInPast, OpenWithinTimeout, NEW p \in Packets,
           NEW e \in ConnState, Leaves(p, e), now' = now
    PROVE  SeenInPast' /\ OpenWithinTimeout'
  <1> DEFINE s == SlotOf(p)
             c == Counted(p)
  <1>1. s \in Slots /\ pool \in [Slots -> ConnState] /\ now \in Nat \ {0}
    BY TcpConstants, Zenon DEF Packets, SlotOf, TypeOK
  <1>2. pool' = [pool EXCEPT ![s] = e]
    BY DEF Leaves
  <1>3. e.last_seen <= now
    BY <1>1 DEF Leaves, Zeroed, ConnState
  <1>4. SeenInPast'
    BY <1>1, <1>2, <1>3 DEF SeenInPast
  <1>5. ASSUME e # Zeroed, ~e.is_http_complete, ~e.is_blocked
        PROVE  /\ e.http_start_time > 0
               /\ e.http_start_time <= e.last_seen
               /\ e.last_seen <= e.http_start_time + SlowlorisTimeout
    <2>1. e.last_seen = now /\ OpenEntry(p, e)
      BY <1>5 DEF Leaves
    <2>2. /\ c \in ConnState
          /\ Owns(p) => c.http_start_time = pool[s].http_start_time
          /\ ~Owns(p) => c.http_start_time = 0
      BY CountedEntry
    <2>3. /\ HttpStarted(c).http_start_time > 0
          /\ HttpStarted(c).http_start_time \in {now, c.http_start_time}
      <3> HIDE DEF c
      <3> QED BY <1>1, <2>2, HttpStartedEntry
    <2>4. HttpStarted(c).http_start_time = e.http_start_time
      BY <2>1 DEF OpenEntry
    <2>5. e.http_start_time <= now
      <3>1. CASE ~Owns(p)
        BY <1>1, <2>2, <2>3, <2>4, <3>1
      <3>2. CASE Owns(p)
        <4>1. /\ pool[s].conn # NoConn
              /\ ~pool[s].is_http_complete
              /\ ~pool[s].is_blocked
          <5>1. pool[s].conn = p.conn /\ p.conn # NoConn
            BY <3>2, TcpConstants, Zenon DEF Owns, Packets
          <5>2. c.is_http_complete = pool[s].is_http_complete
            BY <3>2, CountedEntry
          <5>3. pool[s].is_blocked => e.is_blocked
            BY <3>2, <1>5 DEF Leaves
          <5>4. ~HttpStarted(c).is_http_complete
            BY <2>1 DEF OpenEntry
          <5>5. HttpStarted(c).is_http_complete = c.is_http_complete
            <6> HIDE DEF c
            <6> QED BY <1>1, <2>2, HttpStartedEntry
          <5> QED BY <5>1, <5>2, <5>3, <5>4, <5>5, <1>5
        <4>2. pool[s].http_start_time <= pool[s].last_seen
          BY <1>1, <4>1 DEF OpenWithinTimeout
        <4>3. pool[s].last_seen <= now
          BY <1>1 DEF SeenInPast
        <4>4. /\ pool[s].http_start_time \in Nat
              /\ pool[s].last_seen \in Nat
          BY <1>1 DEF ConnState
        <4> HIDE DEF s
        <4> QED BY <1>1, <2>2, <2>3, <2>4, <3>2, <4>2, <4>3, <4>4
      <3> QED BY <3>1, <3>2
    <2> QED
      BY <2>1, <2>3, <2>4, <2>5 DEF OpenEntry
  <1>6. OpenWithinTimeout'
    <2>1. e = Zeroed => e.conn = NoConn
      BY DEF Zeroed
    <2> QED
      BY <1>1, <1>2, <1>5, <2>1 DEF OpenWithinTimeout
  <1> QED BY <1>4, <1>6

-----------------------------------------------------------------------------
(* The pool starts zeroed, so all the invariants hold at first. *)
LEMMA InitIInv == Init => IInv
  <1> SUFFICES ASSUME Init PROVE IInv
    OBVIOUS
  <1>1. TypeOK
    BY ZeroedType DEF Init, TypeOK, Events
  <1>2. \A s \in Slots : pool[s] = Zeroed
    BY DEF Init
  <1>3. SeenInPast /\ FreeIsZeroed /\ OpenWithinTimeout
    BY <1>2 DEF Init, SeenInPast, FreeIsZeroed, OpenWithinTimeout, Zeroed
  <1>4. \A ip \in Ips : OpenSlots(pool, ip) = {}
    BY <1>2 DEF OpenSlots, Zeroed
  <1>5. OpenLimitHolds
    BY <1>4, FS_EmptySet, TcpConstants DEF OpenLimitHolds, count_open_connections
  <1> QED BY <1>1, <1>3, <1>5 DEF IInv

(* Every step keeps the inductive invariant. *)
LEMMA NextIInv == IInv /\ [Next]_vars => IInv'
  <1> SUFFICES ASSUME IInv, [Next]_vars PROVE IInv'
    OBVIOUS
  <1> USE DEF IInv
  <1>1. ASSUME NEW p \in Packets, Receive(p) PROVE IInv'
    <2>1. /\ now' = now
          /\ verdict' \in {"accept", "drop"}
          /\ event' \in Events
          /\ pool' = pool \/ \E e \in ConnState : Leaves(p, e)
      BY <1>1, ReceiveLeaves
    <2>2. CASE pool' = pool
      BY <2>1, <2>2 DEF TypeOK, SeenInPast, FreeIsZeroed, OpenLimitHolds,
                        OpenWithinTimeout, count_open_connections, OpenSlots
    <2>3. ASSUME NEW e \in ConnState, Leaves(p, e) PROVE IInv'
      <3>1. TypeOK'
        BY <2>1, <2>3, TcpConstants, Zenon DEF TypeOK, Leaves
      <3>2. OpenLimitHolds'
        BY <2>3, LeavesKeepsLimit
      <3>3. SeenInPast' /\ OpenWithinTimeout'
        BY <2>1, <2>3, LeavesWithinTimeout
      <3>4. FreeIsZeroed'
        BY <2>3, TcpConstants, Zenon DEF FreeIsZeroed, TypeOK, Leaves, Packets, SlotOf
      <3> QED BY <3>1, <3>2, <3>3, <3>4
    <2> QED BY <2>1, <2>2, <2>3
  <1>2. CASE Tick
    <2>1. TypeOK' /\ SeenInPast'
      BY <1>2 DEF Tick, TypeOK, SeenInPast, Events, ConnState
    <2> QED
      BY <1>2, <2>1 DEF Tick, FreeIsZeroed, OpenLimitHolds, OpenWithinTimeout,
                        count_open_connections, OpenSlots
  <1>3. CASE UNCHANGED vars
    BY <1>3 DEF vars, TypeOK, SeenInPast, FreeIsZeroed, OpenLimitHolds,
                OpenWithinTimeout, count_open_connections, OpenSlots
  <1> QED BY <1>1, <1>2, <1>3 DEF Next

(* The invariants of tcp_monitor.c hold in every reachable state. *)
THEOREM Invariance == Spec => []IInv
  BY InitIInv, NextIInv, PTL DEF Spec

(* Type correctness: every slot always holds a conn_state. *)
THEOREM TypeCorrect == Spec => []TypeOK
  <1>1. IInv => TypeOK
    BY DEF IInv
  <1> QED BY Invariance, <1>1, PTL

(* At most OpenLimit tracked requests of an address are incomplete and     *)
(* not blocked, for every pool size, hash function and limit.              *)
THEOREM OpenLimitCorrect == Spec => []OpenLimitHolds
  <1>1. IInv => OpenLimitHolds
    BY DEF IInv
  <1> QED BY Invariance, <1>1, PTL

(* An open request was never let through past SLOWLORIS_TIMEOUT. *)
THEOREM TimeoutCorrect == Spec => []OpenWithinTimeout
  <1>1. IInv => OpenWithinTimeout
    BY DEF IInv
  <1> QED BY Invariance, <1>1, PTL

(* A block lasts until FIN, RST or a takeover after OverrideIdle. *)
THEOREM BlockLasts == Spec => BlockedUntilFreed
  <1> DEFINE Lasts ==
        \A s \in Slots : pool[s].is_blocked =>
          \/ pool'[s] = pool[s]
          \/ /\ pool'[s].conn = pool[s].conn
             /\ pool'[s].is_blocked
             /\ verdict' = "drop"
          \/ pool'[s] = Zeroed
          \/ /\ pool'[s].conn # pool[s].conn
             /\ now > pool[s].last_seen + OverrideIdle
  <1>1. IInv /\ [Next]_vars => [Lasts]_vars
    <2> SUFFICES ASSUME IInv, Next, NEW s \in Slots, pool[s].is_blocked,
                        pool'[s] # pool[s]
                 PROVE  \/ /\ pool'[s].conn = pool[s].conn
                           /\ pool'[s].is_blocked
                           /\ verdict' = "drop"
                        \/ pool'[s] = Zeroed
                        \/ /\ pool'[s].conn # pool[s].conn
                           /\ now > pool[s].last_seen + OverrideIdle
      OBVIOUS
    <2> USE DEF IInv
    <2>1. PICK p \in Packets : Receive(p)
      BY DEF Next, Tick
    <2>2. PICK e \in ConnState : Leaves(p, e)
      BY <2>1, ReceiveLeaves
    <2>3. /\ SlotOf(p) \in Slots
          /\ pool \in [Slots -> ConnState]
          /\ now \in Nat
      BY TcpConstants, Zenon DEF Packets, SlotOf, TypeOK
    <2>4. s = SlotOf(p) /\ pool'[s] = e
      BY <2>2, <2>3 DEF Leaves
    <2>5. CASE e = Zeroed
      BY <2>4, <2>5
    <2>6. CASE e # Zeroed /\ Owns(p)
      BY <2>2, <2>4, <2>6 DEF Leaves, Owns
    <2>7. CASE e # Zeroed /\ ~Owns(p)
      <3>1. e.conn = p.conn /\ Reclaimable(pool[s])
        BY <2>2, <2>4, <2>7 DEF Leaves
      <3>2. pool[s].conn # p.conn
        BY <2>4, <2>7 DEF Owns
      <3>3. pool[s].conn # NoConn
        BY DEF FreeIsZeroed, Zeroed
      <3> QED BY <2>3, <2>4, <3>1, <3>2, <3>3, TcpConstants DEF Reclaimable, ConnState
    <2> QED BY <2>5, <2>6, <2>7
  <1> QED BY <1>1, Invariance, PTL DEF Spec, BlockedUntilFreed
=============================================================================
