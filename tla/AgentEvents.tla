---------------------------- MODULE AgentEvents -----------------------------
(***************************************************************************)
(* The way of an event from the firewall through the agent's main loop     *)
(* (agent/fw_agent.c) to the SOC receiver's database                       *)
(* (soc-server/soc_receiver.c).  Critical and warning events are sent at   *)
(* once unless they repeat a recent one; the rest is batched and flushed   *)
(* by a timer.  The TCP connection may break at any moment; the agent      *)
(* learns of it when it reads, or when a write fails.                      *)
(*                                                                         *)
(* Events are counted, not told apart, but for the pair of source and      *)
(* threat (key) that the deduplication looks at.  One loop iteration is    *)
(* the steps select, health check, descriptors, timer.                     *)
(***************************************************************************)
EXTENDS Integers, Sequences, FiniteSetsExt

CONSTANTS
    Keys,                        \* pairs of source address and threat type
    NoKey,                       \* an empty cache entry
    EVENT_BUFFER_SIZE,
    DEDUPLICATION_CACHE_SIZE,
    DEDUPLICATION_WINDOW_SECS,
    FlushInterval,               \* flush_interval
    HealthInterval,              \* seconds between health checks
    EventSize,                   \* sizeof(struct fw_event)
    BUFFER_SIZE,                 \* receive buffer of the SOC receiver
    MaxEvents, MaxTime           \* bounds on events and seconds

ASSUME AgentConstants ==
    /\ NoKey \notin Keys /\ IsFiniteSet(Keys)
    /\ {EVENT_BUFFER_SIZE, DEDUPLICATION_WINDOW_SECS, FlushInterval,
        HealthInterval, EventSize, BUFFER_SIZE, MaxEvents, MaxTime} \subseteq Nat
    /\ DEDUPLICATION_CACHE_SIZE \in Nat \ {0}

VARIABLES
    now, pc,
    event_count,
    dedup_cache, dedup_cache_next,
    last_flush, last_health_check,
    link,       \* fd: the agent holds a socket; broken: the connection is
                \* dead; wire: messages written and not yet processed
    stored,     \* events in the database
    h           \* history, see below

vars == <<now, pc, event_count, dedup_cache, dedup_cache_next, last_flush,
          last_health_check, link, stored, h>>

Cache == 0 .. DEDUPLICATION_CACHE_SIZE - 1
Never == -DEDUPLICATION_WINDOW_SECS

Closed == [fd |-> FALSE, broken |-> FALSE, wire |-> << >>]
Connected == [Closed EXCEPT !.fd = TRUE]

Ping == [type |-> "PING", n |-> 0]
Batch(n) == [type |-> "BATCH", n |-> n]
Alert == [type |-> "ALERT", n |-> 1]

(* received: events read from the firewall; alerted: per key, when an      *)
(* instant alert was last tried; early: one was tried within the window of *)
(* another.                                                                *)
Init ==
    /\ now = 0 /\ pc = "select"
    /\ event_count = 0
    /\ dedup_cache = [i \in Cache |-> [key |-> NoKey, last_sent_time |-> 0]]
    /\ dedup_cache_next = 0
    /\ last_flush = 0 /\ last_health_check = -(HealthInterval + 1)
    /\ link \in {Closed, [Connected EXCEPT !.wire = <<Ping>>]}
    /\ stored = 0
    /\ h = [received |-> 0, alerted |-> [k \in Keys |-> Never],
            early |-> FALSE]

-----------------------------------------------------------------------------
(***************************************************************************)
(* send_to_soc(m): the outcomes.  Connecting may fail; a write may fail,   *)
(* which closes the socket, and the receiver, seeing the hangup, drops     *)
(* what it has not read; a write to a dead connection may still succeed.   *)
(***************************************************************************)
Written(l, m) == IF l.broken THEN l ELSE [l EXCEPT !.wire = Append(@, m)]

Sends(m) ==
    (IF link.fd THEN {} ELSE {[link |-> link, ok |-> FALSE]})
    \cup {[link |-> Closed, ok |-> FALSE],
          [link |-> Written(IF link.fd THEN link ELSE Connected, m), ok |-> TRUE]}

(* is_duplicate_alert: a cache hit within the window.  A miss takes the    *)
(* next entry of the ring, before anything is sent.                        *)
(* Mutant: the entry's age is compared with <= 0. *)
DuplicateSameSecond(k) ==
    \E i \in Cache : dedup_cache[i].key = k /\ now - dedup_cache[i].last_sent_time <= 0

Duplicate(k) ==
    \E i \in Cache :
        /\ dedup_cache[i].key = k
        /\ now >= dedup_cache[i].last_sent_time
        /\ now - dedup_cache[i].last_sent_time < DEDUPLICATION_WINDOW_SECS

Remember(k) ==
    /\ dedup_cache' = [dedup_cache EXCEPT ![dedup_cache_next] =
                          [key |-> k, last_sent_time |-> now]]
    /\ dedup_cache_next' = (dedup_cache_next + 1) % DEDUPLICATION_CACHE_SIZE

(* Into the batch, or dropped when it is full. *)
Buffered == IF event_count < EVENT_BUFFER_SIZE THEN event_count + 1 ELSE event_count

Received == [h EXCEPT !.received = @ + 1]

(* The event is INFO, or repeats a recent alert: it goes into the batch. *)
HandleInfo ==
    /\ event_count' = Buffered
    /\ h' = Received
    /\ UNCHANGED <<dedup_cache, dedup_cache_next, link>>

HandleDuplicate(k) ==
    /\ Duplicate(k)
    /\ event_count' = Buffered
    /\ h' = Received
    /\ UNCHANGED <<dedup_cache, dedup_cache_next, link>>

(* The alert is sent at once; the result of the send is not looked at. *)
HandleAlert(k) ==
    /\ ~Duplicate(k)
    /\ Remember(k)
    /\ \E s \in Sends(Alert) : link' = s.link
    /\ h' = [Received EXCEPT
                !.alerted[k] = now,
                !.early = @ \/ now - h.alerted[k] < DEDUPLICATION_WINDOW_SECS]
    /\ UNCHANGED event_count

-----------------------------------------------------------------------------
(***************************************************************************)
(* The loop.                                                               *)
(***************************************************************************)
(* select returns; the health check reconnects and pings.                  *)
HealthCheck ==
    /\ pc = "select" /\ pc' = "fds"
    /\ IF now - last_health_check > HealthInterval
       THEN /\ last_health_check' = now
            /\ IF link.fd THEN UNCHANGED link
               ELSE \E s \in Sends(Ping) : link' = s.link
       ELSE UNCHANGED <<last_health_check, link>>
    /\ UNCHANGED <<now, event_count, dedup_cache, dedup_cache_next, last_flush,
                   stored, h>>

(* The SOC's socket is readable because the connection is dead: close it   *)
(* and start over.                                                         *)
SocDisconnected ==
    /\ pc = "fds" /\ pc' = "select"
    /\ link.fd /\ link.broken
    /\ link' = Closed
    /\ UNCHANGED <<now, event_count, dedup_cache, dedup_cache_next, last_flush,
                   last_health_check, stored, h>>

FirewallEvent ==
    /\ pc = "fds" /\ pc' = "timer"
    /\ h.received < MaxEvents
    /\ HandleInfo \/ \E k \in Keys : HandleDuplicate(k) \/ HandleAlert(k)
    /\ UNCHANGED <<now, last_flush, last_health_check, stored>>

(* The firewall has gone away or the read fails: the rest of the iteration *)
(* is skipped, the timer included.                                         *)
FirewallDisconnected ==
    /\ pc = "fds" /\ pc' = "select"
    /\ UNCHANGED <<now, event_count, dedup_cache, dedup_cache_next, last_flush,
                   last_health_check, link, stored, h>>

NoEvent ==
    /\ pc = "fds" /\ pc' = "timer"
    /\ UNCHANGED <<now, event_count, dedup_cache, dedup_cache_next, last_flush,
                   last_health_check, link, stored, h>>

(* Mutant: a batch that was sent is kept. *)
FlushedNever(s) == event_count

Flushed(s) == IF s.ok THEN 0 ELSE event_count

(* The batch or, when there is none, a heartbeat. *)
TimerDue ==
    /\ pc = "timer" /\ pc' = "select"
    /\ now >= last_flush + FlushInterval
    /\ last_flush' = now
    /\ IF event_count > 0
       THEN \E s \in Sends(Batch(event_count)) :
               link' = s.link /\ event_count' = Flushed(s)
       ELSE (\E s \in Sends(Ping) : link' = s.link) /\ UNCHANGED event_count
    /\ UNCHANGED <<now, dedup_cache, dedup_cache_next, last_health_check, stored, h>>

TimerNotDue ==
    /\ pc = "timer" /\ pc' = "select"
    /\ now < last_flush + FlushInterval
    /\ UNCHANGED <<now, event_count, dedup_cache, dedup_cache_next, last_flush,
                   last_health_check, link, stored, h>>

Tick ==
    /\ now < MaxTime /\ now' = now + 1
    /\ UNCHANGED <<pc, event_count, dedup_cache, dedup_cache_next, last_flush,
                   last_health_check, link, stored, h>>

-----------------------------------------------------------------------------
(***************************************************************************)
(* The network and the receiver.                                           *)
(***************************************************************************)
Break ==
    /\ link.fd /\ ~link.broken
    /\ link' = [link EXCEPT !.broken = TRUE, !.wire = << >>]
    /\ UNCHANGED <<now, pc, event_count, dedup_cache, dedup_cache_next,
                   last_flush, last_health_check, stored, h>>

(* aes_encrypt: the IV, then the padded blocks. *)
EncryptedLen(n) == 16 + ((n \div 16) + 1) * 16

(* The receiver takes the next message: too long a payload disconnects the *)
(* agent, an alert or a batch goes into the database.                      *)
Receive ==
    /\ link.wire # << >>
    /\ LET m == Head(link.wire)
       IN IF EncryptedLen(m.n * EventSize) >= BUFFER_SIZE
          THEN /\ link' = [link EXCEPT !.broken = TRUE, !.wire = << >>]
               /\ UNCHANGED stored
          ELSE /\ link' = [link EXCEPT !.wire = Tail(@)]
               /\ stored' = stored + m.n
    /\ UNCHANGED <<now, pc, event_count, dedup_cache, dedup_cache_next,
                   last_flush, last_health_check, h>>

Next ==
    \/ HealthCheck \/ SocDisconnected
    \/ FirewallEvent \/ FirewallDisconnected \/ NoEvent
    \/ TimerDue \/ TimerNotDue \/ Tick \/ Break \/ Receive

Spec == Init /\ [][Next]_vars

-----------------------------------------------------------------------------
(* The events that messages carry: the j-th of the i-th message. *)
Carried(w) == UNION {{i} \X (1 .. w[i].n) : i \in DOMAIN w}

InWire == Cardinality(Carried(link.wire))

(* Type invariant: the batch never outgrows event_buffer. *)
TypeOK ==
    /\ now \in 0 .. MaxTime
    /\ pc \in {"select", "fds", "timer"}
    /\ event_count \in 0 .. EVENT_BUFFER_SIZE
    /\ dedup_cache \in [Cache -> [key : Keys \cup {NoKey}, last_sent_time : 0 .. MaxTime]]
    /\ dedup_cache_next \in Cache
    /\ stored \in 0 .. MaxEvents

(* No event reaches the database twice: what is stored, on the wire and in *)
(* the batch never exceeds what the firewall raised, although a batch is   *)
(* sent again after a failed write.                                        *)
NoEventTwice == stored + InWire + event_count <= h.received

(* Instant alerts are limited to one per source and threat in a window,    *)
(* as long as no more pairs are active than the cache has entries.         *)
OneAlertPerWindow ==
    Cardinality(Keys) <= DEDUPLICATION_CACHE_SIZE => ~h.early
=============================================================================
