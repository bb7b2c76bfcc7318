------------------------- MODULE AgentEventsProofs --------------------------
(***************************************************************************)
(* Proofs about AgentEvents, for every size of batch, cache and window and *)
(* every set of keys: no event is stored twice, and a key is alerted once  *)
(* in a window.                                                            *)
(***************************************************************************)
EXTENDS AgentEvents, FiniteSetTheorems, SequenceTheorems, TLAPS

Messages == [type : {"PING", "BATCH", "ALERT"}, n : 0 .. EVENT_BUFFER_SIZE + 1]
LinkType == [fd : BOOLEAN, broken : BOOLEAN, wire : Seq(Messages)]
EntryType == [key : Keys \cup {NoKey}, last_sent_time : Nat]
HistoryType == [received : 0 .. MaxEvents, alerted : [Keys -> Int], early : BOOLEAN]

Typing ==
    /\ now \in 0 .. MaxTime
    /\ pc \in {"select", "fds", "timer"}
    /\ event_count \in 0 .. EVENT_BUFFER_SIZE
    /\ dedup_cache \in [Cache -> EntryType]
    /\ dedup_cache_next \in Cache
    /\ last_flush \in Nat /\ last_health_check \in Int
    /\ link \in LinkType
    /\ stored \in Nat
    /\ h \in HistoryType

(* The place of an entry in the ring, the oldest first. *)
Rank(i) == IF i >= dedup_cache_next THEN i - dedup_cache_next
           ELSE i - dedup_cache_next + DEDUPLICATION_CACHE_SIZE

(* Entries are written one after the other, round the ring. *)
InOrder ==
    \A i, j \in Cache : Rank(i) <= Rank(j) =>
        /\ dedup_cache[i].last_sent_time <= dedup_cache[j].last_sent_time
        /\ dedup_cache[i].key # NoKey => dedup_cache[j].key # NoKey

InPast == \A i \in Cache : dedup_cache[i].last_sent_time <= now

(* Two entries of a key are a window apart. *)
Apart ==
    \A i, j \in Cache :
        /\ i # j /\ dedup_cache[i].key # NoKey /\ dedup_cache[i].key = dedup_cache[j].key
        /\ dedup_cache[i].last_sent_time <= dedup_cache[j].last_sent_time
        => dedup_cache[j].last_sent_time - dedup_cache[i].last_sent_time
              >= DEDUPLICATION_WINDOW_SECS

(* Who was alerted within the window is in the cache. *)
Recorded ==
    Cardinality(Keys) <= DEDUPLICATION_CACHE_SIZE =>
        \A k \in Keys : now - h.alerted[k] < DEDUPLICATION_WINDOW_SECS =>
            \E i \in Cache : /\ dedup_cache[i].key = k
                             /\ dedup_cache[i].last_sent_time = h.alerted[k]

(* The inductive invariant. *)
IInv ==
    /\ Typing /\ NoEventTwice
    /\ InOrder /\ InPast /\ Apart /\ Recorded /\ OneAlertPerWindow

-----------------------------------------------------------------------------
(***************************************************************************)
(* The events that messages carry.                                         *)
(***************************************************************************)
(* What is assumed of the sizes and intervals. *)
LEMMA ConstantsNat ==
    /\ EVENT_BUFFER_SIZE \in Nat /\ DEDUPLICATION_WINDOW_SECS \in Nat
    /\ MaxEvents \in Nat /\ MaxTime \in Nat /\ FlushInterval \in Nat
    /\ HealthInterval \in Nat /\ DEDUPLICATION_CACHE_SIZE \in Nat \ {0}
  BY AgentConstants

(* A message carries a number of events. *)
LEMMA MessageCounts ==
    ASSUME NEW m \in Messages
    PROVE  m.n \in Nat
  <1>1. m.n \in 0 .. EVENT_BUFFER_SIZE + 1
    BY DEF Messages
  <1> QED BY <1>1, ConstantsNat

(* An interval from 1 has as many elements as its end says. *)
LEMMA CountTo ==
    ASSUME NEW n \in Nat
    PROVE  IsFiniteSet(1 .. n) /\ Cardinality(1 .. n) = n
  <1>1. \A x, y \in Int : /\ IsFiniteSet(x .. y)
                          /\ Cardinality(x .. y) = IF x > y THEN 0 ELSE y - x + 1
    BY FS_Interval
  <1>2. n = IF 1 > n THEN 0 ELSE n - 1 + 1
    OBVIOUS
  <1>3. 1 \in Int /\ n \in Int
    OBVIOUS
  <1> QED BY <1>1, <1>2, <1>3, Zenon

(* One message with n events. *)
LEMMA OneMessage ==
    ASSUME NEW x, NEW n \in Nat
    PROVE  IsFiniteSet({x} \X (1 .. n)) /\ Cardinality({x} \X (1 .. n)) = n
  <1>1. IsFiniteSet({x}) /\ Cardinality({x}) = 1
    BY FS_Singleton
  <1>2. PICK S : S = {x}
    BY Zenon
  <1>3. PICK T : T = 1 .. n
    OBVIOUS
  <1>4. IsFiniteSet(S) /\ Cardinality(S) = 1 /\ IsFiniteSet(T) /\ Cardinality(T) = n
    BY <1>1, <1>2, <1>3, CountTo
  <1>5. IsFiniteSet(S \X T) /\ Cardinality(S \X T) = Cardinality(S) * Cardinality(T)
    BY <1>4, FS_Product
  <1>6. IsFiniteSet(S \X T) /\ Cardinality(S \X T) = n
    BY <1>4, <1>5
  <1> QED BY <1>2, <1>3, <1>6, Zenon

(* Which events messages carry. *)
LEMMA CarriedIs ==
    ASSUME NEW w, NEW i, NEW j
    PROVE  <<i, j>> \in Carried(w) <=> i \in DOMAIN w /\ j \in 1 .. w[i].n
  BY DEF Carried

(* The events are pairs of a message and a place in it. *)
LEMMA CarriedPairs ==
    ASSUME NEW w, NEW e \in Carried(w)
    PROVE  \E i \in DOMAIN w, j \in Nat : e = <<i, j>> /\ j \in 1 .. w[i].n
  BY DEF Carried

(* A wire carries finitely many events. *)
LEMMA CarriedFinite ==
    ASSUME NEW w \in Seq(Messages)
    PROVE  IsFiniteSet(Carried(w)) /\ Cardinality(Carried(w)) \in Nat
  <1> DEFINE S == 1 .. Len(w)
             T == 1 .. EVENT_BUFFER_SIZE + 1
  <1>1. IsFiniteSet(S) /\ IsFiniteSet(T)
    <2>1. Len(w) \in Nat /\ EVENT_BUFFER_SIZE + 1 \in Nat
      BY ConstantsNat
    <2> QED BY <2>1, CountTo
  <1>2. Carried(w) \in SUBSET (S \X T)
    <2> SUFFICES ASSUME NEW e \in Carried(w) PROVE e \in S \X T
      OBVIOUS
    <2>1. PICK i \in DOMAIN w, j \in Nat : e = <<i, j>> /\ j \in 1 .. w[i].n
      BY CarriedPairs
    <2>2. w[i].n \in 0 .. EVENT_BUFFER_SIZE + 1 /\ i \in S
      <3>1. w[i] \in Messages /\ i \in S
        OBVIOUS
      <3> QED BY <3>1 DEF Messages
    <2>3. j \in T
      BY <2>1, <2>2, ConstantsNat
    <2> HIDE DEF S, T
    <2> QED BY <2>1, <2>2, <2>3
  <1> HIDE DEF S, T
  <1>3. IsFiniteSet(S \X T)
    BY <1>1, FS_Product
  <1>4. IsFiniteSet(Carried(w))
    BY <1>2, <1>3, FS_Subset
  <1> QED BY <1>4, FS_CardinalityType

(* An empty wire carries none. *)
LEMMA CarriedNone == Cardinality(Carried(<< >>)) = 0
  <1>1. Carried(<< >>) = {}
    <2> SUFFICES ASSUME NEW e \in Carried(<< >>) PROVE FALSE
      OBVIOUS
    <2>1. \E i \in DOMAIN << >>, j \in Nat : e = <<i, j>>
      BY CarriedPairs
    <2> QED BY <2>1
  <1> QED BY <1>1, FS_EmptySet

(* A write adds the events of its message. *)
LEMMA CarriedAppend ==
    ASSUME NEW w \in Seq(Messages), NEW m \in Messages
    PROVE  Cardinality(Carried(Append(w, m))) = Cardinality(Carried(w)) + m.n
  <1> DEFINE New == {Len(w) + 1} \X (1 .. m.n)
  <1>1. IsFiniteSet(New) /\ Cardinality(New) = m.n /\ m.n \in Nat
    <2>1. m.n \in Nat
      BY MessageCounts
    <2> QED BY <2>1, OneMessage, Zenon
  <1>2. Carried(Append(w, m)) = Carried(w) \cup New
    <2>1. PICK v : v = Append(w, m)
      BY Zenon
    <2>2. /\ DOMAIN v = DOMAIN w \cup {Len(w) + 1}
          /\ \A i \in DOMAIN w : v[i] = w[i]
          /\ v[Len(w) + 1] = m
      BY <2>1
    <2>3. ASSUME NEW e \in Carried(v) PROVE e \in Carried(w) \cup New
      <3>1. PICK i \in DOMAIN v, j \in Nat : e = <<i, j>> /\ j \in 1 .. v[i].n
        BY <2>3, CarriedPairs
      <3>2. CASE i \in DOMAIN w
        BY <2>2, <3>1, <3>2, CarriedIs
      <3>3. CASE i = Len(w) + 1
        BY <2>2, <3>1, <3>3
      <3> QED BY <2>2, <3>1, <3>2, <3>3
    <2>4. ASSUME NEW e \in Carried(w) PROVE e \in Carried(v)
      <3>1. PICK i \in DOMAIN w, j \in Nat : e = <<i, j>> /\ j \in 1 .. w[i].n
        BY <2>4, CarriedPairs
      <3> QED BY <2>2, <3>1, CarriedIs
    <2>5. ASSUME NEW e \in New PROVE e \in Carried(v)
      <3>1. PICK j \in 1 .. m.n : e = <<Len(w) + 1, j>>
        BY <2>5
      <3> QED BY <2>2, <3>1, CarriedIs
    <2> HIDE DEF New
    <2> QED BY <2>1, <2>3, <2>4, <2>5
  <1>3. Carried(w) \cap New = {}
    <2> SUFFICES ASSUME NEW e \in Carried(w), e \in New PROVE FALSE
      OBVIOUS
    <2>1. PICK i \in DOMAIN w, j \in Nat : e = <<i, j>>
      BY CarriedPairs
    <2>2. i = Len(w) + 1
      BY <2>1
    <2> QED BY <2>1, <2>2
  <1> HIDE DEF New
  <1>4. IsFiniteSet(Carried(w)) /\ Cardinality(Carried(w)) \in Nat
    BY CarriedFinite
  <1>5. Cardinality(Carried(w) \cup New) = Cardinality(Carried(w)) + Cardinality(New)
    <2>1. Cardinality(Carried(w) \cup New)
            = Cardinality(Carried(w)) + Cardinality(New) - Cardinality(Carried(w) \cap New)
      BY <1>1, <1>4, FS_Union
    <2>2. Cardinality(Carried(w) \cap New) = 0
      BY <1>3, FS_EmptySet, Zenon
    <2> QED BY <1>1, <1>4, <2>1, <2>2
  <1> QED BY <1>1, <1>2, <1>5

(* Reading a message takes its events. *)
LEMMA CarriedTail ==
    ASSUME NEW w \in Seq(Messages), w # << >>
    PROVE  Cardinality(Carried(w)) = Cardinality(Carried(Tail(w))) + Head(w).n
  <1>1. PICK v \in Seq(Messages) : v = Tail(w)
    BY HeadTailProperties, Zenon
  <1>2. PICK m \in Messages : m = Head(w)
    BY HeadTailProperties
  <1>3. /\ Len(v) \in Nat /\ Len(w) = Len(v) + 1 /\ w[1] = m
        /\ DOMAIN w = 1 .. Len(v) + 1 /\ DOMAIN v = 1 .. Len(v)
        /\ \A i \in 1 .. Len(v) : w[i + 1] = v[i]
    BY <1>1, <1>2
  <1> DEFINE First == {1} \X (1 .. m.n)
             Rest == Carried(w) \ First
             shift == [e \in Carried(v) |-> <<e[1] + 1, e[2]>>]
  <1>4. IsFiniteSet(First) /\ Cardinality(First) = m.n /\ m.n \in Nat
    <2>1. m.n \in Nat
      BY MessageCounts
    <2> QED BY <2>1, OneMessage, Zenon
  <1>5. First \in SUBSET Carried(w)
    <2> SUFFICES ASSUME NEW j \in 1 .. m.n PROVE <<1, j>> \in Carried(w)
      OBVIOUS
    <2> QED BY <1>3, CarriedIs
  <1>6. \A e \in Carried(v) : \E i \in 1 .. Len(v) : \E j \in 1 .. v[i].n : e = <<i, j>>
    <2> SUFFICES ASSUME NEW e \in Carried(v)
                 PROVE  \E i \in 1 .. Len(v) : \E j \in 1 .. v[i].n : e = <<i, j>>
      OBVIOUS
    <2>1. PICK i \in DOMAIN v, j \in Nat : e = <<i, j>> /\ j \in 1 .. v[i].n
      BY CarriedPairs
    <2> QED BY <1>3, <2>1
  <1>7. \A e \in Rest : \E i \in 1 .. Len(v) : \E j \in 1 .. v[i].n : e = <<i + 1, j>>
    <2> SUFFICES ASSUME NEW e \in Carried(w), e \notin First
                 PROVE  \E i \in 1 .. Len(v) : \E j \in 1 .. v[i].n : e = <<i + 1, j>>
      OBVIOUS
    <2>1. PICK k \in DOMAIN w, j \in Nat : e = <<k, j>> /\ j \in 1 .. w[k].n
      BY CarriedPairs
    <2>2. k # 1
      BY <1>3, <2>1
    <2>3. k - 1 \in 1 .. Len(v) /\ (k - 1) + 1 = k
      BY <1>3, <2>2
    <2>4. w[k] = v[k - 1]
      BY <1>3, <2>3
    <2> QED BY <2>1, <2>3, <2>4
  <1>8. \A i \in 1 .. Len(v) : \A j \in 1 .. v[i].n :
            <<i, j>> \in Carried(v) /\ <<i + 1, j>> \in Rest
    <2> SUFFICES ASSUME NEW i \in 1 .. Len(v), NEW j \in 1 .. v[i].n
                 PROVE  <<i, j>> \in Carried(v) /\ <<i + 1, j>> \in Rest
      BY Zenon
    <2>1. <<i, j>> \in Carried(v)
      BY <1>3, CarriedIs
    <2>2. i + 1 \in DOMAIN w /\ w[i + 1] = v[i] /\ i + 1 # 1
      BY <1>3
    <2>3. <<i + 1, j>> \in Carried(w)
      BY <2>2, CarriedIs
    <2>4. <<i + 1, j>> \notin First
      BY <2>2
    <2> QED BY <2>1, <2>3, <2>4
  <1>9. shift \in Bijection(Carried(v), Rest)
    <2> HIDE DEF Rest
    <2>1. shift \in [Carried(v) -> Rest]
      <3> SUFFICES ASSUME NEW e \in Carried(v) PROVE <<e[1] + 1, e[2]>> \in Rest
        OBVIOUS
      <3>1. PICK i \in 1 .. Len(v) : \E j \in 1 .. v[i].n : e = <<i, j>>
        BY <1>6
      <3>2. PICK j \in 1 .. v[i].n : e = <<i, j>>
        BY <3>1
      <3> QED BY <1>8, <3>2
    <2>2. ASSUME NEW e \in Carried(v), NEW d \in Carried(v), shift[e] = shift[d]
          PROVE  e = d
      <3>1. PICK i \in 1 .. Len(v) : \E j \in 1 .. v[i].n : e = <<i, j>>
        BY <1>6
      <3>2. PICK j \in 1 .. v[i].n : e = <<i, j>>
        BY <3>1
      <3>3. PICK k \in 1 .. Len(v) : \E l \in 1 .. v[k].n : d = <<k, l>>
        BY <1>6
      <3>4. PICK l \in 1 .. v[k].n : d = <<k, l>>
        BY <3>3
      <3>5. shift[e] = <<i + 1, j>> /\ shift[d] = <<k + 1, l>>
        BY <3>2, <3>4
      <3> QED BY <2>2, <3>2, <3>4, <3>5
    <2>3. ASSUME NEW e \in Rest PROVE \E d \in Carried(v) : shift[d] = e
      <3>1. PICK i \in 1 .. Len(v) : \E j \in 1 .. v[i].n : e = <<i + 1, j>>
        BY <1>7
      <3>2. PICK j \in 1 .. v[i].n : e = <<i + 1, j>>
        BY <3>1
      <3>3. <<i, j>> \in Carried(v) /\ shift[<<i, j>>] = e
        BY <1>8, <3>2
      <3> QED BY <3>3
    <2> HIDE DEF shift
    <2>4. shift \in Injection(Carried(v), Rest)
      BY <2>1, <2>2 DEF Injection, IsInjective
    <2>5. shift \in Surjection(Carried(v), Rest)
      BY <2>1, <2>3 DEF Surjection
    <2> QED BY <2>4, <2>5 DEF Bijection
  <1> HIDE DEF First, shift
  <1>10. Cardinality(Rest) = Cardinality(Carried(v)) /\ Cardinality(Rest) \in Nat
    <2> HIDE DEF Rest
    <2>1. IsFiniteSet(Carried(v)) /\ Cardinality(Carried(v)) \in Nat
      BY CarriedFinite
    <2>2. ExistsBijection(Carried(v), Rest)
      BY <1>9 DEF ExistsBijection
    <2> QED BY <2>1, <2>2, FS_Bijection
  <1>11. Cardinality(Carried(w)) = Cardinality(Rest) + m.n
    <2>1. IsFiniteSet(Rest)
      BY CarriedFinite, FS_Subset
    <2>2. Carried(w) = Rest \cup First /\ Rest \cap First = {}
      BY <1>5
    <2> HIDE DEF Rest
    <2>3. Cardinality(Rest \cup First)
            = Cardinality(Rest) + Cardinality(First) - Cardinality(Rest \cap First)
      BY <1>4, <2>1, FS_Union
    <2>4. Cardinality(Rest \cap First) = 0
      BY <2>2, FS_EmptySet, Zenon
    <2> QED BY <1>4, <1>10, <2>2, <2>3, <2>4
  <1> QED BY <1>1, <1>2, <1>10, <1>11

-----------------------------------------------------------------------------
(***************************************************************************)
(* Records of the agent.                                                   *)
(***************************************************************************)
(* What send_to_soc is called with. *)
LEMMA MessagesAre ==
    /\ Ping \in Messages /\ Ping.n = 0
    /\ Alert \in Messages /\ Alert.n = 1
    /\ \A n \in 0 .. EVENT_BUFFER_SIZE : Batch(n) \in Messages /\ Batch(n).n = n
  <1>1. /\ 0 \in 0 .. EVENT_BUFFER_SIZE + 1 /\ 1 \in 0 .. EVENT_BUFFER_SIZE + 1
        /\ \A n \in 0 .. EVENT_BUFFER_SIZE : n \in 0 .. EVENT_BUFFER_SIZE + 1
    BY ConstantsNat
  <1> QED BY <1>1 DEF Messages, Ping, Alert, Batch

(* The agent's socket, closed and just connected. *)
LEMMA LinksAre ==
    /\ Closed \in LinkType /\ Closed.wire = << >>
    /\ Connected \in LinkType /\ Connected.wire = << >>
  <1>1. PICK q \in Seq(Messages) : q = << >>
    <2>1. << >> \in Seq(Messages)
      BY EmptySeq, Zenon
    <2> QED BY <2>1, Zenon
  <1>2. PICK c : c = [fd |-> FALSE, broken |-> FALSE, wire |-> q]
    BY Zenon
  <1>3. c \in LinkType /\ c.wire = q
    BY <1>2 DEF LinkType
  <1>4. PICK d : d = [c EXCEPT !.fd = TRUE]
    BY Zenon
  <1>5. d \in LinkType /\ d.wire = q
    BY <1>3, <1>4, Zenon DEF LinkType
  <1>6. Closed = c /\ Connected = d
    BY <1>1, <1>2, <1>4 DEF Closed, Connected
  <1> QED BY <1>1, <1>3, <1>5, <1>6

(* A connection with other messages on it. *)
LEMMA LinkWire ==
    ASSUME NEW l \in LinkType, NEW q \in Seq(Messages), NEW b \in BOOLEAN
    PROVE  /\ [l EXCEPT !.wire = q] \in LinkType
           /\ [l EXCEPT !.wire = q].wire = q
           /\ [l EXCEPT !.broken = b, !.wire = q] \in LinkType
           /\ [l EXCEPT !.broken = b, !.wire = q].wire = q
  BY Zenon DEF LinkType

(* What is on the wire after a write: at most the message more. *)
LEMMA WrittenIs ==
    ASSUME NEW l \in LinkType, NEW m \in Messages
    PROVE  /\ Written(l, m) \in LinkType
           /\ Cardinality(Carried(Written(l, m).wire)) <= Cardinality(Carried(l.wire)) + m.n
  <1>1. PICK q \in Seq(Messages) : q = l.wire
    BY DEF LinkType
  <1>2. Cardinality(Carried(q)) \in Nat /\ m.n \in Nat
    BY CarriedFinite, MessageCounts
  <1>3. CASE l.broken
    <2>1. Written(l, m) = l
      BY <1>3 DEF Written
    <2> QED BY <1>1, <1>2, <2>1
  <1>4. CASE ~l.broken
    <2>1. PICK a \in Seq(Messages) : a = Append(q, m)
      BY AppendProperties, Zenon
    <2>2. PICK x : x = [l EXCEPT !.wire = a]
      BY Zenon
    <2>3. x \in LinkType /\ x.wire = a
      BY <2>2, LinkWire, Zenon
    <2>4. Written(l, m) = x
      BY <1>1, <1>4, <2>1, <2>2 DEF Written
    <2>5. Cardinality(Carried(a)) = Cardinality(Carried(q)) + m.n
      BY <2>1, CarriedAppend
    <2> QED BY <1>1, <1>2, <2>3, <2>4, <2>5
  <1> QED BY <1>3, <1>4

(* send_to_soc: a send that fails leaves no more on the wire than was on   *)
(* it, one that succeeds at most its message more.                         *)
LEMMA SendsIs ==
    ASSUME link \in LinkType, NEW m \in Messages, NEW s \in Sends(m)
    PROVE  /\ s.link \in LinkType
           /\ Cardinality(Carried(s.link.wire))
                 <= InWire + (IF s.ok THEN m.n ELSE 0)
  <1>1. InWire = Cardinality(Carried(link.wire)) /\ InWire \in Nat /\ m.n \in Nat
    <2>1. link.wire \in Seq(Messages)
      BY DEF LinkType
    <2> QED BY <2>1, CarriedFinite, MessageCounts DEF InWire
  <1>2. CASE s = [link |-> link, ok |-> FALSE]
    BY <1>1, <1>2
  <1>3. CASE s = [link |-> Closed, ok |-> FALSE]
    BY <1>1, <1>3, LinksAre, CarriedNone
  <1>4. CASE s = [link |-> Written(link, m), ok |-> TRUE]
    BY <1>1, <1>4, WrittenIs
  <1>5. CASE s = [link |-> Written(Connected, m), ok |-> TRUE]
    <2>1. /\ Written(Connected, m) \in LinkType
          /\ Cardinality(Carried(Written(Connected, m).wire)) <= 0 + m.n
      BY LinksAre, WrittenIs, CarriedNone
    <2>2. Cardinality(Carried(Written(Connected, m).wire)) \in Nat
      BY <2>1, CarriedFinite DEF LinkType
    <2> QED BY <1>1, <1>5, <2>1, <2>2
  <1> QED BY <1>2, <1>3, <1>4, <1>5 DEF Sends

-----------------------------------------------------------------------------
(***************************************************************************)
(* The deduplication cache.                                                *)
(***************************************************************************)
Ring == InOrder /\ InPast /\ Apart /\ Recorded /\ OneAlertPerWindow

(* Time passes. *)
LEMMA RingKept ==
    ASSUME Typing, Ring, UNCHANGED <<dedup_cache, dedup_cache_next>>,
           now' \in Nat, now' >= now,
           h'.alerted = h.alerted, h'.early = h.early
    PROVE  Ring'
  <1>1. /\ now \in Nat /\ h.alerted \in [Keys -> Int]
        /\ \A i \in Cache : dedup_cache[i].last_sent_time \in Nat
    BY ConstantsNat DEF Typing, HistoryType, EntryType
  <1>2. InOrder'
    BY DEF Ring, InOrder, Rank
  <1>3. InPast'
    BY <1>1 DEF Ring, InPast
  <1>4. Apart'
    BY DEF Ring, Apart
  <1>5. Recorded'
    BY <1>1, ConstantsNat DEF Ring, Recorded
  <1>6. OneAlertPerWindow'
    BY DEF Ring, OneAlertPerWindow
  <1> QED BY <1>2, <1>3, <1>4, <1>5, <1>6 DEF Ring

(* If the entry that is overwritten next still counts then every entry     *)
(* does, for a key of its own: a key that is in none of them is one too    *)
(* many.                                                                   *)
LEMMA Crowded ==
    ASSUME Typing, Ring, NEW k \in Keys, ~Duplicate(k),
           Cardinality(Keys) <= DEDUPLICATION_CACHE_SIZE,
           dedup_cache[dedup_cache_next].key # NoKey,
           now - dedup_cache[dedup_cache_next].last_sent_time < DEDUPLICATION_WINDOW_SECS
    PROVE  FALSE
  <1> DEFINE f == [i \in Cache |-> dedup_cache[i].key]
  <1>1. /\ now \in Nat /\ DEDUPLICATION_WINDOW_SECS \in Nat /\ dedup_cache_next \in Cache
        /\ \A i \in Cache : /\ dedup_cache[i].last_sent_time \in Nat
                            /\ dedup_cache[i].last_sent_time <= now
                            /\ dedup_cache[i].key \in Keys \cup {NoKey}
    BY ConstantsNat DEF Typing, EntryType, Ring, InPast
  <1>2. \A i \in Cache : Rank(dedup_cache_next) <= Rank(i)
    BY <1>1, ConstantsNat DEF Rank, Cache
  <1>3. \A i \in Cache : /\ dedup_cache[i].key # NoKey
                         /\ now - dedup_cache[i].last_sent_time < DEDUPLICATION_WINDOW_SECS
    BY <1>1, <1>2 DEF Ring, InOrder
  <1>4. \A i \in Cache : dedup_cache[i].key \in Keys \ {k}
    BY <1>1, <1>3 DEF Duplicate
  <1>5. \A i, j \in Cache : dedup_cache[i].key = dedup_cache[j].key => i = j
    <2> SUFFICES ASSUME NEW i \in Cache, NEW j \in Cache, i # j,
                        dedup_cache[i].key = dedup_cache[j].key
                 PROVE  FALSE
      OBVIOUS
    <2>1. CASE dedup_cache[i].last_sent_time <= dedup_cache[j].last_sent_time
      BY <1>1, <1>3, <2>1 DEF Ring, Apart
    <2>2. CASE dedup_cache[j].last_sent_time <= dedup_cache[i].last_sent_time
      BY <1>1, <1>3, <2>2 DEF Ring, Apart
    <2> QED BY <1>1, <2>1, <2>2
  <1>6. f \in Injection(Cache, Keys \ {k})
    BY <1>4, <1>5 DEF Injection, IsInjective
  <1> HIDE DEF f
  <1>7. /\ IsFiniteSet(Keys \ {k}) /\ Cardinality(Keys) \in Nat
        /\ Cardinality(Keys \ {k}) = Cardinality(Keys) - 1
    BY AgentConstants, FS_RemoveElement, FS_CardinalityType
  <1>8. Cardinality(Cache) <= Cardinality(Keys \ {k})
    BY <1>6, <1>7, FS_Injection
  <1>9. Cardinality(Cache) = DEDUPLICATION_CACHE_SIZE
    <2>1. \A x, y \in Int : Cardinality(x .. y) = IF x > y THEN 0 ELSE y - x + 1
      BY FS_Interval
    <2>2. PICK y \in Int : y = DEDUPLICATION_CACHE_SIZE - 1
      BY ConstantsNat
    <2>3. /\ 0 \in Int /\ Cache = 0 .. y
          /\ DEDUPLICATION_CACHE_SIZE = IF 0 > y THEN 0 ELSE y - 0 + 1
      BY <2>2, ConstantsNat DEF Cache
    <2> QED BY <2>1, <2>3, Zenon
  <1> QED BY <1>7, <1>8, <1>9, ConstantsNat

(* is_duplicate_alert takes the next entry: the ring stays in order, and   *)
(* nobody who counts is forgotten.                                         *)
LEMMA RingRemembers ==
    ASSUME Typing, Ring, NEW k \in Keys, ~Duplicate(k), Remember(k), UNCHANGED now,
           h'.alerted = [h.alerted EXCEPT ![k] = now],
           h'.early = (h.early \/ now - h.alerted[k] < DEDUPLICATION_WINDOW_SECS)
    PROVE  Ring'
  <1> DEFINE size == DEDUPLICATION_CACHE_SIZE
  <1>0. PICK x \in Cache : x = dedup_cache_next
    BY DEF Typing
  <1>1. /\ now \in Nat /\ h.alerted \in [Keys -> Int]
        /\ size \in Nat \ {0} /\ DEDUPLICATION_WINDOW_SECS \in Nat /\ k # NoKey
        /\ \A i \in Cache : /\ dedup_cache[i].last_sent_time \in Nat
                            /\ dedup_cache[i].last_sent_time <= now
    BY ConstantsNat, AgentConstants DEF Typing, HistoryType, EntryType, Ring, InPast
  <1>2. /\ dedup_cache'[x].key = k /\ dedup_cache'[x].last_sent_time = now
        /\ \A i \in Cache : i # x => dedup_cache'[i] = dedup_cache[i]
    BY <1>0, <1>1 DEF Remember, Typing
  <1>3. dedup_cache_next' = IF x + 1 = size THEN 0 ELSE x + 1
    BY <1>0, <1>1 DEF Remember, Cache
  <1>4. /\ Rank(x)' = size - 1
        /\ \A i \in Cache : i # x => Rank(i)' = Rank(i) - 1 /\ Rank(i)' < size - 1
    BY <1>0, <1>1, <1>3 DEF Rank, Cache
  <1>5. \A i \in Cache : Rank(i) \in Int
    BY <1>0, <1>1 DEF Rank, Cache
  <1>6. InOrder'
    <2> SUFFICES ASSUME NEW i \in Cache, NEW j \in Cache, Rank(i)' <= Rank(j)'
                 PROVE  /\ dedup_cache'[i].last_sent_time <= dedup_cache'[j].last_sent_time
                        /\ dedup_cache'[i].key # NoKey => dedup_cache'[j].key # NoKey
      BY DEF InOrder, Cache
    <2>1. CASE j = x
      BY <1>1, <1>2, <2>1
    <2>2. CASE j # x
      <3>1. i # x
        BY <1>1, <1>4, <1>5, <2>2
      <3>2. Rank(i) <= Rank(j)
        BY <1>4, <1>5, <2>2, <3>1
      <3> QED BY <1>2, <2>2, <3>1, <3>2 DEF Ring, InOrder
    <2> QED BY <2>1, <2>2
  <1>7. InPast'
    BY <1>1, <1>2 DEF InPast, Cache
  <1>8. \A i \in Cache : dedup_cache[i].key = k =>
            now - dedup_cache[i].last_sent_time >= DEDUPLICATION_WINDOW_SECS
    BY <1>1 DEF Duplicate
  <1>9. Apart'
    <2> SUFFICES ASSUME NEW i \in Cache, NEW j \in Cache,
                        i # j, dedup_cache'[i].key # NoKey,
                        dedup_cache'[i].key = dedup_cache'[j].key,
                        dedup_cache'[i].last_sent_time <= dedup_cache'[j].last_sent_time
                 PROVE  dedup_cache'[j].last_sent_time - dedup_cache'[i].last_sent_time
                           >= DEDUPLICATION_WINDOW_SECS
      BY DEF Apart, Cache
    <2>1. CASE i = x
      BY <1>1, <1>2, <1>8, <2>1
    <2>2. CASE j = x
      BY <1>1, <1>2, <1>8, <2>2
    <2>3. CASE i # x /\ j # x
      BY <1>2, <2>3 DEF Ring, Apart
    <2> QED BY <2>1, <2>2, <2>3
  <1>10. Recorded'
    <2> SUFFICES ASSUME Cardinality(Keys) <= size, NEW o \in Keys,
                        now - h'.alerted[o] < DEDUPLICATION_WINDOW_SECS
                 PROVE  \E i \in Cache : /\ dedup_cache'[i].key = o
                                         /\ dedup_cache'[i].last_sent_time = h'.alerted[o]
      BY DEF Recorded, Cache
    <2>1. CASE o = k
      BY <1>1, <1>2, <2>1
    <2>2. CASE o # k
      <3>1. h'.alerted[o] = h.alerted[o]
        BY <1>1, <2>2
      <3>2. PICK i \in Cache : /\ dedup_cache[i].key = o
                               /\ dedup_cache[i].last_sent_time = h.alerted[o]
        BY <3>1 DEF Ring, Recorded
      <3>3. i # x
        <4> SUFFICES ASSUME i = x PROVE FALSE
          OBVIOUS
        <4>1. o # NoKey
          BY AgentConstants
        <4> QED BY <1>0, <3>1, <3>2, <4>1, Crowded
      <3> QED BY <1>2, <3>1, <3>2, <3>3
    <2> QED BY <2>1, <2>2
  <1>11. OneAlertPerWindow'
    <2> SUFFICES ASSUME Cardinality(Keys) <= size
                 PROVE  ~(now - h.alerted[k] < DEDUPLICATION_WINDOW_SECS)
      BY Zenon DEF Ring, OneAlertPerWindow
    <2> SUFFICES ASSUME now - h.alerted[k] < DEDUPLICATION_WINDOW_SECS PROVE FALSE
      OBVIOUS
    <2>1. PICK i \in Cache : /\ dedup_cache[i].key = k
                             /\ dedup_cache[i].last_sent_time = h.alerted[k]
      BY DEF Ring, Recorded
    <2> QED BY <1>1, <1>8, <2>1
  <1> QED BY <1>6, <1>7, <1>9, <1>10, <1>11 DEF Ring

-----------------------------------------------------------------------------
(***************************************************************************)
(* Each step preserves the invariant.                                      *)
(***************************************************************************)
(* The numbers the invariant speaks of. *)
LEMMA Counts ==
    ASSUME Typing
    PROVE  /\ link.wire \in Seq(Messages)
           /\ InWire \in Nat /\ InWire = Cardinality(Carried(link.wire))
           /\ h.received \in Nat /\ h.received <= MaxEvents
           /\ event_count \in Nat /\ event_count <= EVENT_BUFFER_SIZE
           /\ stored \in Nat /\ now \in Nat /\ MaxEvents \in Nat
  <1>1. link.wire \in Seq(Messages)
    BY DEF Typing, LinkType
  <1>2. h.received \in 0 .. MaxEvents
    BY DEF Typing, HistoryType
  <1> QED BY <1>1, <1>2, CarriedFinite, ConstantsNat DEF Typing, InWire

(* A step that neither reads nor stores an event, and leaves no more on    *)
(* the wire.                                                               *)
LEMMA QuietKeeps ==
    ASSUME IInv, UNCHANGED <<event_count, dedup_cache, dedup_cache_next, stored, h>>,
           now' \in now .. MaxTime, pc' \in {"select", "fds", "timer"},
           last_flush' \in Nat, last_health_check' \in Int,
           link' \in LinkType, InWire' <= InWire
    PROVE  IInv'
  <1>1. Typing /\ Ring
    BY DEF IInv, Ring
  <1>2. now \in Nat /\ now' \in Nat /\ now' >= now /\ now' \in 0 .. MaxTime
    BY <1>1, Counts, ConstantsNat
  <1>3. Typing'
    BY <1>1, <1>2 DEF Typing, Cache
  <1>4. Ring'
    BY <1>1, <1>2, RingKept
  <1>5. NoEventTwice'
    <2>1. InWire' \in Nat
      <3>1. link'.wire \in Seq(Messages)
        BY DEF LinkType
      <3> QED BY <3>1, CarriedFinite DEF InWire
    <2>2. stored + InWire + event_count <= h.received
      BY DEF IInv, NoEventTwice
    <2>3. stored' + InWire' + event_count' <= h'.received
      BY <1>1, <2>1, <2>2, Counts
    <2> QED BY <2>3 DEF NoEventTwice
  <1> QED BY <1>3, <1>4, <1>5 DEF IInv, Ring

(* Sending a ping, or not. *)
LEMMA PingKeeps ==
    ASSUME IInv, UNCHANGED <<now, event_count, dedup_cache, dedup_cache_next, stored, h>>,
           pc' \in {"select", "fds", "timer"},
           last_flush' \in Nat, last_health_check' \in Int,
           (\E s \in Sends(Ping) : link' = s.link) \/ UNCHANGED link
    PROVE  IInv'
  <1>1. Typing /\ link \in LinkType /\ now \in 0 .. MaxTime
    BY DEF IInv, Typing
  <1>2. link' \in LinkType /\ InWire' <= InWire
    <2>1. CASE UNCHANGED link
      BY <1>1, <2>1, Counts DEF InWire
    <2>2. CASE \E s \in Sends(Ping) : link' = s.link
      <3>1. PICK s \in Sends(Ping) : link' = s.link
        BY <2>2
      <3>2. /\ s.link \in LinkType
            /\ Cardinality(Carried(s.link.wire)) <= InWire + (IF s.ok THEN 0 ELSE 0)
        BY <1>1, MessagesAre, SendsIs
      <3>3. Cardinality(Carried(s.link.wire)) <= InWire
        BY <1>1, <3>2, Counts
      <3> QED BY <3>1, <3>2, <3>3 DEF InWire
    <2> QED BY <2>1, <2>2
  <1>3. now' \in now .. MaxTime
    BY <1>1, Counts
  <1> QED BY <1>2, <1>3, QuietKeeps

(* The batch is sent: what leaves it is on the wire at most once. *)
LEMMA BatchKeeps ==
    ASSUME IInv, TimerDue, event_count > 0
    PROVE  IInv'
  <1>1. Typing /\ Ring /\ link \in LinkType
    BY DEF IInv, Typing, Ring
  <1>2. PICK s \in Sends(Batch(event_count)) : link' = s.link /\ event_count' = Flushed(s)
    BY DEF TimerDue
  <1>3. /\ pc' = "select" /\ last_flush' = now
        /\ UNCHANGED <<now, dedup_cache, dedup_cache_next, last_health_check, stored, h>>
    BY DEF TimerDue
  <1>4. Batch(event_count) \in Messages /\ Batch(event_count).n = event_count
    BY <1>1, MessagesAre DEF Typing
  <1>5. /\ s.link \in LinkType
        /\ Cardinality(Carried(s.link.wire)) <= InWire + (IF s.ok THEN event_count ELSE 0)
    BY <1>1, <1>4, SendsIs
  <1>6. InWire' = Cardinality(Carried(s.link.wire)) /\ InWire' \in Nat
    <2>1. s.link.wire \in Seq(Messages)
      BY <1>5 DEF LinkType
    <2> QED BY <1>2, <2>1, CarriedFinite DEF InWire
  <1>7. event_count' = IF s.ok THEN 0 ELSE event_count
    BY <1>2 DEF Flushed
  <1>8. InWire' + event_count' <= InWire + event_count
    <2>1. CASE s.ok
      BY <1>1, <1>5, <1>6, <1>7, <2>1, Counts
    <2>2. CASE ~s.ok
      BY <1>1, <1>5, <1>6, <1>7, <2>2, Counts
    <2> QED BY <2>1, <2>2
  <1>9. Typing'
    <2>1. now \in Nat /\ event_count' \in 0 .. EVENT_BUFFER_SIZE
      BY <1>1, <1>7, Counts, ConstantsNat DEF Typing
    <2> QED BY <1>1, <1>2, <1>3, <1>5, <2>1 DEF Typing, Cache
  <1>10. Ring'
    BY <1>1, <1>3, Counts, RingKept
  <1>11. NoEventTwice'
    <2>1. stored + InWire + event_count <= h.received
      BY DEF IInv, NoEventTwice
    <2>2. event_count' \in Nat
      BY <1>1, <1>7, Counts
    <2>3. stored' + InWire' + event_count' <= h'.received
      BY <1>1, <1>3, <1>6, <1>8, <2>1, <2>2, Counts
    <2> QED BY <2>3 DEF NoEventTwice
  <1> QED BY <1>9, <1>10, <1>11 DEF IInv, Ring

(* One more event read. *)
LEMMA ReceivedIs ==
    ASSUME NEW r \in HistoryType, r.received < MaxEvents
    PROVE  /\ [r EXCEPT !.received = @ + 1] \in HistoryType
           /\ [r EXCEPT !.received = @ + 1].received = r.received + 1
           /\ [r EXCEPT !.received = @ + 1].alerted = r.alerted
           /\ [r EXCEPT !.received = @ + 1].early = r.early
  <1>1. PICK n \in 0 .. MaxEvents : n = r.received + 1
    <2>1. r.received \in 0 .. MaxEvents
      BY DEF HistoryType
    <2> QED BY <2>1, ConstantsNat
  <1>2. [r EXCEPT !.received = @ + 1] = [r EXCEPT !.received = n]
    BY <1>1
  <1>3. /\ [r EXCEPT !.received = n] \in HistoryType
        /\ [r EXCEPT !.received = n].received = n
        /\ [r EXCEPT !.received = n].alerted = r.alerted
        /\ [r EXCEPT !.received = n].early = r.early
    BY Zenon DEF HistoryType
  <1> QED BY <1>1, <1>2, <1>3, Zenon

(* An event that goes into the batch, or is dropped because it is full. *)
LEMMA BufferedKeeps ==
    ASSUME IInv, h.received < MaxEvents, pc' \in {"select", "fds", "timer"},
           event_count' = Buffered, h' = Received,
           UNCHANGED <<now, last_flush, last_health_check, stored,
                       dedup_cache, dedup_cache_next, link>>
    PROVE  IInv'
  <1>1. Typing /\ Ring /\ h \in HistoryType
    BY DEF IInv, Typing, Ring
  <1>2. /\ h' \in HistoryType /\ h'.received = h.received + 1
        /\ h'.alerted = h.alerted /\ h'.early = h.early
    BY <1>1, ReceivedIs DEF Received
  <1>3. event_count' \in 0 .. EVENT_BUFFER_SIZE /\ event_count' <= event_count + 1
    BY <1>1, Counts, ConstantsNat DEF Buffered
  <1>4. Typing'
    BY <1>1, <1>2, <1>3 DEF Typing, Cache
  <1>5. Ring'
    BY <1>1, <1>2, Counts, RingKept
  <1>6. NoEventTwice'
    <2>1. stored + InWire + event_count <= h.received
      BY DEF IInv, NoEventTwice
    <2>2. InWire' = InWire
      BY DEF InWire
    <2>3. stored' + InWire' + event_count' <= h'.received
      BY <1>1, <1>2, <1>3, <2>1, <2>2, Counts, ConstantsNat
    <2> QED BY <2>3 DEF NoEventTwice
  <1> QED BY <1>4, <1>5, <1>6 DEF IInv, Ring

(* An alert that is sent at once. *)
LEMMA AlertKeeps ==
    ASSUME IInv, h.received < MaxEvents, pc' \in {"select", "fds", "timer"},
           NEW k \in Keys, HandleAlert(k),
           UNCHANGED <<now, last_flush, last_health_check, stored>>
    PROVE  IInv'
  <1>1. Typing /\ Ring /\ h \in HistoryType /\ link \in LinkType
    BY DEF IInv, Typing, Ring
  <1>2. /\ ~Duplicate(k) /\ Remember(k) /\ UNCHANGED event_count
        /\ \E s \in Sends(Alert) : link' = s.link
    BY DEF HandleAlert
  <1>3. PICK b \in BOOLEAN :
          b = (h.early \/ now - h.alerted[k] < DEDUPLICATION_WINDOW_SECS)
    BY Zenon
  <1>4. PICK r \in HistoryType : /\ r = Received /\ r.received = h.received + 1
                                 /\ r.alerted = h.alerted /\ r.early = h.early
    BY <1>1, ReceivedIs, Zenon DEF Received
  <1>5. h' = [r EXCEPT !.alerted[k] = now, !.early = b]
    <2>1. h' = [r EXCEPT !.alerted[k] = now,
                  !.early = @ \/ now - h.alerted[k] < DEDUPLICATION_WINDOW_SECS]
      BY <1>4, Zenon DEF HandleAlert
    <2>2. (r.early \/ now - h.alerted[k] < DEDUPLICATION_WINDOW_SECS) = b
      BY <1>3, <1>4, Zenon
    <2> QED BY <2>1, <2>2, Zenon
  <1>6. /\ h' \in HistoryType /\ h'.received = h.received + 1
        /\ h'.alerted = [h.alerted EXCEPT ![k] = now]
        /\ h'.early = (h.early \/ now - h.alerted[k] < DEDUPLICATION_WINDOW_SECS)
    <2>1. PICK a \in [Keys -> Int] : a = [h.alerted EXCEPT ![k] = now]
      <3>1. now \in Int /\ h.alerted \in [Keys -> Int]
        BY <1>1, Counts DEF HistoryType
      <3> QED BY <3>1, Zenon
    <2>2. h' = [r EXCEPT !.alerted = a, !.early = b]
      <3>1. [r.alerted EXCEPT ![k] = now] = a
        BY <1>4, <2>1, Zenon
      <3> QED BY <1>5, <3>1, Zenon
    <2>3. /\ [r EXCEPT !.alerted = a, !.early = b] \in HistoryType
          /\ [r EXCEPT !.alerted = a, !.early = b].received = r.received
          /\ [r EXCEPT !.alerted = a, !.early = b].alerted = a
          /\ [r EXCEPT !.alerted = a, !.early = b].early = b
      BY Zenon DEF HistoryType
    <2> QED BY <1>3, <1>4, <2>1, <2>2, <2>3, Zenon
  <1>7. PICK s \in Sends(Alert) : link' = s.link
    BY <1>2
  <1>8. /\ s.link \in LinkType
        /\ Cardinality(Carried(s.link.wire)) <= InWire + (IF s.ok THEN 1 ELSE 0)
    BY <1>1, MessagesAre, SendsIs
  <1>9. InWire' \in Nat /\ InWire' <= InWire + 1
    <2>1. s.link.wire \in Seq(Messages)
      BY <1>8 DEF LinkType
    <2>2. InWire' = Cardinality(Carried(s.link.wire)) /\ InWire' \in Nat
      BY <1>7, <2>1, CarriedFinite DEF InWire
    <2> QED BY <1>1, <1>8, <2>2, Counts
  <1>10. Typing'
    <2>1. dedup_cache' \in [Cache -> EntryType]
      <3>1. now \in Nat
        BY <1>1, Counts
      <3> QED BY <1>1, <1>2, <3>1 DEF Typing, Remember, EntryType
    <2>2. dedup_cache_next' \in Cache
      BY <1>1, <1>2, ConstantsNat DEF Typing, Remember, Cache
    <2> QED BY <1>1, <1>2, <1>6, <1>7, <1>8, <2>1, <2>2 DEF Typing, Cache
  <1>11. Ring'
    BY <1>1, <1>2, <1>6, RingRemembers
  <1>12. NoEventTwice'
    <2>1. stored + InWire + event_count <= h.received
      BY DEF IInv, NoEventTwice
    <2>2. stored' + InWire' + event_count' <= h'.received
      BY <1>1, <1>2, <1>6, <1>9, <2>1, Counts
    <2> QED BY <2>2 DEF NoEventTwice
  <1> QED BY <1>10, <1>11, <1>12 DEF IInv, Ring

(* The receiver takes a message, or hangs up on one that is too long. *)
LEMMA ReceiveKeeps ==
    ASSUME IInv, Receive
    PROVE  IInv'
  <1>1. Typing /\ Ring /\ link \in LinkType /\ link.wire # << >>
    BY DEF IInv, Typing, Ring, Receive
  <1>2. UNCHANGED <<now, pc, event_count, dedup_cache, dedup_cache_next,
                    last_flush, last_health_check, h>>
    BY DEF Receive
  <1>3. PICK q \in Seq(Messages) : q = link.wire
    BY <1>1, Counts
  <1>4. PICK m \in Messages : m = Head(q)
    BY <1>1, <1>3, HeadTailProperties
  <1>5. PICK t \in Seq(Messages) : t = Tail(q)
    BY <1>1, <1>3, HeadTailProperties, Zenon
  <1>6. /\ InWire = Cardinality(Carried(t)) + m.n
        /\ m.n \in Nat /\ Cardinality(Carried(t)) \in Nat
    <2>1. Cardinality(Carried(q)) = Cardinality(Carried(t)) + m.n
      BY <1>1, <1>3, <1>4, <1>5, CarriedTail
    <2> QED BY <1>3, <2>1, MessageCounts, CarriedFinite DEF InWire
  <1>7. CASE EncryptedLen(m.n * EventSize) >= BUFFER_SIZE
    <2>1. PICK e \in Seq(Messages) : e = << >>
      <3>1. << >> \in Seq(Messages)
        BY EmptySeq, Zenon
      <3> QED BY <3>1, Zenon
    <2>2. link' = [link EXCEPT !.broken = TRUE, !.wire = e] /\ UNCHANGED stored
      BY <1>3, <1>4, <1>7, <2>1 DEF Receive
    <2>3. link' \in LinkType /\ link'.wire = e
      BY <1>1, <2>2, LinkWire, Zenon
    <2>4. InWire' <= InWire
      BY <1>6, <2>1, <2>3, CarriedNone DEF InWire
    <2>5. /\ now' \in now .. MaxTime /\ pc' \in {"select", "fds", "timer"}
          /\ last_flush' \in Nat /\ last_health_check' \in Int
      BY <1>1, <1>2, Counts DEF Typing
    <2> QED BY <1>2, <2>2, <2>3, <2>4, <2>5, QuietKeeps
  <1>8. CASE ~(EncryptedLen(m.n * EventSize) >= BUFFER_SIZE)
    <2>1. link' = [link EXCEPT !.wire = t] /\ stored' = stored + m.n
      BY <1>3, <1>4, <1>5, <1>8 DEF Receive
    <2>2. link' \in LinkType /\ link'.wire = t
      BY <1>1, <2>1, LinkWire, Zenon
    <2>3. stored' \in Nat
      BY <1>1, <1>6, <2>1, Counts
    <2>4. Typing'
      BY <1>1, <1>2, <2>2, <2>3 DEF Typing, Cache
    <2>5. Ring'
      BY <1>1, <1>2, Counts, RingKept
    <2>6. NoEventTwice'
      <3>1. stored + InWire + event_count <= h.received
        BY DEF IInv, NoEventTwice
      <3>2. InWire' = Cardinality(Carried(t))
        BY <2>2 DEF InWire
      <3>3. stored' + InWire' + event_count' <= h'.received
        BY <1>1, <1>2, <1>6, <2>1, <3>1, <3>2, Counts
      <3> QED BY <3>3 DEF NoEventTwice
    <2> QED BY <2>4, <2>5, <2>6 DEF IInv, Ring
  <1> QED BY <1>7, <1>8

(* The invariant holds before the first event. *)
LEMMA InitIInv ==
    ASSUME Init
    PROVE  IInv
  <1>1. link \in LinkType /\ InWire = 0
    <2>1. CASE link = Closed
      BY <2>1, LinksAre, CarriedNone DEF InWire
    <2>2. CASE link = [Connected EXCEPT !.wire = <<Ping>>]
      <3>1. PICK e \in Seq(Messages) : e = << >>
        <4>1. << >> \in Seq(Messages)
          BY EmptySeq, Zenon
        <4> QED BY <4>1, Zenon
      <3>2. PICK q \in Seq(Messages) : q = Append(e, Ping)
        BY MessagesAre, AppendProperties, Zenon
      <3>3. Cardinality(Carried(q)) = 0
        <4>1. Cardinality(Carried(e)) = 0
          BY <3>1, CarriedNone
        <4>2. Cardinality(Carried(Append(e, Ping))) = Cardinality(Carried(e)) + Ping.n
          BY MessagesAre, CarriedAppend
        <4> QED BY <3>2, <4>1, <4>2, MessagesAre
      <3>4. q = <<Ping>>
        BY <3>1, <3>2
      <3>5. link \in LinkType /\ link.wire = q
        BY <2>2, <3>4, LinksAre, LinkWire, Zenon
      <3> QED BY <3>3, <3>5 DEF InWire
    <2> QED BY <2>1, <2>2 DEF Init
  <1>2. h \in HistoryType /\ h.received = 0 /\ h.early = FALSE
    <2>1. 0 \in 0 .. MaxEvents /\ Never \in Int
      BY ConstantsNat DEF Never
    <2> QED BY <2>1, Zenon DEF Init, HistoryType
  <1>3. Typing
    BY <1>1, <1>2, ConstantsNat DEF Init, Typing, Cache, EntryType
  <1>4. NoEventTwice
    BY <1>1, <1>2 DEF Init, NoEventTwice
  <1>5. InOrder /\ InPast /\ Apart
    BY DEF Init, InOrder, InPast, Apart
  <1>6. Recorded
    <2>1. now = 0 /\ \A k \in Keys : h.alerted[k] = -DEDUPLICATION_WINDOW_SECS
      BY DEF Init, Never
    <2> QED BY <2>1, ConstantsNat DEF Recorded
  <1>7. OneAlertPerWindow
    BY <1>2 DEF OneAlertPerWindow
  <1> QED BY <1>3, <1>4, <1>5, <1>6, <1>7 DEF IInv

(* Every step preserves the invariant. *)
LEMMA NextIInv ==
    ASSUME IInv, [Next]_vars
    PROVE  IInv'
  <1>0. /\ Typing /\ link \in LinkType /\ now \in Nat /\ now \in now .. MaxTime
        /\ last_flush \in Nat /\ last_health_check \in Int /\ now \in 0 .. MaxTime
        /\ InWire \in Nat
    <2>1. Typing
      BY DEF IInv
    <2>2. now \in 0 .. MaxTime
      BY <2>1 DEF Typing
    <2>3. now \in Nat /\ now \in now .. MaxTime
      BY <2>2, ConstantsNat
    <2> QED BY <2>1, <2>2, <2>3, Counts DEF Typing
  <1>1. CASE HealthCheck
    BY <1>0, <1>1, PingKeeps DEF HealthCheck
  <1>2. CASE SocDisconnected
    <2>1. link' \in LinkType /\ InWire' <= InWire
      BY <1>0, <1>2, LinksAre, CarriedNone DEF SocDisconnected, InWire
    <2> QED BY <1>0, <1>2, <2>1, QuietKeeps DEF SocDisconnected
  <1>3. CASE FirewallEvent
    <2>1. /\ h.received < MaxEvents /\ pc' \in {"select", "fds", "timer"}
          /\ UNCHANGED <<now, last_flush, last_health_check, stored>>
      BY <1>3 DEF FirewallEvent
    <2>2. CASE HandleInfo
      BY <2>1, <2>2, BufferedKeeps DEF HandleInfo
    <2>3. ASSUME NEW k \in Keys, HandleDuplicate(k)
          PROVE  IInv'
      BY <2>1, <2>3, BufferedKeeps DEF HandleDuplicate
    <2>4. ASSUME NEW k \in Keys, HandleAlert(k)
          PROVE  IInv'
      BY <2>1, <2>4, AlertKeeps
    <2> QED BY <1>3, <2>2, <2>3, <2>4 DEF FirewallEvent
  <1>4. CASE FirewallDisconnected \/ NoEvent \/ TimerNotDue
    <2>1. /\ UNCHANGED <<now, event_count, dedup_cache, dedup_cache_next, last_flush,
                         last_health_check, link, stored, h>>
          /\ pc' \in {"select", "fds", "timer"}
      BY <1>4 DEF FirewallDisconnected, NoEvent, TimerNotDue
    <2>2. InWire' <= InWire
      BY <1>0, <2>1 DEF InWire
    <2> QED BY <1>0, <2>1, <2>2, QuietKeeps
  <1>5. CASE TimerDue
    <2>1. CASE event_count > 0
      BY <1>5, <2>1, BatchKeeps
    <2>2. CASE ~(event_count > 0)
      BY <1>0, <1>5, <2>2, PingKeeps DEF TimerDue
    <2> QED BY <2>1, <2>2
  <1>6. CASE Tick
    <2>1. InWire' <= InWire /\ now' \in now .. MaxTime
      BY <1>0, <1>6, ConstantsNat DEF Tick, InWire
    <2>2. pc' \in {"select", "fds", "timer"}
      BY <1>0, <1>6 DEF Tick, Typing
    <2> QED BY <1>0, <1>6, <2>1, <2>2, QuietKeeps DEF Tick
  <1>7. CASE Break
    <2>1. PICK e \in Seq(Messages) : e = << >>
      <3>1. << >> \in Seq(Messages)
        BY EmptySeq, Zenon
      <3> QED BY <3>1, Zenon
    <2>2. link' = [link EXCEPT !.broken = TRUE, !.wire = e]
      BY <1>7, <2>1 DEF Break
    <2>3. link' \in LinkType /\ link'.wire = e
      BY <1>0, <2>2, LinkWire, Zenon
    <2>4. InWire' <= InWire
      BY <1>0, <2>1, <2>3, CarriedNone DEF InWire
    <2>5. pc' \in {"select", "fds", "timer"}
      BY <1>0, <1>7 DEF Break, Typing
    <2> QED BY <1>0, <1>7, <2>3, <2>4, <2>5, QuietKeeps DEF Break
  <1>8. CASE Receive
    BY <1>8, ReceiveKeeps
  <1>9. CASE UNCHANGED vars
    <2>1. InWire' <= InWire
      BY <1>0, <1>9 DEF vars, InWire
    <2>2. pc' \in {"select", "fds", "timer"}
      BY <1>0, <1>9 DEF vars, Typing
    <2> QED BY <1>0, <1>9, <2>1, <2>2, QuietKeeps DEF vars
  <1> QED BY <1>1, <1>2, <1>3, <1>4, <1>5, <1>6, <1>7, <1>8, <1>9 DEF Next

-----------------------------------------------------------------------------
(***************************************************************************)
(* The theorems.                                                           *)
(***************************************************************************)
(* The ring of the deduplication cache stays in the order it was written,  *)
(* and an event is counted in one place.                                   *)
THEOREM Invariance == Spec => []IInv
  <1>1. Init => IInv
    BY InitIInv
  <1>2. IInv /\ [Next]_vars => IInv'
    BY NextIInv
  <1> QED BY <1>1, <1>2, PTL DEF Spec

(* The batch of the agent's main loop never outgrows event_buffer, and the *)
(* index into dedup_cache stays within it.                                 *)
THEOREM TypeCorrect == Spec => []TypeOK
  <1>1. IInv => TypeOK
    <2> SUFFICES ASSUME IInv PROVE TypeOK
      OBVIOUS
    <2>1. Typing /\ InPast /\ NoEventTwice
      BY DEF IInv
    <2>2. now \in 0 .. MaxTime /\ now <= MaxTime
      BY <2>1, ConstantsNat DEF Typing
    <2>3. stored \in 0 .. MaxEvents
      BY <2>1, Counts DEF NoEventTwice
    <2>4. dedup_cache \in [Cache -> [key : Keys \cup {NoKey}, last_sent_time : 0 .. MaxTime]]
      <3>1. \A i \in Cache : /\ dedup_cache[i] \in EntryType
                             /\ dedup_cache[i].last_sent_time <= now
        BY <2>1 DEF Typing, InPast
      <3>2. \A i \in Cache : dedup_cache[i].last_sent_time \in 0 .. MaxTime
        BY <2>2, <3>1, ConstantsNat DEF EntryType
      <3> QED BY <2>1, <3>1, <3>2 DEF Typing, EntryType
    <2> QED BY <2>1, <2>3, <2>4 DEF Typing, TypeOK
  <1> QED BY <1>1, Invariance, PTL

(* Although a batch whose write failed is sent again, and the connection   *)
(* may break at any moment, no event reaches the database twice: send_to_  *)
(* soc's result decides whether the batch is emptied.                      *)
THEOREM StoredOnce == Spec => []NoEventTwice
  <1>1. IInv => NoEventTwice
    BY DEF IInv
  <1> QED BY <1>1, Invariance, PTL

(* is_duplicate_alert lets one instant alert per source and threat through *)
(* in a window, as long as no more pairs are active than the cache has     *)
(* entries: the entry it overwrites is then outside the window.            *)
THEOREM OneAlert == Spec => []OneAlertPerWindow
  <1>1. IInv => OneAlertPerWindow
    BY DEF IInv
  <1> QED BY <1>1, Invariance, PTL
=============================================================================
