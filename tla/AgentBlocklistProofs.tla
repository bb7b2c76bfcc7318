------------------------ MODULE AgentBlocklistProofs ------------------------
(***************************************************************************)
(* Proofs about AgentBlocklist, for every set of addresses, every way      *)
(* their texts lie within each other, every limit and every file: what the *)
(* firewall enforces is the file, and what was blocked stays blocked.      *)
(***************************************************************************)
EXTENDS AgentBlocklist, FiniteSetTheorems, SequenceTheorems, TLAPS

(* Payloads as they are sent. *)
Small == {p \in Payloads : Cardinality(p.ips) <= MAX_BLOCKLIST_IPS}

FdType == [mode : {"none", "netlink", "unix"}, alive : BOOLEAN]
DaemonType == [up : BOOLEAN, inbox : Seq(Small), table : Small]
KmodType == [installed : BOOLEAN, loaded : BOOLEAN, agent : BOOLEAN, table : Small]

Typing ==
    /\ pc \in {"dead", "top", "connect", "select", "command", "rewrite", "events"}
    /\ file \in Seq(Line) \cup {Absent}
    /\ IF pc = "rewrite" THEN rewrite \in Seq(Line) ELSE rewrite = None
    /\ reload_requested \in BOOLEAN
    /\ fw_fd \in FdType
    /\ wire \in Seq(Commands) \cup {None, Broken}
    /\ daemon \in DaemonType
    /\ kmod \in KmodType
    /\ owed \in SUBSET Ips

(* A connection that is alive leads to a firewall that is. *)
Linked ==
    fw_fd.alive => \/ fw_fd.mode = "unix" /\ daemon.up
                   \/ fw_fd.mode = "netlink" /\ kmod.loaded

(* What was last pushed on it. *)
LastPushed ==
    IF fw_fd.mode = "netlink" THEN kmod.table
    ELSE IF daemon.inbox = << >> THEN daemon.table
    ELSE daemon.inbox[Len(daemon.inbox)]

Pushes ==
    pc \notin {"dead", "rewrite"} /\ file # Absent /\ fw_fd.alive =>
        LastPushed = Load(file)

(* The file has an entry for ip that is read before the payload is full. *)
Holds(f, ip) == \E i \in LinesRead(f) : f[i] = Entry(ip)

OwedIsHeld ==
    \A ip \in owed : Holds(IF pc = "rewrite" THEN rewrite ELSE Lines(file), ip)

(* select has found the SOC's connection readable. *)
CommandIsThere == pc = "command" => SocReadable

(* The inductive invariant. *)
IInv == Typing /\ Linked /\ Pushes /\ OwedIsHeld /\ CommandIsThere

-----------------------------------------------------------------------------
(***************************************************************************)
(* Positions in a file.                                                    *)
(***************************************************************************)
(* The positions of a file, and any set of them, are finite. *)
LEMMA PositionsFinite ==
    ASSUME NEW f \in Seq(Line), NEW S \in SUBSET (DOMAIN f)
    PROVE  /\ S \in SUBSET Nat
           /\ IsFiniteSet(S) /\ Cardinality(S) \in Nat
           /\ \A T \in SUBSET S : IsFiniteSet(T) /\ Cardinality(T) <= Cardinality(S)
                                  /\ Cardinality(T) \in Nat
  <1>1. DOMAIN f = 1 .. Len(f) /\ Len(f) \in Nat
    OBVIOUS
  <1>2. IsFiniteSet(DOMAIN f)
    BY <1>1, FS_Interval
  <1>3. IsFiniteSet(S)
    BY <1>2, FS_Subset
  <1> QED BY <1>1, <1>3, FS_Subset, FS_CardinalityType

(* A set of numbers that is not empty has a least element. *)
LEMMA LeastExists ==
    ASSUME NEW S \in SUBSET Nat, S # {}
    PROVE  \E x \in S : \A y \in S : x <= y
  <1>1. PICK x \in S : \A y \in S : ~(<<y, x>> \in OpToRel(<, Nat))
    BY NatLessThanWellFounded, WFMin, Zenon
  <1>2. \A y \in S : ~(y < x)
    BY <1>1, Zenon DEF OpToRel
  <1> QED BY <1>2

(* One that is bounded has a greatest. *)
LEMMA GreatestExists ==
    ASSUME NEW S \in SUBSET Nat, S # {}, NEW n \in Nat, \A x \in S : x <= n
    PROVE  \E x \in S : \A y \in S : y <= x
  <1> DEFINE U == {m \in Nat : \A y \in S : y <= m}
  <1>1. U \in SUBSET Nat /\ n \in U
    OBVIOUS
  <1>2. PICK m \in U : \A k \in U : m <= k
    BY <1>1, LeastExists, Zenon
  <1>3. m \in S
    <2> SUFFICES ASSUME m \notin S PROVE FALSE
      OBVIOUS
    <2>1. \A y \in S : y <= m /\ y # m
      BY <1>2
    <2>2. m # 0
      <3>1. PICK y \in S : y \in Nat
        BY Zenon
      <3> QED BY <2>1, <3>1
    <2>3. m - 1 \in U
      <3>1. m - 1 \in Nat
        BY <1>2, <2>2
      <3>2. \A y \in S : y \in Nat /\ y <= m - 1
        BY <1>2, <2>1
      <3> QED BY <3>1, <3>2
    <2> QED BY <1>2, <2>3
  <1> QED BY <1>2, <1>3

(* Entries that are read: no more than the payload has room for. *)
LEMMA EntriesReadBounded ==
    ASSUME NEW f \in Seq(Line)
    PROVE  LET E == EntryLines(f) \cap LinesRead(f)
           IN IsFiniteSet(E) /\ Cardinality(E) <= MAX_BLOCKLIST_IPS
  <1> DEFINE E == EntryLines(f) \cap LinesRead(f)
  <1>1. E \in SUBSET (DOMAIN f) /\ EntryLines(f) \in SUBSET (DOMAIN f)
    BY DEF EntryLines
  <1>2. IsFiniteSet(E) /\ E \in SUBSET Nat
    BY <1>1, PositionsFinite
  <1>3. MAX_BLOCKLIST_IPS \in Nat
    BY AgentBlocklistConstants
  <1>4. CASE E = {}
    BY <1>2, <1>3, <1>4, FS_EmptySet
  <1>5. CASE E # {}
    <2> HIDE DEF E
    <2>1. Len(f) \in Nat /\ \A x \in E : x <= Len(f)
      BY <1>1
    <2>2. PICK m \in E : \A y \in E : y <= m
      BY <1>2, <1>5, <2>1, GreatestExists, Zenon
    <2>3. Cardinality({j \in EntryLines(f) : j < m}) < MAX_BLOCKLIST_IPS
      BY <2>2 DEF E, LinesRead
    <2>4. E \ {m} \in SUBSET {j \in EntryLines(f) : j < m}
      BY <1>2, <2>2 DEF E
    <2>5. /\ IsFiniteSet({j \in EntryLines(f) : j < m})
          /\ Cardinality({j \in EntryLines(f) : j < m}) \in Nat
      <3>1. {j \in EntryLines(f) : j < m} \in SUBSET (DOMAIN f)
        BY <1>1
      <3> QED BY <3>1, PositionsFinite
    <2>6. Cardinality(E \ {m}) <= Cardinality({j \in EntryLines(f) : j < m})
      BY <2>4, <2>5, FS_Subset
    <2>7. Cardinality(E \ {m}) = Cardinality(E) - 1 /\ Cardinality(E) \in Nat
      BY <1>2, <2>2, FS_RemoveElement, FS_CardinalityType
    <2> QED BY <1>2, <1>3, <2>3, <2>5, <2>6, <2>7 DEF E
  <1> QED BY <1>4, <1>5

(* What load_and_push_blocklist sends is a payload within its limit. *)
LEMMA LoadSmall ==
    ASSUME NEW f \in Seq(Line)
    PROVE  Load(f) \in Small
  <1> DEFINE E == EntryLines(f) \cap LinesRead(f)
             I == {f[i].ip : i \in E}
             L == {i \in LinesRead(f) : f[i].kind = "local"}
             g == [i \in E |-> f[i].ip]
  <1>1. IsFiniteSet(E) /\ Cardinality(E) <= MAX_BLOCKLIST_IPS
    BY EntriesReadBounded
  <1>2. I \in SUBSET Ips
    BY DEF EntryLines, Line
  <1>3. IsFiniteSet(I) /\ Cardinality(I) <= Cardinality(E)
    <2>1. g \in Surjection(E, I)
      BY DEF Surjection
    <2> HIDE DEF E, I, g
    <2> QED BY <1>1, <2>1, FS_Surjection
  <1>4. Cardinality(I) <= MAX_BLOCKLIST_IPS
    BY <1>1, <1>3, AgentBlocklistConstants, FS_CardinalityType
  <1>5. PICK b \in BOOLEAN : b = (L # {} /\ f[Max(L)].val)
    BY Zenon
  <1>6. Load(f) = [ips |-> I, local |-> b]
    BY <1>5, Zenon DEF Load
  <1> HIDE DEF I
  <1>7. [ips |-> I, local |-> b] \in Payloads
    BY <1>2 DEF Payloads
  <1> QED BY <1>4, <1>6, <1>7 DEF Small

-----------------------------------------------------------------------------
(***************************************************************************)
(* The lines a rewrite keeps.                                              *)
(***************************************************************************)
(* How many of S come before i. *)
Before(S, i) == {j \in S : j < i}

(* Of two positions the later one has more before it. *)
LEMMA LaterHasMore ==
    ASSUME NEW f \in Seq(Line), NEW S \in SUBSET (DOMAIN f),
           NEW i \in S, NEW k \in S, i < k
    PROVE  Cardinality(Before(S, i)) < Cardinality(Before(S, k))
  <1>1. /\ S \in SUBSET Nat /\ IsFiniteSet(Before(S, k)) /\ IsFiniteSet(Before(S, i))
    BY PositionsFinite DEF Before
  <1>2. Before(S, i) \in SUBSET (Before(S, k) \ {i}) /\ i \in Before(S, k)
    BY <1>1 DEF Before
  <1>3. /\ IsFiniteSet(Before(S, k) \ {i})
        /\ Cardinality(Before(S, k) \ {i}) = Cardinality(Before(S, k)) - 1
    BY <1>1, <1>2, FS_RemoveElement
  <1>4. Cardinality(Before(S, i)) <= Cardinality(Before(S, k) \ {i})
    BY <1>2, <1>3, FS_Subset
  <1>5. Cardinality(Before(S, i)) \in Nat /\ Cardinality(Before(S, k)) \in Nat
    BY <1>1, FS_CardinalityType
  <1> QED BY <1>3, <1>4, <1>5

(* The n-th of S exists. *)
LEMMA NthExists ==
    ASSUME NEW f \in Seq(Line), NEW S \in SUBSET (DOMAIN f),
           NEW n \in 1 .. Cardinality(S)
    PROVE  \E i \in S : Cardinality(Before(S, i)) = n - 1
  <1>1. /\ S \in SUBSET Nat /\ IsFiniteSet(S) /\ Cardinality(S) \in Nat
        /\ \A i \in S : /\ IsFiniteSet(Before(S, i))
                        /\ Cardinality(Before(S, i)) \in Nat
    BY PositionsFinite DEF Before
  <1>2. Len(f) \in Nat /\ \A i \in S : i <= Len(f)
    OBVIOUS
  <1>3. S # {}
    <2> SUFFICES ASSUME S = {} PROVE FALSE
      OBVIOUS
    <2>1. Cardinality(S) = 0
      BY FS_EmptySet
    <2> QED BY <2>1
  <1> DEFINE T == {i \in S : Cardinality(Before(S, i)) >= n - 1}
  <1>4. T # {}
    <2>1. PICK m \in S : \A y \in S : y <= m
      BY <1>1, <1>2, <1>3, GreatestExists, Zenon
    <2>2. Before(S, m) = S \ {m}
      BY <1>1, <2>1 DEF Before
    <2>3. Cardinality(S \ {m}) = Cardinality(S) - 1
      BY <1>1, FS_RemoveElement, Zenon
    <2>4. Cardinality(Before(S, m)) >= n - 1
      BY <1>1, <2>2, <2>3
    <2> QED BY <2>4
  <1>5. PICK i \in T : \A y \in T : i <= y
    <2>1. T \in SUBSET Nat
      BY <1>1
    <2> HIDE DEF T
    <2> QED BY <1>4, <2>1, LeastExists
  <1>6. ASSUME Cardinality(Before(S, i)) # n - 1 PROVE FALSE
    <2>1. i \in S /\ Cardinality(Before(S, i)) >= n
      BY <1>1, <1>5, <1>6
    <2>2. Before(S, i) # {}
      <3> SUFFICES ASSUME Before(S, i) = {} PROVE FALSE
        OBVIOUS
      <3>1. Cardinality(Before(S, i)) = 0
        BY FS_EmptySet
      <3> QED BY <2>1, <3>1
    <2>3. PICK p \in Before(S, i) : \A y \in Before(S, i) : y <= p
      <3>1. Before(S, i) \in SUBSET Nat /\ \A y \in Before(S, i) : y <= Len(f)
        BY <1>1, <1>2 DEF Before
      <3> QED BY <1>2, <2>2, <3>1, GreatestExists, Zenon
    <2>4. p \in S /\ p < i
      BY <2>3 DEF Before
    <2>5. Before(S, p) = Before(S, i) \ {p}
      BY <1>1, <1>5, <2>3, <2>4 DEF Before
    <2>6. Cardinality(Before(S, p)) = Cardinality(Before(S, i)) - 1
      <3>1. PICK B : B = Before(S, i)
        OBVIOUS
      <3>2. IsFiniteSet(B) /\ p \in B
        BY <1>1, <2>1, <2>3, <3>1
      <3>3. Cardinality(B \ {p}) = Cardinality(B) - 1
        BY <3>2, FS_RemoveElement, Zenon
      <3> QED BY <2>5, <3>1, <3>3
    <2>7. p \in T
      BY <1>1, <2>1, <2>4, <2>6
    <2> QED BY <1>1, <1>5, <2>4, <2>7
  <1> QED BY <1>5, <1>6

(* Nth finds it, and finds every position of S at its rank. *)
LEMMA NthIs ==
    ASSUME NEW f \in Seq(Line), NEW S \in SUBSET (DOMAIN f)
    PROVE  /\ \A n \in 1 .. Cardinality(S) : Nth(S, n) \in S
           /\ \A i \in S : /\ Cardinality(Before(S, i)) + 1 \in 1 .. Cardinality(S)
                           /\ Nth(S, Cardinality(Before(S, i)) + 1) = i
  <1>1. \A n : Nth(S, n) = CHOOSE i \in S : Cardinality(Before(S, i)) = n - 1
    BY DEF Nth, Before
  <1>2. \A n \in 1 .. Cardinality(S) : Nth(S, n) \in S
    BY <1>1, NthExists
  <1>3. ASSUME NEW i \in S
        PROVE  /\ Cardinality(Before(S, i)) + 1 \in 1 .. Cardinality(S)
               /\ Nth(S, Cardinality(Before(S, i)) + 1) = i
    <2>1. /\ S \in SUBSET Nat /\ IsFiniteSet(S) /\ Cardinality(S) \in Nat
          /\ \A k \in S : Cardinality(Before(S, k)) \in Nat
      BY PositionsFinite DEF Before
    <2>2. Cardinality(Before(S, i)) <= Cardinality(S) - 1
      <3>1. Before(S, i) \in SUBSET (S \ {i})
        BY <2>1 DEF Before
      <3>2. IsFiniteSet(S \ {i}) /\ Cardinality(S \ {i}) = Cardinality(S) - 1
        BY <2>1, FS_RemoveElement
      <3> QED BY <3>1, <3>2, FS_Subset
    <2>3. PICK c \in Nat : c = Cardinality(Before(S, i))
      BY <2>1
    <2>4. \E k \in S : Cardinality(Before(S, k)) = (c + 1) - 1
      BY <2>3
    <2>5. /\ Nth(S, c + 1) \in S
          /\ Cardinality(Before(S, Nth(S, c + 1))) = (c + 1) - 1
      BY <1>1, <2>4
    <2>6. Cardinality(Before(S, Nth(S, c + 1))) = Cardinality(Before(S, i))
      BY <2>3, <2>5
    <2>7. Nth(S, c + 1) = i
      <3>1. ~(Nth(S, c + 1) < i)
        BY <2>1, <2>5, <2>6, LaterHasMore
      <3>2. ~(i < Nth(S, c + 1))
        BY <2>1, <2>5, <2>6, LaterHasMore
      <3> QED BY <2>1, <2>5, <3>1, <3>2
    <2> QED BY <2>1, <2>2, <2>3, <2>7
  <1> QED BY <1>2, <1>3

(* The smaller of two numbers. *)
LEMMA MinOfTwo ==
    ASSUME NEW a \in Nat, NEW b \in Nat
    PROVE  Min({a, b}) = IF a <= b THEN a ELSE b
  BY DEF Min

(* What a rewrite keeps: lines of the file, no more than its buffer holds, *)
(* and of a file that fits every line that is not left out.                *)
LEMMA KeptIs ==
    ASSUME NEW f \in Seq(Line), NEW out
    PROVE  /\ Kept(f, out) \in Seq(Line)
           /\ Len(Kept(f, out)) <= MAX_BLOCKLIST_IPS
           /\ ~TooLong(f) => \A i \in Content(f) : f[i] \notin out =>
                 \E k \in 1 .. Len(Kept(f, out)) : Kept(f, out)[k] = f[i]
  <1> DEFINE S == {i \in Content(f) : f[i] \notin out}
             N == Min({Cardinality(S), MAX_BLOCKLIST_IPS})
  <1>1. Kept(f, out) = [n \in 1 .. N |-> f[Nth(S, n)]]
    BY DEF Kept
  <1>2. S \in SUBSET (DOMAIN f) /\ Content(f) \in SUBSET (DOMAIN f)
    BY DEF Content
  <1>3. MAX_BLOCKLIST_IPS \in Nat
    BY AgentBlocklistConstants
  <1>4. S \in SUBSET Content(f)
    OBVIOUS
  <1>5. \A i \in Content(f) : f[i] \notin out => i \in S
    OBVIOUS
  <1> HIDE DEF S
  <1>6. Cardinality(S) \in Nat /\ Cardinality(S) <= Cardinality(Content(f))
    BY <1>2, <1>4, PositionsFinite
  <1>7. N = IF Cardinality(S) <= MAX_BLOCKLIST_IPS THEN Cardinality(S) ELSE MAX_BLOCKLIST_IPS
    BY <1>3, <1>6, MinOfTwo
  <1> HIDE DEF N
  <1>8. N \in Nat /\ N <= MAX_BLOCKLIST_IPS /\ N <= Cardinality(S)
    BY <1>3, <1>6, <1>7
  <1>9. \A n \in 1 .. N : f[Nth(S, n)] \in Line
    <2>1. \A n \in 1 .. N : Nth(S, n) \in DOMAIN f
      BY <1>2, <1>6, <1>8, NthIs
    <2> QED BY <2>1
  <1>10. Kept(f, out) \in Seq(Line) /\ Len(Kept(f, out)) = N
    BY <1>1, <1>8, <1>9
  <1>11. ASSUME ~TooLong(f), NEW i \in Content(f), f[i] \notin out
         PROVE  \E k \in 1 .. Len(Kept(f, out)) : Kept(f, out)[k] = f[i]
    <2>1. N = Cardinality(S)
      <3>1. Cardinality(Content(f)) \in Nat
        BY <1>2, PositionsFinite
      <3> QED BY <1>3, <1>6, <1>7, <1>11, <3>1 DEF TooLong
    <2>2. i \in S
      BY <1>5, <1>11
    <2>3. PICK k : k = Cardinality(Before(S, i)) + 1
      OBVIOUS
    <2>4. k \in 1 .. N /\ Nth(S, k) = i
      BY <1>2, <2>1, <2>2, <2>3, NthIs
    <2> QED BY <1>1, <1>10, <2>4, Zenon
  <1> QED BY <1>8, <1>10, <1>11

-----------------------------------------------------------------------------
(***************************************************************************)
(* Entries that are read.                                                  *)
(***************************************************************************)
(* An entry of the file. *)
LEMMA EntryIs ==
    ASSUME NEW ip \in Ips
    PROVE  /\ Entry(ip) \in Line
           /\ Entry(ip).kind = "entry" /\ Entry(ip).ip = ip
  <1>1. Entry(ip) \in [kind : {"entry"}, ip : Ips, val : BOOLEAN]
    BY Zenon DEF Entry
  <1> QED BY <1>1 DEF Entry, Line

(* The lines that are read before the payload is full. *)
LEMMA LinesReadIs ==
    ASSUME NEW f
    PROVE  /\ LinesRead(f) = {i \in DOMAIN f :
                                Cardinality(Before(EntryLines(f), i)) < MAX_BLOCKLIST_IPS}
  BY DEF LinesRead, Before

(* An address that the file holds is in the payload. *)
LEMMA HeldIsLoaded ==
    ASSUME NEW f, NEW ip \in Ips, Holds(f, ip)
    PROVE  ip \in Load(f).ips
  <1>1. PICK i \in LinesRead(f) : f[i] = Entry(ip)
    BY DEF Holds
  <1>2. i \in EntryLines(f) \cap LinesRead(f)
    BY <1>1, EntryIs DEF EntryLines, LinesRead
  <1>3. f[i].ip = ip
    BY <1>1, EntryIs
  <1> QED BY <1>2, <1>3, Zenon DEF Load

(* An entry at i is held if the payload is not full before it. *)
LEMMA HeldAt ==
    ASSUME NEW f \in Seq(Line), NEW ip \in Ips, NEW i \in DOMAIN f, f[i] = Entry(ip),
           NEW n \in Nat, n < MAX_BLOCKLIST_IPS, NEW S, IsFiniteSet(S),
           Cardinality(S) <= n, Before(EntryLines(f), i) \in SUBSET S
    PROVE  Holds(f, ip)
  <1>1. /\ IsFiniteSet(Before(EntryLines(f), i))
        /\ Cardinality(Before(EntryLines(f), i)) <= Cardinality(S)
    BY FS_Subset
  <1>2. Cardinality(Before(EntryLines(f), i)) < MAX_BLOCKLIST_IPS
    BY <1>1, FS_CardinalityType, AgentBlocklistConstants
  <1> QED BY <1>2, LinesReadIs DEF Holds

(* Appending to the file keeps what it holds. *)
LEMMA HeldAfterAppend ==
    ASSUME NEW f \in Seq(Line), NEW l \in Line, NEW ip \in Ips, Holds(f, ip)
    PROVE  Holds(Append(f, l), ip)
  <1>1. PICK i \in DOMAIN f : /\ f[i] = Entry(ip)
                              /\ Cardinality(Before(EntryLines(f), i)) < MAX_BLOCKLIST_IPS
    BY LinesReadIs DEF Holds
  <1>2. /\ i \in DOMAIN Append(f, l) /\ Append(f, l)[i] = Entry(ip)
    BY <1>1
  <1>3. Before(EntryLines(Append(f, l)), i) = Before(EntryLines(f), i)
    BY <1>1 DEF Before, EntryLines
  <1> QED BY <1>1, <1>2, <1>3, LinesReadIs, Zenon DEF Holds

(* A file with room holds every entry it has, and one appended to it. *)
LEMMA HeldWithRoom ==
    ASSUME NEW f \in Seq(Line), Roomy(f), NEW ip \in Ips
    PROVE  /\ \A i \in DOMAIN f : f[i] = Entry(ip) => Holds(f, ip)
           /\ Holds(Append(f, Entry(ip)), ip)
  <1> DEFINE n == Cardinality(Content(f))
  <1>1. Content(f) \in SUBSET (DOMAIN f) /\ EntryLines(f) \in SUBSET Content(f)
    BY DEF Content, EntryLines
  <1>2. n \in Nat /\ IsFiniteSet(Content(f)) /\ n < MAX_BLOCKLIST_IPS
    BY <1>1, PositionsFinite DEF Roomy
  <1>3. ASSUME NEW i \in DOMAIN f, f[i] = Entry(ip) PROVE Holds(f, ip)
    <2>1. Before(EntryLines(f), i) \in SUBSET Content(f)
      BY <1>1 DEF Before
    <2> QED BY <1>2, <1>3, <2>1, HeldAt
  <1>4. Holds(Append(f, Entry(ip)), ip)
    <2>1. PICK g \in Seq(Line) : g = Append(f, Entry(ip))
      BY EntryIs, AppendProperties, Zenon
    <2>2. Len(f) + 1 \in DOMAIN g /\ g[Len(f) + 1] = Entry(ip)
      BY <2>1
    <2>3. Before(EntryLines(g), Len(f) + 1) \in SUBSET Content(f)
      BY <2>1, EntryIs DEF Before, EntryLines, Content
    <2>4. Holds(g, ip)
      <3> HIDE DEF n
      <3>1. Cardinality(Content(f)) <= n
        BY <1>2 DEF n
      <3> QED BY <1>2, <2>2, <2>3, <3>1, HeldAt
    <2> QED BY <2>1, <2>4
  <1> QED BY <1>3, <1>4

(* A rewrite of a file that fits keeps what it holds and does not leave    *)
(* out: the lines in front are no entries.                                 *)
LEMMA HeldAfterRewrite ==
    ASSUME NEW f \in Seq(Line), NEW front \in Seq(Line), NEW out, NEW ip \in Ips,
           \A i \in DOMAIN front : front[i].kind # "entry",
           ~TooLong(f), Holds(f, ip), Entry(ip) \notin out
    PROVE  Holds(front \o Kept(f, out), ip)
  <1>1. PICK i \in DOMAIN f : f[i] = Entry(ip)
    BY LinesReadIs DEF Holds
  <1>2. i \in Content(f)
    BY <1>1, EntryIs DEF Content
  <1>3. PICK K \in Seq(Line) : K = Kept(f, out)
    BY KeptIs
  <1>4. Len(K) <= MAX_BLOCKLIST_IPS /\ \E k \in 1 .. Len(K) : K[k] = Entry(ip)
    BY <1>1, <1>2, <1>3, KeptIs
  <1>5. PICK k \in 1 .. Len(K) : K[k] = Entry(ip)
    BY <1>4
  <1>6. PICK g \in Seq(Line) : g = front \o K
    BY ConcatProperties, Zenon
  <1>7. Len(front) + k \in DOMAIN g /\ g[Len(front) + k] = Entry(ip)
    BY <1>5, <1>6
  <1> DEFINE S == Len(front) + 1 .. Len(front) + (k - 1)
  <1>8. IsFiniteSet(S) /\ Cardinality(S) <= k - 1
    <2>1. /\ Len(front) + 1 \in Int /\ Len(front) + (k - 1) \in Int
          /\ k \in Nat /\ k >= 1 /\ Len(front) \in Nat
      OBVIOUS
    <2>2. \A x, y \in Int : /\ IsFiniteSet(x .. y)
                             /\ Cardinality(x .. y) = IF x > y THEN 0 ELSE y - x + 1
      BY FS_Interval
    <2>3. PICK x : x = Len(front) + 1
      OBVIOUS
    <2>4. PICK y : y = Len(front) + (k - 1)
      OBVIOUS
    <2>5. S = x .. y
      BY <2>3, <2>4
    <2>6. x \in Int /\ y \in Int /\ k - 1 = IF x > y THEN 0 ELSE y - x + 1
      BY <2>1, <2>3, <2>4
    <2> HIDE DEF S
    <2>7. IsFiniteSet(S) /\ Cardinality(S) = k - 1
      BY <2>2, <2>5, <2>6, Zenon
    <2> QED BY <2>1, <2>7
  <1>9. Before(EntryLines(g), Len(front) + k) \in SUBSET S
    <2> SUFFICES ASSUME NEW j \in EntryLines(g), j < Len(front) + k PROVE j \in S
      BY DEF Before
    <2>1. j \in 1 .. Len(g) /\ g[j].kind = "entry"
      BY DEF EntryLines
    <2>2. j \notin 1 .. Len(front)
      BY <1>6, <2>1
    <2> QED BY <2>1, <2>2
  <1>10. k - 1 \in Nat /\ k - 1 < MAX_BLOCKLIST_IPS
    BY <1>4, AgentBlocklistConstants
  <1> HIDE DEF S
  <1>11. Holds(g, ip)
    BY <1>7, <1>8, <1>9, <1>10, HeldAt
  <1> QED BY <1>3, <1>6, <1>11

-----------------------------------------------------------------------------
(***************************************************************************)
(* Pushing.                                                                *)
(***************************************************************************)
(* The records of the firewalls, one field changed. *)
LEMMA DaemonInbox ==
    ASSUME NEW d \in DaemonType, NEW q \in Seq(Small)
    PROVE  /\ [d EXCEPT !.inbox = q] \in DaemonType
           /\ [d EXCEPT !.inbox = q].up = d.up
           /\ [d EXCEPT !.inbox = q].inbox = q
  BY Zenon DEF DaemonType

(* The firewall's table after a command. *)
LEMMA KmodTable ==
    ASSUME NEW k \in KmodType, NEW t \in Small
    PROVE  /\ [k EXCEPT !.table = t] \in KmodType
           /\ [k EXCEPT !.table = t].loaded = k.loaded
           /\ [k EXCEPT !.table = t].table = t
  BY Zenon DEF KmodType

(* What a push does to a daemon. *)
LEMMA PushedDaemon ==
    ASSUME NEW f \in Seq(Line) \cup {Absent}, NEW fd \in FdType,
           NEW d \in DaemonType, NEW k, NEW p, p = Pushed(f, fd, d, k).daemon
    PROVE  /\ p \in DaemonType
           /\ p.up = d.up
           /\ fd.mode = "unix" /\ fd.alive /\ f # Absent =>
                 p.inbox # << >> /\ p.inbox[Len(p.inbox)] = Load(f)
  <1>1. CASE fd.mode = "unix" /\ fd.alive /\ f # Absent
    <2>1. PICK q : q = Append(d.inbox, Load(f))
      BY Zenon
    <2>2. Load(f) \in Small /\ d.inbox \in Seq(Small)
      BY <1>1, LoadSmall DEF DaemonType
    <2>3. q \in Seq(Small) /\ q # << >> /\ q[Len(q)] = Load(f)
      BY <2>1, <2>2, AppendProperties
    <2>4. p = [d EXCEPT !.inbox = q]
      BY <1>1, <2>1 DEF Pushed
    <2>5. PICK x : x = [d EXCEPT !.inbox = q]
      BY Zenon
    <2>6. x \in DaemonType /\ x.up = d.up /\ x.inbox = q
      BY <2>3, <2>5, DaemonInbox
    <2> QED BY <2>3, <2>4, <2>5, <2>6
  <1>2. CASE ~(fd.mode = "unix" /\ fd.alive /\ f # Absent)
    <2>1. p = d
      BY <1>2 DEF Pushed
    <2> QED BY <1>2, <2>1
  <1> QED BY <1>1, <1>2

(* What a push does to a kernel module. *)
LEMMA PushedKmod ==
    ASSUME NEW f \in Seq(Line) \cup {Absent}, NEW fd \in FdType,
           NEW d, NEW k \in KmodType, NEW p, p = Pushed(f, fd, d, k).kmod
    PROVE  /\ p \in KmodType
           /\ p.loaded = k.loaded
           /\ fd.mode = "netlink" /\ k.loaded /\ f # Absent => p.table = Load(f)
  <1>1. CASE fd.mode = "netlink" /\ k.loaded /\ f # Absent
    <2>1. Load(f) \in Small
      BY <1>1, LoadSmall
    <2>2. p = [k EXCEPT !.table = Load(f)]
      BY <1>1 DEF Pushed
    <2>3. PICK x : x = [k EXCEPT !.table = Load(f)]
      BY Zenon
    <2>4. x \in KmodType /\ x.loaded = k.loaded /\ x.table = Load(f)
      BY <2>1, <2>3, KmodTable
    <2> QED BY <2>2, <2>3, <2>4
  <1>2. CASE ~(fd.mode = "netlink" /\ k.loaded /\ f # Absent)
    <2>1. p = k
      BY <1>2 DEF Pushed
    <2> QED BY <1>2, <2>1
  <1> QED BY <1>1, <1>2

(* After a push over a connection that leads to a live firewall. *)
LEMMA AfterPush ==
    ASSUME Typing, NEW fd \in FdType, NEW k \in KmodType,
           fd.alive => \/ fd.mode = "unix" /\ daemon.up
                       \/ fd.mode = "netlink" /\ k.loaded,
           file' \in Seq(Line) \cup {Absent},
           daemon' = Pushed(file', fd, daemon, k).daemon,
           kmod' = Pushed(file', fd, daemon, k).kmod,
           fw_fd' = fd
    PROVE  daemon' \in DaemonType /\ kmod' \in KmodType /\ Linked' /\ Pushes'
  <1>1. daemon \in DaemonType
    BY DEF Typing
  <1>2. /\ daemon' \in DaemonType
        /\ daemon'.up = daemon.up
        /\ fd.mode = "unix" /\ fd.alive /\ file' # Absent =>
              daemon'.inbox # << >> /\ daemon'.inbox[Len(daemon'.inbox)] = Load(file')
    <2>1. PICK f \in Seq(Line) \cup {Absent} : f = file'
      OBVIOUS
    <2>2. PICK p : p = Pushed(f, fd, daemon, k).daemon
      OBVIOUS
    <2>3. /\ p \in DaemonType
          /\ p.up = daemon.up
          /\ fd.mode = "unix" /\ fd.alive /\ f # Absent =>
                p.inbox # << >> /\ p.inbox[Len(p.inbox)] = Load(f)
      BY <1>1, <2>2, PushedDaemon
    <2> QED BY <2>1, <2>2, <2>3
  <1>3. /\ kmod' \in KmodType
        /\ kmod'.loaded = k.loaded
        /\ fd.mode = "netlink" /\ k.loaded /\ file' # Absent => kmod'.table = Load(file')
    <2>1. PICK f \in Seq(Line) \cup {Absent} : f = file'
      OBVIOUS
    <2>2. PICK p : p = Pushed(f, fd, daemon, k).kmod
      OBVIOUS
    <2>3. /\ p \in KmodType
          /\ p.loaded = k.loaded
          /\ fd.mode = "netlink" /\ k.loaded /\ f # Absent => p.table = Load(f)
      BY <2>2, PushedKmod
    <2> QED BY <2>1, <2>2, <2>3
  <1>4. Linked'
    BY <1>2, <1>3 DEF Linked
  <1>5. Pushes'
    BY <1>2, <1>3 DEF Pushes, LastPushed
  <1> QED BY <1>2, <1>3, <1>4, <1>5

-----------------------------------------------------------------------------
(***************************************************************************)
(* Each step preserves the invariant.                                      *)
(***************************************************************************)
WireType == Seq(Commands) \cup {None, Broken}
Looping == {"top", "connect", "select", "command", "events"}

(* A step that leaves file, connection and firewalls alone, and neither    *)
(* starts nor ends a life or a rewrite.                                    *)
LEMMA QuietKeeps ==
    ASSUME IInv, UNCHANGED <<file, rewrite, fw_fd, daemon, kmod, owed>>,
           pc' = pc \/ (pc \in Looping /\ pc' \in Looping),
           pc' = "command" => SocReadable',
           reload_requested' \in BOOLEAN, wire' \in WireType
    PROVE  IInv'
  <1>1. Typing'
    BY DEF IInv, Typing, Looping, WireType
  <1>2. Linked'
    BY DEF IInv, Linked
  <1>3. Pushes'
    BY DEF IInv, Pushes, LastPushed, Looping
  <1>4. OwedIsHeld'
    BY DEF IInv, OwedIsHeld, Looping
  <1> QED BY <1>1, <1>2, <1>3, <1>4 DEF IInv, CommandIsThere

(* A push that ends in the loop, over a connection to a live firewall or   *)
(* over none, of a file that holds what is owed.                           *)
LEMMA PushKeeps ==
    ASSUME IInv, NEW fd \in FdType, NEW k \in KmodType,
           fd.alive => \/ fd.mode = "unix" /\ daemon.up
                       \/ fd.mode = "netlink" /\ k.loaded,
           file' \in Seq(Line) \cup {Absent},
           daemon' = Pushed(file', fd, daemon, k).daemon,
           kmod' = Pushed(file', fd, daemon, k).kmod,
           fw_fd' = fd,
           pc' \in Looping, pc' # "command", rewrite' = None,
           reload_requested' \in BOOLEAN, wire' \in WireType,
           owed' \in SUBSET Ips, \A ip \in owed' : Holds(Lines(file'), ip)
    PROVE  IInv'
  <1>1. daemon' \in DaemonType /\ kmod' \in KmodType /\ Linked' /\ Pushes'
    BY AfterPush DEF IInv
  <1>2. Typing'
    BY <1>1 DEF Typing, Looping, WireType
  <1>3. OwedIsHeld'
    BY DEF OwedIsHeld, Looping
  <1> QED BY <1>1, <1>2, <1>3 DEF IInv, CommandIsThere

(* A push over the connection the agent has. *)
LEMMA PushAndKeeps ==
    ASSUME IInv, file' \in Seq(Line) \cup {Absent}, PushAnd(file', pc'),
           pc' \in Looping, pc' # "command", rewrite' = None, UNCHANGED fw_fd,
           reload_requested' \in BOOLEAN, wire' \in WireType,
           owed' \in SUBSET Ips, \A ip \in owed' : Holds(Lines(file'), ip)
    PROVE  IInv'
  <1>1. /\ daemon' = Pushed(file', fw_fd, daemon, kmod).daemon
        /\ kmod' = Pushed(file', fw_fd, daemon, kmod).kmod
    BY DEF PushAnd
  <1>2. fw_fd \in FdType /\ kmod \in KmodType
    BY DEF IInv, Typing
  <1>3. fw_fd.alive => \/ fw_fd.mode = "unix" /\ daemon.up
                       \/ fw_fd.mode = "netlink" /\ kmod.loaded
    BY DEF IInv, Linked
  <1> QED BY <1>1, <1>2, <1>3, PushKeeps

(* connect_to_firewall: what it connects to is up, and registering leaves  *)
(* the module's state otherwise alone.                                     *)
LEMMA Connects ==
    ASSUME Typing
    PROVE  /\ ConnectedFd \in FdType /\ Registered \in KmodType
           /\ ConnectedFd.alive =>
                \/ ConnectedFd.mode = "unix" /\ daemon.up
                \/ ConnectedFd.mode = "netlink" /\ Registered.loaded
  <1>1. kmod \in KmodType /\ daemon \in DaemonType
    BY DEF Typing
  <1>2. PICK k \in KmodType : k = kmod
    BY <1>1
  <1>3. PICK b \in BOOLEAN : b = (k.agent \/ k.loaded)
    BY Zenon
  <1>4. Registered = [k EXCEPT !.agent = b]
    BY <1>2, <1>3 DEF Registered
  <1>5. /\ [k EXCEPT !.agent = b] \in KmodType
        /\ [k EXCEPT !.agent = b].loaded = k.loaded
    BY Zenon DEF KmodType
  <1>6. CASE kmod.loaded
    <2>1. ConnectedFd = [mode |-> "netlink", alive |-> TRUE]
      BY <1>6 DEF ConnectedFd
    <2> QED BY <1>2, <1>4, <1>5, <1>6, <2>1 DEF FdType
  <1>7. CASE ~kmod.loaded /\ daemon.up
    <2>1. ConnectedFd = [mode |-> "unix", alive |-> TRUE]
      BY <1>7 DEF ConnectedFd
    <2> QED BY <1>4, <1>5, <1>7, <2>1 DEF FdType
  <1>8. CASE ~kmod.loaded /\ ~daemon.up
    <2>1. ConnectedFd = NoFirewall
      BY <1>8 DEF ConnectedFd
    <2> QED BY <1>4, <1>5, <2>1 DEF FdType, NoFirewall
  <1> QED BY <1>6, <1>7, <1>8

(* Connecting and pushing the file. *)
LEMMA ConnectKeeps ==
    ASSUME IInv, ConnectAndPush, pc # "rewrite", pc' \in Looping, pc' # "command",
           UNCHANGED <<file, rewrite, reload_requested, owed>>, wire' \in WireType
    PROVE  IInv'
  <1>1. PICK fd \in FdType : fd = ConnectedFd
    BY Connects DEF IInv
  <1>2. PICK k \in KmodType : k = Registered
    BY Connects DEF IInv
  <1>3. fd.alive => \/ fd.mode = "unix" /\ daemon.up
                    \/ fd.mode = "netlink" /\ k.loaded
    BY <1>1, <1>2, Connects DEF IInv
  <1>4. /\ fw_fd' = fd
        /\ daemon' = Pushed(file', fd, daemon, k).daemon
        /\ kmod' = Pushed(file', fd, daemon, k).kmod
    BY <1>1, <1>2 DEF ConnectAndPush
  <1>5. /\ file' \in Seq(Line) \cup {Absent} /\ rewrite' = None
        /\ reload_requested' \in BOOLEAN /\ owed' \in SUBSET Ips
    BY DEF IInv, Typing
  <1>6. \A ip \in owed' : Holds(Lines(file'), ip)
    BY DEF IInv, OwedIsHeld
  <1> QED BY <1>3, <1>4, <1>5, <1>6, PushKeeps

(* A command leaves the rest of the wire. *)
LEMMA CommandTaken ==
    ASSUME IInv, NEW type, Command(type)
    PROVE  /\ Head(wire) \in Commands /\ wire' \in WireType
           /\ pc = "command" /\ rewrite = None
  <1>1. wire \in Seq(Commands) /\ wire # << >>
    BY DEF IInv, Typing, CommandIsThere, Command, SocReadable
  <1>2. Head(wire) \in Commands /\ Tail(wire) \in Seq(Commands)
    BY <1>1, HeadTailProperties
  <1> QED BY <1>2 DEF IInv, Typing, Command, WireType

(* A file that is there is its lines. *)
LEMMA LinesAre ==
    ASSUME NEW f \in Seq(Line) \cup {Absent}
    PROVE  /\ Lines(f) \in Seq(Line)
           /\ f # Absent => Lines(f) = f
           /\ f \in Seq(Line) => f # Absent /\ f # None
  <1>1. << >> \in Seq(Line)
    OBVIOUS
  <1> QED BY <1>1, AgentBlocklistConstants DEF Lines

(* BLOCK_IP: what the file held it still holds, and the new address if it  *)
(* had room.                                                               *)
LEMMA BlockedHolds ==
    ASSUME Typing, NEW ip \in Ips
    PROVE  /\ Blocked(ip) \in Seq(Line) \cup {Absent}
           /\ \A o \in Ips : Holds(Lines(file), o) => Holds(Lines(Blocked(ip)), o)
           /\ Roomy(Lines(file)) /\ (\A i \in DOMAIN Lines(file) : Harmless(file[i], ip))
                 => Holds(Lines(Blocked(ip)), ip)
  <1>1. file \in Seq(Line) \cup {Absent}
    BY DEF Typing
  <1>2. PICK f \in Seq(Line) : f = Lines(file)
    BY <1>1, LinesAre
  <1>3. CASE \E i \in DOMAIN Lines(file) : Shows(file[i], ip)
    <2>1. Blocked(ip) = file
      BY <1>3 DEF Blocked
    <2>2. PICK i \in DOMAIN f : Shows(file[i], ip)
      BY <1>2, <1>3
    <2>3. f = file
      <3>1. CASE file = Absent
        BY <1>2, <2>2, <3>1 DEF Lines
      <3>2. CASE file # Absent
        BY <1>1, <1>2, <3>2, LinesAre
      <3> QED BY <3>1, <3>2
    <2>4. Harmless(file[i], ip) => f[i] = Entry(ip)
      BY <2>2, <2>3 DEF Harmless
    <2>5. Roomy(f) /\ f[i] = Entry(ip) => Holds(f, ip)
      BY <2>2, HeldWithRoom
    <2> QED BY <1>1, <1>2, <2>1, <2>2, <2>4, <2>5
  <1>4. CASE ~(\E i \in DOMAIN Lines(file) : Shows(file[i], ip))
    <2>1. Blocked(ip) = Append(f, Entry(ip))
      BY <1>2, <1>4 DEF Blocked
    <2>2. PICK g \in Seq(Line) : g = Append(f, Entry(ip))
      BY EntryIs, AppendProperties, Zenon
    <2>3. Lines(g) = g
      BY LinesAre
    <2>4. \A o \in Ips : Holds(f, o) => Holds(g, o)
      BY <2>2, EntryIs, HeldAfterAppend
    <2>5. Roomy(f) => Holds(g, ip)
      BY <2>2, HeldWithRoom
    <2> QED BY <1>2, <2>1, <2>2, <2>3, <2>4, <2>5
  <1> QED BY <1>3, <1>4

(* BLOCK_IP preserves the invariant. *)
LEMMA BlockKeeps ==
    ASSUME IInv, HandleBlock
    PROVE  IInv'
  <1>1. Head(wire) \in Commands /\ wire' \in WireType /\ pc = "command" /\ rewrite = None
    BY CommandTaken DEF HandleBlock
  <1>2. PICK ip \in Ips : ip = Head(wire).ip
    <2>1. Head(wire).type = "BLOCK_IP"
      BY DEF HandleBlock, Command
    <2> QED BY <1>1, <2>1, Zenon DEF Commands
  <1>3. /\ file' = Blocked(ip)
        /\ PushAnd(file', "events")
        /\ owed' = IF Roomy(Lines(file))
                      /\ \A i \in DOMAIN Lines(file) : Harmless(file[i], ip)
                   THEN owed \cup {ip} ELSE owed
        /\ UNCHANGED <<rewrite, reload_requested, fw_fd>>
    BY <1>2 DEF HandleBlock
  <1>4. /\ Typing /\ owed \in SUBSET Ips /\ reload_requested \in BOOLEAN
        /\ \A o \in owed : Holds(Lines(file), o)
    BY <1>1 DEF IInv, Typing, OwedIsHeld
  <1>5. file' \in Seq(Line) \cup {Absent}
    BY <1>3, <1>4, BlockedHolds
  <1>6. owed' \in SUBSET Ips /\ \A o \in owed' : Holds(Lines(file'), o)
    <2>1. \A o \in owed : Holds(Lines(file'), o)
      BY <1>3, <1>4, BlockedHolds
    <2>2. Roomy(Lines(file)) /\ (\A i \in DOMAIN Lines(file) : Harmless(file[i], ip))
            => Holds(Lines(file'), ip)
      BY <1>3, <1>4, BlockedHolds
    <2> QED BY <1>3, <1>4, <2>1, <2>2
  <1>7. pc' = "events" /\ PushAnd(file', pc')
    BY <1>3 DEF PushAnd
  <1> QED BY <1>1, <1>3, <1>4, <1>5, <1>6, <1>7, PushAndKeeps DEF Looping

(* A rewrite begins: what it is about to write holds what is still owed.   *)
LEMMA TruncateKeeps ==
    ASSUME IInv, pc = "command", wire' \in WireType, NEW still \in SUBSET owed,
           NEW front \in Seq(Line), \A i \in DOMAIN front : front[i].kind # "entry",
           NEW out, Truncate(front \o Kept(Lines(file), out), still),
           \A ip \in still : Entry(ip) \notin out
    PROVE  IInv'
  <1>1. /\ file \in Seq(Line) \cup {Absent} /\ owed \in SUBSET Ips
        /\ \A ip \in owed : Holds(Lines(file), ip)
    BY DEF IInv, Typing, OwedIsHeld
  <1>2. PICK f \in Seq(Line) : f = Lines(file)
    BY <1>1, LinesAre
  <1>3. PICK g \in Seq(Line) : g = front \o Kept(f, out)
    BY KeptIs, ConcatProperties, Zenon
  <1>4. /\ rewrite' = g /\ file' = << >> /\ pc' = "rewrite"
        /\ owed' = IF TooLong(f) THEN {} ELSE still
        /\ UNCHANGED <<reload_requested, fw_fd, daemon, kmod>>
    BY <1>2, <1>3 DEF Truncate
  <1>5. Typing'
    BY <1>1, <1>4 DEF IInv, Typing, WireType
  <1>6. Linked'
    BY <1>4 DEF IInv, Linked
  <1>7. Pushes' /\ CommandIsThere'
    BY <1>4 DEF Pushes, CommandIsThere
  <1>8. OwedIsHeld'
    <2> SUFFICES ASSUME NEW ip \in still, ~TooLong(f) PROVE Holds(g, ip)
      BY <1>4 DEF OwedIsHeld
    <2>1. ip \in Ips /\ Holds(f, ip) /\ Entry(ip) \notin out
      BY <1>1, <1>2
    <2> QED BY <1>3, <2>1, HeldAfterRewrite
  <1> QED BY <1>5, <1>6, <1>7, <1>8 DEF IInv

(* UNBLOCK_IP preserves the invariant. *)
LEMMA UnblockKeeps ==
    ASSUME IInv, HandleUnblock
    PROVE  IInv'
  <1>1. Head(wire) \in Commands /\ wire' \in WireType /\ pc = "command" /\ rewrite = None
    BY CommandTaken DEF HandleUnblock
  <1>2. PICK ip \in Ips : ip = Head(wire).ip
    <2>1. Head(wire).type = "UNBLOCK_IP"
      BY DEF HandleUnblock, Command
    <2> QED BY <1>1, <2>1, Zenon DEF Commands
  <1> DEFINE out == {l \in Line : Shows(l, ip)}
             still == {i \in owed : <<ip, i>> \notin Within}
             front == <<Header>>
  <1>3. Truncate(front \o Kept(Lines(file), out), still)
    BY <1>2 DEF HandleUnblock
  <1>4. front \in Seq(Line) /\ \A i \in DOMAIN front : front[i].kind # "entry"
    <2>1. Header \in [kind : {"comment", "local"}, ip : Ips \cup {None}, val : BOOLEAN]
      BY DEF Header
    <2> QED BY <2>1 DEF Line, Header
  <1>5. \A i \in still : Entry(i) \notin out
    <2> SUFFICES ASSUME NEW i \in owed, <<ip, i>> \notin Within PROVE ~Shows(Entry(i), ip)
      OBVIOUS
    <2>1. Entry(i).ip = i
      BY DEF Entry
    <2> QED BY <2>1 DEF Shows
  <1>6. still \in SUBSET owed
    OBVIOUS
  <1> HIDE DEF out, still, front
  <1> QED BY <1>1, <1>3, <1>4, <1>5, <1>6, TruncateKeeps

(* CONFIG_UPDATE preserves the invariant. *)
LEMMA ConfigKeeps ==
    ASSUME IInv, HandleConfig
    PROVE  IInv'
  <1>1. Head(wire) \in Commands /\ wire' \in WireType /\ pc = "command" /\ rewrite = None
    BY CommandTaken DEF HandleConfig
  <1>2. PICK v \in BOOLEAN : v = Head(wire).val
    BY <1>1, Zenon DEF Commands
  <1> DEFINE out == {l \in Line : l.kind = "local"}
             front == <<Header, LocalLine(v)>>
  <1>3. Truncate(front \o Kept(Lines(file), out), owed)
    BY <1>2 DEF HandleConfig, Configured
  <1>4. front \in Seq(Line) /\ \A i \in DOMAIN front : front[i].kind # "entry"
    <2>1. /\ Header \in [kind : {"comment", "local"}, ip : Ips \cup {None}, val : BOOLEAN]
          /\ Header.kind = "comment"
      BY DEF Header
    <2>2. /\ LocalLine(v) \in
                [kind : {"comment", "local"}, ip : Ips \cup {None}, val : BOOLEAN]
          /\ LocalLine(v).kind = "local"
      BY DEF LocalLine
    <2>3. Header \in Line /\ LocalLine(v) \in Line
      BY <2>1, <2>2 DEF Line
    <2> QED BY <2>1, <2>2, <2>3
  <1>5. \A i \in owed : Entry(i) \notin out
    <2>1. \A i \in owed : Entry(i).kind = "entry"
      BY DEF Entry
    <2> QED BY <2>1
  <1>6. owed \in SUBSET owed
    OBVIOUS
  <1> HIDE DEF out, front
  <1> QED BY <1>1, <1>3, <1>4, <1>5, <1>6, TruncateKeeps

(* Closing the rewritten file and pushing it preserves the invariant. *)
LEMMA WriteBackKeeps ==
    ASSUME IInv, WriteBack
    PROVE  IInv'
  <1>1. /\ rewrite \in Seq(Line) /\ owed \in SUBSET Ips /\ reload_requested \in BOOLEAN
        /\ wire \in WireType /\ \A ip \in owed : Holds(rewrite, ip)
    BY DEF IInv, Typing, OwedIsHeld, WriteBack, WireType
  <1>2. /\ file' = rewrite /\ rewrite' = None /\ PushAnd(file', pc') /\ pc' = "events"
        /\ UNCHANGED <<reload_requested, fw_fd, wire, owed>>
    BY DEF WriteBack, PushAnd
  <1>3. file' \in Seq(Line) \cup {Absent} /\ Lines(file') = rewrite
    BY <1>1, <1>2, LinesAre
  <1>4. \A ip \in owed' : Holds(Lines(file'), ip)
    BY <1>1, <1>2, <1>3
  <1> QED BY <1>1, <1>2, <1>3, <1>4, PushAndKeeps DEF Looping

(* The states firewalls start in. *)
LEMMA FreshTypes ==
    /\ NoTable \in Small
    /\ DaemonDown \in DaemonType /\ DaemonUp \in DaemonType /\ DaemonUp.up
    /\ \A b \in BOOLEAN : Unloaded(b) \in KmodType
    /\ [Unloaded(TRUE) EXCEPT !.loaded = TRUE] \in KmodType
    /\ NoFirewall \in FdType /\ ~NoFirewall.alive
  <1>1. NoTable \in Small
    <2>1. {} \in SUBSET Ips /\ Cardinality({}) = 0
      BY FS_EmptySet
    <2>2. NoTable \in Payloads /\ NoTable.ips = {}
      BY <2>1 DEF NoTable, Payloads
    <2>3. Cardinality(NoTable.ips) = 0
      BY <2>1, <2>2, Zenon
    <2>4. Cardinality(NoTable.ips) <= MAX_BLOCKLIST_IPS
      BY <2>3, AgentBlocklistConstants
    <2> QED BY <2>2, <2>4 DEF Small
  <1>2. PICK t \in Small : t = NoTable
    BY <1>1
  <1>3. PICK q \in Seq(Small) : q = << >>
    <2>1. << >> \in Seq(Small)
      BY EmptySeq, Zenon
    <2> QED BY <2>1, Zenon
  <1>4. DaemonDown \in DaemonType
    <2>1. DaemonDown = [up |-> FALSE, inbox |-> q, table |-> t]
      BY <1>2, <1>3 DEF DaemonDown
    <2> QED BY <2>1 DEF DaemonType
  <1>5. PICK d \in DaemonType : d = DaemonDown
    BY <1>4
  <1>6. DaemonDown \in DaemonType /\ DaemonUp \in DaemonType /\ DaemonUp.up
    <2>1. PICK u : u = [d EXCEPT !.up = TRUE]
      BY Zenon
    <2>2. u \in DaemonType /\ u.up
      BY <2>1, Zenon DEF DaemonType
    <2>3. u = DaemonUp
      BY <1>5, <2>1 DEF DaemonUp
    <2> QED BY <1>4, <2>2, <2>3
  <1>7. ASSUME NEW b \in BOOLEAN PROVE Unloaded(b) \in KmodType
    BY <1>2 DEF Unloaded, KmodType
  <1>8. [Unloaded(TRUE) EXCEPT !.loaded = TRUE] \in KmodType
    BY <1>2, Zenon DEF Unloaded, KmodType
  <1> QED BY <1>1, <1>6, <1>7, <1>8 DEF NoFirewall, FdType

(* The daemon takes a payload: the last one stays the last. *)
LEMMA ApplyKeeps ==
    ASSUME IInv, Apply
    PROVE  IInv'
  <1>1. PICK d \in DaemonType : d = daemon
    BY DEF IInv, Typing
  <1>2. PICK q \in Seq(Small) : q = d.inbox
    BY DEF DaemonType
  <1>3. d.up /\ q # << >>
    BY <1>1, <1>2 DEF Apply
  <1>4. Head(q) \in Small /\ Tail(q) \in Seq(Small) /\ Len(Tail(q)) = Len(q) - 1
    BY <1>3, HeadTailProperties
  <1>5. PICK h \in Small, t \in Seq(Small) : h = Head(q) /\ t = Tail(q)
    BY <1>4, Zenon
  <1>6. PICK n : n = [d EXCEPT !.inbox = t, !.table = h]
    OBVIOUS
  <1>7. n \in DaemonType /\ n.up = d.up /\ n.inbox = t /\ n.table = h
    BY <1>6, Zenon DEF DaemonType
  <1>8. daemon' = n
    BY <1>1, <1>2, <1>5, <1>6 DEF Apply
  <1>9. (IF t = << >> THEN h ELSE t[Len(t)]) = q[Len(q)]
    BY <1>3, <1>4, <1>5
  <1>10. UNCHANGED <<pc, file, rewrite, reload_requested, fw_fd, wire, kmod, owed>>
    BY DEF Apply
  <1>11. Typing'
    BY <1>7, <1>8, <1>10 DEF IInv, Typing
  <1>12. Linked'
    BY <1>1, <1>7, <1>8, <1>10 DEF IInv, Linked
  <1>13. Pushes'
    <2>1. LastPushed' = LastPushed
      BY <1>1, <1>2, <1>3, <1>7, <1>8, <1>9, <1>10 DEF LastPushed
    <2> QED BY <1>10, <2>1 DEF IInv, Pushes
  <1>14. OwedIsHeld' /\ CommandIsThere'
    BY <1>10 DEF IInv, OwedIsHeld, CommandIsThere, SocReadable
  <1> QED BY <1>11, <1>12, <1>13, <1>14 DEF IInv

(* A firewall that goes takes its connections with it; one that comes had  *)
(* none.                                                                   *)
LEMMA FirewallsKeep ==
    ASSUME IInv, DaemonDies \/ DaemonStarts \/ ModuleUnloads \/ ModuleLoads
    PROVE  IInv'
  <1>1. PICK fd \in FdType : fd = fw_fd
    BY DEF IInv, Typing
  <1>2. PICK x : x = [fd EXCEPT !.alive = FALSE]
    BY Zenon
  <1>3. x \in FdType /\ x.mode = fd.mode /\ ~x.alive
    BY <1>2, Zenon DEF FdType
  <1>4. UNCHANGED <<pc, file, rewrite, reload_requested, wire, owed>>
    BY Zenon DEF DaemonDies, DaemonStarts, ModuleUnloads, ModuleLoads
  <1>5. daemon \in DaemonType /\ kmod \in KmodType
    BY DEF IInv, Typing
  <1>6. /\ daemon' \in DaemonType /\ kmod' \in KmodType /\ fw_fd' \in {fd, x}
        /\ fw_fd' = fd /\ fd.alive =>
              \/ fd.mode # "unix" /\ UNCHANGED kmod
              \/ fd.mode # "netlink" /\ UNCHANGED daemon
    <2>1. CASE DaemonDies
      BY <1>1, <1>2, <1>3, <1>5, <2>1, FreshTypes, Zenon DEF DaemonDies
    <2>2. CASE DaemonStarts
      BY <1>1, <1>5, <2>2, FreshTypes DEF DaemonStarts, IInv, Linked
    <2>3. CASE ModuleUnloads
      BY <1>1, <1>2, <1>3, <1>5, <2>3, FreshTypes, Zenon DEF ModuleUnloads
    <2>4. CASE ModuleLoads
      BY <1>1, <1>5, <2>4, FreshTypes, Zenon DEF ModuleLoads, IInv, Linked
    <2> QED BY <2>1, <2>2, <2>3, <2>4
  <1>7. Typing'
    BY <1>3, <1>4, <1>6 DEF IInv, Typing
  <1>8. Linked' /\ Pushes'
    <2>1. CASE fw_fd' = fd /\ fd.alive
      <3>1. \/ fd.mode = "unix" /\ daemon.up
            \/ fd.mode = "netlink" /\ kmod.loaded
        BY <1>1, <2>1 DEF IInv, Linked
      <3>2. Linked'
        BY <1>6, <2>1, <3>1 DEF Linked
      <3>3. LastPushed' = LastPushed
        BY <1>1, <1>6, <2>1, <3>1 DEF LastPushed
      <3>4. Pushes'
        BY <1>1, <1>4, <2>1, <3>3 DEF IInv, Pushes
      <3> QED BY <3>2, <3>4
    <2>2. CASE ~(fw_fd' = fd /\ fd.alive)
      BY <1>3, <1>6, <2>2 DEF Linked, Pushes
    <2> QED BY <2>1, <2>2
  <1>9. OwedIsHeld' /\ CommandIsThere'
    BY <1>4 DEF IInv, OwedIsHeld, CommandIsThere, SocReadable
  <1> QED BY <1>7, <1>8, <1>9 DEF IInv

(* The daemon is found gone: no connection. *)
LEMMA GoneKeeps ==
    ASSUME IInv, FirewallGone
    PROVE  IInv'
  <1>1. /\ pc = "events" /\ pc' = "top" /\ fw_fd' = NoFirewall
        /\ UNCHANGED <<file, rewrite, reload_requested, wire, daemon, kmod, owed>>
    BY DEF FirewallGone
  <1>2. Typing'
    BY <1>1, FreshTypes DEF IInv, Typing
  <1>3. Linked' /\ Pushes' /\ CommandIsThere'
    BY <1>1, FreshTypes DEF Linked, Pushes, CommandIsThere
  <1>4. OwedIsHeld'
    BY <1>1 DEF IInv, OwedIsHeld
  <1> QED BY <1>2, <1>3, <1>4 DEF IInv

(* The agent dies: the file is as it was, or owes nothing more. *)
LEMMA DeathKeeps ==
    ASSUME IInv, AgentDies
    PROVE  IInv'
  <1>1. /\ pc' = "dead" /\ rewrite' = None /\ reload_requested' = FALSE
        /\ fw_fd' = NoFirewall /\ wire' = None /\ UNCHANGED <<daemon, kmod>>
    BY DEF AgentDies
  <1>2. file' \in Seq(Line) \cup {Absent} /\ owed' \in SUBSET Ips /\ OwedIsHeld'
    <2>1. CASE pc = "rewrite"
      <3>1. rewrite \in Seq(Line)
        BY <2>1 DEF IInv, Typing
      <3>2. PICK n \in 0 .. Len(rewrite) : file' = SubSeq(rewrite, 1, n)
        BY <2>1 DEF AgentDies
      <3>3. file' \in Seq(Line)
        BY <3>1, <3>2, SubSeqProperties
      <3>4. owed' = {}
        BY <2>1 DEF AgentDies
      <3> QED BY <3>3, <3>4 DEF OwedIsHeld
    <2>2. CASE pc # "rewrite"
      BY <1>1, <2>2 DEF AgentDies, IInv, Typing, OwedIsHeld
    <2> QED BY <2>1, <2>2
  <1>3. Typing'
    BY <1>1, <1>2, FreshTypes, Zenon DEF IInv, Typing
  <1>4. Linked' /\ Pushes' /\ CommandIsThere'
    BY <1>1, FreshTypes DEF Linked, Pushes, CommandIsThere
  <1> QED BY <1>2, <1>3, <1>4 DEF IInv

(* The invariant holds when the agent starts. *)
LEMMA InitIInv == Init => IInv
  <1> SUFFICES ASSUME Init PROVE IInv
    OBVIOUS
  <1>1. file \in Seq(Line) \cup {Absent} /\ kmod \in KmodType
    BY AgentBlocklistConstants, FreshTypes DEF Init
  <1>2. Typing
    BY <1>1, FreshTypes, Zenon DEF Init, Typing
  <1>3. Linked /\ Pushes /\ CommandIsThere /\ OwedIsHeld
    BY FreshTypes DEF Init, Linked, Pushes, CommandIsThere, OwedIsHeld
  <1> QED BY <1>2, <1>3 DEF IInv

(* The file is pushed as it is. *)
LEMMA RepushKeeps ==
    ASSUME IInv, PushAnd(file, pc'), pc # "rewrite", pc' \in Looping, pc' # "command",
           UNCHANGED <<file, rewrite, fw_fd, owed>>,
           reload_requested' \in BOOLEAN, wire' \in WireType
    PROVE  IInv'
  <1>1. /\ file' \in Seq(Line) \cup {Absent} /\ rewrite' = None /\ owed' \in SUBSET Ips
        /\ PushAnd(file', pc') /\ \A ip \in owed' : Holds(Lines(file'), ip)
    BY DEF IInv, Typing, OwedIsHeld
  <1> QED BY <1>1, PushAndKeeps

(* The connection to the SOC: a command on it is readable, a break too. *)
LEMMA Wires ==
    /\ << >> \in WireType /\ None \in WireType /\ Broken \in WireType
    /\ Broken # None /\ Broken # << >> /\ None # << >>
    /\ \A c \in Commands : <<c>> \in WireType /\ <<c>> # None /\ <<c>> # << >>
  <1>1. << >> \in Seq(Commands) /\ \A c \in Commands : <<c>> \in Seq(Commands)
    BY EmptySeq
  <1>2. \A c \in Commands : <<c>> # << >>
    <2>1. Len(<< >>) = 0 /\ \A c \in Commands : Len(<<c>>) = 1
      OBVIOUS
    <2> QED BY <2>1
  <1> QED BY <1>1, <1>2, AgentBlocklistConstants, Zenon DEF WireType

(* Every step preserves the invariant. *)
LEMMA NextIInv == IInv /\ [Next]_vars => IInv'
  <1> SUFFICES ASSUME IInv, [Next]_vars PROVE IInv'
    OBVIOUS
  <1>1. wire \in WireType /\ reload_requested \in BOOLEAN
    BY DEF IInv, Typing, WireType
  <1>2. pc = "command" => SocReadable
    BY DEF IInv, CommandIsThere
  <1>3. CASE Start
    <2>1. ConnectAndPush /\ pc # "rewrite" /\ pc' = "top" /\ wire' \in WireType
          /\ UNCHANGED <<file, rewrite, reload_requested, owed>>
      BY <1>3, Wires DEF Start
    <2> QED BY <2>1, ConnectKeeps DEF Looping
  <1>4. CASE Reload
    <2>1. PushAnd(file, pc') /\ pc = "top" /\ pc' = "connect" /\ reload_requested' = FALSE
          /\ UNCHANGED <<file, rewrite, fw_fd, wire, owed>>
      BY <1>4 DEF Reload, PushAnd
    <2> QED BY <1>1, <2>1, RepushKeeps, Zenon DEF Looping
  <1>5. CASE NoReload
    BY <1>1, <1>5, QuietKeeps DEF NoReload, Looping
  <1>6. CASE Reconnect
    <2>1. ConnectAndPush /\ pc # "rewrite" /\ pc' = "select" /\ UNCHANGED wire
          /\ UNCHANGED <<file, rewrite, reload_requested, owed>>
      BY <1>6 DEF Reconnect
    <2> QED BY <1>1, <2>1, ConnectKeeps DEF Looping
  <1>7. CASE StayConnected
    BY <1>1, <1>7, QuietKeeps DEF StayConnected, Looping
  <1>8. CASE Interrupted
    BY <1>1, <1>8, QuietKeeps DEF Interrupted, Looping
  <1>9. CASE SocReconnected
    <2>1. PushAnd(file, pc') /\ pc = "select" /\ pc' = "events" /\ wire' = << >>
          /\ UNCHANGED <<file, rewrite, reload_requested, fw_fd, owed>>
      BY <1>9 DEF SocReconnected, PushAnd
    <2>2. wire' \in WireType
      BY <2>1, Wires
    <2> QED BY <1>1, <2>1, <2>2, RepushKeeps DEF Looping
  <1>10. CASE NothingDue
    <2>1. SocReadable' = SocReadable
      BY <1>10 DEF NothingDue, SocReadable
    <2> QED BY <1>1, <1>10, <2>1, QuietKeeps DEF NothingDue, Looping
  <1>11. CASE FirewallGone
    BY <1>11, GoneKeeps
  <1>12. CASE FirewallQuiet
    BY <1>1, <1>12, QuietKeeps DEF FirewallQuiet, Looping
  <1>13. CASE HandleBlock
    BY <1>13, BlockKeeps
  <1>14. CASE HandleUnblock
    BY <1>14, UnblockKeeps
  <1>15. CASE HandleConfig
    BY <1>15, ConfigKeeps
  <1>16. CASE WriteBack
    BY <1>16, WriteBackKeeps
  <1>17. CASE IgnoreCommand
    <2>1. pc = "command" /\ wire' \in WireType
      BY <1>17, CommandTaken DEF IgnoreCommand
    <2> QED BY <1>1, <1>17, <2>1, QuietKeeps DEF IgnoreCommand, Looping
  <1>18. CASE SocGone
    <2>1. wire' \in WireType
      BY <1>18, Wires DEF SocGone
    <2> QED BY <1>1, <1>18, <2>1, QuietKeeps DEF SocGone, Looping
  <1>19. CASE Apply
    BY <1>19, ApplyKeeps
  <1>20. CASE DaemonDies \/ DaemonStarts \/ ModuleUnloads \/ ModuleLoads
    BY <1>20, FirewallsKeep
  <1>21. CASE SocSends
    <2>1. wire' \in WireType /\ SocReadable'
      BY <1>21, Wires DEF SocSends, SocReadable
    <2> QED BY <1>1, <1>21, <2>1, QuietKeeps DEF SocSends
  <1>22. CASE SocBreaks
    <2>1. wire' \in WireType /\ SocReadable'
      BY <1>22, Wires DEF SocBreaks, SocReadable
    <2> QED BY <1>1, <1>22, <2>1, QuietKeeps DEF SocBreaks
  <1>23. CASE Sighup
    <2>1. SocReadable' = SocReadable
      BY <1>23 DEF Sighup, SocReadable
    <2> QED BY <1>1, <1>2, <1>23, <2>1, QuietKeeps DEF Sighup
  <1>24. CASE AgentDies
    BY <1>24, DeathKeeps
  <1>25. CASE UNCHANGED vars
    <2>1. SocReadable' = SocReadable
      BY <1>25 DEF vars, SocReadable
    <2> QED BY <1>1, <1>2, <1>25, <2>1, QuietKeeps DEF vars
  <1> QED BY <1>3, <1>4, <1>5, <1>6, <1>7, <1>8, <1>9, <1>10, <1>11, <1>12, <1>13,
             <1>14, <1>15, <1>16, <1>17, <1>18, <1>19, <1>20, <1>21, <1>22, <1>23,
             <1>24, <1>25 DEF Next, Agent

-----------------------------------------------------------------------------
(* The inductive invariant holds of the agent, its firewalls and the SOC.  *)
THEOREM Invariance == Spec => []IInv
  <1> QED BY InitIInv, NextIInv, PTL DEF Spec

(* Types, and the limit of every table the firewalls hold: a payload of    *)
(* load_and_push_blocklist never names more than MAX_BLOCKLIST_IPS.        *)
THEOREM TypeCorrect == Spec => []TypeOK
  <1>1. IInv => TypeOK
    <2> SUFFICES ASSUME IInv PROVE TypeOK
      OBVIOUS
    <2>1. Typing
      BY DEF IInv
    <2>2. file = Absent \/ \A i \in DOMAIN file : file[i] \in Line
      BY <2>1 DEF Typing
    <2>3. (rewrite # None) = (pc = "rewrite")
      BY <2>1, AgentBlocklistConstants DEF Typing
    <2>4. \A t \in {daemon.table, kmod.table} :
             t \in Payloads /\ Cardinality(t.ips) <= MAX_BLOCKLIST_IPS
      BY <2>1 DEF Typing, DaemonType, KmodType, Small
    <2> QED BY <2>1, <2>2, <2>3, <2>4 DEF TypeOK, Typing, FdType
  <1> QED BY <1>1, Invariance, PTL

(* Whatever file, limit and addresses: the firewall the agent is connected *)
(* to, once it has applied what it was sent, enforces the file             *)
(* (load_and_push_blocklist after every change and every connect).         *)
THEOREM FirewallFollowsFile == Spec => []SettledTableIsFile
  <1>1. IInv => SettledTableIsFile
    BY DEF IInv, Linked, Pushes, LastPushed, SettledTableIsFile, Settled, Table
  <1> QED BY <1>1, Invariance, PTL

(* An address that BLOCK_IP put into a file with room stays enforced until *)
(* it is unblocked, a rewrite drops it or the agent dies in one.           *)
THEOREM BlockLasts == Spec => []BlockedStaysBlocked
  <1>1. IInv => BlockedStaysBlocked
    <2> SUFFICES ASSUME IInv, Settled, NEW ip \in owed PROVE ip \in Table.ips
      BY DEF BlockedStaysBlocked
    <2>1. Table = Load(file)
      BY DEF IInv, Linked, Pushes, LastPushed, Settled, Table
    <2>2. ip \in Ips /\ file # Absent /\ Holds(Lines(file), ip)
      BY DEF IInv, Typing, OwedIsHeld, Settled
    <2>3. Lines(file) = file
      BY <2>2 DEF Lines
    <2>4. ip \in Load(file).ips
      BY <2>2, <2>3, HeldIsLoaded
    <2> QED BY <2>1, <2>4
  <1> QED BY <1>1, Invariance, PTL
=============================================================================
