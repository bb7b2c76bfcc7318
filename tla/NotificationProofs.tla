------------------------- MODULE NotificationProofs -------------------------
(***************************************************************************)
(* Proofs about Notification, for any number of events, followers and any  *)
(* size of the batches: no event is passed over, none is published twice,  *)
(* and a follower gets what is published in order.                         *)
(***************************************************************************)
EXTENDS Notification, FiniteSetTheorems, SequenceTheorems, WellFoundedInduction, TLAPS

Given == 1 .. nextId - 1

Typing ==
    /\ nextId \in 1 .. MaxId + 1 /\ events \subseteq Given
    /\ config \in 0 .. MaxId \cup {NoRow} /\ (config # NoRow => config < nextId)
    /\ lastProcessedId \in -1 .. MaxId /\ lastProcessedId < nextId
    /\ pc \in {"idle", "max", "poll", "publish", "await", "save"}
    /\ batch \subseteq Given /\ (pc \in {"publish", "await"} <=> batch # {})
    /\ published \subseteq Given /\ live \subseteq published
    /\ outage \in BOOLEAN

SseTyping ==
    /\ emitters \subseteq Clients /\ broken \subseteq Clients
    /\ deadEmitters \subseteq Clients /\ slow \subseteq Clients
    /\ tasks \subseteq Clients \X live
    /\ got \in [Clients -> Seq(Nat)] /\ due \in [Clients -> SUBSET live]
    /\ \A c \in Clients : \A i \in DOMAIN got[c] : got[c][i] \in live

(* Before the cursor is set nothing is published. *)
Starts ==
    /\ lastProcessedId = -1 => pc = "idle"
    /\ lastProcessedId = -1 \/ pc = "max" => live = {}
    /\ pc = "max" /\ ~outage => lastProcessedId = 0 \/ lastProcessedId = config

(* What is at or below a cursor, the saved one included, was handled. *)
Handled(e) == e \in published \cup skipped
Passed ==
    \A e \in events : /\ e <= lastProcessedId => Handled(e)
                      /\ config # NoRow /\ e <= config => Handled(e)

(* The batch is the oldest of what is above the cursor. *)
Ahead ==
    /\ \A b \in batch : b > lastProcessedId
    /\ \A e \in events \ batch : e > lastProcessedId => \A b \in batch : b < e

(* The event that handleNewEvent is sending. *)
Sending(e) == pc = "await" /\ e = Min(batch)

(* This life has published what is at or below its cursor, and what is     *)
(* being sent.                                                             *)
LiveBehind ==
    /\ \A e \in live : e <= lastProcessedId \/ Sending(e)
    /\ pc = "await" => Min(batch) \in live

(* A start that could read the cursor leaves nothing between it and the    *)
(* saved one.                                                              *)
Fresh ==
    ~outage /\ lastProcessedId # -1 /\ pc # "max" =>
        \A e \in events \cup batch : e > lastProcessedId =>
            IF config = NoRow THEN e \in published => Sending(e) ELSE e > config

Cursor == Starts /\ Passed /\ Ahead /\ LiveBehind /\ Fresh

(* A follower that was waited for has only the send of the current event   *)
(* outstanding, and has not got that one yet.                              *)
InStep ==
    \A c \in emitters \ (broken \cup slow) :
        /\ \A e \in live : <<c, e>> \in tasks => Sending(e)
        /\ \A i \in DOMAIN got[c] :
              /\ got[c][i] <= lastProcessedId \/ Sending(got[c][i])
              /\ <<c, got[c][i]>> \notin tasks

(* Who is not connected has got nothing, and so has who is on the          *)
(* handler's list, even if it has connected again meanwhile.               *)
Outside ==
    \A c \in Clients : c \notin emitters \ broken => got[c] = <<>> /\ due[c] = {}
Dead ==
    \A c \in deadEmitters :
        /\ got[c] = <<>> /\ due[c] = {}
        /\ c \notin emitters \ broken \/ \A e \in live : <<c, e>> \notin tasks

Followers == SseTyping /\ InStep /\ Outside /\ Dead /\ FollowedInOrder

(* The inductive invariant. *)
IInv == Typing /\ Cardinality(batch) <= Limit /\ Cursor /\ Followers

-----------------------------------------------------------------------------
(***************************************************************************)
(* Queries.                                                                *)
(***************************************************************************)
(* The bound on the ids and the size of a batch are numbers. *)
LEMMA ConstantsNat == MaxId \in Nat /\ Limit \in Nat \ {0} /\ NoRow \notin 0 .. MaxId
  BY EventTableAssumption, NotificationAssumption

(* A set of numbers that is not empty has a least element. *)
LEMMA MinIs ==
    ASSUME NEW S \in SUBSET Nat, S # {}
    PROVE  Min(S) \in S /\ \A x \in S : Min(S) <= x
  <1>1. PICK x \in S : \A y \in S : ~(<<y, x>> \in OpToRel(<, Nat))
    BY NatLessThanWellFounded, WFMin, Zenon
  <1>2. \A y \in S : ~(y < x)
    BY <1>1, Zenon DEF OpToRel
  <1>3. \A y \in S : x <= y
    BY <1>2
  <1>4. Min(S) \in S /\ \A y \in S : Min(S) <= y
    BY <1>3, Zenon DEF Min
  <1> QED BY <1>4

(* A set of numbers with a bound has a greatest element. *)
LEMMA MaxIs ==
    ASSUME NEW n \in Nat, NEW S \in SUBSET (0 .. n), S # {}
    PROVE  Max(S) \in S /\ \A x \in S : x <= Max(S)
  <1> DEFINE T == {n - x : x \in S}
  <1>1. PICK U \in SUBSET Nat : U = T
    <2>1. \A x \in S : n - x \in Nat
      OBVIOUS
    <2> QED BY <2>1, Zenon
  <1>2. U # {} /\ \A x \in S : n - x \in U
    BY <1>1, Zenon
  <1>3. Min(U) \in U /\ \A x \in U : Min(U) <= x
    BY <1>2, MinIs
  <1>4. PICK x \in S : Min(U) = n - x
    BY <1>1, <1>3, Zenon
  <1>5. \A y \in S : n - x <= n - y
    BY <1>2, <1>3, <1>4
  <1>6. \A y \in S : x >= y
    BY <1>5
  <1> QED BY <1>6, Zenon DEF Max

(* A set of ids is finite, and a subset of it has no more elements. *)
LEMMA IdsFinite ==
    ASSUME NEW n \in Int, NEW S \in SUBSET (1 .. n)
    PROVE  IsFiniteSet(S)
  <1>1. \A x, y \in Int : IsFiniteSet(x .. y)
    BY FS_Interval
  <1>2. 1 \in Int
    OBVIOUS
  <1>3. IsFiniteSet(1 .. n)
    BY <1>1, <1>2, Zenon
  <1> QED BY <1>3, FS_Subset, Zenon

(* ORDER BY id ASC LIMIT k: at most k rows, and no other comes before one  *)
(* of them.                                                                *)
LEMMA OldestIs ==
    ASSUME NEW n \in Nat, NEW S \in SUBSET (1 .. n), NEW k \in Nat
    PROVE  /\ Oldest(S, k) \subseteq S
           /\ \A e \in Oldest(S, k) : \A f \in S : f < e => f \in Oldest(S, k)
           /\ Cardinality(Oldest(S, k)) <= k
  <1>1. PICK Rows : Rows = Oldest(S, k)
    OBVIOUS
  <1>2. ASSUME NEW e \in S
        PROVE  \E B \in SUBSET S : /\ \A f \in S : f \in B <=> f < e
                                   /\ e \in Rows <=> Cardinality(B) < k
    <2>1. PICK B : B = {f \in S : f < e}
      BY Zenon
    <2>2. e \in Rows <=> Cardinality(B) < k
      BY <1>1, <2>1, Zenon DEF Oldest
    <2>3. B \in SUBSET S /\ \A f \in S : f \in B <=> f < e
      BY <2>1
    <2> QED BY <2>2, <2>3
  <1>3. \A B \in SUBSET S : IsFiniteSet(B) /\ Cardinality(B) \in Nat
    <2> SUFFICES ASSUME NEW B \in SUBSET S PROVE IsFiniteSet(B) /\ Cardinality(B) \in Nat
      OBVIOUS
    <2>1. B \in SUBSET (1 .. n)
      OBVIOUS
    <2>2. IsFiniteSet(B)
      BY <2>1, IdsFinite
    <2> QED BY <2>2, FS_CardinalityType
  <1>4. Rows \subseteq S
    BY <1>1 DEF Oldest
  <1>5. ASSUME NEW e \in Rows, NEW f \in S, f < e
        PROVE  f \in Rows
    <2>1. PICK B \in SUBSET S : (\A g \in S : g \in B <=> g < e) /\ Cardinality(B) < k
      BY <1>2, <1>4
    <2>2. PICK C \in SUBSET S : /\ \A g \in S : g \in C <=> g < f
                                /\ f \in Rows <=> Cardinality(C) < k
      BY <1>2
    <2>3. C \subseteq B
      BY <1>4, <1>5, <2>1, <2>2
    <2>4. Cardinality(C) <= Cardinality(B)
      BY <1>3, <2>3, FS_Subset, Zenon
    <2> QED BY <1>3, <2>1, <2>2, <2>4
  <1>6. Cardinality(Rows) <= k
    <2>1. CASE Rows = {}
      BY <2>1, FS_EmptySet
    <2>2. CASE Rows # {}
      <3>1. PICK m \in Rows : \A x \in Rows : x <= m
        <4>1. Rows \in SUBSET (0 .. n)
          BY <1>4
        <4> QED BY <2>2, <4>1, MaxIs, Zenon
      <3>2. PICK B \in SUBSET S : (\A g \in S : g \in B <=> g < m) /\ Cardinality(B) < k
        BY <1>2, <1>4
      <3>3. PICK Q : Q = Rows \ {m}
        BY Zenon
      <3>4. Q \subseteq B
        BY <1>4, <3>1, <3>2, <3>3
      <3>5. Cardinality(Q) <= Cardinality(B)
        BY <1>3, <3>4, FS_Subset, Zenon
      <3>6. Cardinality(Q) = Cardinality(Rows) - 1
        BY <1>3, <1>4, <3>3, FS_RemoveElement
      <3>7. Cardinality(Rows) \in Nat /\ Cardinality(B) \in Nat
        BY <1>3, <1>4
      <3> QED BY <3>2, <3>5, <3>6, <3>7
    <2> QED BY <2>1, <2>2
  <1> QED BY <1>1, <1>4, <1>5, <1>6

-----------------------------------------------------------------------------
(***************************************************************************)
(* What a step may leave as it is.                                         *)
(***************************************************************************)
Notifier == Typing /\ Cardinality(batch) <= Limit /\ Cursor

(* The ids in use are numbers. *)
LEMMA Numbers ==
    ASSUME Typing
    PROVE  /\ nextId \in Nat /\ lastProcessedId \in Int /\ MaxId \in Nat
           /\ Given \subseteq Nat /\ Given \subseteq 1 .. MaxId
           /\ \A e \in Given : e < nextId /\ e >= 1
           /\ config # NoRow => config \in Nat
  BY ConstantsNat DEF Typing, Given

(* The next event of the batch. *)
LEMMA NextOfBatch ==
    ASSUME Typing, batch # {}
    PROVE  /\ Min(batch) \in batch /\ Min(batch) \in Nat
           /\ \A b \in batch : b \in Nat /\ Min(batch) <= b
  <1>1. batch \in SUBSET Nat
    BY Numbers DEF Typing
  <1> QED BY <1>1, MinIs, Zenon

(* A step that touches neither the table nor the job. *)
LEMMA NotifierSame ==
    ASSUME Notifier, UNCHANGED <<tableVars, cursorVars, pc, batch>>
    PROVE  Notifier'
  BY DEF Notifier, Typing, Given, Cursor, Starts, Passed, Handled, Ahead, LiveBehind,
         Fresh, Sending, tableVars, cursorVars

(* A step of the job between two events: the cursor moves on, or nothing   *)
(* was published yet.                                                      *)
LEMMA FollowersKept ==
    ASSUME Followers, UNCHANGED <<live, sseVars>>,
           \A e \in live : /\ Sending(e) => Sending(e)'
                           /\ e <= lastProcessedId => e <= lastProcessedId'
    PROVE  Followers'
  <1>1. SseTyping' /\ Outside' /\ Dead' /\ FollowedInOrder'
    BY DEF Followers, SseTyping, Outside, Dead, FollowedInOrder, sseVars
  <1>2. InStep'
    <2> SUFFICES ASSUME NEW c \in emitters' \ (broken' \cup slow')
                 PROVE  /\ \A e \in live' : <<c, e>> \in tasks' => Sending(e)'
                        /\ \A i \in DOMAIN got'[c] :
                              /\ \/ got'[c][i] <= lastProcessedId'
                                 \/ pc' = "await" /\ got'[c][i] = Min(batch')
                              /\ <<c, got'[c][i]>> \notin tasks'
      BY DEF InStep, Sending
    <2>1. c \in Clients /\ c \in emitters \ (broken \cup slow)
      BY DEF sseVars, Followers, SseTyping
    <2>2. \A e \in live' : <<c, e>> \in tasks' => Sending(e)'
      BY <2>1 DEF sseVars, Followers, InStep
    <2>3. ASSUME NEW i \in DOMAIN got'[c]
          PROVE  /\ \/ got'[c][i] <= lastProcessedId'
                    \/ pc' = "await" /\ got'[c][i] = Min(batch')
                 /\ <<c, got'[c][i]>> \notin tasks'
      <3>1. PICK g \in live : g = got[c][i]
        BY <2>1, <2>3 DEF sseVars, Followers, SseTyping
      <3>2. (g <= lastProcessedId \/ Sending(g)) /\ <<c, g>> \notin tasks
        BY <2>1, <2>3, <3>1 DEF sseVars, Followers, InStep
      <3>3. (g <= lastProcessedId' \/ Sending(g)') /\ <<c, g>> \notin tasks'
        BY <3>2 DEF sseVars
      <3> QED BY <3>1, <3>3 DEF sseVars, Sending
    <2> QED BY <2>2, <2>3
  <1> QED BY <1>1, <1>2 DEF Followers

-----------------------------------------------------------------------------
(***************************************************************************)
(* Each step preserves the invariant.                                      *)
(***************************************************************************)
(* Rows come and go. *)
LEMMA TableKeeps ==
    ASSUME IInv, TableStep
    PROVE  IInv'
  <1>1. UNCHANGED <<cursorVars, pc, batch, sseVars>> /\ Typing /\ Cursor
    BY DEF TableStep, IInv
  <1>2. /\ nextId' \in nextId .. MaxId + 1
        /\ \A e \in events' : e \in events \/ (e = nextId /\ nextId' = nextId + 1)
    <2>1. nextId \in Nat /\ nextId <= MaxId + 1 /\ MaxId \in Nat
      BY <1>1, ConstantsNat DEF Typing
    <2>2. CASE InsertEvent
      BY <2>1, <2>2 DEF InsertEvent
    <2>3. CASE DeleteEvents
      BY <2>1, <2>3 DEF DeleteEvents
    <2> QED BY <2>2, <2>3 DEF TableStep
  <1>3. Typing'
    <2>1. /\ nextId' \in 1 .. MaxId + 1 /\ nextId \in Nat /\ nextId' \in Nat
          /\ nextId >= 1 /\ nextId' >= nextId
      <3>1. nextId \in 1 .. MaxId + 1
        BY <1>1 DEF Typing
      <3> QED BY <1>2, <3>1, ConstantsNat
    <2>2. Given \subseteq Given' /\ events' \subseteq Given'
      <3>1. Given \subseteq Given'
        <4>1. \A a, b \in Nat : b >= a => 1 .. a - 1 \subseteq 1 .. b - 1
          OBVIOUS
        <4>2. 1 .. nextId - 1 \subseteq 1 .. nextId' - 1
          BY <2>1, <4>1, Zenon
        <4> QED BY <4>2 DEF Given
      <3>2. nextId' = nextId + 1 => nextId \in Given'
        <4>1. nextId' = nextId + 1 => nextId \in 1 .. nextId' - 1
          BY <2>1
        <4> QED BY <4>1 DEF Given
      <3>3. events \subseteq Given
        BY <1>1 DEF Typing
      <3> QED BY <1>2, <3>1, <3>2, <3>3
    <2>3. /\ lastProcessedId' < nextId'
          /\ config' # NoRow => config' < nextId'
      BY <1>1, <1>2, <2>1, Numbers DEF Typing, cursorVars
    <2> QED BY <1>1, <2>1, <2>2, <2>3 DEF Typing, cursorVars
  <1>4. Starts' /\ LiveBehind'
    BY <1>1 DEF Cursor, Starts, LiveBehind, Sending, cursorVars
  <1>5. Passed'
    BY <1>1, <1>2, Numbers DEF Cursor, Passed, Handled, cursorVars, Typing
  <1>6. Ahead'
    <2>1. \A b \in batch : b < nextId
      BY <1>1, Numbers DEF Typing
    <2> QED BY <1>1, <1>2, <2>1 DEF Cursor, Ahead, cursorVars
  <1>7. Fresh'
    <2>1. nextId \notin published /\ (config # NoRow => nextId > config)
      BY <1>1, Numbers DEF Typing
    <2> QED BY <1>1, <1>2, <2>1 DEF Cursor, Fresh, Sending, cursorVars
  <1>8. Followers'
    <2>1. \A e \in live : /\ Sending(e) => Sending(e)'
                          /\ e <= lastProcessedId => e <= lastProcessedId'
      BY <1>1 DEF Sending, cursorVars
    <2> QED BY <1>1, <2>1, FollowersKept DEF IInv, cursorVars
  <1> QED BY <1>1, <1>3, <1>4, <1>5, <1>6, <1>7, <1>8 DEF IInv, Cursor

(* A start reads the saved cursor, or 0. *)
LEMMA ReadKeeps ==
    ASSUME IInv, ReadCursor \/ ReadCursorFails
    PROVE  IInv'
  <1>1. Typing /\ Cursor /\ live = {} /\ batch = {} /\ MaxId \in Nat
    <2>1. Typing /\ Cursor
      BY DEF IInv
    <2> QED BY <2>1, ConstantsNat DEF ReadCursor, ReadCursorFails, Cursor, Starts, Typing
  <1>2. /\ pc' = "max" /\ pc = "idle" /\ lastProcessedId = -1
        /\ UNCHANGED <<tableVars, published, live, skipped, batch, sseVars>>
        /\ lastProcessedId' = 0 \/ (config # NoRow /\ lastProcessedId' = config /\ config' = config)
        /\ config' = config \/ config' = 0
        /\ outage' = outage \/ outage' = TRUE
    BY DEF ReadCursor, ReadCursorFails, SaveConfig
  <1>3. Typing'
    <2>1. /\ config' \in 0 .. MaxId \cup {NoRow}
          /\ config' # NoRow => config' < nextId
          /\ lastProcessedId' \in -1 .. MaxId /\ lastProcessedId' < nextId
      BY <1>1, <1>2, Numbers DEF Typing
    <2> QED BY <1>1, <1>2, <2>1, Zenon DEF Typing, Given, tableVars
  <1>4. Starts'
    <2>1. ~outage' => lastProcessedId' = 0 \/ lastProcessedId' = config'
      BY <1>2
    <2>2. lastProcessedId' # -1
      BY <1>1, <1>2, Numbers
    <2> QED BY <1>1, <1>2, <2>1, <2>2 DEF Starts
  <1>5. Passed'
    <2>1. \A e \in events : e >= 1
      BY <1>1, Numbers DEF Typing
    <2> QED BY <1>1, <1>2, <2>1, Numbers DEF Cursor, Passed, Handled, tableVars, Typing
  <1>6. Ahead' /\ LiveBehind' /\ Fresh'
    BY <1>1, <1>2 DEF Ahead, LiveBehind, Fresh
  <1>7. Followers'
    BY <1>1, <1>2, FollowersKept DEF IInv
  <1> QED BY <1>2, <1>3, <1>4, <1>5, <1>6, <1>7 DEF IInv, Cursor

(* The greatest id in the table. *)
LEMMA MaxEventIs ==
    ASSUME Typing
    PROVE  /\ MaxEvent \in 0 .. MaxId /\ MaxEvent < nextId
           /\ \A e \in events : e <= MaxEvent
  <1>1. PICK S : S = events \cup {0}
    BY Zenon
  <1>2. nextId \in Nat /\ nextId >= 1 /\ \A e \in events : e < nextId
    <2>1. nextId \in 1 .. MaxId + 1
      BY DEF Typing
    <2> QED BY <2>1, Numbers DEF Typing
  <1>3. S \in SUBSET (0 .. MaxId) /\ S # {}
    <2>1. \A e \in events : e \in 0 .. MaxId
      <3>1. \A e \in events : e \in 1 .. MaxId
        BY Numbers DEF Typing
      <3> QED BY <3>1
    <2>2. 0 \in 0 .. MaxId
      BY ConstantsNat
    <2> QED BY <1>1, <2>1, <2>2
  <1>4. Max(S) \in S /\ \A x \in S : x <= Max(S)
    BY <1>3, ConstantsNat, MaxIs, Zenon
  <1>5. PICK m : m = Max(S) /\ m = MaxEvent
    BY <1>1 DEF MaxEvent
  <1>6. m \in 0 .. MaxId /\ m < nextId
    <2>1. m \in S
      BY <1>4, <1>5, Zenon
    <2>2. m \in events \/ m = 0
      BY <1>1, <2>1, Zenon
    <2>3. m \in 0 .. MaxId
      BY <1>3, <2>1
    <2> QED BY <1>2, <2>2, <2>3
  <1> QED BY <1>1, <1>4, <1>5, <1>6, Zenon

(* A start sets the cursor to the end of the table if there was none. *)
LEMMA QueryMaxKeeps ==
    ASSUME IInv, QueryMax
    PROVE  IInv'
  <1>1. Typing /\ Cursor /\ live = {} /\ batch = {} /\ pc = "max"
    <2>1. Typing /\ Cursor /\ pc = "max"
      BY DEF IInv, QueryMax
    <2> QED BY <2>1 DEF Cursor, Starts, Typing
  <1>2. PICK max \in 0 .. MaxId : max = MaxEvent /\ max < nextId /\ \A e \in events : e <= max
    BY <1>1, MaxEventIs
  <1>3. /\ pc' = "poll"
        /\ UNCHANGED <<tableVars, published, live, outage, batch, sseVars>>
        /\ lastProcessedId' = StartCursor(max)
        /\ IF lastProcessedId > max \/ lastProcessedId = 0
           THEN config' \in {config, StartCursor(max)} ELSE config' = config
        /\ skipped' = IF lastProcessedId = 0
                      THEN skipped \cup (events \ published) ELSE skipped
    BY <1>2 DEF QueryMax, SaveConfig
  <1>4. lastProcessedId \in Int /\ lastProcessedId >= 0 /\ max \in Nat
    <2>1. lastProcessedId # -1 /\ lastProcessedId \in -1 .. MaxId
      BY <1>1 DEF Cursor, Starts, Typing
    <2> QED BY <1>2, <2>1, ConstantsNat
  <1>5. /\ lastProcessedId' \in 0 .. MaxId /\ lastProcessedId' < nextId
        /\ lastProcessedId' = max \/ (lastProcessedId' = lastProcessedId /\ config' = config)
        /\ config' = config \/ config' = lastProcessedId'
        /\ lastProcessedId = 0 \/ lastProcessedId' <= lastProcessedId
    <2>1. lastProcessedId \in 0 .. MaxId /\ lastProcessedId < nextId
      BY <1>1, <1>4, ConstantsNat DEF Typing
    <2> QED BY <1>2, <1>3, <1>4, <2>1 DEF StartCursor
  <1>6. Typing'
    <2>1. lastProcessedId' \in -1 .. MaxId /\ lastProcessedId' # NoRow
      BY <1>5, ConstantsNat
    <2> QED BY <1>1, <1>3, <1>5, <2>1 DEF Typing, Given, tableVars
  <1>7. Starts'
    <2>1. lastProcessedId' # -1
      BY <1>5
    <2> QED BY <1>1, <1>3, <2>1 DEF Starts
  <1>8. Passed'
    <2>1. \A e \in events : e \in Nat
      BY <1>1, Numbers DEF Typing
    <2>2. \A e \in events : e <= lastProcessedId => Handled(e)
      BY <1>1 DEF Cursor, Passed
    <2>3. \A e \in events : Handled(e) => Handled(e)'
      BY <1>3 DEF Handled
    <2>4. \A e \in events : e <= lastProcessedId' => Handled(e)'
      <3>1. CASE lastProcessedId = 0
        BY <1>3, <3>1 DEF Handled
      <3>2. CASE lastProcessedId # 0
        BY <1>4, <1>5, <2>1, <2>2, <2>3, <3>2
      <3> QED BY <3>1, <3>2
    <2>5. \A e \in events : config # NoRow /\ e <= config => Handled(e)
      BY <1>1 DEF Cursor, Passed
    <2> QED BY <1>3, <1>5, <2>3, <2>4, <2>5 DEF Passed, tableVars
  <1>9. Ahead' /\ LiveBehind'
    BY <1>1, <1>3 DEF Ahead, LiveBehind
  <1>10. Fresh'
    <2>1. \A e \in events : e \in Nat
      BY <1>1, Numbers DEF Typing
    <2>2. CASE lastProcessedId' = max
      BY <1>1, <1>2, <1>3, <1>4, <2>1, <2>2 DEF Fresh, tableVars
    <2>3. CASE lastProcessedId' = lastProcessedId /\ config' = config /\ lastProcessedId' # max
      <3>1. lastProcessedId # 0
        BY <1>3, <2>3 DEF StartCursor
      <3>2. ~outage => lastProcessedId = config
        BY <1>1, <3>1 DEF Cursor, Starts
      <3>3. lastProcessedId # NoRow
        BY <1>5, <2>3, ConstantsNat
      <3> QED BY <1>1, <1>3, <2>3, <3>2, <3>3 DEF Fresh, tableVars
    <2> QED BY <1>5, <2>2, <2>3
  <1>11. Followers'
    BY <1>1, <1>3, FollowersKept DEF IInv
  <1> QED BY <1>3, <1>6, <1>7, <1>8, <1>9, <1>10, <1>11 DEF IInv, Cursor

(* A query fails, and the job is over. *)
LEMMA FailKeeps ==
    ASSUME IInv, QueryMaxFails \/ PollFails
    PROVE  IInv'
  <1>1. Typing /\ Cursor /\ pc \in {"max", "poll"} /\ batch = {}
    <2>1. Typing /\ Cursor /\ pc \in {"max", "poll"}
      BY DEF IInv, QueryMaxFails, PollFails
    <2> QED BY <2>1 DEF Typing
  <1>2. /\ pc' = "idle"
        /\ UNCHANGED <<tableVars, config, lastProcessedId, published, live, skipped,
                       batch, sseVars>>
        /\ outage' = outage \/ outage' = TRUE
        /\ pc = "max" => outage' = TRUE
    BY <1>1 DEF QueryMaxFails, PollFails, cursorVars
  <1>3. Typing'
    BY <1>1, <1>2, Zenon DEF Typing, Given, tableVars
  <1>4. Starts' /\ Passed' /\ Ahead' /\ LiveBehind'
    BY <1>1, <1>2 DEF Cursor, Starts, Passed, Handled, Ahead, LiveBehind, Sending, tableVars
  <1>5. Fresh'
    BY <1>1, <1>2 DEF Cursor, Fresh, Sending, tableVars
  <1>6. Followers'
    <2>1. \A e \in live : /\ Sending(e) => Sending(e)'
                          /\ e <= lastProcessedId => e <= lastProcessedId'
      BY <1>1, <1>2 DEF Sending
    <2> QED BY <1>2, <2>1, FollowersKept DEF IInv
  <1> QED BY <1>2, <1>3, <1>4, <1>5, <1>6 DEF IInv, Cursor

(* The query for new events. *)
LEMMA PollKeeps ==
    ASSUME IInv, Poll
    PROVE  IInv'
  <1>1. Typing /\ Cursor /\ pc \in {"poll", "idle"} /\ lastProcessedId # -1 /\ batch = {}
    <2>1. Typing /\ Cursor /\ pc \in {"poll", "idle"}
      BY DEF IInv, Poll
    <2> QED BY <2>1 DEF Typing, Cursor, Starts, Poll
  <1>2. /\ UNCHANGED <<tableVars, cursorVars, sseVars>> /\ batch' = newEvents
        /\ pc' = IF batch' = {} THEN "idle" ELSE "publish"
    BY DEF Poll
  <1>3. /\ batch' \subseteq events /\ \A b \in batch' : b > lastProcessedId
        /\ \A e \in events \ batch' : e > lastProcessedId => \A b \in batch' : b < e
        /\ Cardinality(batch') <= Limit
    <2>1. PICK S : S = {e \in events : e > lastProcessedId}
      BY Zenon
    <2>2. S \in SUBSET (1 .. MaxId) /\ \A e \in events : e \in Nat
      BY <1>1, <2>1, Numbers DEF Typing
    <2>3. /\ batch' \subseteq S
          /\ \A e \in batch' : \A f \in S : f < e => f \in batch'
          /\ Cardinality(batch') <= Limit
      <3>1. batch' = Oldest(S, Limit)
        BY <1>2, <2>1 DEF newEvents
      <3> QED BY <2>2, <3>1, ConstantsNat, OldestIs, Zenon
    <2>4. \A b \in batch' : b \in events /\ b > lastProcessedId
      BY <2>1, <2>3
    <2>5. ASSUME NEW e \in events \ batch', e > lastProcessedId, NEW b \in batch'
          PROVE  b < e
      <3>1. e \in S /\ ~(e < b) /\ e # b
        BY <2>1, <2>3, <2>5
      <3>2. e \in Nat /\ b \in Nat
        BY <2>2, <2>4, <2>5
      <3> QED BY <3>1, <3>2
    <2> QED BY <2>3, <2>4, <2>5
  <1>4. Typing'
    BY <1>1, <1>2, <1>3, Zenon DEF Typing, Given, tableVars, cursorVars
  <1>5. Starts' /\ Passed'
    BY <1>1, <1>2 DEF Cursor, Starts, Passed, Handled, tableVars, cursorVars
  <1>6. Ahead'
    BY <1>2, <1>3 DEF Ahead, tableVars, cursorVars
  <1>7. LiveBehind'
    BY <1>1, <1>2 DEF Cursor, LiveBehind, Sending, cursorVars
  <1>8. Fresh'
    BY <1>1, <1>2, <1>3 DEF Cursor, Fresh, Sending, tableVars, cursorVars
  <1>9. Followers'
    <2>1. \A e \in live : /\ Sending(e) => Sending(e)'
                          /\ e <= lastProcessedId => e <= lastProcessedId'
      BY <1>1, <1>2 DEF Sending, cursorVars
    <2> QED BY <1>2, <2>1, FollowersKept DEF IInv, cursorVars
  <1> QED BY <1>3, <1>4, <1>5, <1>6, <1>7, <1>8, <1>9 DEF IInv, Cursor

(* The cursor is saved, or the statement fails. *)
LEMMA SaveKeeps ==
    ASSUME IInv, Save
    PROVE  IInv'
  <1>1. Typing /\ Cursor /\ pc = "save" /\ batch = {} /\ lastProcessedId # -1
    <2>1. Typing /\ Cursor /\ pc = "save"
      BY DEF IInv, Save
    <2> QED BY <2>1 DEF Typing, Cursor, Starts
  <1>2. /\ pc' = "idle" /\ config' \in {config, lastProcessedId}
        /\ UNCHANGED <<tableVars, lastProcessedId, published, live, skipped, outage,
                       batch, sseVars>>
    BY DEF Save, SaveConfig
  <1>3. lastProcessedId \in 0 .. MaxId /\ lastProcessedId < nextId /\ lastProcessedId # NoRow
    <2>1. lastProcessedId \in 0 .. MaxId /\ lastProcessedId < nextId
      BY <1>1, ConstantsNat DEF Typing
    <2> QED BY <2>1, ConstantsNat
  <1>4. Typing'
    BY <1>1, <1>2, <1>3 DEF Typing, Given, tableVars
  <1>5. Starts' /\ Passed' /\ Ahead' /\ LiveBehind'
    BY <1>1, <1>2 DEF Cursor, Starts, Passed, Handled, Ahead, LiveBehind, Sending, tableVars
  <1>6. Fresh'
    BY <1>1, <1>2, <1>3 DEF Cursor, Fresh, Sending, tableVars
  <1>7. Followers'
    <2>1. \A e \in live : /\ Sending(e) => Sending(e)'
                          /\ e <= lastProcessedId => e <= lastProcessedId'
      BY <1>1, <1>2 DEF Sending
    <2> QED BY <1>2, <2>1, FollowersKept DEF IInv
  <1> QED BY <1>2, <1>4, <1>5, <1>6, <1>7 DEF IInv, Cursor

(* An event is published: handleNewEvent starts its sends. *)
LEMMA PublishKeeps ==
    ASSUME IInv, Publish
    PROVE  IInv'
  <1>1. Typing /\ Cursor /\ Followers /\ pc = "publish" /\ batch # {}
    <2>1. Typing /\ Cursor /\ Followers /\ pc = "publish"
      BY DEF IInv, Publish
    <2> QED BY <2>1 DEF Typing
  <1>2. PICK m \in batch : m = Min(batch) /\ m \in Nat /\ \A b \in batch : m <= b
    BY <1>1, NextOfBatch
  <1>3. /\ tasks' = tasks \cup {<<c, m>> : c \in emitters}
        /\ due' = [c \in Clients |-> IF c \in emitters \ broken
                                     THEN due[c] \cup {m} ELSE due[c]]
        /\ published' = published \cup {m} /\ live' = live \cup {m}
        /\ deadEmitters' = {} /\ pc' = "await"
        /\ UNCHANGED <<tableVars, config, lastProcessedId, skipped, outage, batch,
                       emitters, broken, got, slow>>
    BY <1>2 DEF Publish
  <1>4. m > lastProcessedId /\ m \in Given /\ m \in Ids /\ lastProcessedId # -1
    <2>1. m > lastProcessedId /\ m \in Given /\ lastProcessedId # -1
      BY <1>1, <1>2 DEF Cursor, Ahead, Typing, Starts
    <2> QED BY <1>1, <2>1, Numbers DEF Ids
  <1>5. m \notin live /\ \A e \in live : e <= lastProcessedId
    <2>1. \A e \in live : e <= lastProcessedId
      BY <1>1 DEF Cursor, LiveBehind, Sending
    <2>2. lastProcessedId \in Int
      BY <1>1, Numbers
    <2> QED BY <1>2, <1>4, <2>1, <2>2
  <1>6. Typing'
    BY <1>1, <1>3, <1>4, Zenon DEF Typing, Given, tableVars
  <1>7. Starts' /\ Passed' /\ Ahead'
    BY <1>1, <1>3, <1>4 DEF Cursor, Starts, Passed, Handled, Ahead, tableVars
  <1>8. LiveBehind'
    BY <1>2, <1>3, <1>5 DEF LiveBehind, Sending
  <1>9. Fresh'
    BY <1>1, <1>2, <1>3 DEF Cursor, Fresh, Sending, tableVars
  <1>10. SseTyping'
    BY <1>1, <1>3 DEF Followers, SseTyping
  <1>11. InStep'
    <2> SUFFICES ASSUME NEW c \in emitters \ (broken \cup slow)
                 PROVE  /\ \A e \in live' : <<c, e>> \in tasks' => Sending(e)'
                        /\ \A i \in DOMAIN got[c] : /\ got[c][i] <= lastProcessedId
                                                    /\ <<c, got[c][i]>> \notin tasks'
      BY <1>3 DEF InStep
    <2>1. ASSUME NEW e \in live', <<c, e>> \in tasks'
          PROVE  Sending(e)'
      <3>1. <<c, e>> \notin tasks
        BY <1>1, <1>3, <2>1 DEF Followers, InStep, Sending, SseTyping
      <3>2. e = m
        BY <1>3, <2>1, <3>1
      <3> QED BY <1>2, <1>3, <3>2 DEF Sending
    <2>2. ASSUME NEW i \in DOMAIN got[c]
          PROVE  got[c][i] <= lastProcessedId /\ <<c, got[c][i]>> \notin tasks'
      <3>1. c \in Clients /\ got[c][i] \in live /\ <<c, got[c][i]>> \notin tasks
        BY <1>1, <2>2 DEF Followers, SseTyping, InStep
      <3> QED BY <1>3, <1>5, <3>1
    <2> QED BY <2>1, <2>2
  <1>12. Outside' /\ Dead'
    BY <1>1, <1>3 DEF Followers, Outside, Dead
  <1>13. FollowedInOrder'
    <2> SUFFICES ASSUME NEW c \in emitters \ (broken \cup slow)
                 PROVE  due'[c] = {got[c][i] : i \in DOMAIN got[c]}
                                  \cup {e \in Ids : <<c, e>> \in tasks'}
      BY <1>1, <1>3 DEF Followers, FollowedInOrder
    <2>1. c \in Clients /\ due'[c] = due[c] \cup {m}
      BY <1>1, <1>3 DEF Followers, SseTyping
    <2>2. due[c] = {got[c][i] : i \in DOMAIN got[c]} \cup {e \in Ids : <<c, e>> \in tasks}
      BY <1>1 DEF Followers, FollowedInOrder
    <2>3. {e \in Ids : <<c, e>> \in tasks'} = {e \in Ids : <<c, e>> \in tasks} \cup {m}
      BY <1>3, <1>4
    <2> QED BY <2>1, <2>2, <2>3
  <1> QED BY <1>1, <1>3, <1>6, <1>7, <1>8, <1>9, <1>10, <1>11, <1>12, <1>13
          DEF IInv, Cursor, Followers

(* The handler ends: who is waited for has got the event. *)
LEMMA HandlerKeeps ==
    ASSUME IInv, HandlerEnds
    PROVE  IInv'
  <1>1. Typing /\ Cursor /\ Followers /\ pc = "await" /\ batch # {}
    <2>1. Typing /\ Cursor /\ Followers /\ pc = "await"
      BY DEF IInv, HandlerEnds
    <2> QED BY <2>1 DEF Typing
  <1>2. PICK m \in batch : m = Min(batch) /\ m \in Nat /\ \A b \in batch : b \in Nat /\ m <= b
    BY <1>1, NextOfBatch
  <1>3. /\ slow' = slow \cup {c \in Clients : <<c, m>> \in tasks}
        /\ emitters' = emitters \ deadEmitters /\ deadEmitters' = {}
        /\ lastProcessedId' = m /\ batch' = batch \ {m}
        /\ pc' = IF batch' = {} THEN "save" ELSE "publish"
        /\ UNCHANGED <<tableVars, config, published, live, skipped, outage, broken,
                       tasks, got, due>>
    BY <1>2 DEF HandlerEnds, Await, Waiting
  <1>4. /\ m > lastProcessedId /\ m \in Given /\ m \in live /\ lastProcessedId \in Int
        /\ lastProcessedId # -1 /\ m \in published
    BY <1>1, <1>2, Numbers DEF Cursor, Ahead, Starts, LiveBehind, Typing
  <1>5. Typing'
    <2>1. m \in -1 .. MaxId /\ m < nextId
      BY <1>1, <1>4, Numbers
    <2> QED BY <1>1, <1>3, <2>1, Zenon DEF Typing, Given, tableVars
  <1>6. Cardinality(batch') <= Limit
    <2>1. IsFiniteSet(batch)
      <3>1. batch \in SUBSET (1 .. MaxId)
        BY <1>1, Numbers DEF Typing
      <3>2. MaxId \in Int
        BY ConstantsNat
      <3> QED BY <3>1, <3>2, IdsFinite, Zenon
    <2>2. Cardinality(batch') = Cardinality(batch) - 1 /\ Cardinality(batch) \in Nat
      BY <1>3, <2>1, FS_RemoveElement, FS_CardinalityType
    <2> QED BY <2>2, ConstantsNat DEF IInv
  <1>7. Starts'
    BY <1>2, <1>3 DEF Starts
  <1>8. \A e \in events \ batch : e > lastProcessedId => m < e
    BY <1>1, <1>2 DEF Cursor, Ahead
  <1>9. \A e \in events : e \in Nat
    BY <1>1, Numbers DEF Typing
  <1>10. Passed'
    <2>1. ASSUME NEW e \in events, e <= m
          PROVE  Handled(e)
      <3>1. CASE e <= lastProcessedId
        BY <1>1, <2>1, <3>1 DEF Cursor, Passed
      <3>2. CASE e > lastProcessedId
        <4>1. e \in batch
          BY <1>2, <1>8, <1>9, <2>1, <3>2
        <4>2. e = m
          BY <1>2, <1>9, <2>1, <4>1
        <4> QED BY <1>4, <4>2 DEF Handled
      <3> QED BY <1>4, <1>9, <3>1, <3>2
    <2> QED BY <1>1, <1>3, <2>1 DEF Cursor, Passed, Handled, tableVars
  <1>11. Ahead'
    <2>1. \A b \in batch' : b > m
      BY <1>2, <1>3
    <2>2. \A e \in events \ batch' : e > m => e \in events \ batch /\ e > lastProcessedId
      BY <1>2, <1>3, <1>4, <1>9
    <2> QED BY <1>1, <1>3, <2>1, <2>2 DEF Cursor, Ahead, tableVars
  <1>12. \A e \in live : e <= m
    BY <1>1, <1>2, <1>4, Numbers DEF Cursor, LiveBehind, Sending, Typing
  <1>13. LiveBehind'
    BY <1>3, <1>12 DEF LiveBehind
  <1>14. Fresh'
    <2> SUFFICES ASSUME ~outage, NEW e \in events \cup batch', e > m
                 PROVE  IF config = NoRow THEN e \in published => FALSE ELSE e > config
      BY <1>3 DEF Fresh, tableVars
    <2>1. e \in events \cup batch
      BY <1>3
    <2>2. e \in Nat
      BY <1>2, <1>9, <2>1, Zenon
    <2>3. e > lastProcessedId /\ e # m
      BY <1>2, <1>4, <2>2
    <2> QED BY <1>1, <1>2, <1>4, <2>1, <2>3 DEF Cursor, Fresh, Sending
  <1>15. SseTyping'
    BY <1>1, <1>3 DEF Followers, SseTyping
  <1>16. InStep'
    <2> SUFFICES ASSUME NEW c \in emitters \ (broken \cup slow'), c \notin deadEmitters
                 PROVE  /\ \A e \in live : <<c, e>> \notin tasks
                        /\ \A i \in DOMAIN got[c] : /\ got[c][i] <= m
                                                    /\ <<c, got[c][i]>> \notin tasks
      BY <1>3 DEF InStep
    <2>1. c \in Clients /\ c \in emitters \ (broken \cup slow) /\ <<c, m>> \notin tasks
      BY <1>1, <1>3 DEF Followers, SseTyping
    <2>2. \A e \in live : <<c, e>> \notin tasks
      BY <1>1, <1>2, <2>1 DEF Followers, InStep, Sending
    <2> QED BY <1>1, <1>12, <2>1, <2>2 DEF Followers, SseTyping
  <1>17. Outside' /\ Dead'
    BY <1>1, <1>3 DEF Followers, Outside, Dead
  <1>18. FollowedInOrder'
    BY <1>1, <1>3 DEF Followers, FollowedInOrder
  <1> QED BY <1>5, <1>6, <1>7, <1>10, <1>11, <1>13, <1>14, <1>15, <1>16, <1>17, <1>18
          DEF IInv, Cursor, Followers

(* A send succeeds: the follower gets the event after all others. *)
LEMMA SentKeeps ==
    ASSUME IInv, NEW c \in emitters \ broken, NEW e, <<c, e>> \in tasks,
           tasks' = tasks \ {<<c, e>>}, got' = [got EXCEPT ![c] = @ \o <<e>>],
           UNCHANGED <<pc, batch, lastProcessedId, live, emitters, broken, due, slow,
                       deadEmitters>>
    PROVE  Followers'
  <1>1. /\ Typing /\ Cursor /\ SseTyping /\ InStep /\ Outside /\ Dead /\ FollowedInOrder
        /\ c \in Clients /\ e \in live
    <2>1. Typing /\ Cursor /\ SseTyping /\ InStep /\ Outside /\ Dead /\ FollowedInOrder
      BY DEF IInv, Followers
    <2>2. tasks \subseteq Clients \X live
      BY <2>1 DEF SseTyping
    <2> QED BY <2>1, <2>2
  <1>2. e \in Nat /\ got[c] \in Seq(Nat) /\ Len(got[c]) \in Nat
    <2>1. e \in Nat
      BY <1>1, Numbers DEF Typing
    <2> QED BY <1>1, <2>1 DEF SseTyping
  <1>3. /\ got'[c] \in Seq(Nat) /\ Len(got'[c]) = Len(got[c]) + 1
        /\ DOMAIN got'[c] = 1 .. Len(got[c]) + 1 /\ DOMAIN got[c] = 1 .. Len(got[c])
        /\ \A i \in 1 .. Len(got[c]) : got'[c][i] = got[c][i]
        /\ got'[c][Len(got[c]) + 1] = e
        /\ \A d \in Clients : d # c => got'[d] = got[d]
        /\ got' \in [Clients -> Seq(Nat)]
    <2>1. PICK q \in Seq(Nat) : q = got[c] \o <<e>>
      <3>1. <<e>> \in Seq(Nat)
        BY <1>2
      <3>2. got[c] \o <<e>> \in Seq(Nat)
        BY <1>2, <3>1, ConcatProperties
      <3> QED BY <3>2, Zenon
    <2>2. /\ Len(q) = Len(got[c]) + 1
          /\ \A i \in 1 .. Len(got[c]) : q[i] = got[c][i]
          /\ q[Len(got[c]) + 1] = e
      BY <1>2, <2>1
    <2>3. got' = [got EXCEPT ![c] = q] /\ got \in [Clients -> Seq(Nat)]
      BY <1>1, <2>1 DEF SseTyping
    <2>4. /\ got'[c] = q /\ got' \in [Clients -> Seq(Nat)]
          /\ \A d \in Clients : d # c => got'[d] = got[d]
      BY <1>1, <2>1, <2>3, Zenon
    <2> QED BY <1>2, <2>2, <2>4
  <1>4. \A i \in DOMAIN got'[c] : i \in DOMAIN got[c] \/ got'[c][i] = e
    BY <1>2, <1>3
  <1>5. SseTyping'
    <2>1. ASSUME NEW d \in Clients, NEW i \in DOMAIN got'[d]
          PROVE  got'[d][i] \in live
      BY <1>1, <1>3, <1>4, <2>1 DEF SseTyping
    <2> QED BY <1>1, <1>3, <2>1 DEF SseTyping
  <1>6. InStep'
    <2> SUFFICES ASSUME NEW d \in emitters \ (broken \cup slow)
                 PROVE  /\ \A f \in live : <<d, f>> \in tasks' => Sending(f)
                        /\ \A i \in DOMAIN got'[d] :
                              /\ got'[d][i] <= lastProcessedId \/ Sending(got'[d][i])
                              /\ <<d, got'[d][i]>> \notin tasks'
      BY DEF InStep, Sending
    <2>1. d \in Clients
      BY <1>1 DEF SseTyping
    <2>2. \A f \in live : <<d, f>> \in tasks' => Sending(f)
      BY <1>1 DEF InStep
    <2>3. ASSUME NEW i \in DOMAIN got'[d]
          PROVE  /\ got'[d][i] <= lastProcessedId \/ Sending(got'[d][i])
                 /\ <<d, got'[d][i]>> \notin tasks'
      <3>1. CASE d = c /\ i \notin DOMAIN got[c]
        <4>1. got'[d][i] = e
          BY <1>4, <2>3, <3>1
        <4>2. Sending(e)
          BY <1>1, <3>1 DEF InStep
        <4> QED BY <3>1, <4>1, <4>2
      <3>2. CASE ~(d = c /\ i \notin DOMAIN got[c])
        <4>1. i \in DOMAIN got[d] /\ got'[d][i] = got[d][i]
          BY <1>3, <2>1, <2>3, <3>2
        <4>2. /\ got[d][i] <= lastProcessedId \/ Sending(got[d][i])
              /\ <<d, got[d][i]>> \notin tasks
          BY <1>1, <4>1 DEF InStep
        <4> QED BY <4>1, <4>2
      <3> QED BY <3>1, <3>2
    <2> QED BY <2>2, <2>3, Zenon
  <1>7. Outside'
    BY <1>1, <1>3 DEF Outside
  <1>8. Dead'
    <2>1. c \notin deadEmitters
      BY <1>1 DEF Dead
    <2>2. deadEmitters \subseteq Clients
      BY <1>1 DEF SseTyping
    <2> QED BY <1>1, <1>3, <2>1, <2>2 DEF Dead
  <1>9. FollowedInOrder'
    <2> SUFFICES ASSUME NEW d \in emitters \ (broken \cup slow)
                 PROVE  /\ \A i \in 1 .. Len(got'[d]) - 1 : got'[d][i] < got'[d][i + 1]
                        /\ due[d] = {got'[d][i] : i \in DOMAIN got'[d]}
                                    \cup {f \in Ids : <<d, f>> \in tasks'}
      BY Zenon DEF FollowedInOrder
    <2>1. /\ \A i \in 1 .. Len(got[d]) - 1 : got[d][i] < got[d][i + 1]
          /\ due[d] = {got[d][i] : i \in DOMAIN got[d]} \cup {f \in Ids : <<d, f>> \in tasks}
      BY <1>1 DEF FollowedInOrder
    <2>2. CASE d # c
      <3>1. got'[d] = got[d]
        BY <1>1, <1>3, <2>2 DEF SseTyping
      <3>2. {f \in Ids : <<d, f>> \in tasks'} = {f \in Ids : <<d, f>> \in tasks}
        BY <2>2
      <3> QED BY <2>1, <3>1, <3>2, Zenon
    <2>3. CASE d = c
      <3>1. Sending(e) /\ lastProcessedId \in Int /\ e > lastProcessedId /\ e \in Ids
        <4>1. Sending(e)
          BY <1>1, <2>3 DEF InStep
        <4>2. batch # {}
          BY <1>1, <4>1 DEF Sending, Typing
        <4>3. e \in batch
          BY <1>1, <4>1, <4>2, NextOfBatch DEF Sending
        <4> QED BY <1>1, <4>1, <4>3, Numbers DEF Cursor, Ahead, Ids, Typing
      <3>2. \A i \in DOMAIN got[c] : got[c][i] < e
        <4> SUFFICES ASSUME NEW i \in DOMAIN got[c] PROVE got[c][i] < e
          OBVIOUS
        <4>1. /\ got[c][i] <= lastProcessedId \/ Sending(got[c][i])
              /\ <<c, got[c][i]>> \notin tasks
          BY <1>1, <2>3 DEF InStep
        <4>2. got[c][i] <= lastProcessedId
          BY <3>1, <4>1 DEF Sending
        <4>3. got[c][i] \in Nat
          BY <1>2
        <4> QED BY <1>2, <3>1, <4>2, <4>3
      <3>3. \A i \in 1 .. Len(got'[c]) - 1 : got'[c][i] < got'[c][i + 1]
        <4> SUFFICES ASSUME NEW i \in 1 .. Len(got[c]) PROVE got'[c][i] < got'[c][i + 1]
          BY <1>2, <1>3
        <4>1. CASE i = Len(got[c])
          BY <1>2, <1>3, <3>2, <4>1
        <4>2. CASE i # Len(got[c])
          <5>1. i \in 1 .. Len(got[c]) - 1 /\ i + 1 \in 1 .. Len(got[c])
            BY <1>2, <4>2
          <5> QED BY <1>3, <2>1, <2>3, <5>1
        <4> QED BY <4>1, <4>2
      <3>4. {got'[c][i] : i \in DOMAIN got'[c]} = {got[c][i] : i \in DOMAIN got[c]} \cup {e}
        <4>1. \A i \in DOMAIN got[c] : i \in DOMAIN got'[c] /\ got'[c][i] = got[c][i]
          BY <1>2, <1>3
        <4>2. Len(got[c]) + 1 \in DOMAIN got'[c]
          BY <1>2, <1>3
        <4>3. \A i \in DOMAIN got'[c] : got'[c][i] = e \/ i \in DOMAIN got[c]
          BY <1>4
        <4>4. got'[c][Len(got[c]) + 1] = e
          BY <1>3
        <4>5. \A x \in {got'[c][i] : i \in DOMAIN got'[c]} :
                x \in {got[c][i] : i \in DOMAIN got[c]} \cup {e}
          BY <4>1, <4>3, Zenon
        <4>6. \A x \in {got[c][i] : i \in DOMAIN got[c]} \cup {e} :
                x \in {got'[c][i] : i \in DOMAIN got'[c]}
          BY <4>1, <4>2, <4>4, Zenon
        <4> QED BY <4>5, <4>6, Zenon
      <3>5. {f \in Ids : <<c, f>> \in tasks} = {f \in Ids : <<c, f>> \in tasks'} \cup {e}
        BY <3>1
      <3>6. due[c] = {got'[c][i] : i \in DOMAIN got'[c]}
                     \cup {f \in Ids : <<c, f>> \in tasks'}
        <4>1. due[c] = {got[c][i] : i \in DOMAIN got[c]} \cup {f \in Ids : <<c, f>> \in tasks}
          BY <2>1, <2>3, Zenon
        <4> QED BY <3>4, <3>5, <4>1, Zenon
      <3> QED BY <2>3, <3>3, <3>6, Zenon
    <2> QED BY <2>2, <2>3, Zenon
  <1> QED BY <1>5, <1>6, <1>7, <1>8, <1>9 DEF Followers

(* A send, successful or not. *)
LEMMA SendKeeps ==
    ASSUME IInv, NEW c \in Clients, NEW e \in Ids, Send(c, e)
    PROVE  IInv'
  <1>1. /\ <<c, e>> \in tasks /\ tasks' = tasks \ {<<c, e>>}
        /\ UNCHANGED <<tableVars, cursorVars, pc, batch, emitters, broken, due, slow>>
    BY DEF Send
  <1>2. Notifier' /\ UNCHANGED <<lastProcessedId, live>>
    BY <1>1, NotifierSame DEF IInv, Notifier, cursorVars
  <1>3. CASE c \in emitters \ broken
    <2>1. got' = [got EXCEPT ![c] = @ \o <<e>>] /\ UNCHANGED deadEmitters
      BY <1>3 DEF Send
    <2> QED BY <1>1, <1>2, <1>3, <2>1, SentKeeps, Zenon DEF IInv, Notifier
  <1>4. CASE c \notin emitters \ broken
    <2>1. deadEmitters' \subseteq deadEmitters \cup {c} /\ UNCHANGED got
      BY <1>4 DEF Send
    <2>2. SseTyping /\ InStep /\ Outside /\ Dead /\ FollowedInOrder
      BY DEF IInv, Followers
    <2>3. SseTyping' /\ Outside'
      BY <1>1, <1>2, <2>1, <2>2 DEF SseTyping, Outside
    <2>4. InStep'
      BY <1>1, <1>2, <2>1, <2>2 DEF InStep, Sending
    <2>5. Dead'
      BY <1>1, <1>2, <1>4, <2>1, <2>2, Zenon DEF Dead, Outside
    <2>6. FollowedInOrder'
      <3> SUFFICES ASSUME NEW d \in emitters \ (broken \cup slow)
                   PROVE  {f \in Ids : <<d, f>> \in tasks'} = {f \in Ids : <<d, f>> \in tasks}
        BY <1>1, <2>1, <2>2 DEF FollowedInOrder
      <3>1. d # c
        BY <1>4
      <3> QED BY <1>1, <3>1
    <2> QED BY <1>2, <2>3, <2>4, <2>5, <2>6 DEF IInv, Notifier, Followers
  <1> QED BY <1>3, <1>4

(* A browser opens the stream. *)
LEMMA LiveKeeps ==
    ASSUME IInv, NEW c \in Clients, LiveEvents(c)
    PROVE  IInv'
  <1>1. /\ c \notin emitters /\ \A e \in Ids : <<c, e>> \notin tasks
        /\ emitters' = emitters \cup {c} /\ broken' = broken \ {c} /\ slow' = slow \ {c}
        /\ UNCHANGED <<tableVars, cursorVars, pc, batch, tasks, deadEmitters, got, due>>
    BY DEF LiveEvents
  <1>2. Notifier' /\ UNCHANGED <<lastProcessedId, live>>
    BY <1>1, NotifierSame DEF IInv, Notifier, cursorVars
  <1>3. SseTyping /\ InStep /\ Outside /\ Dead /\ FollowedInOrder
    BY DEF IInv, Followers
  <1>4. got[c] = <<>> /\ due[c] = {} /\ \A e \in live : <<c, e>> \notin tasks
    <2>1. live \subseteq Ids
      BY Numbers DEF IInv, Typing, Ids
    <2> QED BY <1>1, <1>3, <2>1 DEF Outside
  <1>5. \A d \in emitters' \ (broken' \cup slow') : d = c \/ d \in emitters \ (broken \cup slow)
    BY <1>1
  <1>6. SseTyping'
    BY <1>1, <1>2, <1>3 DEF SseTyping
  <1>7. InStep'
    BY <1>1, <1>2, <1>3, <1>4, <1>5 DEF InStep, Sending
  <1>8. Outside' /\ Dead'
    BY <1>1, <1>2, <1>3, <1>4, Zenon DEF Outside, Dead
  <1>9. FollowedInOrder'
    <2>1. /\ \A i \in 1 .. Len(got[c]) - 1 : got[c][i] < got[c][i + 1]
          /\ due[c] = {got[c][i] : i \in DOMAIN got[c]} \cup {e \in Ids : <<c, e>> \in tasks}
      BY <1>1, <1>4
    <2> SUFFICES ASSUME NEW d \in emitters' \ (broken' \cup slow')
                 PROVE  /\ \A i \in 1 .. Len(got[d]) - 1 : got[d][i] < got[d][i + 1]
                        /\ due[d] = {got[d][i] : i \in DOMAIN got[d]}
                                    \cup {e \in Ids : <<d, e>> \in tasks}
      BY <1>1 DEF FollowedInOrder
    <2>2. CASE d = c
      BY <2>1, <2>2, Zenon
    <2>3. CASE d \in emitters \ (broken \cup slow)
      BY <1>3, <2>3, Zenon DEF FollowedInOrder
    <2> QED BY <1>5, <2>2, <2>3, Zenon
  <1> QED BY <1>2, <1>6, <1>7, <1>8, <1>9 DEF IInv, Notifier, Followers

(* A follower goes: its connection breaks, the container removes it, or    *)
(* the health check does.                                                  *)
LEMMA GoneKeeps ==
    ASSUME IInv, (\E c \in Clients : Breaks(c) \/ Removed(c)) \/ checkEmitterHealth
    PROVE  IInv'
  <1>1. UNCHANGED <<tableVars, cursorVars, pc, batch, tasks, deadEmitters, slow>>
    BY DEF Breaks, Removed, checkEmitterHealth
  <1>2. Notifier' /\ UNCHANGED <<lastProcessedId, live>>
    BY <1>1, NotifierSame DEF IInv, Notifier, cursorVars
  <1>3. SseTyping /\ InStep /\ Outside /\ Dead /\ FollowedInOrder
    BY DEF IInv, Followers
  <1>4. /\ emitters' \subseteq Clients /\ broken' \subseteq Clients
        /\ emitters' \ broken' \subseteq emitters \ broken
        /\ got' \in [Clients -> Seq(Nat)] /\ due' \in [Clients -> SUBSET live]
        /\ \A d \in Clients : IF d \in emitters' \ broken'
                               THEN got'[d] = got[d] /\ due'[d] = due[d]
                               ELSE got'[d] = <<>> /\ due'[d] = {}
    <2>1. CASE checkEmitterHealth
      BY <1>3, <2>1 DEF checkEmitterHealth, SseTyping, Outside
    <2>2. CASE \E c \in Clients : Breaks(c) \/ Removed(c)
      <3>1. PICK c \in Clients : Breaks(c) \/ Removed(c)
        BY <2>2
      <3>2. PICK q \in Seq(Nat) : q = <<>>
        <4>1. <<>> \in Seq(Nat)
          BY EmptySeq, Zenon
        <4> QED BY <4>1, Zenon
      <3>3. got' = [got EXCEPT ![c] = q] /\ due' = [due EXCEPT ![c] = {}]
        BY <3>1, <3>2 DEF Breaks, Removed
      <3>4. /\ emitters' \ broken' = (emitters \ broken) \ {c}
            /\ emitters' \subseteq Clients /\ broken' \subseteq Clients
        BY <1>3, <3>1 DEF Breaks, Removed, SseTyping
      <3>5. /\ got \in [Clients -> Seq(Nat)] /\ due \in [Clients -> SUBSET live]
            /\ \A d \in Clients : d \notin emitters \ broken => got[d] = <<>> /\ due[d] = {}
        BY <1>3 DEF SseTyping, Outside
      <3> QED BY <3>2, <3>3, <3>4, <3>5
    <2> QED BY <2>1, <2>2
  <1>5. SseTyping'
    <2>1. \A d \in Clients : \A i \in DOMAIN got'[d] : got'[d][i] \in live
      BY <1>3, <1>4 DEF SseTyping
    <2> QED BY <1>1, <1>2, <1>3, <1>4, <2>1 DEF SseTyping
  <1>6. \A d \in emitters' \ (broken' \cup slow') :
           /\ d \in emitters \ (broken \cup slow) /\ d \in Clients
           /\ got'[d] = got[d] /\ due'[d] = due[d]
    BY <1>1, <1>4
  <1>7. InStep'
    BY <1>1, <1>2, <1>3, <1>6 DEF InStep, Sending
  <1>8. Outside'
    BY <1>4 DEF Outside
  <1>9. Dead'
    BY <1>1, <1>2, <1>3, <1>4 DEF Dead, SseTyping
  <1>10. FollowedInOrder'
    <2> SUFFICES ASSUME NEW d \in emitters' \ (broken' \cup slow')
                 PROVE  /\ \A i \in 1 .. Len(got'[d]) - 1 : got'[d][i] < got'[d][i + 1]
                        /\ due'[d] = {got'[d][i] : i \in DOMAIN got'[d]}
                                     \cup {e \in Ids : <<d, e>> \in tasks}
      BY <1>1 DEF FollowedInOrder
    <2>1. /\ \A i \in 1 .. Len(got[d]) - 1 : got[d][i] < got[d][i + 1]
          /\ due[d] = {got[d][i] : i \in DOMAIN got[d]} \cup {e \in Ids : <<d, e>> \in tasks}
      BY <1>3, <1>6, Zenon DEF FollowedInOrder
    <2>2. got'[d] = got[d] /\ due'[d] = due[d]
      BY <1>6
    <2> QED BY <2>1, <2>2, Zenon
  <1> QED BY <1>2, <1>5, <1>7, <1>8, <1>9, <1>10 DEF IInv, Notifier, Followers

(* Nobody follows, and nothing was published in this life. *)
LEMMA FreshFollowers ==
    ASSUME live = {}, emitters = {}, broken = {}, tasks = {}, deadEmitters = {},
           got = Nothing, due = NoEvents, slow = {}
    PROVE  Followers
  <1>1. \A c \in Clients : got[c] = <<>> /\ due[c] = {}
    BY DEF Nothing, NoEvents
  <1>2. got \in [Clients -> Seq(Nat)] /\ due \in [Clients -> SUBSET live]
    <2>1. <<>> \in Seq(Nat)
      BY EmptySeq, Zenon
    <2> QED BY <2>1, Zenon DEF Nothing, NoEvents
  <1>3. SseTyping
    BY <1>1, <1>2 DEF SseTyping
  <1>4. InStep /\ Outside /\ Dead /\ FollowedInOrder
    BY <1>1 DEF InStep, Outside, Dead, FollowedInOrder
  <1> QED BY <1>3, <1>4 DEF Followers

(* The dashboard is started again. *)
LEMMA RestartKeeps ==
    ASSUME IInv, Restart
    PROVE  IInv'
  <1>1. Typing /\ Cursor /\ MaxId \in Nat /\ nextId \in Nat
    BY Numbers DEF IInv
  <1>2. /\ lastProcessedId' = -1 /\ pc' = "idle" /\ batch' = {} /\ live' = {}
        /\ outage' = FALSE /\ UNCHANGED <<tableVars, config, published, skipped>>
    BY DEF Restart
  <1>3. Typing'
    <2>1. -1 \in -1 .. MaxId /\ -1 < nextId
      BY <1>1
    <2> QED BY <1>1, <1>2, <2>1, Zenon DEF Typing, Given, tableVars
  <1>4. Passed'
    <2>1. \A e \in events : e >= 1 /\ e \in Nat
      BY <1>1, Numbers DEF Typing
    <2> QED BY <1>1, <1>2, <2>1 DEF Cursor, Passed, Handled, tableVars
  <1>5. Starts' /\ Ahead' /\ LiveBehind' /\ Fresh'
    BY <1>2 DEF Starts, Ahead, LiveBehind, Fresh
  <1>6. Cardinality(batch') <= Limit
    BY <1>2, FS_EmptySet, ConstantsNat
  <1>7. Followers'
    <2>1. (live = {} /\ emitters = {} /\ broken = {} /\ tasks = {} /\ deadEmitters = {}
             /\ got = Nothing /\ due = NoEvents /\ slow = {} => Followers)'
      BY FreshFollowers, PTL
    <2> QED BY <1>2, <2>1 DEF Restart
  <1> QED BY <1>3, <1>4, <1>5, <1>6, <1>7 DEF IInv, Cursor

(* The invariant holds before the first start. *)
LEMMA InitIInv ==
    ASSUME Init
    PROVE  IInv
  <1>1. MaxId \in Nat /\ events = {} /\ nextId = 1
    BY ConstantsNat DEF Init, TableInit
  <1>2. Typing
    <2>1. /\ lastProcessedId \in -1 .. MaxId /\ lastProcessedId < nextId
          /\ nextId \in 1 .. MaxId + 1
      BY <1>1 DEF Init
    <2> QED BY <1>1, <2>1, Zenon DEF Init, Typing
  <1>3. Cursor
    BY <1>1 DEF Init, Cursor, Starts, Passed, Ahead, LiveBehind, Fresh
  <1>4. Cardinality(batch) <= Limit
    BY FS_EmptySet, ConstantsNat DEF Init
  <1>5. Followers
    BY FreshFollowers DEF Init
  <1> QED BY <1>2, <1>3, <1>4, <1>5 DEF IInv

(* Every step preserves the invariant. *)
LEMMA NextIInv ==
    ASSUME IInv, [Next]_vars
    PROVE  IInv'
  <1>1. CASE TableStep
    BY <1>1, TableKeeps
  <1>2. CASE ReadCursor \/ ReadCursorFails
    BY <1>2, ReadKeeps
  <1>3. CASE QueryMax
    BY <1>3, QueryMaxKeeps
  <1>4. CASE QueryMaxFails \/ PollFails
    BY <1>4, FailKeeps
  <1>5. CASE Poll
    BY <1>5, PollKeeps
  <1>6. CASE Publish
    BY <1>6, PublishKeeps
  <1>7. CASE HandlerEnds
    BY <1>7, HandlerKeeps
  <1>8. CASE Save
    BY <1>8, SaveKeeps
  <1>9. CASE Restart
    BY <1>9, RestartKeeps
  <1>10. CASE checkEmitterHealth \/ \E c \in Clients : Breaks(c) \/ Removed(c)
    BY <1>10, GoneKeeps
  <1>11. ASSUME NEW c \in Clients, LiveEvents(c)
         PROVE  IInv'
    BY <1>11, LiveKeeps
  <1>12. ASSUME NEW c \in Clients, NEW e \in Ids, Send(c, e)
         PROVE  IInv'
    BY <1>12, SendKeeps
  <1>13. CASE UNCHANGED vars
    <2>1. Notifier'
      BY <1>13, NotifierSame DEF IInv, Notifier, vars, tableVars, cursorVars
    <2>2. \A e \in live : /\ Sending(e) => Sending(e)'
                          /\ e <= lastProcessedId => e <= lastProcessedId'
      BY <1>13 DEF Sending, vars, cursorVars
    <2>3. Followers'
      BY <1>13, <2>2, FollowersKept DEF IInv, vars, cursorVars
    <2> QED BY <2>1, <2>3 DEF IInv, Notifier
  <1> QED BY <1>1, <1>2, <1>3, <1>4, <1>5, <1>6, <1>7, <1>8, <1>9, <1>10, <1>11, <1>12,
             <1>13 DEF Next, Job, Fault

-----------------------------------------------------------------------------
(***************************************************************************)
(* The theorems.                                                           *)
(***************************************************************************)
(* The cursor, the batch and the outstanding sends fit together in every   *)
(* state of NotificationService and handleNewEvent.                        *)
THEOREM Invariance == Spec => []IInv
  <1>1. Init => IInv
    BY InitIInv
  <1>2. IInv /\ [Next]_vars => IInv'
    BY NextIInv
  <1> QED BY <1>1, <1>2, PTL DEF Spec

(* A poll takes at most LIMIT events, of those in the table, and is done   *)
(* with them before the next one; what a follower gets was published.      *)
THEOREM TypeCorrect == Spec => []TypeOK
  <1>1. IInv => TypeOK
    <2> SUFFICES ASSUME IInv PROVE TypeOK
      OBVIOUS
    <2>1. Typing /\ SseTyping /\ Cardinality(batch) <= Limit
      BY DEF IInv, Followers
    <2>2. \A c \in Clients : got[c] \in Seq(live) /\ due[c] \subseteq live
      <3> SUFFICES ASSUME NEW c \in Clients PROVE got[c] \in Seq(live) /\ due[c] \subseteq live
        OBVIOUS
      <3>1. /\ got[c] \in Seq(Nat) /\ due[c] \subseteq live
            /\ \A i \in 1 .. Len(got[c]) : got[c][i] \in live
        BY <2>1 DEF SseTyping
      <3> QED BY <3>1
    <2> QED BY <2>1, <2>2 DEF Typing, SseTyping, TypeOK, TableTypeOK, Given
  <1> QED BY <1>1, Invariance, PTL

(* checkNewEventsAndNotify passes over no event, in however many lives and *)
(* with whatever failures of its queries, but for what a start with a      *)
(* cursor of 0 skips.                                                      *)
THEOREM NonePassedOver == Spec => []NothingPassedOver
  <1>1. IInv => NothingPassedOver
    BY DEF IInv, Cursor, Passed, Handled, NothingPassedOver
  <1> QED BY <1>1, Invariance, PTL

(* An event is published once in a life of the dashboard, and again in a   *)
(* later one only if the cursor was not saved behind it or could not be    *)
(* read.                                                                   *)
THEOREM NotPublishedAgain == Spec => []PublishedOnce
  <1>1. IInv => PublishedOnce
    <2> SUFFICES ASSUME IInv, pc = "publish"
                 PROVE  /\ Min(batch) \notin live
                        /\ Min(batch) \in published => outage \/ Min(batch) > config
      BY DEF PublishedOnce
    <2>1. Typing /\ Cursor /\ batch # {}
      BY DEF IInv, Typing
    <2>2. PICK m \in batch : m = Min(batch) /\ m \in Nat
      BY <2>1, NextOfBatch
    <2>3. m > lastProcessedId /\ lastProcessedId \in Int /\ lastProcessedId # -1
      BY <2>1, Numbers DEF Cursor, Ahead, Starts
    <2>4. m \notin live
      BY <2>1, <2>2, <2>3 DEF Cursor, LiveBehind, Sending
    <2>5. m \in published => outage \/ m > config
      BY <2>1, <2>3 DEF Cursor, Fresh, Sending
    <2> QED BY <2>2, <2>4, <2>5
  <1> QED BY <1>1, Invariance, PTL

(* A follower that handleNewEvent waits for gets what is published, once   *)
(* and in the order of the ids, although every send has its own thread.    *)
THEOREM InOrder == Spec => []FollowedInOrder
  <1>1. IInv => FollowedInOrder
    BY DEF IInv, Followers
  <1> QED BY <1>1, Invariance, PTL
=============================================================================
