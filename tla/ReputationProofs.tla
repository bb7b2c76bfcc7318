--------------------------- MODULE ReputationProofs --------------------------
(***************************************************************************)
(* Theorems about Reputation, for every set of addresses and threads: the  *)
(* agents follow the blocklist, and a score does not outlive its events,   *)
(* but for the exceptions that the history variables astray and ghost      *)
(* record.                                                                 *)
(***************************************************************************)
EXTENDS Reputation, FiniteSetTheorems, TLAPS

(* What a handler may have left to do. *)
Programs ==
    {<<>>, <<"push_block">>, <<"push_unblock">>,
     <<"insert", "push_block">>, <<"delete", "push_unblock">>,
     <<"select_system", "delete_reputation", "delete_events", "delete_system",
       "push_unblock">>,
     <<"delete_reputation", "delete_events", "delete_system", "push_unblock">>,
     <<"delete_events", "delete_system", "push_unblock">>,
     <<"delete_system", "push_unblock">>,
     <<"sync", "select_low", "insert_low", "push_block">>,
     <<"select_low", "insert_low", "push_block">>,
     <<"insert_low", "push_block">>}

(* The next statement of a program. *)
Stmt(p) == IF p = <<>> THEN "none" ELSE Head(p)
Pushes == {"push_block", "push_unblock"}
At(t) == Stmt(op[t].todo)

HandlerType ==
    [todo : Programs, ips : SUBSET Ips, late : SUBSET Ips,
     scope : SUBSET Ips, synced : BOOLEAN]

Typing ==
    /\ TableTypeOK
    /\ damage \in [Ips -> 0 .. MaxDamage]
    /\ blocklist \in [Ips -> SUBSET Sources]
    /\ agents \subseteq Ips
    /\ op \in [Threads -> HandlerType]
    /\ astray \subseteq Ips /\ ghost \subseteq Ips

(* A handler is late only while it pushes, has something to push then, and *)
(* a thread that is done has nothing left.                                 *)
Settled(h) ==
    /\ h.late \subseteq h.ips
    /\ Stmt(h.todo) \in Pushes => h.ips # {}
    /\ Stmt(h.todo) \notin Pushes => h.late = {}
    /\ h.todo = <<>> => h = Idle
Handlers == \A t \in Threads : Settled(op[t])

(* A block that is still to be pushed, and not late, is of a listed        *)
(* address.                                                                *)
PushedIsListed ==
    \A t \in Threads :
        At(t) = "push_block" => \A ip \in op[t].ips \ op[t].late : blocklist[ip] # {}

(* Between the first two deletes of a clearing, a row that came back       *)
(* without a sync came from a feed, and its local score is untouched.      *)
ClearedIsClean ==
    \A t \in Threads :
        At(t) = "delete_events" /\ ~op[t].synced
            => \A ip \in op[t].scope :
                 HasRow(ip) => ip_reputation[ip].local_score = 100

IInv ==
    /\ Typing /\ Handlers
    /\ PushedIsListed /\ AgentsFollowBlocklist
    /\ ClearedIsClean /\ ScoreHasEvents

-----------------------------------------------------------------------------
(***************************************************************************)
(* Handlers.                                                               *)
(***************************************************************************)
(* How the handlers' lists of statements go on: each statement has one     *)
(* successor, and the pushes come last.                                    *)
LEMMA ProgramSteps ==
    ASSUME NEW p \in Programs, p # <<>>
    PROVE  /\ Tail(p) \in Programs
           /\ Stmt(p) \in Pushes <=> Tail(p) = <<>>
           /\ Stmt(Tail(p)) \in Pushes <=> Len(Tail(p)) = 1
           /\ Stmt(p) = "insert" => Stmt(Tail(p)) = "push_block"
           /\ Stmt(p) = "delete" => Stmt(Tail(p)) = "push_unblock"
           /\ Stmt(p) = "select_system" => Stmt(Tail(p)) = "delete_reputation"
           /\ Stmt(p) = "delete_reputation" => Stmt(Tail(p)) = "delete_events"
           /\ Stmt(p) = "delete_events" => Stmt(Tail(p)) = "delete_system"
           /\ Stmt(p) = "delete_system" => Stmt(Tail(p)) = "push_unblock"
           /\ Stmt(p) = "sync" => Stmt(Tail(p)) = "select_low"
           /\ Stmt(p) = "select_low" => Stmt(Tail(p)) = "insert_low"
           /\ Stmt(p) = "insert_low" => Stmt(Tail(p)) = "push_block"
<1>1. CASE p = <<"push_block">>
  BY <1>1 DEF Programs, Stmt, Pushes
<1>2. CASE p = <<"push_unblock">>
  BY <1>2 DEF Programs, Stmt, Pushes
<1>3. CASE p = <<"insert", "push_block">>
  <2>1. Tail(p) = <<"push_block">>
    BY <1>3
  <2>2. QED
    BY <1>3, <2>1 DEF Programs, Stmt, Pushes
<1>4. CASE p = <<"delete", "push_unblock">>
  <2>1. Tail(p) = <<"push_unblock">>
    BY <1>4
  <2>2. QED
    BY <1>4, <2>1 DEF Programs, Stmt, Pushes
<1>5. CASE p = <<"select_system", "delete_reputation", "delete_events", "delete_system",
                 "push_unblock">>
  <2>1. Tail(p) = <<"delete_reputation", "delete_events", "delete_system", "push_unblock">>
    BY <1>5
  <2>2. QED
    BY <1>5, <2>1 DEF Programs, Stmt, Pushes
<1>6. CASE p = <<"delete_reputation", "delete_events", "delete_system", "push_unblock">>
  <2>1. Tail(p) = <<"delete_events", "delete_system", "push_unblock">>
    BY <1>6
  <2>2. QED
    BY <1>6, <2>1 DEF Programs, Stmt, Pushes
<1>7. CASE p = <<"delete_events", "delete_system", "push_unblock">>
  <2>1. Tail(p) = <<"delete_system", "push_unblock">>
    BY <1>7
  <2>2. QED
    BY <1>7, <2>1 DEF Programs, Stmt, Pushes
<1>8. CASE p = <<"delete_system", "push_unblock">>
  <2>1. Tail(p) = <<"push_unblock">>
    BY <1>8
  <2>2. QED
    BY <1>8, <2>1 DEF Programs, Stmt, Pushes
<1>9. CASE p = <<"sync", "select_low", "insert_low", "push_block">>
  <2>1. Tail(p) = <<"select_low", "insert_low", "push_block">>
    BY <1>9
  <2>2. QED
    BY <1>9, <2>1 DEF Programs, Stmt, Pushes
<1>10. CASE p = <<"select_low", "insert_low", "push_block">>
  <2>1. Tail(p) = <<"insert_low", "push_block">>
    BY <1>10
  <2>2. QED
    BY <1>10, <2>1 DEF Programs, Stmt, Pushes
<1>11. CASE p = <<"insert_low", "push_block">>
  <2>1. Tail(p) = <<"push_block">>
    BY <1>11
  <2>2. QED
    BY <1>11, <2>1 DEF Programs, Stmt, Pushes
<1>12. QED
  BY <1>1, <1>2, <1>3, <1>4, <1>5, <1>6, <1>7, <1>8, <1>9, <1>10, <1>11, Zenon DEF Programs

(* The next statement of a thread, in this state and the next one. *)
LEMMA AtIs ==
    /\ \A t \in Threads : At(t) = Stmt(op[t].todo)
    /\ \A t \in Threads : (At(t))' = Stmt(op'[t].todo)
    /\ \A t \in Threads : Pushing(t) <=> Stmt(op[t].todo) \in Pushes
    /\ \A t \in Threads : (Pushing(t))' <=> Stmt(op'[t].todo) \in Pushes
<1>1. \A t \in Threads : At(t) = Stmt(op[t].todo)
  BY DEF At
<1>2. \A t \in Threads : (At(t))' = Stmt(op'[t].todo)
  BY DEF At, Stmt
<1>3. \A t \in Threads : Pushing(t) <=> Stmt(op[t].todo) \in Pushes
  BY DEF Pushing, Doing, Busy, Stmt, Pushes
<1>4. \A t \in Threads : (Pushing(t))' <=> Stmt(op'[t].todo) \in Pushes
  BY DEF Pushing, Doing, Busy, Stmt, Pushes
<1>5. QED
  BY <1>1, <1>2, <1>3, <1>4

(* What t does next is the statement it is at. *)
LEMMA DoingIs ==
    ASSUME NEW t \in Threads, NEW s, Doing(t, s)
    PROVE  At(t) = s /\ op[t].todo # <<>> /\ Stmt(op[t].todo) = s
BY DEF Doing, Busy, At, Stmt

(* The fields of a handler, one by one. *)
LEMMA HandlerFields ==
    ASSUME NEW x \in HandlerType
    PROVE  /\ x.todo \in Programs /\ x.ips \in SUBSET Ips /\ x.late \in SUBSET Ips
           /\ x.scope \in SUBSET Ips /\ x.synced \in BOOLEAN
BY DEF HandlerType

(* A thread that is done has a handler with nothing in it. *)
LEMMA IdleIs ==
    /\ Idle \in HandlerType /\ Settled(Idle)
    /\ Idle.todo = <<>> /\ Idle.ips = {} /\ Idle.late = {}
    /\ Stmt(Idle.todo) = "none"
BY DEF Idle, Handler, HandlerType, Programs, Settled, Stmt, Pushes

(* Proceed: the list of statements without its first one, or nothing when  *)
(* there is nothing to push.                                               *)
LEMMA ProceedIs ==
    ASSUME Typing, Handlers, NEW t \in Threads, NEW S \in SUBSET Ips,
           op[t].todo # <<>>, At(t) \notin Pushes
    PROVE  /\ Proceed(t, S) \in HandlerType /\ Settled(Proceed(t, S))
           /\ Stmt(Tail(op[t].todo)) \in Pushes /\ S = {} => Proceed(t, S) = Idle
           /\ ~(Stmt(Tail(op[t].todo)) \in Pushes /\ S = {}) =>
                 /\ Proceed(t, S).todo = Tail(op[t].todo)
                 /\ Proceed(t, S).ips = S /\ Proceed(t, S).late = {}
                 /\ Proceed(t, S).scope = op[t].scope
                 /\ Proceed(t, S).synced = op[t].synced
<1>1. op[t] \in HandlerType /\ Settled(op[t])
  BY DEF Typing, Handlers
<1>2. op[t].todo \in Programs /\ op[t].late = {}
  BY <1>1, HandlerFields, AtIs DEF Settled
<1>3. /\ Tail(op[t].todo) \in Programs /\ Tail(op[t].todo) # <<>>
      /\ Stmt(Tail(op[t].todo)) \in Pushes <=> Len(Tail(op[t].todo)) = 1
  BY <1>2, ProgramSteps, AtIs
<1>4. CASE Stmt(Tail(op[t].todo)) \in Pushes /\ S = {}
  <2>1. Proceed(t, S) = Idle
    BY <1>3, <1>4 DEF Proceed
  <2>2. QED
    BY <2>1, <1>4, IdleIs
<1>5. CASE ~(Stmt(Tail(op[t].todo)) \in Pushes /\ S = {})
  <2>1. Proceed(t, S) = [op[t] EXCEPT !.todo = Tail(op[t].todo), !.ips = S]
    BY <1>3, <1>5 DEF Proceed
  <2>2. PICK a \in HandlerType : a = op[t]
    BY <1>1
  <2>3. PICK p \in Programs : p = Tail(op[t].todo)
    BY <1>3, Zenon
  <2>4. PICK x : x = [a EXCEPT !.todo = p, !.ips = S]
    OBVIOUS
  <2>5. /\ x \in HandlerType /\ x.todo = p /\ x.ips = S /\ x.late = a.late
        /\ x.scope = a.scope /\ x.synced = a.synced
    BY <2>4, Zenon DEF HandlerType
  <2>6. Proceed(t, S) = x
    BY <2>1, <2>2, <2>3, <2>4, Zenon
  <2>7. Settled(x)
    BY <1>2, <1>3, <1>5, <2>2, <2>3, <2>5, Zenon DEF Settled
  <2>8. QED
    BY <1>2, <1>5, <2>2, <2>3, <2>5, <2>6, <2>7, Zenon
<1>6. QED
  BY <1>4, <1>5

(* Late: a handler that pushes learns of the rows of S that it is about to *)
(* push, and nothing else of it changes.                                   *)
LEMMA LateIs ==
    ASSUME Typing, Handlers, NEW u \in Threads, NEW S \in SUBSET Ips
    PROVE  /\ Late(u, S) \in HandlerType /\ Settled(Late(u, S))
           /\ Late(u, S).todo = op[u].todo /\ Late(u, S).ips = op[u].ips
           /\ Late(u, S).scope = op[u].scope /\ Late(u, S).synced = op[u].synced
           /\ At(u) \in Pushes =>
                 Late(u, S).late = op[u].late \cup (S \cap op[u].ips)
<1>1. op[u] \in HandlerType /\ Settled(op[u])
  BY DEF Typing, Handlers
<1>2. CASE ~Pushing(u)
  <2>1. Late(u, S) = op[u]
    BY <1>2 DEF Late
  <2>2. At(u) \notin Pushes
    BY <1>2, AtIs
  <2>3. QED
    BY <1>1, <2>1, <2>2
<1>3. CASE Pushing(u)
  <2>1. At(u) \in Pushes /\ Stmt(op[u].todo) \in Pushes
    BY <1>3, AtIs
  <2>2. PICK a \in HandlerType : a = op[u]
    BY <1>1
  <2>3. PICK L : L = a.late \cup (S \cap a.ips)
    BY Zenon
  <2>4. L \in SUBSET Ips /\ L \subseteq a.ips
    BY <1>1, <2>2, <2>3, HandlerFields DEF Settled
  <2>5. PICK x : x = [a EXCEPT !.late = L]
    BY Zenon
  <2>6. /\ x \in HandlerType /\ x.todo = a.todo /\ x.ips = a.ips /\ x.late = L
        /\ x.scope = a.scope /\ x.synced = a.synced
    BY <2>4, <2>5, Zenon DEF HandlerType
  <2>7. Late(u, S) = x
    BY <1>3, <2>2, <2>3, <2>5, Zenon DEF Late
  <2>8. a.todo # <<>>
    BY <2>1, <2>2 DEF Stmt, Pushes
  <2>9. Settled(x)
    BY <1>1, <2>1, <2>2, <2>4, <2>6, <2>8, Zenon DEF Settled
  <2>10. QED
    BY <2>1, <2>2, <2>3, <2>6, <2>7, <2>9, Zenon
<1>4. QED
  BY <1>2, <1>3

(* Handlers and their types, thread by thread. *)
LEMMA HandlersNext ==
    ASSUME op' = [u \in Threads |-> op'[u]],
           \A u \in Threads : op'[u] \in HandlerType /\ Settled(op'[u])
    PROVE  op' \in [Threads -> HandlerType] /\ Handlers'
<1>1. op' \in [Threads -> HandlerType]
  OBVIOUS
<1>2. Handlers'
  BY DEF Handlers, Settled, Stmt
<1>3. QED
  BY <1>1, <1>2

-----------------------------------------------------------------------------
(***************************************************************************)
(* Steps that leave one half of the state alone.                           *)
(***************************************************************************)
(* Rows and agents stay, and so does what is still to push. *)
LEMMA PushesKept ==
    ASSUME PushedIsListed, AgentsFollowBlocklist,
           UNCHANGED <<blocklist, agents, astray>>,
           \A u \in Threads :
              \/ /\ op'[u].todo = op[u].todo /\ op'[u].ips = op[u].ips
                 /\ op'[u].late = op[u].late
              \/ At(u) \notin Pushes /\ Stmt(op'[u].todo) \notin Pushes
    PROVE  PushedIsListed' /\ AgentsFollowBlocklist'
<1>1. PushedIsListed'
  <2>1. SUFFICES ASSUME NEW u \in Threads, Stmt(op'[u].todo) = "push_block",
                        NEW ip \in op'[u].ips \ op'[u].late
                 PROVE  blocklist'[ip] # {}
    BY AtIs, Zenon DEF PushedIsListed
  <2>2. /\ op'[u].todo = op[u].todo /\ op'[u].ips = op[u].ips
        /\ op'[u].late = op[u].late
    BY <2>1 DEF Pushes
  <2>3. QED
    BY <2>1, <2>2, AtIs DEF PushedIsListed
<1>2. AgentsFollowBlocklist'
  <2>1. SUFFICES ASSUME NEW ip \in Ips, ip \notin astray',
                        \A t \in Threads : ~(Stmt(op'[t].todo) \in Pushes /\ ip \in op'[t].ips)
                 PROVE  ip \in agents' <=> blocklist'[ip] # {}
    BY AtIs, Zenon DEF AgentsFollowBlocklist
  <2>2. \A t \in Threads : ~(Pushing(t) /\ ip \in op[t].ips)
    BY <2>1, AtIs
  <2>3. QED
    BY <2>1, <2>2 DEF AgentsFollowBlocklist
<1>3. QED
  BY <1>1, <1>2

(* Scores and events stay, and so do the clearings between their deletes. *)
LEMMA ScoresKept ==
    ASSUME ClearedIsClean, ScoreHasEvents,
           UNCHANGED <<ip_reputation, damage, ghost>>,
           \A u \in Threads :
              \/ /\ op'[u].todo = op[u].todo /\ op'[u].scope = op[u].scope
                 /\ op'[u].synced = op[u].synced
              \/ Stmt(op'[u].todo) # "delete_events"
    PROVE  ClearedIsClean' /\ ScoreHasEvents'
<1>1. ClearedIsClean'
  <2>1. SUFFICES ASSUME NEW u \in Threads, Stmt(op'[u].todo) = "delete_events",
                        ~op'[u].synced, NEW ip \in op'[u].scope, ip_reputation'[ip] # NoRow
                 PROVE  ip_reputation'[ip].local_score = 100
    BY AtIs, Zenon DEF ClearedIsClean, HasRow
  <2>2. At(u) = "delete_events" /\ ~op[u].synced /\ ip \in op[u].scope
    BY <2>1, AtIs
  <2>3. QED
    BY <2>1, <2>2 DEF ClearedIsClean, HasRow
<1>2. ScoreHasEvents'
  BY DEF ScoreHasEvents, HasRow, GREATEST
<1>3. QED
  BY <1>1, <1>2

(* A thread that does not push goes on to something that is not a push, or *)
(* is done: the agents have nothing to do with it.                         *)
LEMMA GoesOn ==
    ASSUME IInv, NEW t \in Threads, NEW x \in HandlerType, Settled(x),
           At(t) \notin Pushes, Stmt(x.todo) \notin Pushes,
           op' = [op EXCEPT ![t] = x], UNCHANGED <<blocklist, agents, astray>>
    PROVE  /\ op' \in [Threads -> HandlerType] /\ Handlers'
           /\ PushedIsListed' /\ AgentsFollowBlocklist'
           /\ op'[t] = x /\ \A u \in Threads \ {t} : op'[u] = op[u]
<1>1. op \in [Threads -> HandlerType] /\ \A u \in Threads : Settled(op[u])
  BY DEF IInv, Typing, Handlers
<1>2. /\ op'[t] = x /\ \A u \in Threads \ {t} : op'[u] = op[u]
      /\ op' = [u \in Threads |-> op'[u]]
  BY <1>1, Zenon
<1>3. \A u \in Threads : op'[u] \in HandlerType /\ Settled(op'[u])
  BY <1>1, <1>2
<1>4. op' \in [Threads -> HandlerType] /\ Handlers'
  BY <1>2, <1>3, HandlersNext
<1>5. PushedIsListed' /\ AgentsFollowBlocklist'
  BY <1>2, PushesKept DEF IInv
<1>6. QED
  BY <1>2, <1>4, <1>5

(* The same when scores and events stay too. *)
LEMMA GoesOnKeeps ==
    ASSUME IInv, NEW t \in Threads, NEW x \in HandlerType, Settled(x),
           At(t) \notin Pushes, Stmt(x.todo) \notin Pushes \cup {"delete_events"},
           op' = [op EXCEPT ![t] = x],
           UNCHANGED <<ip_reputation, damage, blocklist, agents, astray, ghost>>
    PROVE  IInv'
<1>1. /\ op' \in [Threads -> HandlerType] /\ Handlers'
      /\ PushedIsListed' /\ AgentsFollowBlocklist'
      /\ op'[t] = x /\ \A u \in Threads \ {t} : op'[u] = op[u]
  BY GoesOn, Zenon
<1>2. ClearedIsClean' /\ ScoreHasEvents'
  BY <1>1, ScoresKept DEF IInv
<1>3. Typing'
  BY <1>1 DEF IInv, Typing, TableTypeOK
<1>4. QED
  BY <1>1, <1>2, <1>3 DEF IInv

(* A handler begins. *)
LEMMA BeginKeeps ==
    ASSUME IInv, NEW t \in Threads, NEW p \in Programs,
           NEW S \in SUBSET Ips, NEW C \in SUBSET Ips,
           Stmt(p) \notin Pushes \cup {"none", "delete_events"}, Begin(t, p, S, C)
    PROVE  IInv'
<1>1. At(t) \notin Pushes
  BY DEF Begin, Busy, At, Stmt, Pushes
<1>2. p # <<>>
  BY DEF Stmt
<1>3. PICK x : x = Handler(p, S, C)
  OBVIOUS
<1>4. x \in HandlerType /\ Settled(x) /\ x.todo = p
  BY <1>2, <1>3 DEF Handler, HandlerType, Settled
<1>5. QED
  BY <1>1, <1>3, <1>4, GoesOnKeeps, Zenon DEF Begin

(* The requests and the scheduled job. *)
LEMMA RequestKeeps ==
    ASSUME IInv, NEW t \in Threads, Request(t)
    PROVE  IInv'
<1>1. CASE \E ip \in UserIps : AddBlocklist(t, ip)
  <2>1. PICK ip \in Ips : Begin(t, <<"insert", "push_block">>, {ip}, {})
    BY <1>1, ReputationAssumption, Zenon DEF AddBlocklist
  <2>2. Stmt(<<"insert", "push_block">>) = "insert"
    BY DEF Stmt
  <2>3. <<"insert", "push_block">> \in Programs
    BY DEF Programs
  <2>4. QED
    BY <2>1, <2>2, <2>3, BeginKeeps DEF Pushes
<1>2. CASE \E ip \in UserIps : RemoveBlocklist(t, ip)
  <2>1. PICK ip \in Ips : Begin(t, <<"delete", "push_unblock">>, {ip}, {})
    BY <1>2, ReputationAssumption, Zenon DEF RemoveBlocklist
  <2>2. Stmt(<<"delete", "push_unblock">>) = "delete"
    BY DEF Stmt
  <2>3. <<"delete", "push_unblock">> \in Programs
    BY DEF Programs
  <2>4. QED
    BY <2>1, <2>2, <2>3, BeginKeeps DEF Pushes
<1>3. CASE \E ip \in UserIps : ClearReputation(t, ip)
  <2> DEFINE p == <<"delete_reputation", "delete_events", "delete_system", "push_unblock">>
  <2>1. PICK ip \in Ips : Begin(t, p, {ip}, {ip})
    BY <1>3, ReputationAssumption, Zenon DEF ClearReputation
  <2>2. Stmt(p) = "delete_reputation"
    BY DEF Stmt
  <2>3. p \in Programs
    BY DEF Programs
  <2> HIDE DEF p
  <2>4. QED
    BY <2>1, <2>2, <2>3, BeginKeeps DEF Pushes
<1>4. CASE ClearAllReputation(t)
  <2> DEFINE p == <<"select_system", "delete_reputation", "delete_events", "delete_system",
                    "push_unblock">>
  <2>1. Begin(t, p, {}, Ips)
    BY <1>4 DEF ClearAllReputation
  <2>2. Stmt(p) = "select_system"
    BY DEF Stmt
  <2>3. p \in Programs
    BY DEF Programs
  <2> HIDE DEF p
  <2>4. QED
    BY <2>1, <2>2, <2>3, BeginKeeps DEF Pushes
<1>5. QED
  BY <1>1, <1>2, <1>3, <1>4 DEF Request

(* checkNewEventsAndNotify begins its sync. *)
LEMMA SyncAndAutoBlockKeeps ==
    ASSUME IInv, SyncAndAutoBlock
    PROVE  IInv'
<1> DEFINE p == <<"sync", "select_low", "insert_low", "push_block">>
<1>1. Begin(Scheduler, p, {}, {}) /\ Scheduler \in Threads
  BY DEF SyncAndAutoBlock, Threads
<1>2. Stmt(p) = "sync"
  BY DEF Stmt
<1>3. p \in Programs
  BY DEF Programs
<1> HIDE DEF p
<1>4. QED
  BY <1>1, <1>2, <1>3, BeginKeeps DEF Pushes

(* A sync, made or failed, is followed by the select. *)
LEMMA AfterSync ==
    ASSUME Typing, Handlers, NEW t \in Threads, Doing(t, "sync")
    PROVE  LET x == [op[t] EXCEPT !.todo = Tail(@)]
           IN /\ x \in HandlerType /\ Settled(x) /\ Stmt(x.todo) = "select_low"
              /\ x.ips = op[t].ips /\ x.late = op[t].late
<1>1. op[t] \in HandlerType /\ Settled(op[t])
  BY DEF Typing, Handlers
<1>2. PICK a \in HandlerType : a = op[t]
  BY <1>1
<1>3. a.todo \in Programs /\ Stmt(a.todo) = "sync" /\ a.todo # <<>>
  BY <1>2, DoingIs, HandlerFields
<1>4. PICK p \in Programs : p = Tail(a.todo)
  BY <1>3, ProgramSteps, Zenon
<1>5. Stmt(p) = "select_low"
  BY <1>3, <1>4, ProgramSteps
<1>6. PICK x : x = [a EXCEPT !.todo = p]
  BY Zenon
<1>7. /\ x \in HandlerType /\ x.todo = p /\ x.ips = a.ips /\ x.late = a.late
  BY <1>6, Zenon DEF HandlerType
<1>8. a.late = {} /\ p # <<>> /\ Stmt(p) \notin Pushes
  BY <1>1, <1>2, <1>3, <1>5 DEF Settled, Stmt, Pushes
<1>9. Settled(x)
  BY <1>7, <1>8 DEF Settled
<1>10. x = [op[t] EXCEPT !.todo = Tail(@)]
  BY <1>2, <1>4, <1>6, Zenon
<1>11. QED
  BY <1>2, <1>5, <1>7, <1>9, <1>10, Zenon

(* A statement that fails ends its handler, but for the sync. *)
LEMMA StatementFailsKeeps ==
    ASSUME IInv, NEW t \in Threads, StatementFails(t)
    PROVE  IInv'
<1>1. At(t) \notin Pushes
  BY AtIs DEF StatementFails
<1>2. CASE Doing(t, "sync")
  <2>1. PICK x : x = [op[t] EXCEPT !.todo = Tail(@)]
    BY Zenon
  <2>2. x \in HandlerType /\ Settled(x) /\ Stmt(x.todo) = "select_low"
    BY <1>2, <2>1, AfterSync DEF IInv
  <2>3. op' = [op EXCEPT ![t] = x]
    BY <1>2, <2>1, Zenon DEF StatementFails
  <2>4. QED
    BY <1>1, <2>2, <2>3, GoesOnKeeps, Zenon DEF StatementFails, Pushes
<1>3. CASE ~Doing(t, "sync")
  <2>1. op' = [op EXCEPT ![t] = Idle]
    BY <1>3, Zenon DEF StatementFails
  <2>2. QED
    BY <1>1, <2>1, IdleIs, GoesOnKeeps, Zenon DEF StatementFails, Pushes
<1>4. QED
  BY <1>2, <1>3

(* The two selects. *)
LEMMA SelectKeeps ==
    ASSUME IInv, NEW t \in Threads, UNCHANGED agents,
           \/ Doing(t, "select_low") /\ SelectLow(t)
           \/ Doing(t, "select_system") /\ SelectSystem(t)
    PROVE  IInv'
<1>1. /\ op[t].todo # <<>> /\ At(t) \notin Pushes
      /\ Stmt(op[t].todo) \in {"select_low", "select_system"}
  BY DoingIs DEF Pushes
<1>2. op[t].todo \in Programs
  BY HandlerFields DEF IInv, Typing
<1>3. Stmt(Tail(op[t].todo)) \in {"insert_low", "delete_reputation"}
  BY <1>1, <1>2, ProgramSteps
<1>4. ToBlock \in SUBSET Ips /\ SystemBlocked \in SUBSET Ips
  BY DEF ToBlock, SystemBlocked
<1>5. \A S \in SUBSET Ips :
        /\ Proceed(t, S) \in HandlerType /\ Settled(Proceed(t, S))
        /\ Stmt(Proceed(t, S).todo) \in {"insert_low", "delete_reputation"}
  BY <1>1, <1>3, ProceedIs DEF IInv, Pushes
<1>6. PICK x \in HandlerType :
        /\ op' = [op EXCEPT ![t] = x] /\ Settled(x)
        /\ Stmt(x.todo) \in {"insert_low", "delete_reputation", "none"}
  BY <1>4, <1>5, IdleIs, Zenon DEF SelectLow, SelectSystem
<1>7. QED
  BY <1>1, <1>6, GoesOnKeeps, Zenon DEF SelectLow, SelectSystem, Pushes

(* A row, its local score and the weight of the events are numbers. *)
LEMMA RowIs ==
    ASSUME Typing, NEW ip \in Ips
    PROVE  /\ damage[ip] \in Nat /\ damage[ip] <= MaxDamage
           /\ ip_reputation[ip] = NoRow \/ ip_reputation[ip] \in Rows
           /\ ip_reputation[ip] \in Rows =>
                 /\ ip_reputation[ip].local_score \in 0 .. 100
                 /\ ip_reputation[ip].external_score \in 0 .. 100
                 /\ ip_reputation[ip].score \in 0 .. 100
BY ReputationAssumption DEF Typing, TableTypeOK, Rows, Scores

(* The first delete of a clearing. *)
LEMMA DeleteReputationKeeps ==
    ASSUME IInv, NEW t \in Threads, UNCHANGED agents,
           Doing(t, "delete_reputation"), DeleteReputation(t)
    PROVE  IInv'
<1>1. /\ op[t].todo # <<>> /\ At(t) \notin Pushes
      /\ Stmt(op[t].todo) = "delete_reputation"
  BY DoingIs DEF Pushes
<1>2. op[t].todo \in Programs /\ op[t].ips \in SUBSET Ips /\ op[t].scope \in SUBSET Ips
  BY HandlerFields DEF IInv, Typing
<1>3. Stmt(Tail(op[t].todo)) = "delete_events"
  BY <1>1, <1>2, ProgramSteps
<1>4. PICK x : x = Proceed(t, op[t].ips)
  OBVIOUS
<1>5. /\ x \in HandlerType /\ Settled(x) /\ Stmt(x.todo) = "delete_events"
      /\ x.scope = op[t].scope
  BY <1>1, <1>2, <1>3, <1>4, ProceedIs DEF IInv, Pushes
<1>6. /\ op' \in [Threads -> HandlerType] /\ Handlers'
      /\ PushedIsListed' /\ AgentsFollowBlocklist'
      /\ op'[t] = x /\ \A u \in Threads \ {t} : op'[u] = op[u]
  BY <1>1, <1>4, <1>5, GoesOn, Zenon DEF DeleteReputation, Pushes
<1>7. \A ip \in Ips :
        ip_reputation'[ip] = IF ip \in op[t].scope THEN NoRow ELSE ip_reputation[ip]
  BY DEF DeleteReputation
<1>8. Typing'
  <2>1. TableTypeOK'
    BY DEF IInv, Typing, TableTypeOK, DeleteReputation
  <2>2. QED
    BY <1>6, <2>1 DEF IInv, Typing, DeleteReputation
<1>9. ClearedIsClean'
  <2>1. SUFFICES ASSUME NEW u \in Threads, Stmt(op'[u].todo) = "delete_events",
                        ~op'[u].synced, NEW ip \in op'[u].scope, ip_reputation'[ip] # NoRow
                 PROVE  ip_reputation'[ip].local_score = 100
    BY AtIs, Zenon DEF ClearedIsClean, HasRow
  <2>2. ip \in Ips
    BY <1>6, HandlerFields
  <2>3. ip \notin op[t].scope /\ ip_reputation'[ip] = ip_reputation[ip]
    BY <1>7, <2>1, <2>2
  <2>4. u # t /\ op'[u] = op[u]
    BY <1>5, <1>6, <2>1, <2>3
  <2>5. QED
    BY <2>1, <2>3, <2>4, AtIs DEF IInv, ClearedIsClean, HasRow
<1>10. ScoreHasEvents'
  <2>1. SUFFICES ASSUME NEW ip \in Ips, ip \notin ghost', ip_reputation'[ip] # NoRow
                 PROVE  ip_reputation'[ip].local_score >= GREATEST(0, 100 - damage'[ip])
    BY Zenon DEF ScoreHasEvents, HasRow, GREATEST
  <2>2. ip \notin op[t].scope /\ ip_reputation'[ip] = ip_reputation[ip]
    BY <1>7, <2>1
  <2>3. ip \notin ghost
    BY <2>1, <2>2 DEF DeleteReputation
  <2>4. QED
    BY <2>1, <2>2, <2>3 DEF IInv, ScoreHasEvents, HasRow, DeleteReputation
<1>11. QED
  BY <1>6, <1>8, <1>9, <1>10 DEF IInv

(* The second one: what has a row again without a sync has all its score. *)
LEMMA DeleteEventsKeeps ==
    ASSUME IInv, NEW t \in Threads, UNCHANGED agents,
           Doing(t, "delete_events"), DeleteEvents(t)
    PROVE  IInv'
<1>1. /\ op[t].todo # <<>> /\ At(t) \notin Pushes /\ At(t) = "delete_events"
      /\ Stmt(op[t].todo) = "delete_events"
  BY DoingIs DEF Pushes
<1>2. op[t].todo \in Programs /\ op[t].ips \in SUBSET Ips /\ op[t].scope \in SUBSET Ips
  BY HandlerFields DEF IInv, Typing
<1>3. Stmt(Tail(op[t].todo)) = "delete_system"
  BY <1>1, <1>2, ProgramSteps
<1>4. PICK a \in HandlerType :
        a = Proceed(t, op[t].ips) /\ Settled(a) /\ Stmt(a.todo) = "delete_system"
  BY <1>1, <1>2, <1>3, ProceedIs DEF IInv, Pushes
<1>5. PICK x : x = [a EXCEPT !.synced = FALSE]
  BY Zenon
<1>6. /\ x \in HandlerType /\ x.todo = a.todo /\ x.ips = a.ips /\ x.late = a.late
  BY <1>5, Zenon DEF HandlerType
<1>7. Settled(x) /\ Stmt(x.todo) = "delete_system"
  BY <1>4, <1>6 DEF Settled, Stmt
<1>8. op' = [op EXCEPT ![t] = x]
  BY <1>4, <1>5, Zenon DEF DeleteEvents
<1>9. /\ op' \in [Threads -> HandlerType] /\ Handlers'
      /\ PushedIsListed' /\ AgentsFollowBlocklist'
      /\ op'[t] = x /\ \A u \in Threads \ {t} : op'[u] = op[u]
  BY <1>1, <1>6, <1>7, <1>8, GoesOn, Zenon DEF DeleteEvents, Pushes
<1>10. Typing'
  <2>1. damage' \in [Ips -> 0 .. MaxDamage]
    BY ReputationAssumption DEF IInv, Typing, DeleteEvents
  <2>2. ghost' \subseteq Ips
    BY <1>2 DEF IInv, Typing, DeleteEvents
  <2>3. QED
    BY <1>9, <2>1, <2>2 DEF IInv, Typing, TableTypeOK, DeleteEvents
<1>11. ClearedIsClean'
  <2>1. SUFFICES ASSUME NEW u \in Threads, Stmt(op'[u].todo) = "delete_events",
                        ~op'[u].synced, NEW ip \in op'[u].scope, ip_reputation'[ip] # NoRow
                 PROVE  ip_reputation'[ip].local_score = 100
    BY AtIs, Zenon DEF ClearedIsClean, HasRow
  <2>2. u # t /\ op'[u] = op[u]
    BY <1>7, <1>9, <2>1
  <2>3. QED
    BY <2>1, <2>2, AtIs DEF IInv, ClearedIsClean, HasRow, DeleteEvents
<1>12. ScoreHasEvents'
  <2>1. SUFFICES ASSUME NEW ip \in Ips, ip \notin ghost', ip_reputation'[ip] # NoRow
                 PROVE  ip_reputation'[ip].local_score >= GREATEST(0, 100 - damage'[ip])
    BY Zenon DEF ScoreHasEvents, HasRow, GREATEST
  <2>2. ip_reputation'[ip] = ip_reputation[ip] /\ ip \notin ghost
    BY <2>1 DEF DeleteEvents
  <2>3. CASE ip \in op[t].scope
    <3>1. ~op[t].synced
      BY <2>1, <2>3, Zenon DEF DeleteEvents
    <3>2. ip_reputation[ip].local_score = 100
      BY <1>1, <2>1, <2>2, <2>3, <3>1 DEF IInv, ClearedIsClean, HasRow
    <3>3. damage'[ip] = 0
      BY <2>3 DEF DeleteEvents
    <3>4. QED
      BY <2>2, <3>2, <3>3 DEF GREATEST
  <2>4. CASE ip \notin op[t].scope
    <3>1. damage'[ip] = damage[ip]
      BY <2>4 DEF DeleteEvents
    <3>2. QED
      BY <2>1, <2>2, <3>1 DEF IInv, ScoreHasEvents, HasRow
  <2>5. QED
    BY <2>3, <2>4
<1>13. QED
  BY <1>9, <1>10, <1>11, <1>12 DEF IInv

(* The sync: it writes what the events weigh, and a clearing that has made *)
(* its first delete is told.                                               *)
LEMMA SyncKeeps ==
    ASSUME IInv, NEW t \in Threads, UNCHANGED agents, Doing(t, "sync"), Sync(t)
    PROVE  IInv'
<1>1. At(t) = "sync" /\ At(t) \notin Pushes
  BY DoingIs DEF Pushes
<1>2. op \in [Threads -> HandlerType] /\ \A u \in Threads : Settled(op[u])
  BY DEF IInv, Typing, Handlers
<1>3. /\ op'[t] \in HandlerType /\ Settled(op'[t]) /\ Stmt(op'[t].todo) = "select_low"
  <2>1. PICK x : x = [op[t] EXCEPT !.todo = Tail(@)]
    BY Zenon
  <2>2. op'[t] = x
    BY <2>1, Zenon DEF Sync
  <2>3. QED
    BY <2>1, <2>2, AfterSync, Zenon DEF IInv
<1>4. ASSUME NEW u \in Threads, u # t
      PROVE  /\ op'[u] \in HandlerType /\ Settled(op'[u])
             /\ op'[u].todo = op[u].todo /\ op'[u].ips = op[u].ips
             /\ op'[u].late = op[u].late
             /\ Stmt(op'[u].todo) = "delete_events" => op'[u].synced
  <2>1. PICK a \in HandlerType : a = op[u] /\ Settled(a)
    BY <1>2
  <2>2. PICK b \in BOOLEAN : b = (a.synced \/ Doing(u, "delete_events"))
    BY Zenon
  <2>3. PICK x : x = [a EXCEPT !.synced = b]
    BY Zenon
  <2>4. /\ x \in HandlerType /\ x.todo = a.todo /\ x.ips = a.ips /\ x.late = a.late
        /\ x.scope = a.scope /\ x.synced = b
    BY <2>3, Zenon DEF HandlerType
  <2>5. op'[u] = x
    BY <1>4, <2>1, <2>2, <2>3, Zenon DEF Sync
  <2>6. a.todo = <<>> => x = a
    <3>1. HAVE a.todo = <<>>
    <3>2. a = Idle /\ ~Doing(u, "delete_events")
      BY <2>1, <3>1 DEF Settled, Doing, Busy
    <3>3. b = FALSE /\ a.synced = FALSE
      BY <2>2, <3>2, Zenon DEF Idle, Handler
    <3>4. x = [a EXCEPT !.synced = FALSE]
      BY <2>3, <3>3, Zenon
    <3>5. QED
      BY <3>3, <3>4 DEF HandlerType
  <2>7. Settled(x)
    BY <2>1, <2>4, <2>6, Zenon DEF Settled
  <2>8. Stmt(a.todo) = "delete_events" => b
    <3>1. Stmt(a.todo) = "delete_events" => Doing(u, "delete_events")
      BY <2>1 DEF Stmt, Doing, Busy
    <3>2. QED
      BY <2>2, <3>1, Zenon
  <2>9. QED
    BY <2>1, <2>4, <2>5, <2>7, <2>8, Zenon
<1>5. op' \in [Threads -> HandlerType] /\ Handlers'
  <2>1. op' = [u \in Threads |-> op'[u]]
    BY Zenon DEF Sync
  <2>2. QED
    BY <1>3, <1>4, <2>1, HandlersNext
<1>6. PushedIsListed' /\ AgentsFollowBlocklist'
  BY <1>1, <1>3, <1>4, PushesKept, Zenon DEF IInv, Sync, Pushes
<1>7. ASSUME NEW ip \in Ips
      PROVE  /\ ip_reputation'[ip] \in Rows \cup {NoRow}
             /\ damage[ip] = 0 => ip_reputation'[ip] = ip_reputation[ip]
             /\ damage[ip] # 0 => ip_reputation'[ip].local_score = GREATEST(0, 100 - damage[ip])
  <2>1. ip_reputation'[ip] = Synced(ip)
    BY DEF Sync
  <2>2. CASE damage[ip] = 0
    BY <2>1, <2>2, RowIs DEF IInv, Synced
  <2>3. CASE damage[ip] # 0
    <3>1. PICK l : l = GREATEST(0, 100 - damage[ip])
      OBVIOUS
    <3>2. PICK e : e = IF HasRow(ip) THEN ip_reputation[ip].external_score ELSE 100
      OBVIOUS
    <3>3. l \in 0 .. 100 /\ e \in 0 .. 100
      BY <3>1, <3>2, RowIs DEF IInv, GREATEST, HasRow
    <3>4. LEAST(l, e) \in 0 .. 100
      BY <3>3 DEF LEAST
    <3>5. ip_reputation'[ip] = [local_score |-> l, external_score |-> e, score |-> LEAST(l, e)]
      BY <2>1, <2>3, <3>1, <3>2, Zenon DEF Synced
    <3>6. QED
      BY <2>3, <3>1, <3>3, <3>4, <3>5 DEF Rows, Scores
  <2>4. QED
    BY <2>2, <2>3
<1>8. Typing'
  <2>1. TableTypeOK'
    BY <1>7 DEF TableTypeOK, Sync
  <2>2. QED
    BY <1>5, <2>1, Zenon DEF IInv, Typing, Sync
<1>9. ClearedIsClean'
  <2>1. SUFFICES ASSUME NEW u \in Threads, Stmt(op'[u].todo) = "delete_events",
                        ~op'[u].synced
                 PROVE  FALSE
    BY AtIs, Zenon DEF ClearedIsClean
  <2>2. QED
    BY <1>3, <1>4, <2>1
<1>10. ScoreHasEvents'
  <2>1. SUFFICES ASSUME NEW ip \in Ips, ip \notin ghost', ip_reputation'[ip] # NoRow
                 PROVE  ip_reputation'[ip].local_score >= GREATEST(0, 100 - damage'[ip])
    BY Zenon DEF ScoreHasEvents, HasRow, GREATEST
  <2>2. damage' = damage /\ ghost' = ghost
    BY DEF Sync
  <2>3. CASE damage[ip] = 0
    BY <1>7, <2>1, <2>2, <2>3 DEF IInv, ScoreHasEvents, HasRow
  <2>4. CASE damage[ip] # 0
    BY <1>7, <2>2, <2>4, RowIs DEF IInv, GREATEST
  <2>5. QED
    BY <2>3, <2>4
<1>11. QED
  BY <1>5, <1>6, <1>8, <1>9, <1>10 DEF IInv

(* A feed gives no address a local score below the one it has. *)
LEMMA ImportKeeps ==
    ASSUME IInv, ImportListed, UNCHANGED dashVars
    PROVE  IInv'
<1>1. PICK f \in 1 .. 3, i \in Ips : Import(i, f)
  BY FeedsAssumption DEF ImportListed
<1>2. PICK s \in 0 .. 100 : s = FeedScore[f]
  BY DEF FeedScore
<1>3. \A ip \in Ips \ {i} : ip_reputation'[ip] = ip_reputation[ip]
  BY <1>1 DEF Import
<1>4. /\ ip_reputation'[i] \in Rows
      /\ ip_reputation[i] = NoRow => ip_reputation'[i].local_score = 100
      /\ ip_reputation[i] # NoRow =>
            ip_reputation'[i].local_score = ip_reputation[i].local_score
  <2>1. ip_reputation'[i] = Upsert(ip_reputation[i], 100, s, s)
    BY <1>1, <1>2 DEF IInv, Typing, TableTypeOK, Import
  <2>2. CASE ip_reputation[i] = NoRow
    BY <2>1, <2>2 DEF Upsert, Rows, Scores
  <2>3. CASE ip_reputation[i] # NoRow
    <3>1. PICK l \in 0 .. 100 : l = ip_reputation[i].local_score
      BY <2>3, RowIs DEF IInv
    <3>2. PICK e \in 0 .. 100 : e = LEAST(ip_reputation[i].external_score, s)
      BY <2>3, RowIs DEF IInv, LEAST
    <3>3. LEAST(l, 100) = l /\ LEAST(l, e) \in 0 .. 100
      BY DEF LEAST
    <3>4. ip_reputation'[i] = [local_score |-> l, external_score |-> e, score |-> LEAST(l, e)]
      BY <2>1, <2>3, <3>1, <3>2, <3>3, Zenon DEF Upsert
    <3>5. QED
      BY <2>3, <3>1, <3>3, <3>4 DEF Rows, Scores
  <2>4. QED
    BY <2>2, <2>3
<1>5. /\ UNCHANGED <<damage, blocklist, agents, op, astray, ghost>>
  BY DEF dashVars
<1>6. Typing' /\ Handlers'
  <2>1. TableTypeOK'
    BY <1>1, <1>4 DEF IInv, Typing, TableTypeOK, Import
  <2>2. QED
    BY <1>5, <2>1 DEF IInv, Typing, Handlers
<1>7. PushedIsListed' /\ AgentsFollowBlocklist'
  BY <1>5, PushesKept DEF IInv
<1>8. ClearedIsClean'
  <2>1. SUFFICES ASSUME NEW u \in Threads, Stmt(op'[u].todo) = "delete_events",
                        ~op'[u].synced, NEW ip \in op'[u].scope, ip_reputation'[ip] # NoRow
                 PROVE  ip_reputation'[ip].local_score = 100
    BY AtIs, Zenon DEF ClearedIsClean, HasRow
  <2>2. ip \in Ips /\ At(u) = "delete_events" /\ ~op[u].synced /\ ip \in op[u].scope
    BY <1>5, <2>1, AtIs, HandlerFields DEF IInv, Typing
  <2>3. ip_reputation[ip] # NoRow => ip_reputation[ip].local_score = 100
    BY <2>2 DEF IInv, ClearedIsClean, HasRow
  <2>4. QED
    BY <1>3, <1>4, <2>1, <2>2, <2>3
<1>9. ScoreHasEvents'
  <2>1. SUFFICES ASSUME NEW ip \in Ips, ip \notin ghost', ip_reputation'[ip] # NoRow
                 PROVE  ip_reputation'[ip].local_score >= GREATEST(0, 100 - damage'[ip])
    BY Zenon DEF ScoreHasEvents, HasRow, GREATEST
  <2>2. CASE ip = i /\ ip_reputation[ip] = NoRow
    BY <1>4, <1>5, <2>2, RowIs DEF IInv, GREATEST
  <2>3. CASE ip # i \/ ip_reputation[ip] # NoRow
    BY <1>3, <1>4, <1>5, <2>1, <2>3 DEF IInv, ScoreHasEvents, HasRow
  <2>4. QED
    BY <2>2, <2>3
<1>10. QED
  BY <1>6, <1>7, <1>8, <1>9 DEF IInv

(* The weight of a batch is a number, and so the events of an address      *)
(* never weigh less for more of them.                                      *)
LEMMA WeightIsNat ==
    ASSUME NEW ip \in Ips, NEW batch \in Batches[ip]
    PROVE  WeightOf(batch) \in Nat
<1>1. batch \in Seq(0 .. 2)
  BY ReputationAssumption
<1>2. IsFiniteSet(DOMAIN batch)
  BY <1>1, FS_Interval
<1>3. \A s \in 0 .. 2 : Cardinality({i \in DOMAIN batch : batch[i] = s}) \in Nat
  <2>1. TAKE s \in 0 .. 2
  <2>2. PICK E \in SUBSET DOMAIN batch : E = {i \in DOMAIN batch : batch[i] = s}
    BY Zenon
  <2>3. QED
    BY <1>2, <2>2, FS_Subset, FS_CardinalityType
<1>4. Weight(0) = 5 /\ Weight(1) = 15 /\ Weight(2) = 25
  BY DEF Weight
<1>5. PICK n \in [0 .. 2 -> Nat] :
        \A s \in 0 .. 2 : n[s] = Cardinality({i \in DOMAIN batch : batch[i] = s})
  <2>1. [s \in 0 .. 2 |-> Cardinality({i \in DOMAIN batch : batch[i] = s})] \in [0 .. 2 -> Nat]
    BY <1>3
  <2>2. QED
    BY <2>1, Zenon
<1>6. WeightOf(batch) = 5 * n[0] + 15 * n[1] + 25 * n[2]
  BY <1>4, <1>5 DEF WeightOf
<1>7. QED
  BY <1>6

(* More events only lower what a score must not fall below. *)
LEMMA EventsStoredKeeps ==
    ASSUME IInv, NEW i \in Ips, NEW batch \in Batches[i], EventsStored(i, batch)
    PROVE  IInv'
<1>1. PICK w \in Nat : w = WeightOf(batch)
  BY WeightIsNat
<1>2. /\ damage[i] + w <= MaxDamage /\ damage' = [damage EXCEPT ![i] = @ + w]
      /\ UNCHANGED <<ip_reputation, blocklist, agents, op, astray, ghost>>
  BY <1>1 DEF EventsStored
<1>3. damage' \in [Ips -> 0 .. MaxDamage]
  BY <1>2, ReputationAssumption, RowIs DEF IInv, Typing
<1>4. \A ip \in Ips : damage'[ip] \in Nat /\ damage'[ip] >= damage[ip]
  BY <1>2, RowIs DEF IInv, Typing
<1>5. Typing' /\ Handlers' /\ ClearedIsClean'
  BY <1>2, <1>3 DEF IInv, Typing, TableTypeOK, Handlers, ClearedIsClean, HasRow, At
<1>6. PushedIsListed' /\ AgentsFollowBlocklist'
  BY <1>2, PushesKept DEF IInv
<1>7. ScoreHasEvents'
  <2>1. SUFFICES ASSUME NEW ip \in Ips, ip \notin ghost', ip_reputation'[ip] # NoRow
                 PROVE  ip_reputation'[ip].local_score >= GREATEST(0, 100 - damage'[ip])
    BY Zenon DEF ScoreHasEvents, HasRow, GREATEST
  <2>2. ip_reputation[ip].local_score >= GREATEST(0, 100 - damage[ip])
    BY <1>2, <2>1 DEF IInv, ScoreHasEvents, HasRow
  <2>3. ip_reputation[ip].local_score \in Nat
    BY <1>2, <2>1, RowIs DEF IInv
  <2>4. QED
    BY <1>2, <1>4, <2>2, <2>3, RowIs DEF IInv, GREATEST
<1>8. QED
  BY <1>5, <1>6, <1>7 DEF IInv

-----------------------------------------------------------------------------
(***************************************************************************)
(* Steps that change rows of the blocklist or tell the agents.             *)
(***************************************************************************)
(* Who is about to push rows that someone else changes is late. *)
LEMMA OvertakenIs ==
    ASSUME IInv, NEW S \in SUBSET Ips, NEW u \in Threads, op'[u] = Late(u, S),
           \A ip \in Ips \ S : blocklist'[ip] = blocklist[ip]
    PROVE  /\ op'[u] \in HandlerType /\ Settled(op'[u])
           /\ op'[u].todo = op[u].todo /\ op'[u].ips = op[u].ips
           /\ op'[u].scope = op[u].scope /\ op'[u].synced = op[u].synced
           /\ Stmt(op'[u].todo) = "push_block" =>
                 \A ip \in op'[u].ips \ op'[u].late : blocklist'[ip] # {}
<1>1. /\ op'[u] \in HandlerType /\ Settled(op'[u])
      /\ op'[u].todo = op[u].todo /\ op'[u].ips = op[u].ips
      /\ op'[u].scope = op[u].scope /\ op'[u].synced = op[u].synced
      /\ At(u) \in Pushes => op'[u].late = op[u].late \cup (S \cap op[u].ips)
  BY LateIs DEF IInv
<1>2. ASSUME Stmt(op'[u].todo) = "push_block", NEW ip \in op'[u].ips \ op'[u].late
      PROVE  blocklist'[ip] # {}
  <2>1. At(u) = "push_block"
    BY <1>1, <1>2, AtIs
  <2>2. ip \in op[u].ips \ op[u].late /\ ip \notin S /\ ip \in Ips
    BY <1>1, <1>2, <2>1, HandlerFields DEF Pushes
  <2>3. QED
    BY <2>1, <2>2 DEF IInv, PushedIsListed
<1>3. QED
  BY <1>1, <1>2

(* A statement of t changes the rows of S: t pushes them next, or the      *)
(* agents are wrong about them.                                            *)
LEMMA RowsKeep ==
    ASSUME IInv, NEW t \in Threads, NEW S \in SUBSET Ips, NEW x \in HandlerType,
           Settled(x), At(t) \notin Pushes, Stmt(x.todo) # "delete_events",
           op' = [Overtaken(S) EXCEPT ![t] = x],
           Stmt(x.todo) = "push_block" => \A ip \in x.ips \ x.late : blocklist'[ip] # {},
           \A ip \in Ips \ S : blocklist'[ip] = blocklist[ip],
           \A ip \in S : ip \in astray' \/ (Stmt(x.todo) \in Pushes /\ ip \in x.ips),
           astray \subseteq astray', astray' \subseteq Ips,
           blocklist' \in [Ips -> SUBSET Sources],
           UNCHANGED <<ip_reputation, damage, agents, ghost>>
    PROVE  IInv'
<1>1. op'[t] = x /\ \A u \in Threads \ {t} : op'[u] = Late(u, S)
  BY DEF Overtaken
<1>2. \A u \in Threads \ {t} :
        /\ op'[u] \in HandlerType /\ Settled(op'[u])
        /\ op'[u].todo = op[u].todo /\ op'[u].ips = op[u].ips
        /\ op'[u].scope = op[u].scope /\ op'[u].synced = op[u].synced
        /\ Stmt(op'[u].todo) = "push_block" =>
              \A ip \in op'[u].ips \ op'[u].late : blocklist'[ip] # {}
  <2>1. TAKE u \in Threads \ {t}
  <2>2. op'[u] = Late(u, S) /\ u \in Threads
    BY <1>1
  <2>3. QED
    BY <2>2, OvertakenIs
<1>3. op' \in [Threads -> HandlerType] /\ Handlers'
  <2>1. op' = [u \in Threads |-> op'[u]]
    BY Zenon DEF Overtaken
  <2>2. \A u \in Threads : op'[u] \in HandlerType /\ Settled(op'[u])
    BY <1>1, <1>2, Zenon
  <2>3. QED
    BY <2>1, <2>2, HandlersNext
<1>4. Typing'
  BY <1>3 DEF IInv, Typing, TableTypeOK
<1>5. PushedIsListed'
  <2>1. SUFFICES ASSUME NEW u \in Threads, Stmt(op'[u].todo) = "push_block",
                        NEW ip \in op'[u].ips \ op'[u].late
                 PROVE  blocklist'[ip] # {}
    BY AtIs, Zenon DEF PushedIsListed
  <2>2. CASE u = t
    BY <1>1, <2>1, <2>2
  <2>3. CASE u # t
    BY <1>2, <2>1, <2>3
  <2>4. QED
    BY <2>2, <2>3
<1>6. AgentsFollowBlocklist'
  <2>1. SUFFICES ASSUME NEW ip \in Ips, ip \notin astray',
                        \A u \in Threads : ~(Stmt(op'[u].todo) \in Pushes /\ ip \in op'[u].ips)
                 PROVE  ip \in agents' <=> blocklist'[ip] # {}
    BY AtIs, Zenon DEF AgentsFollowBlocklist
  <2>2. ip \notin S /\ ip \notin astray
    BY <1>1, <2>1
  <2>3. \A u \in Threads : ~(Pushing(u) /\ ip \in op[u].ips)
    BY <1>2, <2>1, AtIs
  <2>4. ip \in agents <=> blocklist[ip] # {}
    BY <2>2, <2>3 DEF IInv, AgentsFollowBlocklist
  <2>5. QED
    BY <2>2, <2>4
<1>7. ClearedIsClean' /\ ScoreHasEvents'
  BY <1>1, <1>2, ScoresKept DEF IInv
<1>8. QED
  BY <1>3, <1>4, <1>5, <1>6, <1>7 DEF IInv

(* The second statement of the auto-block. *)
LEMMA InsertLowKeeps ==
    ASSUME IInv, NEW t \in Threads, UNCHANGED agents,
           Doing(t, "insert_low"), InsertLow(t)
    PROVE  IInv'
<1>1. /\ op[t].todo # <<>> /\ At(t) \notin Pushes
      /\ Stmt(op[t].todo) = "insert_low"
  BY DoingIs DEF Pushes
<1>2. op[t].todo \in Programs /\ op[t].ips \in SUBSET Ips /\ op[t].scope \in SUBSET Ips
  BY HandlerFields DEF IInv, Typing
<1>3. Stmt(Tail(op[t].todo)) = "push_block"
  BY <1>1, <1>2, ProgramSteps
<1>4. PICK S \in SUBSET Ips : S = ToBlock
  BY Zenon DEF ToBlock
<1>5. PICK a : a = Proceed(t, op[t].ips)
  OBVIOUS
<1>6. /\ a \in HandlerType /\ Settled(a)
      /\ op[t].ips = {} => a = Idle
      /\ op[t].ips # {} => Stmt(a.todo) = "push_block" /\ a.ips = op[t].ips
  BY <1>1, <1>2, <1>3, <1>5, ProceedIs DEF IInv, Pushes
<1>7. PICK L \in SUBSET Ips : L = op[t].ips \ S
  BY <1>2, Zenon
<1>8. PICK x : x = [a EXCEPT !.late = L]
  BY Zenon
<1>9. /\ x \in HandlerType /\ x.todo = a.todo /\ x.ips = a.ips /\ x.late = L
  BY <1>6, <1>8, Zenon DEF HandlerType
<1>10. CASE op[t].ips = {}
  <2>1. a = Idle /\ L = {} /\ Idle.late = {}
    BY <1>6, <1>7, <1>10, IdleIs
  <2>2. x = Idle
    BY <1>8, <2>1, Zenon DEF Idle, Handler
  <2>3. Settled(x) /\ Stmt(x.todo) = "none"
    BY <2>2, IdleIs
  <2>4. \A ip \in S : ip \in astray'
    BY <1>4, <1>10 DEF InsertLow
  <2>5. op' = [Overtaken(S) EXCEPT ![t] = x]
    BY <1>4, <1>5, <1>7, <1>8, Zenon DEF InsertLow
  <2>6. astray \subseteq astray' /\ astray' \subseteq Ips
    BY <1>4 DEF InsertLow, IInv, Typing
  <2>7. /\ \A ip \in Ips \ S : blocklist'[ip] = blocklist[ip]
        /\ blocklist' \in [Ips -> SUBSET Sources]
    BY <1>4 DEF InsertLow, IInv, Typing, Sources
  <2>8. QED
    BY <1>1, <1>9, <2>3, <2>4, <2>5, <2>6, <2>7, RowsKeep, Zenon DEF InsertLow, Pushes
<1>11. CASE op[t].ips # {}
  <2>1. Stmt(x.todo) = "push_block" /\ x.ips = op[t].ips /\ x.late = op[t].ips \ S
    BY <1>6, <1>7, <1>9, <1>11
  <2>2. x.todo # <<>>
    BY <2>1 DEF Stmt
  <2>3. Settled(x)
    BY <1>11, <2>1, <2>2 DEF Settled, Pushes
  <2>4. /\ \A ip \in Ips \ S : blocklist'[ip] = blocklist[ip]
        /\ \A ip \in S : blocklist'[ip] = {"system"}
        /\ blocklist' \in [Ips -> SUBSET Sources]
    BY <1>4 DEF InsertLow, IInv, Typing, Sources
  <2>5. \A ip \in x.ips \ x.late : blocklist'[ip] # {}
    BY <2>1, <2>4
  <2>6. \A ip \in S : ip \in astray' \/ ip \in x.ips
    BY <1>4, <2>1 DEF InsertLow
  <2>7. op' = [Overtaken(S) EXCEPT ![t] = x]
    BY <1>4, <1>5, <1>7, <1>8, Zenon DEF InsertLow
  <2>8. astray \subseteq astray' /\ astray' \subseteq Ips
    BY <1>4 DEF InsertLow, IInv, Typing
  <2>9. QED
    BY <1>1, <1>9, <2>1, <2>3, <2>4, <2>5, <2>6, <2>7, <2>8, RowsKeep, Zenon
       DEF InsertLow, Pushes
<1>12. QED
  BY <1>10, <1>11

(* The insert and the delete of an entry. *)
LEMMA SetRowsKeeps ==
    ASSUME IInv, NEW t \in Threads, UNCHANGED agents,
           \/ Doing(t, "insert") /\ Insert(t)
           \/ Doing(t, "delete") /\ Delete(t)
    PROVE  IInv'
<1>1. /\ op[t].todo # <<>> /\ At(t) \notin Pushes
      /\ Stmt(op[t].todo) \in {"insert", "delete"}
      /\ Stmt(op[t].todo) = "insert" => Insert(t)
  BY DoingIs DEF Pushes
<1>2. op[t].todo \in Programs /\ op[t].ips \in SUBSET Ips
  BY HandlerFields DEF IInv, Typing
<1>3. /\ Stmt(Tail(op[t].todo)) \in Pushes
      /\ Stmt(Tail(op[t].todo)) = "push_block" => Insert(t)
  BY <1>1, <1>2, ProgramSteps DEF Pushes
<1>4. PICK x : x = Proceed(t, op[t].ips)
  OBVIOUS
<1>5. /\ x \in HandlerType /\ Settled(x)
      /\ op[t].ips = {} => x = Idle
      /\ op[t].ips # {} => /\ Stmt(x.todo) = Stmt(Tail(op[t].todo))
                           /\ x.ips = op[t].ips
  BY <1>1, <1>2, <1>3, <1>4, ProceedIs DEF IInv
<1>6. /\ op' = [Overtaken(op[t].ips) EXCEPT ![t] = x]
      /\ UNCHANGED <<ip_reputation, damage, astray, ghost>>
  BY <1>4, Zenon DEF Insert, Delete, SetRows
<1>7. /\ \A ip \in Ips \ op[t].ips : blocklist'[ip] = blocklist[ip]
      /\ Insert(t) => \A ip \in op[t].ips : blocklist'[ip] # {}
  BY <1>2 DEF Insert, Delete, SetRows
<1>8. blocklist' \in [Ips -> SUBSET Sources]
  BY DEF IInv, Typing, Insert, Delete, SetRows, Sources
<1>9. Stmt(x.todo) = "push_block" => \A ip \in x.ips \ x.late : blocklist'[ip] # {}
  BY <1>3, <1>5, <1>7, IdleIs
<1>10. \A ip \in op[t].ips : Stmt(x.todo) \in Pushes /\ ip \in x.ips
  BY <1>3, <1>5
<1>11. Stmt(x.todo) # "delete_events"
  BY <1>3, <1>5, IdleIs DEF Pushes
<1>12. astray \subseteq astray' /\ astray' \subseteq Ips
  BY <1>6 DEF IInv, Typing
<1>13. QED
  BY <1>1, <1>2, <1>5, <1>6, <1>7, <1>8, <1>9, <1>10, <1>11, <1>12, RowsKeep

(* The third delete of a clearing. *)
LEMMA DeleteSystemKeeps ==
    ASSUME IInv, NEW t \in Threads, UNCHANGED agents,
           Doing(t, "delete_system"), DeleteSystem(t)
    PROVE  IInv'
<1>1. /\ op[t].todo # <<>> /\ At(t) \notin Pushes
      /\ Stmt(op[t].todo) = "delete_system"
  BY DoingIs DEF Pushes
<1>2. op[t].todo \in Programs /\ op[t].ips \in SUBSET Ips
  BY HandlerFields DEF IInv, Typing
<1>3. Stmt(Tail(op[t].todo)) = "push_unblock"
  BY <1>1, <1>2, ProgramSteps
<1>4. PICK E \in SUBSET Ips : E = SystemBlocked \cap op[t].scope
  BY Zenon DEF SystemBlocked
<1>5. PICK S \in SUBSET Ips : S = E \cup op[t].ips
  BY <1>2, Zenon
<1>6. PICK a : a = Proceed(t, op[t].ips)
  OBVIOUS
<1>7. /\ a \in HandlerType /\ Settled(a)
      /\ op[t].ips = {} => a = Idle
      /\ op[t].ips # {} => Stmt(a.todo) = "push_unblock" /\ a.ips = op[t].ips
  BY <1>1, <1>2, <1>3, <1>6, ProceedIs DEF IInv, Pushes
<1>8. PICK x : x = [a EXCEPT !.scope = {}]
  BY Zenon
<1>9. /\ x \in HandlerType /\ x.todo = a.todo /\ x.ips = a.ips /\ x.late = a.late
  BY <1>7, <1>8, Zenon DEF HandlerType
<1>10. Settled(x)
  <2>1. CASE op[t].ips = {}
    <3>1. x = [Idle EXCEPT !.scope = {}]
      BY <1>7, <1>8, <2>1, Zenon
    <3>2. x = Idle
      BY <3>1 DEF Idle, Handler
    <3>3. QED
      BY <3>2, IdleIs
  <2>2. CASE op[t].ips # {}
    <3>1. x.todo # <<>>
      BY <1>7, <1>9, <2>2 DEF Stmt
    <3>2. QED
      BY <1>7, <1>9, <3>1, Zenon DEF Settled
  <2>3. QED
    BY <2>1, <2>2
<1>11. /\ op' = [Overtaken(S) EXCEPT ![t] = x] /\ astray' = astray \cup (E \ op[t].ips)
       /\ blocklist' = [ip \in Ips |-> IF ip \in E THEN blocklist[ip] \ {"system"}
                                       ELSE blocklist[ip]]
       /\ UNCHANGED <<ip_reputation, damage, ghost>>
  BY <1>4, <1>5, <1>6, <1>8, Zenon DEF DeleteSystem
<1>12. /\ \A ip \in Ips \ S : blocklist'[ip] = blocklist[ip]
       /\ blocklist' \in [Ips -> SUBSET Sources]
  BY <1>5, <1>11 DEF IInv, Typing, Sources
<1>13. astray \subseteq astray' /\ astray' \subseteq Ips
  BY <1>11 DEF IInv, Typing
<1>14. \A ip \in S : ip \in astray' \/ (Stmt(x.todo) \in Pushes /\ ip \in x.ips)
  BY <1>5, <1>7, <1>9, <1>11 DEF Pushes
<1>15. Stmt(x.todo) \notin {"delete_events", "push_block"}
  BY <1>7, <1>9, IdleIs
<1>16. QED
  BY <1>1, <1>9, <1>10, <1>11, <1>12, <1>13, <1>14, <1>15, RowsKeep, Zenon

(* One address changes on the spot, and no handler but for being late. *)
LEMMA AddressKeeps ==
    ASSUME IInv, NEW i \in Ips,
           op' = Overtaken({i}),
           blocklist' \in [Ips -> SUBSET Sources],
           \A ip \in Ips \ {i} : blocklist'[ip] = blocklist[ip],
           agents' \subseteq Ips, astray' \subseteq Ips,
           \A ip \in Ips \ {i} : /\ ip \in agents' <=> ip \in agents
                                 /\ ip \in astray' <=> ip \in astray,
           i \in astray' \/ (i \in agents' <=> blocklist'[i] # {}),
           UNCHANGED <<ip_reputation, damage, ghost>>
    PROVE  IInv'
<1>1. \A u \in Threads :
        /\ op'[u] \in HandlerType /\ Settled(op'[u])
        /\ op'[u].todo = op[u].todo /\ op'[u].ips = op[u].ips
        /\ op'[u].scope = op[u].scope /\ op'[u].synced = op[u].synced
        /\ Stmt(op'[u].todo) = "push_block" =>
              \A ip \in op'[u].ips \ op'[u].late : blocklist'[ip] # {}
  <2>1. TAKE u \in Threads
  <2>2. op'[u] = Late(u, {i}) /\ {i} \in SUBSET Ips
    BY DEF Overtaken
  <2>3. QED
    BY <2>2, OvertakenIs, Zenon
<1>2. op' \in [Threads -> HandlerType] /\ Handlers'
  <2>1. op' = [u \in Threads |-> op'[u]]
    BY DEF Overtaken
  <2>2. QED
    BY <1>1, <2>1, HandlersNext, Zenon
<1>3. Typing'
  BY <1>2, Zenon DEF IInv, Typing, TableTypeOK
<1>4. PushedIsListed'
  BY <1>1, AtIs, Zenon DEF PushedIsListed
<1>5. AgentsFollowBlocklist'
  <2>1. SUFFICES ASSUME NEW ip \in Ips, ip \notin astray',
                        \A u \in Threads : ~(Stmt(op'[u].todo) \in Pushes /\ ip \in op'[u].ips)
                 PROVE  ip \in agents' <=> blocklist'[ip] # {}
    BY AtIs, Zenon DEF AgentsFollowBlocklist
  <2>2. CASE ip = i
    BY <2>1, <2>2
  <2>3. CASE ip # i
    <3>1. \A u \in Threads : ~(Pushing(u) /\ ip \in op[u].ips)
      BY <1>1, <2>1, AtIs, Zenon
    <3>2. ip \in agents <=> blocklist[ip] # {}
      BY <2>1, <2>3, <3>1, Zenon DEF IInv, AgentsFollowBlocklist
    <3>3. QED
      BY <2>3, <3>2
  <2>4. QED
    BY <2>2, <2>3
<1>6. ClearedIsClean' /\ ScoreHasEvents'
  BY <1>1, ScoresKept, Zenon DEF IInv
<1>7. QED
  BY <1>2, <1>3, <1>4, <1>5, <1>6 DEF IInv

(* The endpoints of the receiver. *)
LEMMA ApiChangeKeeps ==
    ASSUME IInv, NEW i \in Ips, NEW rows \in SUBSET Sources, ApiChange(i, rows)
    PROVE  IInv'
<1>1. /\ blocklist' \in [Ips -> SUBSET Sources]
      /\ \A ip \in Ips \ {i} : blocklist'[ip] = blocklist[ip]
  BY DEF IInv, Typing, ApiChange
<1>2. astray' = astray \cup {i} /\ UNCHANGED agents
  BY DEF ApiChange
<1>3. agents' \subseteq Ips /\ astray' \subseteq Ips
  BY <1>2 DEF IInv, Typing
<1>4. QED
  BY <1>1, <1>2, <1>3, AddressKeeps DEF ApiChange

(* A row and a command for an agent, which arrives or is lost. *)
LEMMA ApiBlockAgentIpKeeps ==
    ASSUME IInv, NEW i \in Ips, ApiBlockAgentIp(i)
    PROVE  IInv'
<1>1. /\ blocklist' \in [Ips -> SUBSET Sources] /\ blocklist'[i] # {}
      /\ \A ip \in Ips \ {i} : blocklist'[ip] = blocklist[ip]
  BY DEF IInv, Typing, ApiBlockAgentIp, Sources
<1>2. \/ agents' = agents \cup {i} /\ astray' = astray \ {i}
      \/ UNCHANGED agents /\ astray' = astray \cup {i}
  BY DEF ApiBlockAgentIp
<1>3. agents' \subseteq Ips /\ astray' \subseteq Ips
  BY <1>2 DEF IInv, Typing
<1>4. /\ i \in astray' \/ (i \in agents' <=> blocklist'[i] # {})
      /\ \A ip \in Ips \ {i} : /\ ip \in agents' <=> ip \in agents
                               /\ ip \in astray' <=> ip \in astray
  BY <1>1, <1>2
<1>5. QED
  BY <1>1, <1>3, <1>4, AddressKeeps DEF ApiBlockAgentIp

(* A step after which the agents may be wrong about more addresses, of     *)
(* which no push is left, and no row, score or clearing has changed.       *)
LEMMA ToldKeeps ==
    ASSUME IInv, NEW i \in Ips,
           op' \in [Threads -> HandlerType], Handlers',
           \A u \in Threads :
              /\ op'[u] = op[u] \/ At(u) \in Pushes
              /\ Stmt(op'[u].todo) # "none" => op'[u].todo = op[u].todo
              /\ op'[u].ips \subseteq op[u].ips
              /\ op[u].ips \ {i} \subseteq op'[u].ips
              /\ op[u].late \ {i} \subseteq op'[u].late
              /\ i \in op'[u].ips => op'[u] = op[u],
           agents' \subseteq Ips, astray' \subseteq Ips,
           \A ip \in Ips \ {i} : /\ ip \in agents' <=> ip \in agents
                                 /\ ip \in astray' <=> ip \in astray,
           i \in astray' \/ (i \in agents' <=> blocklist[i] # {}),
           UNCHANGED <<ip_reputation, damage, blocklist, ghost>>
    PROVE  IInv'
<1>1. Typing'
  BY DEF IInv, Typing, TableTypeOK
<1>2. PushedIsListed'
  <2>1. SUFFICES ASSUME NEW u \in Threads, Stmt(op'[u].todo) = "push_block",
                        NEW ip \in op'[u].ips \ op'[u].late
                 PROVE  blocklist[ip] # {}
    BY AtIs, Zenon DEF PushedIsListed
  <2>2. op'[u].todo = op[u].todo /\ ip \in op[u].ips
    BY <2>1, Zenon
  <2>3. ip \notin op[u].late
    BY <2>1
  <2>4. QED
    BY <2>1, <2>2, <2>3, AtIs, Zenon DEF IInv, PushedIsListed
<1>3. AgentsFollowBlocklist'
  <2>1. SUFFICES ASSUME NEW ip \in Ips, ip \notin astray',
                        \A u \in Threads : ~(Stmt(op'[u].todo) \in Pushes /\ ip \in op'[u].ips)
                 PROVE  ip \in agents' <=> blocklist'[ip] # {}
    BY AtIs, Zenon DEF AgentsFollowBlocklist
  <2>2. CASE ip = i
    BY <2>1, <2>2
  <2>3. CASE ip # i
    <3>1. \A u \in Threads : ~(Pushing(u) /\ ip \in op[u].ips)
      <4>1. SUFFICES ASSUME NEW u \in Threads, Pushing(u), ip \in op[u].ips
                     PROVE  FALSE
        OBVIOUS
      <4>2. ip \in op'[u].ips
        BY <2>3, <4>1
      <4>3. Stmt(op'[u].todo) # "none"
        <5>1. op'[u].todo = <<>> => op'[u] = Idle
          BY DEF Handlers, Settled
        <5>2. op'[u].todo # <<>>
          BY <4>2, <5>1, IdleIs
        <5>3. op'[u].todo \in Programs
          BY HandlerFields
        <5>4. QED
          BY <5>2, <5>3 DEF Stmt, Programs
      <4>4. Stmt(op'[u].todo) \in Pushes
        BY <4>1, <4>3, AtIs
      <4>5. QED
        BY <2>1, <4>2, <4>4
    <3>2. ip \in agents <=> blocklist[ip] # {}
      BY <2>1, <2>3, <3>1 DEF IInv, AgentsFollowBlocklist
    <3>3. QED
      BY <2>3, <3>2
  <2>4. QED
    BY <2>2, <2>3
<1>4. \A u \in Threads :
         \/ /\ op'[u].todo = op[u].todo /\ op'[u].scope = op[u].scope
            /\ op'[u].synced = op[u].synced
         \/ Stmt(op'[u].todo) # "delete_events"
  BY AtIs DEF Pushes
<1>5. ClearedIsClean' /\ ScoreHasEvents'
  BY <1>4, ScoresKept DEF IInv
<1>6. QED
  BY <1>1, <1>2, <1>3, <1>5 DEF IInv

(* blockAgentIp of the dashboard. *)
LEMMA BlockAgentIpKeeps ==
    ASSUME IInv, NEW i \in Ips, BlockAgentIp(i)
    PROVE  IInv'
<1>1. /\ agents' = agents \cup {i} /\ astray' = astray \cup {i}
      /\ UNCHANGED <<ip_reputation, damage, blocklist, op, ghost>>
  BY DEF BlockAgentIp
<1>2. op' \in [Threads -> HandlerType] /\ Handlers'
  BY <1>1 DEF IInv, Typing, Handlers
<1>3. agents' \subseteq Ips /\ astray' \subseteq Ips
  BY <1>1 DEF IInv, Typing
<1>4. QED
  BY <1>1, <1>2, <1>3, ToldKeeps

(* A push, made or lost. *)
LEMMA PushKeeps ==
    ASSUME IInv, NEW t \in Threads,
           \/ Doing(t, "push_block") /\ Push(t, TRUE)
           \/ Doing(t, "push_unblock") /\ Push(t, FALSE)
    PROVE  IInv'
<1>1. /\ op[t].todo # <<>> /\ At(t) \in Pushes /\ Stmt(op[t].todo) \in Pushes
      /\ Doing(t, "push_block") => At(t) = "push_block"
  BY DoingIs, Zenon DEF Pushes
<1>2. op \in [Threads -> HandlerType] /\ \A u \in Threads : Settled(op[u])
  BY DEF IInv, Typing, Handlers
<1>3. PICK a \in HandlerType : a = op[t] /\ Settled(a)
  BY <1>2
<1>4. a.todo \in Programs /\ a.ips \in SUBSET Ips /\ a.late \in SUBSET Ips
  BY HandlerFields
<1>5. PICK block \in BOOLEAN : /\ block => At(t) = "push_block"
                               /\ Push(t, block)
  BY <1>1, Zenon
<1>6. PICK i \in a.ips :
        /\ op' = [op EXCEPT ![t] = IF op[t].ips = {i} THEN Proceed(t, {})
                                   ELSE [op[t] EXCEPT !.ips = op[t].ips \ {i},
                                                      !.late = op[t].late \ {i}]]
        /\ \/ /\ agents' = IF block THEN agents \cup {i} ELSE agents \ {i}
              /\ astray' = IF i \notin op[t].late /\ (block \/ blocklist[i] = {})
                           THEN astray \ {i} ELSE astray \cup {i}
           \/ /\ UNCHANGED agents
              /\ astray' = astray \cup {i}
  BY <1>3, <1>5, Zenon DEF Push
<1>7. UNCHANGED <<ip_reputation, damage, blocklist, ghost>>
  BY <1>5, Zenon DEF Push
<1>8. PICK x \in HandlerType :
        /\ op' = [op EXCEPT ![t] = x] /\ Settled(x)
        /\ Stmt(x.todo) # "none" => x.todo = a.todo
        /\ x.ips = a.ips \ {i} /\ a.late \ {i} \subseteq x.late
  <2>1. CASE a.ips = {i}
    <3>1. Tail(op[t].todo) = <<>>
      BY <1>1, <1>3, <1>4, ProgramSteps
    <3>2. Proceed(t, {}) = Idle
      BY <3>1 DEF Proceed
    <3>3. op' = [op EXCEPT ![t] = Idle]
      BY <1>3, <1>6, <2>1, <3>2, Zenon
    <3>4. a.late \ {i} = {}
      BY <1>3, <2>1 DEF Settled
    <3>5. QED
      BY <2>1, <3>3, <3>4, IdleIs, Zenon
  <2>2. CASE a.ips # {i}
    <3>1. PICK S \in SUBSET Ips, L \in SUBSET Ips : S = a.ips \ {i} /\ L = a.late \ {i}
      BY <1>4, Zenon
    <3>2. PICK x : x = [a EXCEPT !.ips = S, !.late = L]
      OBVIOUS
    <3>3. /\ x \in HandlerType /\ x.todo = a.todo /\ x.ips = S /\ x.late = L
      BY <3>1, <3>2, Zenon DEF HandlerType
    <3>4. op' = [op EXCEPT ![t] = x]
      BY <1>3, <1>6, <2>2, <3>1, <3>2, Zenon
    <3>5. S # {} /\ L \subseteq S
      BY <1>3, <2>2, <3>1 DEF Settled
    <3>6. Settled(x)
      BY <1>1, <1>3, <3>3, <3>5 DEF Settled
    <3>7. QED
      BY <3>1, <3>3, <3>4, <3>6, Zenon
  <2>3. QED
    BY <2>1, <2>2
<1>9. /\ op'[t] = x /\ \A u \in Threads \ {t} : op'[u] = op[u]
      /\ op' = [u \in Threads |-> op'[u]]
  BY <1>2, <1>8, Zenon
<1>10. op' \in [Threads -> HandlerType] /\ Handlers'
  <2>1. \A u \in Threads : op'[u] \in HandlerType /\ Settled(op'[u])
    BY <1>2, <1>8, <1>9
  <2>2. QED
    BY <1>9, <2>1, HandlersNext
<1>11. agents' \subseteq Ips /\ astray' \subseteq Ips
  BY <1>4, <1>6 DEF IInv, Typing
<1>12. \A ip \in Ips \ {i} : /\ ip \in agents' <=> ip \in agents
                             /\ ip \in astray' <=> ip \in astray
  BY <1>6
<1>13. i \in astray' \/ (i \in agents' <=> blocklist[i] # {})
  <2>1. block /\ i \notin op[t].late => blocklist[i] # {}
    BY <1>3, <1>5 DEF IInv, PushedIsListed
  <2>2. QED
    BY <1>6, <2>1
<1>14. \A u \in Threads :
          /\ op'[u] = op[u] \/ At(u) \in Pushes
          /\ Stmt(op'[u].todo) # "none" => op'[u].todo = op[u].todo
          /\ op'[u].ips \subseteq op[u].ips
          /\ op[u].ips \ {i} \subseteq op'[u].ips
          /\ op[u].late \ {i} \subseteq op'[u].late
          /\ i \in op'[u].ips => op'[u] = op[u]
  BY <1>1, <1>3, <1>8, <1>9
<1>15. i \in Ips
  BY <1>4
<1>16. QED
  BY <1>7, <1>10, <1>11, <1>12, <1>13, <1>14, <1>15, ToldKeeps, Zenon

(* What was still to push is lost with the process. *)
LEMMA RestartKeeps ==
    ASSUME IInv, Restart
    PROVE  IInv'
<1>1. \A u \in Threads : op'[u] = Idle
  BY DEF Restart
<1>2. op' \in [Threads -> HandlerType] /\ Handlers'
  <2>1. op' = [u \in Threads |-> op'[u]]
    BY DEF Restart
  <2>2. QED
    BY <1>1, <2>1, IdleIs, HandlersNext
<1>3. \A u \in Threads : Stmt(op'[u].todo) = "none"
  BY <1>1, IdleIs
<1>4. /\ astray \subseteq astray' /\ astray' \subseteq Ips
      /\ \A u \in Threads : Pushing(u) => op[u].ips \subseteq astray'
  <2>1. PICK P \in SUBSET Threads : P = {u \in Threads : Pushing(u)}
    BY Zenon
  <2>2. astray' = astray \cup UNION {op[u].ips : u \in P}
    BY <2>1, Zenon DEF Restart
  <2>3. \A u \in P : op[u].ips \subseteq Ips
    BY <2>1, HandlerFields DEF IInv, Typing
  <2>4. QED
    BY <2>1, <2>2, <2>3 DEF IInv, Typing
<1>5. UNCHANGED <<ip_reputation, damage, blocklist, agents, ghost>>
  BY DEF Restart
<1>6. Typing'
  BY <1>2, <1>4, <1>5 DEF IInv, Typing, TableTypeOK
<1>7. PushedIsListed'
  BY <1>3, AtIs DEF PushedIsListed
<1>8. AgentsFollowBlocklist'
  <2>1. SUFFICES ASSUME NEW ip \in Ips, ip \notin astray'
                 PROVE  ip \in agents' <=> blocklist'[ip] # {}
    BY Zenon DEF AgentsFollowBlocklist
  <2>2. QED
    BY <1>4, <1>5, <2>1 DEF IInv, AgentsFollowBlocklist
<1>9. ClearedIsClean' /\ ScoreHasEvents'
  BY <1>3, <1>5, ScoresKept DEF IInv
<1>10. QED
  BY <1>2, <1>6, <1>7, <1>8, <1>9 DEF IInv

-----------------------------------------------------------------------------
(***************************************************************************)
(* The invariant and what follows from it.                                 *)
(***************************************************************************)
(* Empty tables, agents that block nothing, and no handler at work. *)
LEMMA InitIInv == Init => IInv
<1>1. SUFFICES ASSUME Init PROVE IInv
  OBVIOUS
<1>2. \A t \in Threads : op[t] = Idle /\ At(t) = "none"
  BY <1>1, IdleIs DEF Init, At
<1>3. Typing
  <2>1. op \in [Threads -> HandlerType]
    BY <1>1, IdleIs DEF Init
  <2>2. QED
    BY <1>1, <2>1, ReputationAssumption DEF Init, TableInit, Typing, TableTypeOK
<1>4. Handlers
  BY <1>2, IdleIs DEF Handlers
<1>5. PushedIsListed /\ ClearedIsClean
  BY <1>2 DEF PushedIsListed, ClearedIsClean
<1>6. AgentsFollowBlocklist
  BY <1>1 DEF Init, AgentsFollowBlocklist
<1>7. ScoreHasEvents
  BY <1>1 DEF Init, TableInit, ScoreHasEvents, HasRow
<1>8. QED
  BY <1>3, <1>4, <1>5, <1>6, <1>7 DEF IInv

(* Every statement of a handler keeps the invariant, and every push. *)
LEMMA StatementKeeps ==
    ASSUME IInv, NEW t \in Threads, Statement(t)
    PROVE  IInv'
<1>1. CASE Doing(t, "sync") /\ Sync(t) /\ UNCHANGED agents
  BY <1>1, SyncKeeps
<1>2. CASE /\ \/ Doing(t, "select_low") /\ SelectLow(t)
              \/ Doing(t, "select_system") /\ SelectSystem(t)
           /\ UNCHANGED agents
  BY <1>2, SelectKeeps
<1>3. CASE Doing(t, "insert_low") /\ InsertLow(t) /\ UNCHANGED agents
  BY <1>3, InsertLowKeeps
<1>4. CASE /\ \/ Doing(t, "insert") /\ Insert(t)
              \/ Doing(t, "delete") /\ Delete(t)
           /\ UNCHANGED agents
  BY <1>4, SetRowsKeeps
<1>5. CASE Doing(t, "delete_reputation") /\ DeleteReputation(t) /\ UNCHANGED agents
  BY <1>5, DeleteReputationKeeps
<1>6. CASE Doing(t, "delete_events") /\ DeleteEvents(t) /\ UNCHANGED agents
  BY <1>6, DeleteEventsKeeps
<1>7. CASE Doing(t, "delete_system") /\ DeleteSystem(t) /\ UNCHANGED agents
  BY <1>7, DeleteSystemKeeps
<1>8. CASE \/ Doing(t, "push_block") /\ Push(t, TRUE)
           \/ Doing(t, "push_unblock") /\ Push(t, FALSE)
  BY <1>8, PushKeeps, Zenon
<1>9. QED
  BY <1>1, <1>2, <1>3, <1>4, <1>5, <1>6, <1>7, <1>8, Zenon DEF Statement

(* So does every step of the dashboard, the receiver and the feeds. *)
LEMMA NextIInv == IInv /\ [Next]_vars => IInv'
<1>1. SUFFICES ASSUME IInv, [Next]_vars PROVE IInv'
  OBVIOUS
<1>2. CASE ImportListed /\ UNCHANGED dashVars
  BY <1>1, <1>2, ImportKeeps
<1>3. CASE SyncAndAutoBlock
  BY <1>1, <1>3, SyncAndAutoBlockKeeps
<1>4. CASE \E t \in Clients : Request(t)
  BY <1>1, <1>4, RequestKeeps DEF Threads
<1>5. CASE \E t \in Threads : Statement(t)
  BY <1>1, <1>5, StatementKeeps
<1>6. CASE \E t \in Threads : StatementFails(t)
  BY <1>1, <1>6, StatementFailsKeeps
<1>7. CASE Restart
  BY <1>1, <1>7, RestartKeeps
<1>8. CASE \E ip \in Ips : \E batch \in Batches[ip] : EventsStored(ip, batch)
  BY <1>1, <1>8, EventsStoredKeeps
<1>9. CASE \E ip \in UserIps : BlockAgentIp(ip)
  BY <1>1, <1>9, ReputationAssumption, BlockAgentIpKeeps
<1>10. CASE \E ip \in UserIps : ApiBlockAgentIp(ip)
  BY <1>1, <1>10, ReputationAssumption, ApiBlockAgentIpKeeps
<1>11. CASE \E ip \in UserIps : \/ ApiChange(ip, blocklist[ip] \cup {"manual"})
                                \/ ApiChange(ip, {})
  <2>1. PICK ip \in Ips : \/ ApiChange(ip, blocklist[ip] \cup {"manual"})
                          \/ ApiChange(ip, {})
    BY <1>11, ReputationAssumption, Zenon
  <2>2. PICK rows \in SUBSET Sources : ApiChange(ip, rows)
    <3>1. blocklist[ip] \cup {"manual"} \in SUBSET Sources /\ {} \in SUBSET Sources
      BY <1>1 DEF IInv, Typing, Sources
    <3>2. QED
      BY <2>1, <3>1, Zenon
  <2>3. QED
    BY <1>1, <2>2, ApiChangeKeeps
<1>12. CASE UNCHANGED vars
  <2>1. UNCHANGED <<ip_reputation, damage, blocklist, agents, op, astray, ghost>>
    BY <1>12 DEF vars, dashVars
  <2>2. Typing' /\ Handlers'
    BY <1>1, <2>1 DEF IInv, Typing, TableTypeOK, Handlers
  <2>3. PushedIsListed' /\ AgentsFollowBlocklist'
    BY <1>1, <2>1, PushesKept DEF IInv
  <2>4. ClearedIsClean' /\ ScoreHasEvents'
    BY <1>1, <2>1, ScoresKept DEF IInv
  <2>5. QED
    BY <2>2, <2>3, <2>4 DEF IInv
<1>13. QED
  BY <1>1, <1>2, <1>3, <1>4, <1>5, <1>6, <1>7, <1>8, <1>9, <1>10, <1>11, <1>12, Zenon
     DEF Next

(* The inductive invariant holds, however the statements of the handlers,  *)
(* the feeds, the agents' events and restarts interleave.                  *)
THEOREM Invariance == Spec => []IInv
BY InitIInv, NextIInv, PTL DEF Spec

(* Every variable keeps its type: scores stay between 0 and 100, and a     *)
(* handler that pushes has something to push.                              *)
THEOREM TypeCorrect == Spec => []TypeOK
<1>1. IInv => TypeOK
  <2>1. SUFFICES ASSUME IInv PROVE TypeOK
    OBVIOUS
  <2>2. ASSUME NEW t \in Threads
        PROVE  /\ op[t].late \subseteq op[t].ips /\ op[t].ips \subseteq Ips
               /\ op[t].scope \subseteq Ips /\ op[t].synced \in BOOLEAN
               /\ Pushing(t) => op[t].ips # {}
               /\ ~Busy(t) => op[t] = Idle
    <3>1. op[t] \in HandlerType /\ Settled(op[t])
      BY <2>1 DEF IInv, Typing, Handlers
    <3>2. /\ op[t].ips \subseteq Ips /\ op[t].scope \subseteq Ips
          /\ op[t].synced \in BOOLEAN
      BY <3>1, HandlerFields, Zenon
    <3>3. QED
      BY <3>1, <3>2, AtIs, Zenon DEF Settled, Busy
  <2>3. QED
    BY <2>1, <2>2, Zenon DEF IInv, Typing, TypeOK
<1>2. QED
  BY <1>1, Invariance, PTL

(* Once its pushes are made an address is blocked by the agents exactly    *)
(* when the blocklist has a row of it, unless the agents were told wrong   *)
(* about it (pushBlocklistUpdateToAgents and its callers).                 *)
THEOREM AgentsFollow == Spec => []AgentsFollowBlocklist
<1>1. IInv => AgentsFollowBlocklist
  BY DEF IInv
<1>2. QED
  BY <1>1, Invariance, PTL

(* A local score is not lower than the recorded events account for, unless *)
(* a sync fell between the first two deletes of a clearing                 *)
(* (checkNewEventsAndNotify, clearReputation).                             *)
THEOREM ScoreFollowsEvents == Spec => []ScoreHasEvents
<1>1. IInv => ScoreHasEvents
  BY DEF IInv
<1>2. QED
  BY <1>1, Invariance, PTL
=============================================================================
