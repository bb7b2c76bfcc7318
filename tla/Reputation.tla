----------------------------- MODULE Reputation -----------------------------
(***************************************************************************)
(* Reputation and blocklist of the SOC: the events of an address lower its *)
(* local score, the feeds its external one, and the scheduled job of       *)
(* NotificationService.java blocks an address whose score is low.          *)
(* DashboardController.java adds and removes rows and clears reputations   *)
(* meanwhile, and every change is pushed to the agents.                    *)
(*                                                                         *)
(* A handler is a sequence of SQL statements, each committed by itself,    *)
(* followed by pushes; statements of different threads interleave.  What   *)
(* the agents block is one set, changed when a push is sent: pushes reach  *)
(* the receiver and the agents in the order they are sent, or are lost.    *)
(* Entries are single addresses.                                           *)
(***************************************************************************)
EXTENDS ReputationTable

CONSTANTS
    Clients,        \* threads serving the dashboard's requests
    Scheduler,      \* the thread of checkNewEventsAndNotify
    Batches,        \* [Ips -> sets of batches]: severities of the events
                    \* about an address that an agent sends at once
    UserIps,        \* bound: the addresses users name in their requests
    MaxDamage       \* bound on the weight of the recorded events

ASSUME ReputationAssumption ==
    /\ Scheduler \notin Clients
    /\ UserIps \subseteq Ips
    /\ \A ip \in Ips : \A batch \in Batches[ip] : batch \in Seq(0 .. 2)
    /\ MaxDamage \in Nat

VARIABLES
    damage,         \* [Ips -> Nat], the weight of the events of an address
    blocklist,      \* [Ips -> SUBSET Sources], the sources of its rows
    agents,         \* the addresses the agents block
    op,             \* [Threads -> statements still to do, and their data]
    astray,         \* history: addresses the agents were told wrong about
    ghost           \* history: a sync fell into the clearing of an address

dashVars == <<damage, blocklist, agents, op, astray, ghost>>
vars == <<ip_reputation, dashVars>>

Sources == {"manual", "system"}
Threads == Clients \cup {Scheduler}

(* todo: statements; ips: the addresses to push; late: those of them whose *)
(* rows were changed by someone else after this handler's own statement;   *)
(* scope: what a clearing is about; synced: a sync ran since               *)
(* delete_reputation.                                                      *)
Handler(todo, ips, scope) ==
    [todo |-> todo, ips |-> ips, late |-> {}, scope |-> scope, synced |-> FALSE]
Idle == Handler(<<>>, {}, {})

Busy(t) == op[t].todo # <<>>
Doing(t, statement) == Busy(t) /\ Head(op[t].todo) = statement
Pushing(t) == Doing(t, "push_block") \/ Doing(t, "push_unblock")

Weight(severity) == CASE severity = 2 -> 25 [] severity = 1 -> 15 [] OTHER -> 5
WeightOf(batch) ==
    LET Events(severity) == {i \in DOMAIN batch : batch[i] = severity}
        Share(severity) == Weight(severity) * Cardinality(Events(severity))
    IN Share(0) + Share(1) + Share(2)

Low(ip) == HasRow(ip) /\ ip_reputation[ip].score <= 20

(* Mutant: a score of 20 is not low enough. *)
ToBlockUnder == {ip \in Ips : /\ Low(ip) /\ ip_reputation[ip].score < 20
                              /\ blocklist[ip] = {}}

(* The condition of both auto-block statements. *)
ToBlock == {ip \in Ips : Low(ip) /\ blocklist[ip] = {}}
SystemBlocked == {ip \in Ips : "system" \in blocklist[ip]}

Init ==
    /\ TableInit
    /\ damage = [ip \in Ips |-> 0]
    /\ blocklist = [ip \in Ips |-> {}]
    /\ agents = {} /\ astray = {} /\ ghost = {}
    /\ op = [t \in Threads |-> Idle]

-----------------------------------------------------------------------------
(* The events of an agent's message (db_insert_event). *)
EventsStored(ip, batch) ==
    /\ damage[ip] + WeightOf(batch) <= MaxDamage
    /\ damage' = [damage EXCEPT ![ip] = @ + WeightOf(batch)]
    /\ UNCHANGED <<ip_reputation, blocklist, agents, op, astray, ghost>>

(* The handlers, by the statements they execute. *)
Begin(t, todo, ips, scope) ==
    /\ ~Busy(t)
    /\ op' = [op EXCEPT ![t] = Handler(todo, ips, scope)]
    /\ UNCHANGED <<ip_reputation, damage, blocklist, agents, astray, ghost>>

AddBlocklist(t, ip) == Begin(t, <<"insert", "push_block">>, {ip}, {})

(* Mutant: the agents are not told. *)
RemoveBlocklistSilently(t, ip) == Begin(t, <<"delete">>, {ip}, {})

RemoveBlocklist(t, ip) == Begin(t, <<"delete", "push_unblock">>, {ip}, {})

(* Mutant: the scores of an address survive its clearing. *)
ClearReputationKeepScores(t, ip) ==
    Begin(t, <<"delete_events", "delete_system", "push_unblock">>, {ip}, {ip})

ClearReputation(t, ip) ==
    Begin(t, <<"delete_reputation", "delete_events", "delete_system",
               "push_unblock">>, {ip}, {ip})

ClearAllReputation(t) ==
    Begin(t, <<"select_system", "delete_reputation", "delete_events",
               "delete_system", "push_unblock">>, {}, Ips)

(* checkNewEventsAndNotify when 30 seconds have passed; the rest of the    *)
(* method is in Notification.                                              *)
SyncAndAutoBlock ==
    Begin(Scheduler, <<"sync", "select_low", "insert_low", "push_block">>, {}, {})

-----------------------------------------------------------------------------
(* What t has left to do, with the addresses ips still to push. *)
Proceed(t, ips) ==
    LET rest == Tail(op[t].todo)
    IN IF rest = <<>> \/ (Len(rest) = 1 /\ ips = {}) THEN Idle
       ELSE [op[t] EXCEPT !.todo = rest, !.ips = ips]

(* The rows of S are changed by others than t: t's push of them, if it is  *)
(* due, is late.                                                           *)
Late(t, S) == IF Pushing(t) THEN [op[t] EXCEPT !.late = @ \cup (S \cap op[t].ips)]
              ELSE op[t]
Overtaken(S) == [t \in Threads |-> Late(t, S)]

(* The upsert of the local scores, for the addresses that have events. *)
Synced(ip) ==
    LET local == GREATEST(0, 100 - damage[ip])
        external == IF HasRow(ip) THEN ip_reputation[ip].external_score ELSE 100
    IN IF damage[ip] = 0 THEN ip_reputation[ip]
       ELSE [local_score |-> local, external_score |-> external,
             score |-> LEAST(local, external)]

Sync(t) ==
    /\ ip_reputation' = [ip \in Ips |-> Synced(ip)]
    /\ op' = [u \in Threads |->
                IF u = t THEN [op[u] EXCEPT !.todo = Tail(@)]
                ELSE [op[u] EXCEPT !.synced =
                        @ \/ Doing(u, "delete_events")]]
    /\ UNCHANGED <<damage, blocklist, astray, ghost>>

(* ipsToBlock; nothing more is done when it is empty. *)
SelectLow(t) ==
    /\ op' = [op EXCEPT ![t] = IF ToBlock = {} THEN Idle ELSE Proceed(t, ToBlock)]
    /\ UNCHANGED <<ip_reputation, damage, blocklist, astray, ghost>>

(* The second statement evaluates the condition again: an address that     *)
(* meets it only now gets a row and is not pushed, one that has a row or a *)
(* better score by now is pushed all the same.                             *)
InsertLow(t) ==
    /\ blocklist' = [ip \in Ips |-> IF ip \in ToBlock THEN {"system"}
                                    ELSE blocklist[ip]]
    /\ astray' = astray \cup (ToBlock \ op[t].ips)
    /\ op' = [Overtaken(ToBlock) EXCEPT
                ![t] = [Proceed(t, op[t].ips) EXCEPT !.late = op[t].ips \ ToBlock]]
    /\ UNCHANGED <<ip_reputation, damage, ghost>>

(* INSERT of a manual row, and DELETE of all rows, of the one address. *)
SetRows(t, rows) ==
    /\ blocklist' = [ip \in Ips |-> IF ip \in op[t].ips THEN rows[ip]
                                    ELSE blocklist[ip]]
    /\ op' = [Overtaken(op[t].ips) EXCEPT ![t] = Proceed(t, op[t].ips)]
    /\ UNCHANGED <<ip_reputation, damage, astray, ghost>>

Insert(t) == SetRows(t, [ip \in Ips |-> blocklist[ip] \cup {"manual"}])
Delete(t) == SetRows(t, [ip \in Ips |-> {}])

(* autoBlockedIps of clearReputation without an address. *)
SelectSystem(t) ==
    /\ op' = [op EXCEPT ![t] = Proceed(t, SystemBlocked)]
    /\ UNCHANGED <<ip_reputation, damage, blocklist, astray, ghost>>

DeleteReputation(t) ==
    /\ ip_reputation' = [ip \in Ips |-> IF ip \in op[t].scope THEN NoRow
                                        ELSE ip_reputation[ip]]
    /\ ghost' = ghost \ op[t].scope
    /\ op' = [op EXCEPT ![t] = Proceed(t, op[t].ips)]
    /\ UNCHANGED <<damage, blocklist, astray>>

DeleteEvents(t) ==
    /\ damage' = [ip \in Ips |-> IF ip \in op[t].scope THEN 0 ELSE damage[ip]]
    /\ ghost' = IF op[t].synced THEN ghost \cup op[t].scope ELSE ghost
    /\ op' = [op EXCEPT ![t] = [Proceed(t, op[t].ips) EXCEPT !.synced = FALSE]]
    /\ UNCHANGED <<ip_reputation, blocklist, astray>>

(* An address that loses its row without being listed is not pushed. *)
DeleteSystem(t) ==
    LET emptied == SystemBlocked \cap op[t].scope
    IN /\ blocklist' = [ip \in Ips |-> IF ip \in emptied
                                       THEN blocklist[ip] \ {"system"}
                                       ELSE blocklist[ip]]
       /\ astray' = astray \cup (emptied \ op[t].ips)
       /\ op' = [Overtaken(emptied \cup op[t].ips) EXCEPT
                   ![t] = [Proceed(t, op[t].ips) EXCEPT !.scope = {}]]
       /\ UNCHANGED <<ip_reputation, damage, ghost>>

(* One call of pushBlocklistUpdateToAgents: it arrives, or no agent was    *)
(* seen for 30 seconds, the receiver is down or does not reach the agent,  *)
(* and it is not tried again.  It tells the agents what the rows say if    *)
(* it is not late and no row is left of what is unblocked.                 *)
Push(t, block) ==
    /\ \E ip \in op[t].ips :
        /\ op' = [op EXCEPT ![t] = IF op[t].ips = {ip} THEN Proceed(t, {})
                                   ELSE [op[t] EXCEPT !.ips = op[t].ips \ {ip},
                                                      !.late = op[t].late \ {ip}]]
        /\ \/ /\ agents' = IF block THEN agents \cup {ip} ELSE agents \ {ip}
              /\ astray' = IF ip \notin op[t].late /\ (block \/ blocklist[ip] = {})
                           THEN astray \ {ip} ELSE astray \cup {ip}
           \/ /\ UNCHANGED agents
              /\ astray' = astray \cup {ip}
    /\ UNCHANGED <<ip_reputation, damage, blocklist, ghost>>

Statement(t) ==
    \/ /\ \/ Doing(t, "sync") /\ Sync(t)
          \/ Doing(t, "select_low") /\ SelectLow(t)
          \/ Doing(t, "insert_low") /\ InsertLow(t)
          \/ Doing(t, "insert") /\ Insert(t)
          \/ Doing(t, "delete") /\ Delete(t)
          \/ Doing(t, "select_system") /\ SelectSystem(t)
          \/ Doing(t, "delete_reputation") /\ DeleteReputation(t)
          \/ Doing(t, "delete_events") /\ DeleteEvents(t)
          \/ Doing(t, "delete_system") /\ DeleteSystem(t)
       /\ UNCHANGED agents
    \/ Doing(t, "push_block") /\ Push(t, TRUE)
    \/ Doing(t, "push_unblock") /\ Push(t, FALSE)

(* A statement fails: the rest of its handler is not executed, but a sync  *)
(* that fails is only logged.                                              *)
StatementFails(t) ==
    /\ Busy(t) /\ ~Pushing(t)
    /\ op' = [op EXCEPT ![t] = IF Doing(t, "sync")
                               THEN [op[t] EXCEPT !.todo = Tail(op[t].todo)]
                               ELSE Idle]
    /\ UNCHANGED <<ip_reputation, damage, blocklist, agents, astray, ghost>>

(* The dashboard is restarted: what it had still to push is forgotten. *)
Restart ==
    /\ astray' = astray \cup UNION {op[t].ips : t \in {u \in Threads : Pushing(u)}}
    /\ op' = [t \in Threads |-> Idle]
    /\ UNCHANGED <<ip_reputation, damage, blocklist, agents, ghost>>

(* blockAgentIp of the dashboard: a command for an agent, and no row. *)
BlockAgentIp(ip) ==
    /\ agents' = agents \cup {ip}
    /\ astray' = astray \cup {ip}
    /\ UNCHANGED <<ip_reputation, damage, blocklist, op, ghost>>

(* POST and DELETE /api/v2/blocklist of the receiver: rows, and no push. *)
ApiChange(ip, rows) ==
    /\ blocklist' = [blocklist EXCEPT ![ip] = rows]
    /\ op' = Overtaken({ip})
    /\ astray' = astray \cup {ip}
    /\ UNCHANGED <<ip_reputation, damage, agents, ghost>>

(* POST /api/v2/agents/.../block-ip of the receiver: a row and a command. *)
ApiBlockAgentIp(ip) ==
    /\ blocklist' = [blocklist EXCEPT ![ip] = @ \cup {"manual"}]
    /\ op' = Overtaken({ip})
    /\ \/ agents' = agents \cup {ip} /\ astray' = astray \ {ip}
       \/ UNCHANGED agents /\ astray' = astray \cup {ip}
    /\ UNCHANGED <<ip_reputation, damage, ghost>>

Request(t) ==
    \/ \E ip \in UserIps : AddBlocklist(t, ip) \/ RemoveBlocklist(t, ip)
                       \/ ClearReputation(t, ip)
    \/ ClearAllReputation(t)

Next ==
    \/ ImportListed /\ UNCHANGED dashVars
    \/ SyncAndAutoBlock
    \/ \E t \in Clients : Request(t)
    \/ \E t \in Threads : Statement(t) \/ StatementFails(t)
    \/ Restart
    \/ \E ip \in Ips : \E batch \in Batches[ip] : EventsStored(ip, batch)
    \/ \E ip \in UserIps :
         \/ BlockAgentIp(ip)
         \/ ApiBlockAgentIp(ip)
         \/ ApiChange(ip, blocklist[ip] \cup {"manual"})
         \/ ApiChange(ip, {})

(* The job is scheduled, and its thread goes on. *)
Fairness == WF_op(SyncAndAutoBlock) /\ WF_op(Statement(Scheduler))

Spec == Init /\ [][Next]_vars /\ Fairness

-----------------------------------------------------------------------------

(* Type invariant: scores stay between 0 and 100 whatever the events weigh, *)
(* and a handler that pushes has something to push.                        *)
TypeOK ==
    /\ TableTypeOK
    /\ damage \in [Ips -> 0 .. MaxDamage]
    /\ blocklist \in [Ips -> SUBSET Sources]
    /\ agents \subseteq Ips
    /\ \A t \in Threads :
         /\ op[t].late \subseteq op[t].ips /\ op[t].ips \subseteq Ips
         /\ op[t].scope \subseteq Ips /\ op[t].synced \in BOOLEAN
         /\ Pushing(t) => op[t].ips # {}
         /\ ~Busy(t) => op[t] = Idle
    /\ astray \subseteq Ips /\ ghost \subseteq Ips

(* The agents block what the blocklist lists.  It is so for an address     *)
(* once its pushes are made, however the requests, the scheduled job and   *)
(* the receiver's API interleave, except where the code does not tell the  *)
(* agents or tells them too late: a push is lost or forgotten by a         *)
(* restart, a handler is overtaken between its statement and its push      *)
(* (pushBlocklistUpdateToAgents), an address falls under the condition     *)
(* between the select and the insert of the auto-block or is blocked       *)
(* between the select and the delete of clearReputation, an unblocked      *)
(* address has a manual row left, or the request does not push at all.     *)
AgentsFollowBlocklist ==
    \A ip \in Ips :
        \/ \E t \in Threads : Pushing(t) /\ ip \in op[t].ips
        \/ ip \in astray
        \/ ip \in agents <=> blocklist[ip] # {}

(* No address is given a local score below what its recorded events weigh: *)
(* a score does not outlive the events it came from.  The exception is a   *)
(* clearing into which the sync fell, between its first two deletes: that  *)
(* row comes back without events, and nothing raises it again              *)
(* (clearReputation and checkNewEventsAndNotify).                          *)
ScoreHasEvents ==
    \A ip \in Ips \ ghost :
        HasRow(ip) => ip_reputation[ip].local_score >= GREATEST(0, 100 - damage[ip])

(* The scheduled job is cut short, by a statement that fails or a restart, *)
(* before it has inserted what it selected.                                *)
CutShort ==
    /\ \E statement \in {"sync", "select_low", "insert_low"} : Doing(Scheduler, statement)
    /\ op'[Scheduler] = Idle

(* Unless it is cut short for ever, the scheduled job keeps up with the    *)
(* feeds, the events and what the users remove: again and again there is a *)
(* moment when every address with a low score is on the blocklist          *)
(* (checkNewEventsAndNotify).                                              *)
LowIsBlocked ==
    []<><<CutShort>>_vars \/ []<>(\A ip \in Ips : Low(ip) => blocklist[ip] # {})
=============================================================================
