---------------------------- MODULE Notification ----------------------------
(***************************************************************************)
(* NotificationService.java publishes every new event once: a scheduled    *)
(* job reads the events above lastProcessedId, in batches, hands each to   *)
(* the listener that sends it to the live followers                        *)
(* (DashboardController.handleNewEvent), and saves the cursor in the       *)
(* config table for the next start.  Queries fail one by one, and the      *)
(* dashboard is restarted at any point.                                    *)
(*                                                                         *)
(* The scheduler has one thread, so the job and checkEmitterHealth do not  *)
(* overlap.  The first part of the job, every 30 seconds, is in            *)
(* Reputation.  A mail is sent with a publication and has no other effect. *)
(***************************************************************************)
EXTENDS EventTable, Sequences

CONSTANTS
    Limit,          \* LIMIT of the query for new events (10)
    Clients,        \* browsers that follow /events/live
    NoRow           \* last_notified_event_id is not in config

ASSUME NotificationAssumption == Limit \in Nat \ {0} /\ NoRow \notin 0 .. MaxId

VARIABLES
    config,         \* the saved cursor, or NoRow
    lastProcessedId,
    pc, batch,      \* where the job is, and the events it has still to publish
    emitters,       \* clients in the list emitters
    broken,         \* clients of it whose connection is gone
    tasks,          \* <<client, event>> sends given to other threads
    deadEmitters,   \* of the running handleNewEvent
    got,            \* [Clients -> what the client received since it connected]
    due,            \* history: what was published since it connected
    slow,           \* history: clients a handler did not wait for
    published,      \* history: events published, ever
    live,           \* history: events published since the start
    skipped,        \* history: events a start passed over
    outage          \* history: this start could not read the database

cursorVars == <<config, lastProcessedId, published, live, skipped, outage>>
sseVars == <<emitters, broken, tasks, deadEmitters, got, due, slow>>
vars == <<events, nextId, cursorVars, pc, batch, sseVars>>

Nothing == [c \in Clients |-> <<>>]
NoEvents == [c \in Clients |-> {}]

Init ==
    /\ TableInit
    /\ config = NoRow /\ lastProcessedId = -1
    /\ published = {} /\ live = {} /\ skipped = {} /\ outage = FALSE
    /\ pc = "idle" /\ batch = {}
    /\ emitters = {} /\ broken = {} /\ tasks = {} /\ deadEmitters = {}
    /\ got = Nothing /\ due = NoEvents /\ slow = {}

-----------------------------------------------------------------------------
(* saveConfig: what config holds after it; a failure is only printed. *)
SaveConfig(id) == config' \in {config, id}

(* getConfigString("last_notified_event_id", "0"): a missing row is saved  *)
(* as 0.                                                                   *)
ReadCursor ==
    /\ pc = "idle" /\ lastProcessedId = -1
    /\ IF config = NoRow
       THEN SaveConfig(0) /\ lastProcessedId' = 0
       ELSE UNCHANGED config /\ lastProcessedId' = config
    /\ pc' = "max"
    /\ UNCHANGED <<tableVars, published, live, skipped, outage, batch, sseVars>>

(* 0 is also the answer when the query fails. *)
ReadCursorFails ==
    /\ pc = "idle" /\ lastProcessedId = -1
    /\ lastProcessedId' = 0
    /\ outage' = TRUE
    /\ pc' = "max"
    /\ UNCHANGED <<tableVars, config, published, live, skipped, batch, sseVars>>

(* The cursor is above the table when events were deleted, and 0 when none *)
(* was saved: old events are not published then.                           *)
StartCursor(max) ==
    IF lastProcessedId > max \/ lastProcessedId = 0 THEN max ELSE lastProcessedId

QueryMax ==
    /\ pc = "max"
    /\ LET start == StartCursor(MaxEvent)
       IN /\ lastProcessedId' = start
          /\ IF lastProcessedId > MaxEvent \/ lastProcessedId = 0
             THEN SaveConfig(start) ELSE UNCHANGED config
          /\ skipped' = IF lastProcessedId = 0
                        THEN skipped \cup (events \ published) ELSE skipped
    /\ pc' = "poll"
    /\ UNCHANGED <<tableVars, published, live, outage, batch, sseVars>>

(* The exception leaves the job; lastProcessedId stays set. *)
QueryMaxFails ==
    /\ pc = "max"
    /\ pc' = "idle"
    /\ outage' = TRUE
    /\ UNCHANGED <<tableVars, config, lastProcessedId, published, live, skipped,
                   batch, sseVars>>

(* Mutant: the newest events come first. *)
newEventsDescending ==
    LET new == {e \in events : e > lastProcessedId}
    IN new \ Oldest(new, Cardinality(new) - Limit)

(* Mutant: the query takes the event under the cursor again. *)
newEventsAgain == Oldest({e \in events : e >= lastProcessedId}, Limit)

newEvents == Oldest({e \in events : e > lastProcessedId}, Limit)

(* Mutant: the query is made once, after the start. *)
PollAtStart ==
    /\ pc = "poll"
    /\ batch' = newEvents
    /\ pc' = IF newEvents = {} THEN "idle" ELSE "publish"
    /\ UNCHANGED <<tableVars, cursorVars, sseVars>>

Poll ==
    /\ pc = "poll" \/ (pc = "idle" /\ lastProcessedId # -1)
    /\ batch' = newEvents
    /\ pc' = IF newEvents = {} THEN "idle" ELSE "publish"
    /\ UNCHANGED <<tableVars, cursorVars, sseVars>>

PollFails ==
    /\ pc = "poll"
    /\ pc' = "idle"
    /\ UNCHANGED <<tableVars, cursorVars, batch, sseVars>>

(* publishEvent calls handleNewEvent, which gives one send per follower to *)
(* other threads.                                                          *)
Publish ==
    /\ pc = "publish"
    /\ LET e == Min(batch)
       IN /\ tasks' = tasks \cup {<<c, e>> : c \in emitters}
          /\ due' = [c \in Clients |-> IF c \in emitters \ broken
                                       THEN due[c] \cup {e} ELSE due[c]]
          /\ published' = published \cup {e}
          /\ live' = live \cup {e}
    /\ deadEmitters' = {}
    /\ pc' = "await"
    /\ UNCHANGED <<tableVars, config, lastProcessedId, skipped, outage, batch,
                   emitters, broken, got, slow>>

(* A send succeeds, or fails and puts the client on the list of the        *)
(* handler that started it, if that one still runs.                        *)
Send(c, e) ==
    /\ <<c, e>> \in tasks
    /\ tasks' = tasks \ {<<c, e>>}
    /\ \/ /\ c \in emitters \ broken
          /\ got' = [got EXCEPT ![c] = @ \o <<e>>]
          /\ UNCHANGED deadEmitters
       \/ /\ c \notin emitters \ broken
          /\ deadEmitters' = IF pc = "await" /\ Min(batch) = e
                             THEN deadEmitters \cup {c} ELSE deadEmitters
          /\ UNCHANGED got
    /\ UNCHANGED <<tableVars, cursorVars, pc, batch, emitters, broken, due, slow>>

(* The clients whose sends the latch still counts. *)
Waiting == {c \in Clients : <<c, Min(batch)>> \in tasks}

(* Mutant: the handler does not wait for the sends. *)
AwaitNot == UNCHANGED slow

(* The latch is open, or 5 seconds have passed. *)
Await == slow' = slow \cup Waiting

(* The handler ends, and the event is behind the cursor. *)
HandlerEnds ==
    /\ pc = "await"
    /\ Await
    /\ emitters' = emitters \ deadEmitters
    /\ deadEmitters' = {}
    /\ lastProcessedId' = Min(batch)
    /\ batch' = batch \ {Min(batch)}
    /\ pc' = IF batch' = {} THEN "save" ELSE "publish"
    /\ UNCHANGED <<tableVars, config, published, live, skipped, outage, broken,
                   tasks, got, due>>

Save ==
    /\ pc = "save"
    /\ SaveConfig(lastProcessedId)
    /\ pc' = "idle"
    /\ UNCHANGED <<tableVars, lastProcessedId, published, live, skipped, outage,
                   batch, sseVars>>

-----------------------------------------------------------------------------
(* liveEvents, with a valid token. *)
LiveEvents(c) ==
    /\ c \notin emitters /\ \A e \in Ids : <<c, e>> \notin tasks
    /\ emitters' = emitters \cup {c}
    /\ broken' = broken \ {c}
    /\ slow' = slow \ {c}
    /\ UNCHANGED <<tableVars, cursorVars, pc, batch, tasks, deadEmitters, got, due>>

(* The connection of a follower breaks. *)
Breaks(c) ==
    /\ c \in emitters \ broken
    /\ broken' = broken \cup {c}
    /\ got' = [got EXCEPT ![c] = <<>>]
    /\ due' = [due EXCEPT ![c] = {}]
    /\ UNCHANGED <<tableVars, cursorVars, pc, batch, emitters, tasks,
                   deadEmitters, slow>>

(* onCompletion, onTimeout or onError, called by the container. *)
Removed(c) ==
    /\ c \in emitters
    /\ emitters' = emitters \ {c}
    /\ got' = [got EXCEPT ![c] = <<>>]
    /\ due' = [due EXCEPT ![c] = {}]
    /\ UNCHANGED <<tableVars, cursorVars, pc, batch, broken, tasks,
                   deadEmitters, slow>>

checkEmitterHealth ==
    /\ pc = "idle"
    /\ emitters' = emitters \ broken
    /\ UNCHANGED <<tableVars, cursorVars, pc, batch, broken, tasks,
                   deadEmitters, got, due, slow>>

(* The dashboard dies and is started again. *)
Restart ==
    /\ lastProcessedId' = -1 /\ pc' = "idle" /\ batch' = {}
    /\ live' = {} /\ outage' = FALSE
    /\ emitters' = {} /\ broken' = {} /\ tasks' = {} /\ deadEmitters' = {}
    /\ got' = Nothing /\ due' = NoEvents /\ slow' = {}
    /\ UNCHANGED <<tableVars, config, published, skipped>>

TableStep == (InsertEvent \/ DeleteEvents) /\ UNCHANGED <<cursorVars, pc, batch, sseVars>>

(* checkNewEventsAndNotify, step by step. *)
Job == ReadCursor \/ QueryMax \/ Poll \/ Publish \/ HandlerEnds \/ Save
Fault == ReadCursorFails \/ QueryMaxFails \/ PollFails \/ Restart

Next ==
    \/ TableStep
    \/ Job \/ Fault
    \/ checkEmitterHealth
    \/ \E c \in Clients : \/ LiveEvents(c) \/ Breaks(c) \/ Removed(c)
                          \/ \E e \in Ids : Send(c, e)

(* The scheduler's thread goes on and runs the job again and again. *)
Fairness == WF_pc(Job)

Spec == Init /\ [][Next]_vars /\ Fairness

-----------------------------------------------------------------------------

(* Type invariant: a poll takes at most Limit events and is done with them *)
(* before the next one.                                                    *)
TypeOK ==
    /\ TableTypeOK
    /\ config \in 0 .. MaxId \cup {NoRow}
    /\ lastProcessedId \in -1 .. MaxId
    /\ pc \in {"idle", "max", "poll", "publish", "await", "save"}
    /\ batch \subseteq 1 .. nextId - 1 /\ Cardinality(batch) <= Limit
    /\ pc \in {"publish", "await"} <=> batch # {}
    /\ emitters \subseteq Clients /\ broken \subseteq Clients
    /\ tasks \subseteq Clients \X live
    /\ deadEmitters \subseteq Clients /\ slow \subseteq Clients
    /\ \A c \in Clients : got[c] \in Seq(live) /\ due[c] \subseteq live
    /\ live \subseteq published /\ outage \in BOOLEAN

(* The cursor passes over no event: whatever is in the table at or below   *)
(* lastProcessedId was published, by this life of the dashboard or an      *)
(* earlier one.  The exception is what a start finds when the cursor it    *)
(* reads is 0, because none was saved or because the query failed: these   *)
(* events are never published (checkNewEventsAndNotify).                   *)
NothingPassedOver ==
    pc # "max" => \A e \in events : e <= lastProcessedId => e \in published \cup skipped

(* An event is published once in a life of the dashboard.  A later life    *)
(* publishes it again only if the cursor was not saved behind it, or if it *)
(* could not read the database when it started.                            *)
PublishedOnce ==
    pc = "publish" =>
        /\ Min(batch) \notin live
        /\ Min(batch) \in published => outage \/ Min(batch) > config

(* A follower gets what is published while it is connected, every event    *)
(* once and in the order of the ids, although each send runs in a thread   *)
(* of its own: handleNewEvent waits for the sends of one event before the  *)
(* next one is published.  This does not hold for a follower it stopped    *)
(* waiting for.                                                            *)
FollowedInOrder ==
    \A c \in emitters \ (broken \cup slow) :
        /\ \A i \in 1 .. Len(got[c]) - 1 : got[c][i] < got[c][i + 1]
        /\ due[c] = {got[c][i] : i \in DOMAIN got[c]}
                    \cup {e \in Ids : <<c, e>> \in tasks}

(* Unless the dashboard is restarted or its queries fail for ever, every   *)
(* event is taken care of: again and again a moment comes when all events  *)
(* in the table were published or passed over by a start                   *)
(* (checkNewEventsAndNotify).                                              *)
EventsAreNotified ==
    []<><<Fault>>_vars \/ []<>(events \subseteq published \cup skipped)
=============================================================================
