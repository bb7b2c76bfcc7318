----------------------------- MODULE EventStore -----------------------------
(***************************************************************************)
(* How the receiver fills the table events (process_agent_message of       *)
(* soc_receiver.c with db.c): it upserts the agent's row, then inserts the *)
(* events of the message one by one, each of which refers to that row.     *)
(* The dashboard removes agents meanwhile.  There is one connection to the *)
(* database, opened at start-up and never again.  Results are not looked   *)
(* at, and agents are not told.                                            *)
(***************************************************************************)
EXTENDS EventTable

VARIABLES
    agents,         \* the agent has a row in the table agents
    conn,           \* the connection is usable
    message,        \* events of the message in process still to insert
    removed         \* history: the row was deleted since the message's upsert

storeVars == <<agents, conn, message, removed>>

StoreInit ==
    /\ TableInit
    /\ agents = FALSE /\ conn = TRUE /\ message = 0 /\ removed = FALSE

(* Mutant: the row is only written when the agent registers. *)
ReceiveMessageQuietly(n) ==
    /\ message = 0 /\ nextId + n <= MaxId + 1
    /\ message' = n
    /\ removed' = FALSE
    /\ UNCHANGED <<events, nextId, agents, conn>>

(* A message with n events: db_update_agent_last_seen. *)
ReceiveMessage(n) ==
    /\ message = 0 /\ nextId + n <= MaxId + 1
    /\ agents' = (agents \/ conn)
    /\ message' = n
    /\ removed' = FALSE
    /\ UNCHANGED <<events, nextId, conn>>

(* Mutant: the id is not taken from a sequence. *)
DbInsertEventAfterMax ==
    /\ message > 0
    /\ message' = message - 1
    /\ IF conn
       THEN /\ nextId' = nextId + 1
            /\ events' = IF agents THEN events \cup {MaxEvent + 1} ELSE events
       ELSE UNCHANGED tableVars
    /\ UNCHANGED <<agents, conn, removed>>

(* db_insert_event. *)
DbInsertEvent ==
    /\ message > 0
    /\ message' = message - 1
    /\ IF conn
       THEN /\ nextId' = nextId + 1
            /\ events' = IF agents THEN events \cup {nextId} ELSE events
       ELSE UNCHANGED tableVars
    /\ UNCHANGED <<agents, conn, removed>>

(* deleteAgent of the dashboard; the events stay. *)
DeleteAgent ==
    /\ agents
    /\ agents' = FALSE
    /\ removed' = (message > 0)
    /\ UNCHANGED <<events, nextId, conn, message>>

(* The database closes the connection. *)
ConnectionLost ==
    /\ conn
    /\ conn' = FALSE
    /\ UNCHANGED <<events, nextId, agents, message, removed>>

(* The receiver is started again: db_init. *)
ReceiverRestarts ==
    /\ conn' = TRUE
    /\ message' = 0
    /\ removed' = FALSE
    /\ UNCHANGED <<events, nextId, agents>>

StoreStep ==
    \/ \E n \in 1 .. 2 : ReceiveMessage(n)
    \/ DbInsertEvent \/ DeleteAgent \/ ConnectionLost \/ ReceiverRestarts

StoreTypeOK ==
    /\ TableTypeOK
    /\ agents \in BOOLEAN /\ conn \in BOOLEAN /\ removed \in BOOLEAN
    /\ message \in 0 .. 2

(* An event the database is asked to insert is stored, unless the          *)
(* dashboard removed the agent while the message was in process            *)
(* (process_agent_message, db_insert_event and deleteAgent): a message     *)
(* itself sees to the row its events refer to, however often the agent was *)
(* removed before.                                                         *)
EventsAreStored ==
    [][nextId' # nextId => nextId \in events' \/ removed]_<<events, nextId, storeVars>>
=============================================================================
