---------------------------- MODULE SocReceiver -----------------------------
(***************************************************************************)
(* The connections of the SOC receiver (soc-server/soc_receiver.c): one    *)
(* epoll loop serves the agents, the browsers and the dashboard's local    *)
(* commands, keeps a registry of the agents' connections and a table of    *)
(* the browsers that follow the live events.                               *)
(*                                                                         *)
(* A descriptor is closed and given out again, lowest first.  The heap     *)
(* object of a connection is named by its descriptor; an event of the      *)
(* current batch whose object has been freed in the meantime is marked     *)
(* freed, and reading it ends the model ("undefined"), as does writing     *)
(* live events into a connection that is none of the followers             *)
(* ("misdirected") and SIGPIPE ("killed").  A batch lists connections      *)
(* only: a listening socket is ready whenever somebody comes, so accepting *)
(* fits between any two events.  The database is left out here.            *)
(***************************************************************************)
EXTENDS Integers, FiniteSetsExt

CONSTANTS
    Agents, None,
    Fds,            \* the descriptors of connections, numbers
    AgentSlots,     \* 1 .. MAX_CONNECTED_AGENTS
    SseSlots        \* 1 .. MAX_SSE_CLIENTS

ASSUME SocReceiverConstants ==
    /\ None \notin Agents /\ None \notin Fds
    /\ Fds \subseteq Nat /\ AgentSlots \subseteq Nat /\ SseSlots \subseteq Nat

VARIABLES
    status,             \* "running", or how the process ended
    sock,               \* [Fds -> connection], with its object
    connected_agents,   \* [AgentSlots -> Fds \cup {None}]
    sse_clients,        \* [SseSlots -> Fds \cup {None}]
    batch,              \* events of the last epoll_wait not yet handled
    h                   \* history, see below

vars == <<status, sock, connected_agents, sse_clients, batch, h>>

(* owner: the agent at the other end; peer: up, gone (its end is closed)   *)
(* or silent (dead, and the receiver has not been told); in: something has *)
(* arrived, and what it is shows when it is read; epoll: watched; header,  *)
(* uuid: header_received, hdr.agent_uuid;                                  *)
(* latest: nothing was read of its agent after its last message; listed:   *)
(* it got a slot in connected_agents or sse_clients.                       *)
NoSock == [kind |-> "closed", owner |-> None, peer |-> "gone", in |-> FALSE,
           epoll |-> FALSE, header |-> FALSE, uuid |-> None, latest |-> FALSE,
           listed |-> FALSE]

Open(f) == sock[f].kind # "closed"
ClosedFds == {f \in Fds : ~Open(f)}

(* Requests of a browser: the live events with the exact path or with a    *)
(* query behind it, a command for an agent, anything else.  Without a      *)
(* valid session only the first is not answered like anything else.        *)
Requests ==
    [path : {"live"}, auth : BOOLEAN, agent : {None}]
    \cup [path : {"live?", "other"}, auth : {TRUE}, agent : {None}]
    \cup [path : {"command"}, auth : {TRUE}, agent : Agents]

(* query: entries of sse_clients whose browser had a query in its path;    *)
(* missed: a command for an agent was not written to its connection        *)
(* although that had got a slot and the agent was last heard on it.        *)
Init ==
    /\ status = "running"
    /\ sock = [f \in Fds |-> NoSock]
    /\ connected_agents = [i \in AgentSlots |-> None]
    /\ sse_clients = [i \in SseSlots |-> None]
    /\ batch = {}
    /\ h = [query |-> {}, missed |-> FALSE]

-----------------------------------------------------------------------------
(***************************************************************************)
(* The tables.  The first free slot is taken; without one nothing happens. *)
(***************************************************************************)
FreeSlots(table) == {i \in DOMAIN table : table[i] = None}

Added(table, fd) ==
    IF FreeSlots(table) = {} THEN table
    ELSE [table EXCEPT ![Min(FreeSlots(table))] = fd]

(* unregister_connected_agent and sse_remove: the first slot with fd. *)
Removed(table, fd) ==
    LET S == {i \in DOMAIN table : table[i] = fd}
    IN IF S = {} THEN table ELSE [table EXCEPT ![Min(S)] = None]

(* The object of every descriptor in S is freed under the batch. *)
Freed(B, S) == {[e EXCEPT !.freed = @ \/ e.fd \in S] : e \in B}

Closed(S) == [f \in Fds |-> IF f \in S THEN NoSock ELSE sock[f]]

(* s is the connection fd after reading; what is in S is closed. *)
Heard(fd, s, S) ==
    [f \in Fds |-> IF f = fd THEN s
                   ELSE IF f \in S THEN NoSock
                   ELSE IF sock[f].owner = s.owner THEN [sock[f] EXCEPT !.latest = FALSE]
                   ELSE sock[f]]

-----------------------------------------------------------------------------
(***************************************************************************)
(* send_command_to_agent: the first registered connection whose header     *)
(* named the agent.  A write to a peer that is gone may raise SIGPIPE,     *)
(* which the receiver does not ignore.                                     *)
(***************************************************************************)
Candidates(u) ==
    {i \in AgentSlots : connected_agents[i] # None /\ sock[connected_agents[i]].uuid = u}

CommandFd(u) ==
    IF Candidates(u) = {} THEN None ELSE connected_agents[Min(Candidates(u))]

Speaks(f, u) ==
    sock[f].owner = u /\ sock[f].peer = "up" /\ sock[f].latest /\ sock[f].listed

StatusAfterWrite(f) ==
    IF f # None /\ sock[f].peer = "gone" THEN {"running", "killed"} ELSE {"running"}

Commanded(u) ==
    [h EXCEPT !.missed = @ \/ \E f \in Fds : Speaks(f, u) /\ CommandFd(u) # f]

-----------------------------------------------------------------------------
(***************************************************************************)
(* process_agent_message: other registered connections of the same agent   *)
(* are closed and freed, then an alert goes to the followers.              *)
(***************************************************************************)
(* Mutant: a stale connection keeps its slot. *)
StaleNone(fd, u) == {}

Stale(fd, u) ==
    {f \in Fds : /\ \E i \in AgentSlots : connected_agents[i] = f
                 /\ f # fd /\ sock[f].uuid = u}

IsFollower(f) == sock[f].kind = "web" /\ ~sock[f].epoll

(* What sse_broadcast leaves in the table, and which descriptors it        *)
(* closes: those whose buffer is full (slow), and slots of descriptors     *)
(* that are closed already.                                                *)
Followed == {sse_clients[i] : i \in SseSlots} \ {None}

AfterBroadcast(slow) ==
    [i \in SseSlots |->
        IF sse_clients[i] # None
           /\ (sse_clients[i] \in slow \/ ~Open(sse_clients[i]))
        THEN None ELSE sse_clients[i]]

BroadcastStatus ==
    IF \E f \in Followed : Open(f) /\ ~IsFollower(f) THEN {"misdirected"}
    ELSE {"running"} \cup UNION {StatusAfterWrite(f) : f \in {g \in Followed : Open(g)}}

ForgetEmptied == h' = [h EXCEPT !.query = {i \in @ : sse_clients'[i] # None}]

(* The message of fd, whose header is in s, is complete. *)
Process(fd, s, kind, rest) ==
    LET stale == Stale(fd, s.uuid)
    IN /\ connected_agents' =
             [i \in AgentSlots |-> IF connected_agents[i] \in stale THEN None
                                   ELSE connected_agents[i]]
       /\ batch' = Freed(rest, stale)
       /\ IF kind = "alert"
          THEN \E slow \in SUBSET {f \in Followed : IsFollower(f)} :
                 /\ sse_clients' = AfterBroadcast(slow)
                 /\ status' \in BroadcastStatus
                 /\ sock' = Heard(fd, s, stale \cup slow)
          ELSE /\ sock' = Heard(fd, s, stale)
               /\ UNCHANGED <<status, sse_clients>>
       /\ ForgetEmptied

-----------------------------------------------------------------------------
(***************************************************************************)
(* The loop.                                                               *)
(***************************************************************************)
Readable(f) == sock[f].epoll /\ (sock[f].in \/ sock[f].peer = "gone")

Ready ==
    {[fd |-> f, hup |-> sock[f].peer = "gone", freed |-> FALSE] :
        f \in {g \in Fds : Readable(g)}}

EpollWait ==
    /\ batch = {} /\ Ready # {}
    /\ batch' = Ready
    /\ UNCHANGED <<status, sock, connected_agents, sse_clients, h>>

(* accept: the lowest descriptor; with none left, or an address that is    *)
(* not on the whitelist, nothing happens.  An agent that connects has lost *)
(* its former connection, which the receiver may not have been told.       *)
Accepted(kind, u) ==
    [NoSock EXCEPT !.kind = kind, !.owner = u, !.peer = "up", !.epoll = TRUE,
                   !.listed = kind = "agent" /\ FreeSlots(connected_agents) # {}]

LostBy(u, end) ==
    [f \in Fds |-> IF sock[f].owner = u /\ sock[f].peer = "up"
                   THEN [sock[f] EXCEPT !.peer = end] ELSE sock[f]]

AcceptAgent(u) ==
    /\ ClosedFds # {}
    /\ \E end \in {"gone", "silent"} :
          sock' = [LostBy(u, end) EXCEPT ![Min(ClosedFds)] = Accepted("agent", u)]
    /\ connected_agents' = Added(connected_agents, Min(ClosedFds))
    /\ UNCHANGED <<status, sse_clients, batch, h>>

AcceptWeb ==
    /\ ClosedFds # {}
    /\ sock' = [sock EXCEPT ![Min(ClosedFds)] = Accepted("web", None)]
    /\ UNCHANGED <<status, connected_agents, sse_clients, batch, h>>

(* A local command is read whole and sent on; the dashboard gets no        *)
(* answer.                                                                 *)
LocalCommand(u) ==
    /\ status' \in StatusAfterWrite(CommandFd(u))
    /\ h' = Commanded(u)
    /\ UNCHANGED <<sock, connected_agents, sse_clients, batch>>

(* The event's object is gone. *)
UseAfterFree(e) ==
    /\ e.freed
    /\ status' = "undefined"
    /\ UNCHANGED <<sock, connected_agents, sse_clients, batch, h>>

(* The connection is unwatched, unregistered, closed and freed. *)
CloseConn(e, sse) ==
    /\ sock' = Closed({e.fd})
    /\ connected_agents' = Removed(connected_agents, e.fd)
    /\ sse_clients' = sse
    /\ batch' = batch \ {e}
    /\ ForgetEmptied
    /\ UNCHANGED status

(* Mutant: the registry keeps a connection that hung up. *)
HangupKeepsSlot(e) ==
    /\ ~e.freed /\ e.hup
    /\ sock' = Closed({e.fd})
    /\ sse_clients' = Removed(sse_clients, e.fd)
    /\ batch' = batch \ {e}
    /\ ForgetEmptied
    /\ UNCHANGED <<status, connected_agents>>

(* EPOLLRDHUP, EPOLLHUP, EPOLLERR. *)
Hangup(e) ==
    /\ ~e.freed /\ e.hup
    /\ CloseConn(e, Removed(sse_clients, e.fd))

(* A header has arrived: a wrong magic or too long a payload closes; an    *)
(* empty payload, or one that is there already, completes the message.     *)
AgentHeader(e) ==
    /\ ~e.freed /\ ~e.hup /\ sock[e.fd].kind = "agent" /\ ~sock[e.fd].header
    /\ LET s == [sock[e.fd] EXCEPT !.uuid = sock[e.fd].owner, !.in = FALSE]
       IN \/ CloseConn(e, sse_clients)
          \/ /\ sock' = Heard(e.fd, [s EXCEPT !.header = TRUE, !.latest = FALSE], {})
             /\ batch' = batch \ {e}
             /\ UNCHANGED <<status, connected_agents, sse_clients, h>>
          \/ \E kind \in {"alert", "other"} :
                Process(e.fd, [s EXCEPT !.latest = TRUE], kind, batch \ {e})

AgentPayload(e) ==
    /\ ~e.freed /\ ~e.hup /\ sock[e.fd].kind = "agent" /\ sock[e.fd].header
    /\ \E kind \in {"alert", "other"} :
          Process(e.fd, [sock[e.fd] EXCEPT !.latest = TRUE, !.header = FALSE, !.in = FALSE],
                  kind, batch \ {e})

(* Mutant: every request is closed after its answer. *)
StaysOpenNever(r) == FALSE

StaysOpen(r) == r.path = "live"

(* Mutant: a refused follower is no longer watched either. *)
WatchedNever(r) == FALSE

Watched(r) == ~r.auth

(* A browser's request is answered and closed, but for the live events on  *)
(* their exact path: an accepted follower is no longer watched, a refused  *)
(* one is left as it is.  With a query the follower is closed as well.     *)
WebData(e) ==
    /\ ~e.freed /\ ~e.hup /\ sock[e.fd].kind = "web"
    /\ \E r \in Requests :
       LET follows == r.auth /\ r.path \in {"live", "live?"}
           sends == r.auth /\ r.path = "command"
       IN /\ sock' = IF StaysOpen(r)
                     THEN [sock EXCEPT ![e.fd].in = FALSE, ![e.fd].epoll = Watched(r),
                                       ![e.fd].listed = FreeSlots(sse_clients) # {}]
                     ELSE Closed({e.fd})
          /\ sse_clients' = IF follows THEN Added(sse_clients, e.fd) ELSE sse_clients
          /\ status' \in StatusAfterWrite(e.fd) \cup
                (IF sends THEN StatusAfterWrite(CommandFd(r.agent)) ELSE {})
          /\ h' = IF sends THEN Commanded(r.agent)
                  ELSE [h EXCEPT !.query = @ \cup
                           {i \in SseSlots : r.path = "live?" /\ sse_clients'[i] # sse_clients[i]}]
    /\ batch' = batch \ {e}
    /\ UNCHANGED connected_agents

Loop ==
    \/ EpollWait
    \/ \E u \in Agents : AcceptAgent(u) \/ LocalCommand(u)
    \/ AcceptWeb
    \/ \E e \in batch : UseAfterFree(e) \/ Hangup(e)
                       \/ AgentHeader(e) \/ AgentPayload(e) \/ WebData(e)

-----------------------------------------------------------------------------
(***************************************************************************)
(* The other ends.                                                         *)
(***************************************************************************)
PeerCloses(f) ==
    /\ Open(f) /\ sock[f].peer # "gone"
    /\ sock' = [sock EXCEPT ![f].peer = "gone"]

PeerSends(f) ==
    /\ sock[f].peer = "up" /\ sock[f].epoll /\ ~sock[f].in
    /\ sock' = [sock EXCEPT ![f].in = TRUE]

Environment ==
    /\ \E f \in Fds : PeerCloses(f) \/ PeerSends(f)
    /\ UNCHANGED <<status, connected_agents, sse_clients, batch, h>>

Next == status = "running" /\ (Loop \/ Environment)

Spec == Init /\ [][Next]_vars

-----------------------------------------------------------------------------
(* Type invariant. *)
TypeOK ==
    /\ status \in {"running", "killed", "undefined", "misdirected"}
    /\ \A f \in Fds :
          /\ sock[f].kind \in {"closed", "agent", "web"}
          /\ ~Open(f) => sock[f] = NoSock
          /\ sock[f].peer \in {"up", "gone", "silent"}
          /\ sock[f].in \in BOOLEAN
    /\ connected_agents \in [AgentSlots -> Fds \cup {None}]
    /\ sse_clients \in [SseSlots -> Fds \cup {None}]

Registered(f) == \E i \in AgentSlots : connected_agents[i] = f

(* The registry never points to a connection that was closed or freed, and *)
(* never twice to one: every path that closes an agent's connection takes  *)
(* it out of connected_agents, the clean-up of stale ones included.        *)
RegistryIsLive ==
    /\ \A f \in Fds : Registered(f) => sock[f].kind = "agent"
    /\ \A i, j \in AgentSlots :
          connected_agents[i] = connected_agents[j] /\ connected_agents[i] # None => i = j

(* Every entry of sse_clients is an open connection that follows the live  *)
(* events, and an alert is written to no other, unless its browser had a   *)
(* query behind the path.                                                  *)
FollowersAreOpen ==
    /\ status = "misdirected" => h.query # {}
    /\ \A i \in SseSlots \ h.query : sse_clients[i] # None => IsFollower(sse_clients[i])

(* No descriptor is lost: one that is open is watched by epoll, or is in   *)
(* sse_clients, where the next failing write closes it, unless a browser   *)
(* came when the table was full.                                           *)
NoDescriptorLost ==
    \A f \in Fds : Open(f) => sock[f].epoll \/ f \in Followed \/ ~sock[f].listed

(* A command for an agent is written to the connection the agent was last  *)
(* heard on, if that got a slot: never to an older one that died           *)
(* unnoticed.                                                              *)
CommandsReachTheAgent == ~h.missed
=============================================================================
