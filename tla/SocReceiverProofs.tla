------------------------- MODULE SocReceiverProofs --------------------------
(***************************************************************************)
(* Proofs about SocReceiver, for every number of descriptors and slots and *)
(* every set of agents: the registry, the followers, the descriptors, and  *)
(* the way of a command to its agent.                                      *)
(***************************************************************************)
EXTENDS SocReceiver, WellFoundedInduction, TLAPS

Conn ==
    [kind : {"closed", "agent", "web"}, owner : Agents \cup {None},
     peer : {"up", "gone", "silent"}, in : BOOLEAN, epoll : BOOLEAN,
     header : BOOLEAN, uuid : Agents \cup {None}, latest : BOOLEAN,
     listed : BOOLEAN]

Event == [fd : Fds, hup : BOOLEAN, freed : BOOLEAN]

Typing ==
    /\ status \in {"running", "killed", "undefined", "misdirected"}
    /\ sock \in [Fds -> Conn]
    /\ connected_agents \in [AgentSlots -> Fds \cup {None}]
    /\ sse_clients \in [SseSlots -> Fds \cup {None}]
    /\ batch \in SUBSET Event
    /\ h \in [query : SUBSET SseSlots, missed : BOOLEAN]

(* What one connection looks like: a closed one is blank, only an agent's  *)
(* has an owner, its header names that owner, and it was heard only after  *)
(* a header.                                                               *)
ConnOK(c) ==
    /\ c.kind = "closed" => c = NoSock
    /\ c.kind = "agent" <=> c.owner # None
    /\ c.uuid # None => c.uuid = c.owner
    /\ c.header \/ c.latest => c.uuid # None

Conns == \A f \in Fds : ConnOK(sock[f])

(* An agent's connection that got a slot keeps it while it is open. *)
ListedIsRegistered ==
    \A f \in Fds : sock[f].kind = "agent" /\ sock[f].listed => Registered(f)

(* No other registered connection names the agent last heard on one. *)
HeardAlone ==
    \A f, g \in Fds :
        sock[f].latest /\ Registered(g) /\ f # g => sock[g].uuid # sock[f].owner

(* The rest of a batch: an event per descriptor, and one whose object is   *)
(* still there is of a connection that is watched.                         *)
BatchIsWatched ==
    /\ \A d, e \in batch : d.fd = e.fd => d = e
    /\ \A e \in batch : ~e.freed => sock[e.fd].epoll

(* The inductive invariant. *)
IInv ==
    /\ Typing
    /\ Conns
    /\ RegistryIsLive
    /\ ListedIsRegistered
    /\ HeardAlone
    /\ BatchIsWatched
    /\ FollowersAreOpen
    /\ NoDescriptorLost
    /\ CommandsReachTheAgent

-----------------------------------------------------------------------------
(***************************************************************************)
(* The tables.                                                             *)
(***************************************************************************)
(* A set of numbers that is not empty has a least element, and Min is it. *)
LEMMA MinIsLeast ==
    ASSUME NEW S \in SUBSET Nat, S # {}
    PROVE  Min(S) \in S
  <1>1. PICK x \in S : \A y \in S : ~(<<y, x>> \in OpToRel(<, Nat))
    BY NatLessThanWellFounded, WFMin, Zenon
  <1>2. \A y \in S : ~(y < x)
    BY <1>1, Zenon DEF OpToRel
  <1>3. \A y \in S : x <= y
    BY <1>2
  <1> QED BY <1>3, Zenon DEF Min

(* Adding fills a free slot, if there is one. *)
LEMMA AddedFillsFree ==
    ASSUME NEW I \in SUBSET Nat, NEW table \in [I -> Fds \cup {None}], NEW fd \in Fds
    PROVE  \/ FreeSlots(table) = {} /\ Added(table, fd) = table
           \/ /\ FreeSlots(table) # {}
              /\ \E m \in I : table[m] = None /\ Added(table, fd) = [table EXCEPT ![m] = fd]
  <1>1. FreeSlots(table) \in SUBSET Nat /\ FreeSlots(table) \subseteq I
    BY Zenon DEF FreeSlots
  <1>2. CASE FreeSlots(table) = {}
    BY <1>2 DEF Added
  <1>3. CASE FreeSlots(table) # {}
    <2>1. Min(FreeSlots(table)) \in FreeSlots(table)
      BY <1>1, <1>3, MinIsLeast
    <2>2. Min(FreeSlots(table)) \in I /\ table[Min(FreeSlots(table))] = None
      BY <2>1 DEF FreeSlots
    <2>3. Added(table, fd) = [table EXCEPT ![Min(FreeSlots(table))] = fd]
      BY <1>3 DEF Added
    <2> HIDE DEF FreeSlots
    <2> QED BY <1>3, <2>2, <2>3, Zenon
  <1> QED BY <1>2, <1>3

(* Removing empties a slot that holds the descriptor, if there is one. *)
LEMMA RemovedEmptiesOne ==
    ASSUME NEW I \in SUBSET Nat, NEW table \in [I -> Fds \cup {None}], NEW fd \in Fds
    PROVE  \/ /\ \A i \in I : table[i] # fd
              /\ Removed(table, fd) = table
           \/ \E m \in I : table[m] = fd /\ Removed(table, fd) = [table EXCEPT ![m] = None]
  <1> DEFINE S == {i \in DOMAIN table : table[i] = fd}
  <1>1. S \in SUBSET Nat /\ S \subseteq I
    BY Zenon
  <1>2. Removed(table, fd) = IF S = {} THEN table ELSE [table EXCEPT ![Min(S)] = None]
    BY DEF Removed
  <1>3. CASE S = {}
    BY <1>2, <1>3
  <1>4. CASE S # {}
    <2>1. Min(S) \in S
      <3> HIDE DEF S
      <3> QED BY <1>1, <1>4, MinIsLeast
    <2>2. Min(S) \in I /\ table[Min(S)] = fd
      BY <2>1
    <2> HIDE DEF S
    <2> QED BY <1>2, <1>4, <2>2, Zenon
  <1> QED BY <1>3, <1>4

-----------------------------------------------------------------------------
(***************************************************************************)
(* One connection.                                                         *)
(***************************************************************************)
(* A closed connection. *)
LEMMA NoSockOK ==
    /\ NoSock \in Conn
    /\ ConnOK(NoSock)
    /\ NoSock.kind = "closed" /\ NoSock.owner = None /\ NoSock.uuid = None
    /\ NoSock.epoll = FALSE /\ NoSock.latest = FALSE /\ NoSock.listed = FALSE
  <1>1. NoSock \in Conn
    BY Zenon DEF NoSock, Conn
  <1> QED BY <1>1 DEF NoSock, ConnOK

(* A connection just accepted. *)
LEMMA AcceptedOK ==
    ASSUME NEW u \in Agents \cup {None}, NEW kind \in {"agent", "web"},
           kind = "agent" <=> u # None
    PROVE  /\ Accepted(kind, u) \in Conn
           /\ ConnOK(Accepted(kind, u))
           /\ Accepted(kind, u).kind = kind
           /\ Accepted(kind, u).owner = u
           /\ Accepted(kind, u).uuid = None
           /\ Accepted(kind, u).epoll = TRUE
           /\ Accepted(kind, u).latest = FALSE
           /\ Accepted(kind, u).listed =
                (kind = "agent" /\ FreeSlots(connected_agents) # {})
  <1>1. PICK l \in BOOLEAN : l = (kind = "agent" /\ FreeSlots(connected_agents) # {})
    BY Zenon
  <1>2. Accepted(kind, u) = [NoSock EXCEPT !.kind = kind, !.owner = u, !.peer = "up",
                                           !.epoll = TRUE, !.listed = l]
    BY <1>1, Zenon DEF Accepted
  <1>3. Accepted(kind, u) =
          [kind |-> kind, owner |-> u, peer |-> "up", in |-> FALSE,
           epoll |-> TRUE, header |-> FALSE, uuid |-> None, latest |-> FALSE,
           listed |-> l]
    BY <1>2, Zenon DEF NoSock
  <1>4. /\ Accepted(kind, u) \in Conn
        /\ Accepted(kind, u).kind = kind
        /\ Accepted(kind, u).owner = u
        /\ Accepted(kind, u).uuid = None
        /\ Accepted(kind, u).epoll = TRUE
        /\ Accepted(kind, u).header = FALSE
        /\ Accepted(kind, u).latest = FALSE
        /\ Accepted(kind, u).listed = l
    <2>1. PICK c : c = Accepted(kind, u)
      OBVIOUS
    <2>2. c = [kind |-> kind, owner |-> u, peer |-> "up", in |-> FALSE,
               epoll |-> TRUE, header |-> FALSE, uuid |-> None, latest |-> FALSE,
               listed |-> l]
      BY <1>3, <2>1
    <2>3. /\ c \in Conn
          /\ c.kind = kind /\ c.owner = u /\ c.uuid = None /\ c.epoll = TRUE
          /\ c.header = FALSE /\ c.latest = FALSE /\ c.listed = l
      BY <2>2, Zenon DEF Conn
    <2> QED BY <2>1, <2>3
  <1>5. ConnOK(Accepted(kind, u))
    BY <1>4 DEF ConnOK
  <1> QED BY <1>1, <1>4, <1>5, Zenon

(* The other end's state does not matter. *)
LEMMA PeerOK ==
    ASSUME NEW c \in Conn, NEW p \in {"up", "gone", "silent"}
    PROVE  /\ [c EXCEPT !.peer = p] \in Conn
           /\ [c EXCEPT !.peer = p].kind = c.kind
           /\ [c EXCEPT !.peer = p].owner = c.owner
           /\ [c EXCEPT !.peer = p].uuid = c.uuid
           /\ [c EXCEPT !.peer = p].epoll = c.epoll
           /\ [c EXCEPT !.peer = p].header = c.header
           /\ [c EXCEPT !.peer = p].latest = c.latest
           /\ [c EXCEPT !.peer = p].listed = c.listed
  BY Zenon DEF Conn

(* A connection that is no longer the one its agent was last heard on. *)
LEMMA NotLatestOK ==
    ASSUME NEW c \in Conn
    PROVE  /\ [c EXCEPT !.latest = FALSE] \in Conn
           /\ [c EXCEPT !.latest = FALSE].kind = c.kind
           /\ [c EXCEPT !.latest = FALSE].owner = c.owner
           /\ [c EXCEPT !.latest = FALSE].uuid = c.uuid
           /\ [c EXCEPT !.latest = FALSE].epoll = c.epoll
           /\ [c EXCEPT !.latest = FALSE].header = c.header
           /\ [c EXCEPT !.latest = FALSE].latest = FALSE
           /\ [c EXCEPT !.latest = FALSE].listed = c.listed
  BY Zenon DEF Conn

(* Something arrives, or the message is read. *)
LEMMA InOK ==
    ASSUME NEW c \in Conn, NEW b \in BOOLEAN
    PROVE  /\ [c EXCEPT !.in = b] \in Conn
           /\ [c EXCEPT !.in = b].kind = c.kind
           /\ [c EXCEPT !.in = b].owner = c.owner
           /\ [c EXCEPT !.in = b].uuid = c.uuid
           /\ [c EXCEPT !.in = b].epoll = c.epoll
           /\ [c EXCEPT !.in = b].header = c.header
           /\ [c EXCEPT !.in = b].latest = c.latest
           /\ [c EXCEPT !.in = b].listed = c.listed
  BY Zenon DEF Conn

-----------------------------------------------------------------------------
(***************************************************************************)
(* Steps that change no table.                                             *)
(***************************************************************************)
(* The parts of a connection the invariant speaks of. *)
SameConn(c, d) ==
    /\ c.kind = d.kind /\ c.owner = d.owner /\ c.uuid = d.uuid
    /\ c.epoll = d.epoll /\ c.header = d.header /\ c.latest = d.latest
    /\ c.listed = d.listed

(* Connections that keep these parts keep the invariant. *)
LEMMA SameConns ==
    ASSUME IInv, sock' \in [Fds -> Conn],
           \A f \in Fds : SameConn(sock'[f], sock[f]),
           \A f \in Fds : sock[f].kind = "closed" => sock'[f] = sock[f],
           UNCHANGED <<connected_agents, sse_clients, batch>>,
           h'.missed = h.missed, h' \in [query : SUBSET SseSlots, missed : BOOLEAN],
           h'.query = h.query,
           status' \in {"running", "killed", "undefined"}
    PROVE  IInv'
  <1> USE DEF IInv
  <1>1. Typing'
    BY DEF Typing
  <1>2. \A f \in Fds : /\ sock'[f].kind = sock[f].kind
                       /\ sock'[f].owner = sock[f].owner
                       /\ sock'[f].uuid = sock[f].uuid
                       /\ sock'[f].epoll = sock[f].epoll
                       /\ sock'[f].header = sock[f].header
                       /\ sock'[f].latest = sock[f].latest
                       /\ sock'[f].listed = sock[f].listed
                       /\ Registered(f)' = Registered(f)
    BY DEF SameConn, Registered
  <1>3. Conns'
    BY <1>2 DEF Conns, ConnOK
  <1>4. RegistryIsLive' /\ ListedIsRegistered'
    BY <1>2 DEF RegistryIsLive, ListedIsRegistered
  <1>5. HeardAlone'
    BY <1>2 DEF HeardAlone
  <1>6. BatchIsWatched'
    BY <1>2 DEF BatchIsWatched, Typing, Event
  <1>7. FollowersAreOpen'
    BY <1>2 DEF FollowersAreOpen, IsFollower, Typing
  <1>8. NoDescriptorLost'
    BY <1>2 DEF NoDescriptorLost, Followed, Open
  <1>9. CommandsReachTheAgent'
    BY DEF CommandsReachTheAgent
  <1> QED BY <1>1, <1>3, <1>4, <1>5, <1>6, <1>7, <1>8, <1>9

(* The other end closes or sends. *)
LEMMA EnvironmentIInv ==
    ASSUME IInv, status = "running", Environment
    PROVE  IInv'
  <1>1. PICK f \in Fds : PeerCloses(f) \/ PeerSends(f)
    BY DEF Environment
  <1>2. sock \in [Fds -> Conn] /\ h \in [query : SUBSET SseSlots, missed : BOOLEAN]
    BY DEF IInv, Typing
  <1>3. UNCHANGED <<status, connected_agents, sse_clients, batch, h>>
    BY DEF Environment
  <1>4. PICK c \in Conn : /\ sock' = [sock EXCEPT ![f] = c]
                          /\ SameConn(c, sock[f])
                          /\ sock[f].kind # "closed"
    <2>1. CASE PeerCloses(f)
      <3>1. sock' = [sock EXCEPT ![f] = [sock[f] EXCEPT !.peer = "gone"]]
        BY <2>1 DEF PeerCloses
      <3> QED BY <1>2, <2>1, <3>1, PeerOK, Zenon DEF SameConn, PeerCloses, Open
    <2>2. CASE PeerSends(f)
      <3>1. sock' = [sock EXCEPT ![f] = [sock[f] EXCEPT !.in = TRUE]]
        BY <2>2 DEF PeerSends
      <3>2. sock[f].kind # "closed"
        BY <2>2, NoSockOK DEF PeerSends, IInv, Conns, ConnOK
      <3> QED BY <1>2, <3>1, <3>2, InOK, Zenon DEF SameConn
    <2> QED BY <1>1, <2>1, <2>2
  <1>5. \A g \in Fds : SameConn(sock'[g], sock[g])
    BY <1>2, <1>4 DEF SameConn
  <1> QED BY <1>2, <1>3, <1>4, <1>5, SameConns

(* A command finds the one connection its agent was last heard on. *)
LEMMA CommandFinds ==
    ASSUME IInv, NEW u \in Agents
    PROVE  /\ Commanded(u).missed = h.missed /\ Commanded(u).query = h.query
           /\ Commanded(u) \in [query : SUBSET SseSlots, missed : BOOLEAN]
  <1> USE DEF IInv
  <1>1. ASSUME NEW f \in Fds, Speaks(f, u) PROVE CommandFd(u) = f
    <2>1. /\ sock[f].owner = u /\ sock[f].latest /\ sock[f].listed
          /\ u # None
      BY <1>1, SocReceiverConstants DEF Speaks
    <2>2. sock[f].kind = "agent" /\ sock[f].uuid = u
      BY <2>1 DEF Conns, ConnOK
    <2>3. PICK i \in AgentSlots : connected_agents[i] = f
      BY <2>1, <2>2 DEF ListedIsRegistered, Registered
    <2>4. f # None
      BY SocReceiverConstants
    <2>5. i \in Candidates(u)
      BY <2>2, <2>3, <2>4 DEF Candidates
    <2>6. \A j \in Candidates(u) : connected_agents[j] = f
      <3> TAKE j \in Candidates(u)
      <3>1. /\ j \in AgentSlots /\ connected_agents[j] \in Fds
            /\ sock[connected_agents[j]].uuid = u
        BY DEF Candidates, Typing
      <3>2. Registered(connected_agents[j])
        BY <3>1 DEF Registered
      <3> QED BY <2>1, <3>1, <3>2 DEF HeardAlone
    <2>7. Min(Candidates(u)) \in Candidates(u)
      BY <2>5, MinIsLeast, SocReceiverConstants DEF Candidates
    <2> QED BY <2>5, <2>6, <2>7 DEF CommandFd
  <1>2. ~\E f \in Fds : Speaks(f, u) /\ CommandFd(u) # f
    BY <1>1
  <1>3. h \in [query : SUBSET SseSlots, missed : BOOLEAN]
    BY DEF Typing
  <1>4. PICK b \in BOOLEAN : b = (\E f \in Fds : Speaks(f, u) /\ CommandFd(u) # f)
    BY Zenon
  <1>5. b = FALSE
    BY <1>2, <1>4
  <1>6. Commanded(u) = [h EXCEPT !.missed = h.missed \/ b]
    BY <1>4, Zenon DEF Commanded
  <1>7. (h.missed \/ b) = h.missed
    BY <1>3, <1>5
  <1>8. Commanded(u) = [h EXCEPT !.missed = h.missed]
    BY <1>6, <1>7, Zenon
  <1> QED BY <1>3, <1>8

(* A batch is read from the watched connections. *)
LEMMA EpollWaitIInv ==
    ASSUME IInv, EpollWait
    PROVE  IInv'
  <1> USE DEF IInv
  <1>1. /\ batch' = Ready
        /\ UNCHANGED <<status, sock, connected_agents, sse_clients, h>>
    BY DEF EpollWait
  <1>2. \A e \in Ready : \E f \in Fds : /\ Readable(f)
                                        /\ e = [fd |-> f, hup |-> sock[f].peer = "gone",
                                                freed |-> FALSE]
    BY Zenon DEF Ready
  <1>3. \A e \in Ready : /\ e \in Event /\ e.freed = FALSE
                         /\ Readable(e.fd)
                         /\ e = [fd |-> e.fd, hup |-> sock[e.fd].peer = "gone",
                                 freed |-> FALSE]
    <2> SUFFICES ASSUME NEW e \in Ready
                 PROVE  /\ e \in Event /\ e.freed = FALSE
                        /\ Readable(e.fd)
                        /\ e = [fd |-> e.fd, hup |-> sock[e.fd].peer = "gone",
                                freed |-> FALSE]
      BY Zenon
    <2>1. PICK f \in Fds : /\ Readable(f)
                           /\ e = [fd |-> f, hup |-> sock[f].peer = "gone",
                                   freed |-> FALSE]
      BY <1>2
    <2>2. PICK b \in BOOLEAN : b = (sock[f].peer = "gone")
      BY Zenon
    <2>3. e = [fd |-> f, hup |-> b, freed |-> FALSE]
      BY <2>1, <2>2, Zenon
    <2>4. e \in Event /\ e.fd = f /\ e.freed = FALSE
      BY <2>3, Zenon DEF Event
    <2> QED BY <2>1, <2>4, Zenon
  <1>4. Typing'
    BY <1>1, <1>3 DEF Typing
  <1>5. BatchIsWatched'
    <2>1. \A d, e \in Ready : d.fd = e.fd => d = e
      BY <1>3, Zenon
    <2>2. \A e \in Ready : sock[e.fd].epoll
      BY <1>3 DEF Readable
    <2> QED BY <1>1, <2>1, <2>2 DEF BatchIsWatched
  <1>6. Conns' /\ RegistryIsLive' /\ ListedIsRegistered' /\ HeardAlone'
    BY <1>1 DEF Conns, RegistryIsLive, ListedIsRegistered, HeardAlone, Registered
  <1>7. FollowersAreOpen' /\ NoDescriptorLost' /\ CommandsReachTheAgent'
    BY <1>1 DEF FollowersAreOpen, IsFollower, NoDescriptorLost, Open, Followed,
                CommandsReachTheAgent
  <1> QED BY <1>4, <1>5, <1>6, <1>7

-----------------------------------------------------------------------------
(***************************************************************************)
(* Connections that are opened.                                            *)
(***************************************************************************)
(* A connection c is opened on the closed descriptor n, and gets a free    *)
(* slot of the registry if it is an agent's and there is one.              *)
Opens(n, c) ==
    /\ sock[n].kind = "closed"
    /\ c.kind # "closed" /\ c.epoll /\ c.uuid = None /\ ~c.latest
    /\ sock'[n] = c
    /\ \A f \in Fds \ {n} : SameConn(sock'[f], sock[f])
    /\ \A f \in Fds \ {n} : sock[f].kind = "closed" => sock'[f] = sock[f]
    /\ \/ connected_agents' = connected_agents /\ ~c.listed
       \/ /\ c.kind = "agent"
          /\ \E m \in AgentSlots :
                /\ connected_agents[m] = None
                /\ connected_agents' = [connected_agents EXCEPT ![m] = n]

(* Opening a connection keeps the invariant. *)
LEMMA OpensIInv ==
    ASSUME IInv, status = "running", NEW n \in Fds, NEW c \in Conn, ConnOK(c),
           Opens(n, c), sock' \in [Fds -> Conn],
           UNCHANGED <<status, sse_clients, batch, h>>
    PROVE  IInv'
  <1> USE DEF IInv
  <1>1. ~Registered(n)
    BY DEF Opens, RegistryIsLive
  <1>2. sock[n] = NoSock /\ sock[n].epoll = FALSE
    BY NoSockOK DEF Opens, Conns, ConnOK
  <1>3. \A f \in Fds \ {n} : /\ sock'[f].kind = sock[f].kind
                             /\ sock'[f].owner = sock[f].owner
                             /\ sock'[f].uuid = sock[f].uuid
                             /\ sock'[f].epoll = sock[f].epoll
                             /\ sock'[f].header = sock[f].header
                             /\ sock'[f].latest = sock[f].latest
                             /\ sock'[f].listed = sock[f].listed
    BY DEF Opens, SameConn
  <1>4. connected_agents' \in [AgentSlots -> Fds \cup {None}]
    BY DEF Opens, Typing
  <1>5. Typing'
    BY <1>4 DEF Typing
  <1>6. \A f \in Fds \ {n} : Registered(f)' <=> Registered(f)
    <2>1. n # None /\ \A f \in Fds : f # None
      BY SocReceiverConstants
    <2> QED BY <2>1 DEF Opens, Registered, Typing
  <1>7. Registered(n)' => c.kind = "agent"
    BY <1>1 DEF Opens, Registered
  <1>8. c.kind = "agent" /\ c.listed => Registered(n)'
    BY DEF Opens, Registered, Typing
  <1>9. Conns'
    <2>1. \A f \in Fds \ {n} : ConnOK(sock'[f])
      BY <1>3 DEF Conns, ConnOK, Opens
    <2> QED BY <2>1 DEF Conns, Opens
  <1>10. RegistryIsLive'
    <2>1. \A f \in Fds : Registered(f)' => sock'[f].kind = "agent"
      BY <1>3, <1>6, <1>7 DEF RegistryIsLive, Opens
    <2>2. \A i \in AgentSlots : connected_agents[i] # n
      BY <1>1 DEF Registered
    <2>3. \A i, j \in AgentSlots :
             connected_agents'[i] = connected_agents'[j] /\ connected_agents'[i] # None
               => i = j
      BY <2>2 DEF Opens, RegistryIsLive, Typing
    <2> QED BY <2>1, <2>3 DEF RegistryIsLive, Registered
  <1>11. ListedIsRegistered'
    BY <1>3, <1>6, <1>8 DEF ListedIsRegistered, Opens
  <1>12. HeardAlone'
    <2> SUFFICES ASSUME NEW f \in Fds, NEW g \in Fds, sock'[f].latest,
                        Registered(g)', f # g
                 PROVE  sock'[g].uuid # sock'[f].owner
      BY DEF HeardAlone
    <2>1. f # n
      BY DEF Opens
    <2>2. sock[f].latest /\ sock'[f].owner = sock[f].owner /\ sock[f].owner # None
      BY <1>3, <2>1 DEF Conns, ConnOK
    <2>3. CASE g = n
      BY <2>2, <2>3 DEF Opens
    <2>4. CASE g # n
      BY <1>3, <1>6, <2>2, <2>4 DEF HeardAlone
    <2> QED BY <2>3, <2>4
  <1>13. BatchIsWatched'
    BY <1>2, <1>3 DEF BatchIsWatched, Typing, Event
  <1>14. FollowersAreOpen'
    <2>1. \A i \in SseSlots \ h.query : sse_clients[i] # None => sse_clients[i] # n
      BY DEF FollowersAreOpen, IsFollower, Opens
    <2> QED BY <1>3, <2>1 DEF FollowersAreOpen, IsFollower, Typing
  <1>15. NoDescriptorLost'
    BY <1>3 DEF NoDescriptorLost, Open, Followed, Opens
  <1>16. CommandsReachTheAgent'
    BY DEF CommandsReachTheAgent
  <1> QED BY <1>5, <1>9, <1>10, <1>11, <1>12, <1>13, <1>14, <1>15, <1>16

(* The lowest closed descriptor is one. *)
LEMMA LowestClosed ==
    ASSUME ClosedFds # {}
    PROVE  Min(ClosedFds) \in Fds /\ sock[Min(ClosedFds)].kind = "closed"
  <1>1. ClosedFds \in SUBSET Nat
    BY SocReceiverConstants, Zenon DEF ClosedFds
  <1>2. Min(ClosedFds) \in ClosedFds
    BY <1>1, MinIsLeast
  <1> QED BY <1>2 DEF ClosedFds, Open

(* An agent connects. *)
LEMMA AcceptAgentIInv ==
    ASSUME IInv, status = "running", NEW u \in Agents, AcceptAgent(u)
    PROVE  IInv'
  <1> DEFINE n == Min(ClosedFds)
             c == Accepted("agent", u)
  <1>1. n \in Fds /\ sock[n].kind = "closed"
    BY LowestClosed DEF AcceptAgent
  <1>2. PICK end \in {"gone", "silent"} : sock' = [LostBy(u, end) EXCEPT ![n] = c]
    BY Zenon DEF AcceptAgent
  <1>3. /\ connected_agents' = Added(connected_agents, n)
        /\ UNCHANGED <<status, sse_clients, batch, h>>
    BY DEF AcceptAgent
  <1>4. /\ c \in Conn /\ ConnOK(c) /\ c.kind = "agent" /\ c.uuid = None
        /\ c.epoll = TRUE /\ c.latest = FALSE
        /\ c.listed = (FreeSlots(connected_agents) # {})
    BY AcceptedOK, SocReceiverConstants, Zenon
  <1>5. sock \in [Fds -> Conn] /\ connected_agents \in [AgentSlots -> Fds \cup {None}]
        /\ AgentSlots \in SUBSET Nat
    BY SocReceiverConstants DEF IInv, Typing
  <1>6. u # None
    BY SocReceiverConstants
  <1> HIDE DEF n, c
  <1>7. /\ LostBy(u, end) \in [Fds -> Conn]
        /\ \A f \in Fds : SameConn(LostBy(u, end)[f], sock[f])
        /\ \A f \in Fds : sock[f].kind = "closed" => LostBy(u, end)[f] = sock[f]
    <2>1. \A f \in Fds : LostBy(u, end)[f] \in {sock[f], [sock[f] EXCEPT !.peer = end]}
      BY DEF LostBy
    <2>2. \A f \in Fds : LostBy(u, end)[f] \in Conn /\ SameConn(LostBy(u, end)[f], sock[f])
      <3> TAKE f \in Fds
      <3>1. sock[f] \in Conn
        BY <1>5
      <3>2. CASE LostBy(u, end)[f] = sock[f]
        BY <3>1, <3>2 DEF SameConn
      <3>3. CASE LostBy(u, end)[f] = [sock[f] EXCEPT !.peer = end]
        <4>1. end \in {"up", "gone", "silent"}
          OBVIOUS
        <4>2. /\ [sock[f] EXCEPT !.peer = end] \in Conn
              /\ SameConn([sock[f] EXCEPT !.peer = end], sock[f])
          BY <3>1, <4>1, PeerOK, Zenon DEF SameConn
        <4> QED BY <3>3, <4>2
      <3> QED BY <2>1, <3>2, <3>3
    <2>3. \A f \in Fds : sock[f].kind = "closed" => sock[f].owner = None
      BY NoSockOK DEF IInv, Conns, ConnOK
    <2>4. \A f \in Fds : sock[f].kind = "closed" => LostBy(u, end)[f] = sock[f]
      BY <1>6, <2>3 DEF LostBy
    <2>5. LostBy(u, end) = [f \in Fds |-> LostBy(u, end)[f]]
      BY DEF LostBy
    <2> QED BY <2>2, <2>4, <2>5
  <1>8. /\ sock' \in [Fds -> Conn]
        /\ sock'[n] = c
        /\ \A f \in Fds \ {n} : sock'[f] = LostBy(u, end)[f]
    BY <1>1, <1>2, <1>4, <1>7
  <1>9. \/ connected_agents' = connected_agents /\ ~c.listed
        \/ \E m \in AgentSlots :
              /\ connected_agents[m] = None
              /\ connected_agents' = [connected_agents EXCEPT ![m] = n]
    <2>1. \/ /\ FreeSlots(connected_agents) = {}
             /\ Added(connected_agents, n) = connected_agents
          \/ /\ FreeSlots(connected_agents) # {}
             /\ \E m \in AgentSlots :
                   /\ connected_agents[m] = None
                   /\ Added(connected_agents, n) = [connected_agents EXCEPT ![m] = n]
      BY <1>1, <1>5, AddedFillsFree, Zenon
    <2> QED BY <1>3, <1>4, <2>1, Zenon
  <1>10. Opens(n, c)
    BY <1>1, <1>4, <1>7, <1>8, <1>9 DEF Opens
  <1> QED BY <1>1, <1>3, <1>4, <1>8, <1>10, OpensIInv

(* A browser connects. *)
LEMMA AcceptWebIInv ==
    ASSUME IInv, status = "running", AcceptWeb
    PROVE  IInv'
  <1> DEFINE n == Min(ClosedFds)
             c == Accepted("web", None)
  <1>1. n \in Fds /\ sock[n].kind = "closed"
    BY LowestClosed DEF AcceptWeb
  <1>2. /\ sock' = [sock EXCEPT ![n] = c]
        /\ UNCHANGED <<status, connected_agents, sse_clients, batch, h>>
    BY DEF AcceptWeb
  <1>3. /\ c \in Conn /\ ConnOK(c) /\ c.kind = "web" /\ c.uuid = None
        /\ c.epoll = TRUE /\ c.latest = FALSE /\ c.listed = FALSE
    <2>1. /\ c \in Conn /\ ConnOK(c) /\ c.kind = "web" /\ c.uuid = None
          /\ c.epoll = TRUE /\ c.latest = FALSE
          /\ c.listed = ("web" = "agent" /\ FreeSlots(connected_agents) # {})
      BY AcceptedOK, Zenon
    <2> QED BY <2>1, Zenon
  <1>4. sock \in [Fds -> Conn]
    BY DEF IInv, Typing
  <1> HIDE DEF n, c
  <1>5. sock' \in [Fds -> Conn] /\ Opens(n, c)
    BY <1>1, <1>2, <1>3, <1>4 DEF Opens, SameConn
  <1> QED BY <1>1, <1>2, <1>3, <1>5, OpensIInv

-----------------------------------------------------------------------------
(***************************************************************************)
(* Connections that are closed.                                            *)
(***************************************************************************)
(* What ForgetEmptied leaves of the history. *)
LEMMA ForgetEmptiedIs ==
    ASSUME Typing, ForgetEmptied
    PROVE  /\ h' \in [query : SUBSET SseSlots, missed : BOOLEAN]
           /\ h'.missed = h.missed
           /\ h'.query = {i \in h.query : sse_clients'[i] # None}
  BY DEF Typing, ForgetEmptied

(* A descriptor whose event is being handled is closed: it leaves the      *)
(* registry, and no follower goes with it.                                 *)
LEMMA CloseConnIInv ==
    ASSUME IInv, status = "running", NEW e \in batch, ~e.freed,
           NEW sse \in {sse_clients, Removed(sse_clients, e.fd)},
           CloseConn(e, sse)
    PROVE  IInv'
  <1> USE DEF IInv
  <1> DEFINE n == e.fd
  <1>1. /\ n \in Fds /\ sock[n].epoll
        /\ sock \in [Fds -> Conn]
        /\ connected_agents \in [AgentSlots -> Fds \cup {None}]
        /\ sse_clients \in [SseSlots -> Fds \cup {None}]
        /\ AgentSlots \in SUBSET Nat /\ SseSlots \in SUBSET Nat
        /\ None \notin Fds
    BY SocReceiverConstants DEF Typing, Event, BatchIsWatched
  <1>2. /\ sock' \in [Fds -> Conn]
        /\ sock'[n] = NoSock
        /\ \A f \in Fds \ {n} : sock'[f] = sock[f]
    BY <1>1, NoSockOK DEF CloseConn, Closed
  <1>3. /\ batch' = batch \ {e}
        /\ status' = status
        /\ sse_clients' = sse
        /\ connected_agents' = Removed(connected_agents, n)
    BY DEF CloseConn
  <1>4. /\ h' \in [query : SUBSET SseSlots, missed : BOOLEAN]
        /\ h'.missed = h.missed
        /\ h'.query = {i \in h.query : sse_clients'[i] # None}
    BY ForgetEmptiedIs DEF CloseConn
  <1> HIDE DEF n
  <1>5. /\ connected_agents' \in [AgentSlots -> Fds \cup {None}]
        /\ \A i \in AgentSlots : connected_agents'[i] # n
        /\ \A i \in AgentSlots : connected_agents[i] # n =>
              connected_agents'[i] = connected_agents[i]
        /\ \A i \in AgentSlots : connected_agents'[i] \in {None, connected_agents[i]}
    <2>1. CASE connected_agents' = connected_agents /\ \A i \in AgentSlots : connected_agents[i] # n
      BY <1>1, <2>1
    <2>2. ASSUME NEW m \in AgentSlots, connected_agents[m] = n,
                 connected_agents' = [connected_agents EXCEPT ![m] = None]
          PROVE  <1>5!1 /\ <1>5!2 /\ <1>5!3 /\ <1>5!4
      <3>1. \A i \in AgentSlots : connected_agents[i] = n => i = m
        BY <1>1, <2>2 DEF RegistryIsLive
      <3> QED BY <1>1, <2>2, <3>1
    <2>3. \/ /\ \A i \in AgentSlots : connected_agents[i] # n
             /\ Removed(connected_agents, n) = connected_agents
          \/ \E m \in AgentSlots :
                /\ connected_agents[m] = n
                /\ Removed(connected_agents, n) = [connected_agents EXCEPT ![m] = None]
      <3> HIDE DEF IInv
      <3>1. /\ n \in Fds /\ AgentSlots \in SUBSET Nat
            /\ connected_agents \in [AgentSlots -> Fds \cup {None}]
        BY <1>1
      <3> QED BY <3>1, RemovedEmptiesOne, Zenon
    <2> QED BY <1>3, <2>1, <2>2, <2>3
  <1>6. /\ sse_clients' \in [SseSlots -> Fds \cup {None}]
        /\ \A i \in SseSlots : sse_clients[i] # n => sse_clients'[i] = sse_clients[i]
        /\ \A i \in SseSlots : sse_clients'[i] \in {None, sse_clients[i]}
    <2>1. CASE sse_clients' = sse_clients
      BY <1>1, <2>1
    <2>2. CASE sse_clients' = Removed(sse_clients, n)
      BY <1>1, <2>2, RemovedEmptiesOne
    <2> QED BY <1>3, <2>1, <2>2 DEF n
  <1>7. Typing'
    BY <1>2, <1>3, <1>4, <1>5, <1>6 DEF Typing
  <1>8. \A f \in Fds : Registered(f)' <=> Registered(f) /\ f # n
    BY <1>1, <1>5 DEF Registered
  <1>9. Conns'
    BY <1>2, NoSockOK DEF Conns
  <1>10. RegistryIsLive'
    BY <1>2, <1>5, <1>8 DEF RegistryIsLive
  <1>11. ListedIsRegistered'
    BY <1>2, <1>8, NoSockOK DEF ListedIsRegistered
  <1>12. HeardAlone'
    <2> SUFFICES ASSUME NEW f \in Fds, NEW g \in Fds, sock'[f].latest,
                        Registered(g)', f # g
                 PROVE  sock'[g].uuid # sock'[f].owner
      BY DEF HeardAlone
    <2>1. f # n /\ g # n
      BY <1>2, <1>8, NoSockOK
    <2> QED BY <1>2, <1>8, <2>1 DEF HeardAlone
  <1>13. BatchIsWatched'
    <2>1. \A d \in batch \ {e} : d.fd # n /\ d.fd \in Fds
      BY DEF BatchIsWatched, n, Typing, Event
    <2> QED BY <1>2, <1>3, <2>1 DEF BatchIsWatched
  <1>14. FollowersAreOpen'
    <2>1. \A i \in SseSlots \ h.query : sse_clients[i] # None => sse_clients[i] # n
      BY <1>1 DEF FollowersAreOpen, IsFollower
    <2>2. \A i \in SseSlots \ h'.query : sse_clients'[i] # None =>
              i \notin h.query /\ sse_clients'[i] = sse_clients[i]
      BY <1>4, <1>6
    <2> QED BY <1>1, <1>2, <1>3, <2>1, <2>2 DEF FollowersAreOpen, IsFollower
  <1>15. NoDescriptorLost'
    <2> SUFFICES ASSUME NEW f \in Fds, sock'[f].kind # "closed",
                        ~sock'[f].epoll, sock'[f].listed
                 PROVE  f \in Followed'
      BY DEF NoDescriptorLost, Open
    <2>1. f # n /\ sock'[f] = sock[f]
      BY <1>2, NoSockOK
    <2>2. PICK i \in SseSlots : sse_clients[i] = f
      BY <2>1 DEF NoDescriptorLost, Open, Followed
    <2>3. sse_clients'[i] = f
      BY <1>6, <2>1, <2>2
    <2> QED BY <1>1, <2>3 DEF Followed
  <1>16. CommandsReachTheAgent'
    BY <1>4 DEF CommandsReachTheAgent
  <1> QED BY <1>7, <1>9, <1>10, <1>11, <1>12, <1>13, <1>14, <1>15, <1>16

-----------------------------------------------------------------------------
(***************************************************************************)
(* Connections that are heard.                                             *)
(***************************************************************************)
(* What Freed makes of a batch. *)
LEMMA FreedIs ==
    ASSUME NEW B \in SUBSET Event, NEW S, NEW d \in Freed(B, S)
    PROVE  \E b \in B : /\ d = [b EXCEPT !.freed = b.freed \/ b.fd \in S]
                        /\ d \in Event
                        /\ d.fd = b.fd
                        /\ ~d.freed => ~b.freed /\ b.fd \notin S
  <1>1. PICK b \in B : d = [b EXCEPT !.freed = b.freed \/ b.fd \in S]
    BY DEF Freed
  <1>2. PICK x \in BOOLEAN : x = (b.freed \/ b.fd \in S)
    BY Zenon DEF Event
  <1>3. d = [b EXCEPT !.freed = x]
    BY <1>1, <1>2, Zenon
  <1>4. d \in Event /\ d.fd = b.fd /\ d.freed = x
    BY <1>3, Zenon DEF Event
  <1>5. ~d.freed => ~b.freed /\ b.fd \notin S
    BY <1>2, <1>4, Zenon
  <1> QED BY <1>1, <1>4, <1>5, Zenon

(* An agent's connection n becomes s; registered connections (stale) and   *)
(* followers (slow) are closed and leave their tables, and slots of closed *)
(* descriptors are emptied.                                                *)
Hears(n, s, stale, slow) ==
    /\ s.kind = "agent" /\ s.owner = sock[n].owner /\ s.uuid = s.owner
    /\ s.epoll = sock[n].epoll /\ s.listed = sock[n].listed
    /\ s.latest => Stale(n, s.owner) \subseteq stale
    /\ \A f \in stale : Registered(f) /\ f # n
    /\ \A f \in slow : IsFollower(f)
    /\ sock' = Heard(n, s, stale \cup slow)
    /\ connected_agents' = [i \in AgentSlots |-> IF connected_agents[i] \in stale THEN None
                                                 ELSE connected_agents[i]]
    /\ sse_clients' \in [SseSlots -> Fds \cup {None}]
    /\ \A i \in SseSlots :
          IF sse_clients[i] \in slow THEN sse_clients'[i] = None
          ELSE \/ sse_clients'[i] = sse_clients[i]
               \/ sse_clients'[i] = None /\ ~Open(sse_clients[i])
    /\ h' \in [query : SUBSET SseSlots, missed : BOOLEAN]
    /\ h'.missed = h.missed
    /\ \A i \in h.query : sse_clients'[i] # None => i \in h'.query
    /\ status' = "misdirected" =>
          \E i \in SseSlots : /\ sse_clients[i] # None /\ Open(sse_clients[i])
                              /\ ~IsFollower(sse_clients[i])

(* A connection that is heard keeps the invariant. *)
LEMMA HearsIInv ==
    ASSUME IInv, NEW e \in batch, ~e.freed, sock[e.fd].kind = "agent",
           NEW s \in Conn, ConnOK(s),
           NEW stale \in SUBSET Fds, NEW slow \in SUBSET Fds,
           Hears(e.fd, s, stale, slow),
           batch' = Freed(batch \ {e}, stale),
           status' \in {"running", "killed", "undefined", "misdirected"}
    PROVE  IInv'
  <1> USE DEF IInv
  <1> DEFINE n == e.fd
  <1>1. /\ n \in Fds /\ sock[n].kind = "agent" /\ sock[n].epoll
        /\ sock \in [Fds -> Conn]
        /\ connected_agents \in [AgentSlots -> Fds \cup {None}]
        /\ sse_clients \in [SseSlots -> Fds \cup {None}]
        /\ None \notin Fds
    BY SocReceiverConstants DEF Typing, Event, BatchIsWatched
  <1>2. Hears(n, s, stale, slow)
    OBVIOUS
  <1>3. \A d \in batch \ {e} : d \in Event /\ d.fd \in Fds /\ d.fd # n
    BY DEF Typing, Event, BatchIsWatched
  <1> HIDE DEF n
  <1>4. /\ \A f \in stale : sock[f].kind = "agent" /\ f # n /\ Registered(f)
        /\ \A f \in slow : sock[f].kind = "web" /\ ~sock[f].epoll /\ f # n
    BY <1>1, <1>2 DEF Hears, RegistryIsLive, IsFollower
  <1>5. sock' = Heard(n, s, stale \cup slow)
    BY <1>2 DEF Hears
  <1>6. /\ sock' \in [Fds -> Conn]
        /\ sock'[n] = s
        /\ \A f \in stale \cup slow : sock'[f] = NoSock
    <2>1. \A f \in Fds : sock'[f] \in Conn
      BY <1>1, <1>5, NoSockOK, NotLatestOK DEF Heard
    <2> QED BY <1>1, <1>4, <1>5, <2>1 DEF Heard
  <1>7. ASSUME NEW f \in Fds \ {n}, f \notin stale, f \notin slow
        PROVE  /\ sock'[f].kind = sock[f].kind
               /\ sock'[f].owner = sock[f].owner
               /\ sock'[f].uuid = sock[f].uuid
               /\ sock'[f].epoll = sock[f].epoll
               /\ sock'[f].header = sock[f].header
               /\ sock'[f].listed = sock[f].listed
               /\ sock[f].kind = "closed" => sock'[f] = sock[f]
               /\ sock'[f].latest => sock[f].latest /\ sock[f].owner # s.owner
    <2>1. sock[f] \in Conn /\ ConnOK(sock[f])
      BY <1>1, <1>7 DEF Conns
    <2>2. CASE sock[f].owner = s.owner
      <3>1. sock'[f] = [sock[f] EXCEPT !.latest = FALSE]
        BY <1>5, <1>7, <2>2 DEF Heard
      <3>2. s.owner # None
        BY DEF Hears, ConnOK
      <3>3. sock[f].kind # "closed"
        BY <2>1, <2>2, <3>2, NoSockOK DEF ConnOK
      <3> QED BY <2>1, <3>1, <3>3, NotLatestOK
    <2>3. CASE sock[f].owner # s.owner
      <3>1. sock'[f] = sock[f]
        BY <1>5, <1>7, <2>3 DEF Heard
      <3> QED BY <2>3, <3>1
    <2> QED BY <2>2, <2>3
  <1>8. \A f \in Fds : sock'[f].latest =>
           f = n \/ (f \notin stale /\ f \notin slow)
    BY <1>6, NoSockOK
  <1>9. /\ connected_agents' \in [AgentSlots -> Fds \cup {None}]
        /\ \A i \in AgentSlots : connected_agents'[i] =
              IF connected_agents[i] \in stale THEN None ELSE connected_agents[i]
    BY <1>1, <1>2 DEF Hears
  <1>10. \A f \in Fds : Registered(f)' <=> Registered(f) /\ f \notin stale
    BY <1>1, <1>9 DEF Registered
  <1>11. Typing'
    <2>1. \A d \in batch' : d \in Event
      <3>1. batch \ {e} \in SUBSET Event
        BY <1>3
      <3> QED BY <3>1, FreedIs
    <2> QED BY <1>2, <1>6, <1>9, <2>1, Zenon DEF Typing, Hears
  <1>12. Conns'
    <2> SUFFICES ASSUME NEW f \in Fds PROVE ConnOK(sock'[f])
      BY DEF Conns
    <2>1. CASE f = n
      BY <1>6, <2>1
    <2>2. CASE f \in stale \cup slow
      BY <1>6, <2>2, NoSockOK
    <2>3. CASE f # n /\ f \notin stale /\ f \notin slow
      <3>1. ConnOK(sock[f])
        BY DEF Conns
      <3> QED BY <1>7, <2>3, <3>1 DEF ConnOK
    <2> QED BY <2>1, <2>2, <2>3
  <1>13. RegistryIsLive'
    <2>1. \A f \in Fds : Registered(f)' => sock'[f].kind = "agent"
      <3> SUFFICES ASSUME NEW f \in Fds, Registered(f)' PROVE sock'[f].kind = "agent"
        OBVIOUS
      <3>1. sock[f].kind = "agent" /\ f \notin stale /\ f \notin slow
        BY <1>4, <1>10 DEF RegistryIsLive
      <3>2. CASE f = n
        BY <1>2, <1>6, <3>2 DEF Hears
      <3> QED BY <1>7, <3>1, <3>2
    <2>2. \A i, j \in AgentSlots :
             connected_agents'[i] = connected_agents'[j] /\ connected_agents'[i] # None
               => i = j
      BY <1>9 DEF RegistryIsLive
    <2> QED BY <2>1, <2>2 DEF RegistryIsLive, Registered
  <1>14. ListedIsRegistered'
    <2> SUFFICES ASSUME NEW f \in Fds, sock'[f].kind = "agent", sock'[f].listed
                 PROVE  Registered(f)'
      BY DEF ListedIsRegistered
    <2>1. f \notin stale /\ f \notin slow
      BY <1>6, NoSockOK
    <2>2. sock[f].kind = "agent" /\ sock[f].listed
      BY <1>1, <1>2, <1>6, <1>7, <2>1, Zenon DEF Hears
    <2> QED BY <1>10, <2>1, <2>2 DEF ListedIsRegistered
  <1>15. HeardAlone'
    <2> SUFFICES ASSUME NEW f \in Fds, NEW g \in Fds, sock'[f].latest,
                        Registered(g)', f # g
                 PROVE  sock'[g].uuid # sock'[f].owner
      BY DEF HeardAlone
    <2>1. Registered(g) /\ g \notin stale /\ g \notin slow
      BY <1>4, <1>10 DEF RegistryIsLive
    <2>2. CASE f = n
      <3>1. sock'[f].owner = s.owner /\ Stale(n, s.owner) \subseteq stale
        BY <1>2, <1>6, <2>2 DEF Hears
      <3>2. sock[g].uuid # s.owner
        BY <2>1, <2>2, <3>1 DEF Stale, Registered
      <3> QED BY <1>7, <2>1, <2>2, <3>1, <3>2
    <2>3. CASE f # n /\ g = n
      <3>1. sock'[f].owner = sock[f].owner /\ sock[f].owner # s.owner
        BY <1>7, <1>8, <2>3
      <3> QED BY <1>2, <1>6, <2>3, <3>1, Zenon DEF Hears
    <2>4. CASE f # n /\ g # n
      <3>1. sock'[f].owner = sock[f].owner /\ sock[f].latest
        BY <1>7, <1>8, <2>4
      <3> QED BY <1>7, <2>1, <2>4, <3>1 DEF HeardAlone
    <2> QED BY <2>2, <2>3, <2>4
  <1>16. BatchIsWatched'
    <2>1. batch \ {e} \in SUBSET Event
      BY <1>3
    <2>2. ASSUME NEW d \in batch'
          PROVE  \E b \in batch \ {e} :
                    /\ d = [b EXCEPT !.freed = b.freed \/ b.fd \in stale]
                    /\ d.fd = b.fd
                    /\ ~d.freed => ~b.freed /\ b.fd \notin stale
      BY <2>1, FreedIs
    <2>3. ASSUME NEW c \in batch', NEW d \in batch', c.fd = d.fd PROVE c = d
      <3>1. PICK a \in batch \ {e} : /\ c = [a EXCEPT !.freed = a.freed \/ a.fd \in stale]
                                     /\ c.fd = a.fd
        BY <2>2
      <3>2. PICK b \in batch \ {e} : /\ d = [b EXCEPT !.freed = b.freed \/ b.fd \in stale]
                                     /\ d.fd = b.fd
        BY <2>2
      <3>3. a = b
        <4>1. a.fd = b.fd
          BY <2>3, <3>1, <3>2, Zenon
        <4> QED BY <4>1, Zenon DEF BatchIsWatched
      <3> QED BY <3>1, <3>2, <3>3, Zenon
    <2>4. ASSUME NEW d \in batch', ~d.freed PROVE sock'[d.fd].epoll
      <3>1. PICK b \in batch \ {e} : d.fd = b.fd /\ ~b.freed /\ b.fd \notin stale
        BY <2>2, <2>4, Zenon
      <3>2. b.fd \in Fds \ {n} /\ sock[b.fd].epoll
        BY <1>3, <3>1 DEF BatchIsWatched
      <3>3. b.fd \notin slow
        BY <1>4, <3>2
      <3> QED BY <1>7, <3>1, <3>2, <3>3
    <2> QED BY <2>3, <2>4, Zenon DEF BatchIsWatched
  <1>17. FollowersAreOpen'
    <2>1. ASSUME NEW i \in SseSlots, sse_clients[i] # None, IsFollower(sse_clients[i]),
                 sse_clients'[i] # None
          PROVE  sock'[sse_clients'[i]].kind = "web" /\ ~sock'[sse_clients'[i]].epoll
      <3>1. sse_clients'[i] = sse_clients[i] /\ sse_clients[i] \notin slow
        BY <1>2, <2>1, Zenon DEF Hears, IsFollower, Open
      <3>2. sse_clients[i] \in Fds \ {n} /\ sse_clients[i] \notin stale
        BY <1>1, <1>4, <2>1 DEF IsFollower
      <3> QED BY <1>7, <2>1, <3>1, <3>2 DEF IsFollower
    <2>2. \A i \in SseSlots \ h'.query : sse_clients'[i] # None =>
              i \notin h.query /\ sse_clients[i] # None
      BY <1>2, Zenon DEF Hears
    <2>3. \A i \in SseSlots \ h'.query : sse_clients'[i] # None =>
              sock'[sse_clients'[i]].kind = "web" /\ ~sock'[sse_clients'[i]].epoll
      BY <2>1, <2>2 DEF FollowersAreOpen
    <2>4. ASSUME status' = "misdirected" PROVE h'.query # {}
      <3>1. PICK i \in SseSlots : /\ sse_clients[i] # None /\ Open(sse_clients[i])
                                  /\ ~IsFollower(sse_clients[i])
        BY <1>2, <2>4, Zenon DEF Hears
      <3>2. i \in h.query
        BY <3>1 DEF FollowersAreOpen
      <3>3. sse_clients[i] \notin slow
        BY <1>2, <3>1, Zenon DEF Hears
      <3> QED BY <1>2, <3>1, <3>2, <3>3, Zenon DEF Hears
    <2> QED BY <2>3, <2>4 DEF FollowersAreOpen, IsFollower
  <1>18. NoDescriptorLost'
    <2> SUFFICES ASSUME NEW f \in Fds, sock'[f].kind # "closed",
                        ~sock'[f].epoll, sock'[f].listed
                 PROVE  f \in Followed'
      BY DEF NoDescriptorLost, Open
    <2>1. f # n /\ f \notin stale /\ f \notin slow
      BY <1>1, <1>2, <1>6, NoSockOK, Zenon DEF Hears
    <2>2. PICK i \in SseSlots : sse_clients[i] = f
      BY <1>7, <2>1 DEF NoDescriptorLost, Open, Followed
    <2>3. sock[f].kind # "closed"
      BY <1>7, <2>1
    <2>4. sse_clients'[i] = f
      BY <1>2, <2>1, <2>2, <2>3, Zenon DEF Hears, Open
    <2> QED BY <1>1, <2>4 DEF Followed
  <1>19. CommandsReachTheAgent'
    BY <1>2, Zenon DEF CommandsReachTheAgent, Hears
  <1> QED BY <1>11, <1>12, <1>13, <1>14, <1>15, <1>16, <1>17, <1>18, <1>19

(* Nothing is freed. *)
LEMMA FreedNone ==
    ASSUME NEW B \in SUBSET Event
    PROVE  Freed(B, {}) = B
  <1>1. ASSUME NEW b \in B PROVE [b EXCEPT !.freed = b.freed \/ b.fd \in {}] = b
    <2>1. b \in Event
      OBVIOUS
    <2>2. (b.freed \/ b.fd \in {}) = b.freed
      BY <2>1 DEF Event
    <2>3. [b EXCEPT !.freed = b.freed] = b
      BY <2>1, Zenon DEF Event
    <2> QED BY <2>2, <2>3, Zenon
  <1> QED BY <1>1, Zenon DEF Freed

(* The parts of a connection after a read. *)
ReadOf(s, c) ==
    /\ s \in Conn /\ ConnOK(s)
    /\ s.kind = "agent" /\ s.owner = c.owner /\ s.uuid = s.owner
    /\ s.epoll = c.epoll /\ s.listed = c.listed

(* The connection after a header, and after the message it begins. *)
LEMMA HeaderRead ==
    ASSUME NEW c \in Conn, ConnOK(c), c.kind = "agent"
    PROVE  LET s == [c EXCEPT !.uuid = c.owner, !.in = FALSE]
           IN /\ ReadOf([s EXCEPT !.header = TRUE, !.latest = FALSE], c)
              /\ [s EXCEPT !.header = TRUE, !.latest = FALSE].latest = FALSE
              /\ ReadOf([s EXCEPT !.latest = TRUE], c)
  <1>1. c.owner # None
    BY DEF ConnOK
  <1>2. PICK s : s = [c EXCEPT !.uuid = c.owner, !.in = FALSE]
    OBVIOUS
  <1>3. /\ s \in Conn /\ s.kind = "agent" /\ s.owner = c.owner /\ s.uuid = c.owner
        /\ s.epoll = c.epoll /\ s.listed = c.listed
    BY <1>2, Zenon DEF Conn
  <1>4. PICK r : r = [s EXCEPT !.header = TRUE, !.latest = FALSE]
    OBVIOUS
  <1>5. /\ r \in Conn /\ r.kind = "agent" /\ r.owner = c.owner /\ r.uuid = c.owner
        /\ r.epoll = c.epoll /\ r.listed = c.listed /\ r.latest = FALSE
    BY <1>3, <1>4, Zenon DEF Conn
  <1>6. PICK t : t = [s EXCEPT !.latest = TRUE]
    BY Zenon
  <1>7. /\ t \in Conn /\ t.kind = "agent" /\ t.owner = c.owner /\ t.uuid = c.owner
        /\ t.epoll = c.epoll /\ t.listed = c.listed
    BY <1>3, <1>6, Zenon DEF Conn
  <1>8. ReadOf(r, c) /\ ReadOf(t, c)
    BY <1>1, <1>5, <1>7 DEF ReadOf, ConnOK
  <1> QED BY <1>2, <1>4, <1>5, <1>6, <1>8, Zenon

(* The connection after a payload. *)
LEMMA PayloadRead ==
    ASSUME NEW c \in Conn, ConnOK(c), c.kind = "agent", c.header
    PROVE  ReadOf([c EXCEPT !.latest = TRUE, !.header = FALSE, !.in = FALSE], c)
  <1>1. c.owner # None /\ c.uuid = c.owner
    BY DEF ConnOK
  <1>2. PICK s : s = [c EXCEPT !.latest = TRUE, !.header = FALSE, !.in = FALSE]
    OBVIOUS
  <1>3. /\ s \in Conn /\ s.kind = "agent" /\ s.owner = c.owner /\ s.uuid = c.uuid
        /\ s.epoll = c.epoll /\ s.listed = c.listed
    BY <1>2, Zenon DEF Conn
  <1>4. ReadOf(s, c)
    BY <1>1, <1>3 DEF ReadOf, ConnOK
  <1> QED BY <1>2, <1>4, Zenon

(* A complete message: the other connections of its agent are closed, and  *)
(* an alert is written to the followers.                                   *)
LEMMA ProcessIInv ==
    ASSUME IInv, status = "running", NEW e \in batch, ~e.freed,
           sock[e.fd].kind = "agent", NEW s, ReadOf(s, sock[e.fd]),
           NEW kind, Process(e.fd, s, kind, batch \ {e})
    PROVE  IInv'
  <1> DEFINE n == e.fd
             stale == Stale(n, s.uuid)
  <1>1. /\ n \in Fds
        /\ sse_clients \in [SseSlots -> Fds \cup {None}]
        /\ None \notin Fds
    BY SocReceiverConstants DEF IInv, Typing, Event
  <1>2. /\ stale \in SUBSET Fds
        /\ \A f \in stale : Registered(f) /\ f # n
    BY DEF Stale, Registered
  <1>3. /\ connected_agents' = [i \in AgentSlots |-> IF connected_agents[i] \in stale THEN None
                                                     ELSE connected_agents[i]]
        /\ batch' = Freed(batch \ {e}, stale)
        /\ ForgetEmptied
    BY DEF Process
  <1>4. /\ h' \in [query : SUBSET SseSlots, missed : BOOLEAN]
        /\ h'.missed = h.missed
        /\ \A i \in h.query : sse_clients'[i] # None => i \in h'.query
    BY <1>3, ForgetEmptiedIs DEF IInv
  <1>5. ASSUME NEW slow \in SUBSET {f \in Followed : IsFollower(f)},
               sock' = Heard(n, s, stale \cup slow),
               sse_clients' \in [SseSlots -> Fds \cup {None}],
               \A i \in SseSlots :
                  IF sse_clients[i] \in slow THEN sse_clients'[i] = None
                  ELSE \/ sse_clients'[i] = sse_clients[i]
                       \/ sse_clients'[i] = None /\ ~Open(sse_clients[i]),
               status' \in {"running", "killed", "misdirected"},
               status' = "misdirected" =>
                  \E i \in SseSlots : /\ sse_clients[i] # None /\ Open(sse_clients[i])
                                      /\ ~IsFollower(sse_clients[i])
        PROVE  IInv'
    <2>1. slow \in SUBSET Fds /\ \A f \in slow : IsFollower(f)
      BY <1>1 DEF Followed
    <2>2. s \in Conn /\ ConnOK(s)
      BY DEF ReadOf
    <2>3. Hears(n, s, stale, slow)
      <3> HIDE DEF stale
      <3>1. s.latest => Stale(n, s.owner) \subseteq stale
        BY DEF stale, ReadOf
      <3> HIDE DEF n
      <3>2. /\ s.kind = "agent" /\ s.owner = sock[n].owner /\ s.uuid = s.owner
            /\ s.epoll = sock[n].epoll /\ s.listed = sock[n].listed
        BY DEF ReadOf, n
      <3> QED BY <1>2, <1>3, <1>4, <1>5, <2>1, <3>1, <3>2, Zenon DEF Hears
    <2> HIDE DEF stale
    <2> QED BY <1>2, <1>3, <1>5, <2>1, <2>2, <2>3, HearsIInv
  <1>6. CASE kind = "alert"
    <2>1. PICK slow \in SUBSET {f \in Followed : IsFollower(f)} :
             /\ sse_clients' = AfterBroadcast(slow)
             /\ status' \in BroadcastStatus
             /\ sock' = Heard(n, s, stale \cup slow)
      BY <1>6, Zenon DEF Process
    <2>2. /\ sse_clients' \in [SseSlots -> Fds \cup {None}]
          /\ \A i \in SseSlots :
                IF sse_clients[i] \in slow THEN sse_clients'[i] = None
                ELSE \/ sse_clients'[i] = sse_clients[i]
                     \/ sse_clients'[i] = None /\ ~Open(sse_clients[i])
      BY <1>1, <2>1 DEF AfterBroadcast, Followed
    <2>3. /\ status' \in {"running", "killed", "misdirected"}
          /\ status' = "misdirected" =>
                \E i \in SseSlots : /\ sse_clients[i] # None /\ Open(sse_clients[i])
                                    /\ ~IsFollower(sse_clients[i])
      BY <2>1 DEF BroadcastStatus, StatusAfterWrite, Followed
    <2> QED BY <1>5, <2>1, <2>2, <2>3
  <1>7. CASE kind # "alert"
    <2>1. PICK slow \in SUBSET {f \in Followed : IsFollower(f)} : slow = {}
      BY Zenon
    <2>2. sock' = Heard(n, s, stale \cup slow) /\ UNCHANGED <<status, sse_clients>>
      BY <1>7, <2>1 DEF Process
    <2> HIDE DEF stale, n
    <2>3. /\ sse_clients' \in [SseSlots -> Fds \cup {None}]
          /\ \A i \in SseSlots :
                IF sse_clients[i] \in slow THEN sse_clients'[i] = None
                ELSE \/ sse_clients'[i] = sse_clients[i]
                     \/ sse_clients'[i] = None /\ ~Open(sse_clients[i])
      BY <1>1, <2>1, <2>2
    <2>4. status' \in {"running", "killed", "misdirected"} /\ status' # "misdirected"
      BY <2>2
    <2> QED BY <1>5, <2>2, <2>3, <2>4
  <1> QED BY <1>6, <1>7

(* EPOLLRDHUP, EPOLLHUP and EPOLLERR. *)
LEMMA HangupIInv ==
    ASSUME IInv, status = "running", NEW e \in batch, Hangup(e)
    PROVE  IInv'
  BY CloseConnIInv DEF Hangup

(* A header is read. *)
LEMMA AgentHeaderIInv ==
    ASSUME IInv, status = "running", NEW e \in batch, AgentHeader(e)
    PROVE  IInv'
  <1>1. /\ ~e.freed /\ e.fd \in Fds /\ sock[e.fd].kind = "agent"
        /\ sock[e.fd] \in Conn /\ ConnOK(sock[e.fd])
        /\ batch \ {e} \in SUBSET Event
    BY DEF AgentHeader, IInv, Typing, Event, Conns
  <1> DEFINE c == sock[e.fd]
             s == [c EXCEPT !.uuid = c.owner, !.in = FALSE]
             r == [s EXCEPT !.header = TRUE, !.latest = FALSE]
             t == [s EXCEPT !.latest = TRUE]
  <1>2. ReadOf(r, c) /\ r.latest = FALSE /\ ReadOf(t, c)
    <2> HIDE DEF c
    <2>1. c \in Conn /\ ConnOK(c) /\ c.kind = "agent"
      BY <1>1 DEF c
    <2> QED BY <2>1, HeaderRead, Zenon
  <1>3. CASE CloseConn(e, sse_clients)
    BY <1>1, <1>3, CloseConnIInv
  <1>4. CASE /\ sock' = Heard(e.fd, r, {})
             /\ batch' = batch \ {e}
             /\ UNCHANGED <<status, connected_agents, sse_clients, h>>
    <2> HIDE DEF r
    <2>1. /\ sock' = Heard(e.fd, r, {} \cup {})
          /\ batch' = Freed(batch \ {e}, {})
      BY <1>1, <1>4, FreedNone
    <2>2. /\ connected_agents' = [i \in AgentSlots |-> IF connected_agents[i] \in {} THEN None
                                                       ELSE connected_agents[i]]
          /\ sse_clients' = sse_clients /\ h' = h /\ status' = "running"
          /\ sse_clients \in [SseSlots -> Fds \cup {None}]
          /\ h \in [query : SUBSET SseSlots, missed : BOOLEAN]
      BY <1>4 DEF IInv, Typing
    <2>3. Hears(e.fd, r, {}, {})
      BY <1>2, <2>1, <2>2 DEF Hears, ReadOf
    <2>4. r \in Conn /\ ConnOK(r)
      BY <1>2 DEF ReadOf
    <2>5. {} \in SUBSET Fds
      OBVIOUS
    <2>6. status' \in {"running", "killed", "undefined", "misdirected"}
      BY <2>2
    <2> QED BY <1>1, <2>1, <2>3, <2>4, <2>5, <2>6, HearsIInv
  <1>5. ASSUME NEW kind, Process(e.fd, t, kind, batch \ {e}) PROVE IInv'
    <2> HIDE DEF t
    <2> QED BY <1>1, <1>2, <1>5, ProcessIInv
  <1> QED BY <1>3, <1>4, <1>5 DEF AgentHeader

(* A payload is read. *)
LEMMA AgentPayloadIInv ==
    ASSUME IInv, status = "running", NEW e \in batch, AgentPayload(e)
    PROVE  IInv'
  <1>1. /\ ~e.freed /\ e.fd \in Fds /\ sock[e.fd].kind = "agent"
        /\ sock[e.fd] \in Conn /\ ConnOK(sock[e.fd]) /\ sock[e.fd].header
    BY DEF AgentPayload, IInv, Typing, Event, Conns
  <1>2. PICK kind : Process(e.fd, [sock[e.fd] EXCEPT !.latest = TRUE, !.header = FALSE,
                                                     !.in = FALSE], kind, batch \ {e})
    BY DEF AgentPayload
  <1>3. PICK s : s = [sock[e.fd] EXCEPT !.latest = TRUE, !.header = FALSE, !.in = FALSE]
    OBVIOUS
  <1>4. ReadOf(s, sock[e.fd])
    BY <1>1, <1>3, PayloadRead, Zenon
  <1>5. Process(e.fd, s, kind, batch \ {e})
    BY <1>2, <1>3, Zenon
  <1> QED BY <1>1, <1>4, <1>5, ProcessIInv, Zenon

-----------------------------------------------------------------------------
(***************************************************************************)
(* Commands and requests.                                                  *)
(***************************************************************************)
(* A command of the dashboard. *)
LEMMA LocalCommandIInv ==
    ASSUME IInv, status = "running", NEW u \in Agents, LocalCommand(u)
    PROVE  IInv'
  <1>1. UNCHANGED <<sock, connected_agents, sse_clients, batch>> /\ h' = Commanded(u)
    BY DEF LocalCommand
  <1>2. sock \in [Fds -> Conn]
    BY DEF IInv, Typing
  <1>3. status' \in {"running", "killed", "undefined"}
    BY DEF LocalCommand, StatusAfterWrite
  <1>4. \A f \in Fds : SameConn(sock'[f], sock[f])
    BY <1>1 DEF SameConn
  <1> QED BY <1>1, <1>2, <1>3, <1>4, CommandFinds, SameConns

(* An event whose object is gone. *)
LEMMA UseAfterFreeIInv ==
    ASSUME IInv, NEW e \in batch, UseAfterFree(e)
    PROVE  IInv'
  <1>1. UNCHANGED <<sock, connected_agents, sse_clients, batch, h>> /\ status' = "undefined"
    BY DEF UseAfterFree
  <1>2. sock \in [Fds -> Conn] /\ h \in [query : SUBSET SseSlots, missed : BOOLEAN]
    BY DEF IInv, Typing
  <1>3. \A f \in Fds : SameConn(sock'[f], sock[f])
    BY <1>1 DEF SameConn
  <1> QED BY <1>1, <1>2, <1>3, SameConns

(* The connection n of a browser becomes c, closed or a follower's, and n  *)
(* may enter the followers.                                                *)
Answers(n, c) ==
    /\ c.kind \in {"closed", "web"} /\ ~c.latest
    /\ sock' = [sock EXCEPT ![n] = c]
    /\ sse_clients' \in [SseSlots -> Fds \cup {None}]
    /\ \A i \in SseSlots : \/ sse_clients'[i] = sse_clients[i]
                           \/ /\ sse_clients[i] = None /\ sse_clients'[i] = n
                              /\ (c.kind = "web" /\ ~c.epoll) \/ i \in h'.query
    /\ c.kind = "web" /\ ~c.epoll /\ c.listed =>
          \E i \in SseSlots : sse_clients'[i] = n
    /\ h' \in [query : SUBSET SseSlots, missed : BOOLEAN]
    /\ h'.missed = h.missed /\ h.query \subseteq h'.query

(* A request that is answered keeps the invariant. *)
LEMMA AnswersIInv ==
    ASSUME IInv, NEW e \in batch, ~e.freed, sock[e.fd].kind = "web",
           NEW c \in Conn, ConnOK(c), Answers(e.fd, c),
           batch' = batch \ {e}, UNCHANGED connected_agents,
           status' \in {"running", "killed"}
    PROVE  IInv'
  <1> USE DEF IInv
  <1> DEFINE n == e.fd
  <1>1. /\ n \in Fds /\ sock[n].epoll /\ sock[n].kind = "web"
        /\ sock \in [Fds -> Conn]
        /\ sse_clients \in [SseSlots -> Fds \cup {None}]
        /\ None \notin Fds
    BY SocReceiverConstants DEF Typing, Event, BatchIsWatched
  <1>2. Answers(n, c)
    OBVIOUS
  <1>3. \A d \in batch \ {e} : d.fd \in Fds \ {n}
    BY DEF Typing, Event, BatchIsWatched
  <1> HIDE DEF n
  <1>4. /\ sock' \in [Fds -> Conn] /\ sock'[n] = c
        /\ \A f \in Fds \ {n} : sock'[f] = sock[f]
    <2> HIDE DEF IInv
    <2>1. sock' = [sock EXCEPT ![n] = c]
      BY <1>2, Zenon DEF Answers
    <2> QED BY <1>1, <2>1
  <1>5. ~Registered(n) /\ \A f \in Fds : Registered(f)' <=> Registered(f)
    BY <1>1 DEF RegistryIsLive, Registered
  <1>6. Typing'
    BY <1>2, <1>4 DEF Typing, Answers
  <1>7. Conns'
    BY <1>4 DEF Conns
  <1>8. RegistryIsLive'
    <2>1. \A f \in Fds : Registered(f)' => sock'[f].kind = "agent"
      BY <1>4, <1>5 DEF RegistryIsLive
    <2> QED BY <2>1 DEF RegistryIsLive, Registered
  <1>9. ListedIsRegistered'
    BY <1>2, <1>4, <1>5 DEF ListedIsRegistered, Answers
  <1>10. HeardAlone'
    <2> SUFFICES ASSUME NEW f \in Fds, NEW g \in Fds, sock'[f].latest,
                        Registered(g)', f # g
                 PROVE  sock'[g].uuid # sock'[f].owner
      BY DEF HeardAlone
    <2>1. f # n /\ g # n
      BY <1>2, <1>4, <1>5 DEF Answers
    <2> QED BY <1>4, <1>5, <2>1 DEF HeardAlone
  <1>11. BatchIsWatched'
    BY <1>3, <1>4 DEF BatchIsWatched
  <1>12. FollowersAreOpen'
    <2> SUFFICES ASSUME NEW i \in SseSlots \ h'.query, sse_clients'[i] # None
                 PROVE  sock'[sse_clients'[i]].kind = "web" /\ ~sock'[sse_clients'[i]].epoll
      BY DEF FollowersAreOpen, IsFollower
    <2>1. i \notin h.query
      BY <1>2 DEF Answers
    <2>2. CASE sse_clients'[i] = sse_clients[i]
      <3>1. IsFollower(sse_clients[i]) /\ sse_clients[i] \in Fds
        BY <1>1, <2>1, <2>2 DEF FollowersAreOpen
      <3>2. sse_clients[i] # n
        BY <1>1, <3>1 DEF IsFollower
      <3> QED BY <1>4, <2>2, <3>1, <3>2 DEF IsFollower
    <2>3. CASE sse_clients'[i] = n /\ c.kind = "web" /\ ~c.epoll
      BY <1>4, <2>3 DEF IsFollower
    <2> QED BY <1>2, <2>2, <2>3 DEF Answers
  <1>13. NoDescriptorLost'
    <2> SUFFICES ASSUME NEW f \in Fds, sock'[f].kind # "closed",
                        ~sock'[f].epoll, sock'[f].listed
                 PROVE  f \in Followed'
      BY DEF NoDescriptorLost, Open
    <2>1. PICK i \in SseSlots : sse_clients'[i] = f
      <3>1. CASE f = n
        BY <1>2, <1>4, <3>1 DEF Answers
      <3>2. CASE f # n
        <4>1. PICK i \in SseSlots : sse_clients[i] = f
          BY <1>4, <3>2 DEF NoDescriptorLost, Open, Followed
        <4> QED BY <1>1, <1>2, <4>1 DEF Answers
      <3> QED BY <3>1, <3>2
    <2> QED BY <1>1, <2>1 DEF Followed
  <1>14. CommandsReachTheAgent'
    BY <1>2 DEF CommandsReachTheAgent, Answers
  <1> QED BY <1>6, <1>7, <1>8, <1>9, <1>10, <1>11, <1>12, <1>13, <1>14

(* A browser's request. *)
LEMMA WebDataIInv ==
    ASSUME IInv, status = "running", NEW e \in batch, WebData(e)
    PROVE  IInv'
  <1> DEFINE n == e.fd
  <1>1. /\ n \in Fds /\ sock[n].kind = "web" /\ ~e.freed
        /\ sock \in [Fds -> Conn] /\ ConnOK(sock[n])
        /\ sse_clients \in [SseSlots -> Fds \cup {None}]
        /\ SseSlots \in SUBSET Nat
        /\ h \in [query : SUBSET SseSlots, missed : BOOLEAN]
    BY SocReceiverConstants DEF WebData, IInv, Typing, Event, Conns
  <1>2. PICK r \in Requests :
          LET follows == r.auth /\ r.path \in {"live", "live?"}
              sends == r.auth /\ r.path = "command"
          IN /\ sock' = IF StaysOpen(r)
                        THEN [sock EXCEPT ![n].in = FALSE, ![n].epoll = Watched(r),
                                          ![n].listed = FreeSlots(sse_clients) # {}]
                        ELSE Closed({n})
             /\ sse_clients' = IF follows THEN Added(sse_clients, n) ELSE sse_clients
             /\ status' \in StatusAfterWrite(n) \cup
                   (IF sends THEN StatusAfterWrite(CommandFd(r.agent)) ELSE {})
             /\ h' = IF sends THEN Commanded(r.agent)
                     ELSE [h EXCEPT !.query = @ \cup
                              {i \in SseSlots : r.path = "live?" /\ sse_clients'[i] # sse_clients[i]}]
    BY Zenon DEF WebData
  <1>3. batch' = batch \ {e} /\ UNCHANGED connected_agents
    BY DEF WebData
  <1>4. status' \in {"running", "killed"}
    BY <1>2 DEF StatusAfterWrite
  <1>5. /\ r.auth \in BOOLEAN
        /\ r.path = "command" => r.auth = TRUE /\ r.agent \in Agents
        /\ r.path = "live?" => r.auth = TRUE
        /\ r.path \in {"live", "live?", "command", "other"}
    BY Zenon DEF Requests
  <1> HIDE DEF n
  <1>6. \/ sse_clients' = sse_clients /\ ~(r.auth /\ r.path \in {"live", "live?"})
        \/ /\ sse_clients' = sse_clients
           /\ FreeSlots(sse_clients) = {}
        \/ /\ r.auth /\ r.path \in {"live", "live?"}
           /\ \E m \in SseSlots : /\ sse_clients[m] = None
                                  /\ sse_clients' = [sse_clients EXCEPT ![m] = n]
    <2>1. \/ FreeSlots(sse_clients) = {} /\ Added(sse_clients, n) = sse_clients
          \/ \E m \in SseSlots : /\ sse_clients[m] = None
                                 /\ Added(sse_clients, n) = [sse_clients EXCEPT ![m] = n]
      BY <1>1, AddedFillsFree, Zenon
    <2> QED BY <1>2, <2>1, Zenon
  <1>7. /\ sse_clients' \in [SseSlots -> Fds \cup {None}]
        /\ \A i \in SseSlots : \/ sse_clients'[i] = sse_clients[i]
                               \/ /\ sse_clients[i] = None /\ sse_clients'[i] = n
                                  /\ r.auth /\ r.path \in {"live", "live?"}
    BY <1>1, <1>6
  <1>8. /\ h' \in [query : SUBSET SseSlots, missed : BOOLEAN]
        /\ h'.missed = h.missed /\ h.query \subseteq h'.query
        /\ r.path = "live?" =>
              \A i \in SseSlots : sse_clients'[i] # sse_clients[i] => i \in h'.query
    <2>1. CASE r.path = "command"
      <3>1. h' = Commanded(r.agent)
        BY <1>2, <1>5, <2>1
      <3> QED BY <1>5, <2>1, <3>1, CommandFinds
    <2>2. CASE r.path # "command"
      <3>1. h' = [h EXCEPT !.query = h.query \cup
                     {i \in SseSlots : r.path = "live?" /\ sse_clients'[i] # sse_clients[i]}]
        BY <1>2, <2>2
      <3> QED BY <1>1, <3>1
    <2> QED BY <2>1, <2>2
  <1>9. CASE r.path # "live"
    <2>1. sock' = [sock EXCEPT ![n] = NoSock]
      BY <1>1, <1>2, <1>9, Zenon DEF StaysOpen, Closed
    <2>2. Answers(n, NoSock)
      BY <1>5, <1>7, <1>8, <1>9, <2>1, NoSockOK DEF Answers
    <2> QED BY <1>1, <1>3, <1>4, <2>2, NoSockOK, AnswersIInv DEF n
  <1>10. CASE r.path = "live"
    <2>1. PICK b \in BOOLEAN : b = Watched(r)
      BY <1>5, Zenon DEF Watched
    <2>2. PICK l \in BOOLEAN : l = (FreeSlots(sse_clients) # {})
      BY Zenon
    <2>3. sock' = [sock EXCEPT ![n].in = FALSE, ![n].epoll = Watched(r),
                               ![n].listed = FreeSlots(sse_clients) # {}]
      BY <1>2, <1>10 DEF StaysOpen
    <2>4. sock' = [sock EXCEPT ![n].in = FALSE, ![n].epoll = b, ![n].listed = l]
      BY <2>1, <2>2, <2>3, Zenon
    <2>5. PICK d \in Conn : d = sock[n]
      BY <1>1
    <2>6. PICK c : c = [d EXCEPT !.in = FALSE, !.epoll = b, !.listed = l]
      OBVIOUS
    <2>7. sock' = [sock EXCEPT ![n] = c]
      BY <1>1, <2>4, <2>5, <2>6, Zenon
    <2>8. /\ c \in Conn /\ c.kind = d.kind /\ c.owner = d.owner /\ c.uuid = d.uuid
          /\ c.header = d.header /\ c.latest = d.latest /\ c.epoll = b /\ c.listed = l
      BY <2>6, Zenon DEF Conn
    <2>9. ConnOK(c) /\ c.kind = "web" /\ ~c.latest
      <3>1. d.kind = "web" /\ ConnOK(d)
        BY <1>1, <2>5
      <3> QED BY <2>8, <3>1 DEF ConnOK
    <2>10. r.auth <=> ~c.epoll
      BY <1>5, <2>1, <2>8, Zenon DEF Watched
    <2>11. c.kind = "web" /\ ~c.epoll /\ c.listed => \E i \in SseSlots : sse_clients'[i] = n
      BY <1>1, <1>6, <1>10, <2>2, <2>8, <2>10
    <2>12. Answers(n, c)
      BY <1>7, <1>8, <2>7, <2>9, <2>10, <2>11 DEF Answers
    <2> QED BY <1>1, <1>3, <1>4, <2>8, <2>9, <2>12, AnswersIInv DEF n
  <1> QED BY <1>9, <1>10

-----------------------------------------------------------------------------
(***************************************************************************)
(* The specification.                                                      *)
(***************************************************************************)
(* The receiver starts with nothing open and empty tables. *)
LEMMA InitIInv == Init => IInv
  <1> SUFFICES ASSUME Init PROVE IInv
    OBVIOUS
  <1> USE DEF Init
  <1>1. \A f \in Fds : sock[f] = NoSock
    OBVIOUS
  <1>2. None \notin Fds /\ \A f \in Fds : ~Registered(f)
    BY SocReceiverConstants DEF Registered
  <1>3. Typing
    <2>1. h \in [query : SUBSET SseSlots, missed : BOOLEAN]
      OBVIOUS
    <2> QED BY <2>1, NoSockOK DEF Typing
  <1>4. Conns /\ RegistryIsLive /\ ListedIsRegistered /\ HeardAlone
    BY <1>1, <1>2, NoSockOK DEF Conns, RegistryIsLive, ListedIsRegistered, HeardAlone
  <1>5. BatchIsWatched /\ FollowersAreOpen /\ NoDescriptorLost /\ CommandsReachTheAgent
    BY <1>1, NoSockOK DEF BatchIsWatched, FollowersAreOpen, NoDescriptorLost, Open,
                          CommandsReachTheAgent
  <1> QED BY <1>3, <1>4, <1>5 DEF IInv

(* A step in which nothing happens. *)
LEMMA StutterIInv ==
    ASSUME IInv, UNCHANGED vars
    PROVE  IInv'
  BY DEF vars, IInv, Typing, Conns, RegistryIsLive, ListedIsRegistered, HeardAlone,
         Registered, BatchIsWatched, FollowersAreOpen, IsFollower, NoDescriptorLost,
         Open, Followed, CommandsReachTheAgent

(* Every step keeps the invariant: one case per handler. *)
LEMMA NextIInv == IInv /\ [Next]_vars => IInv'
  <1> SUFFICES ASSUME IInv, [Next]_vars PROVE IInv'
    OBVIOUS
  <1>1. CASE UNCHANGED vars
    BY <1>1, StutterIInv
  <1>2. CASE Next
    <2>1. status = "running"
      BY <1>2 DEF Next
    <2>2. CASE Environment
      BY <2>1, <2>2, EnvironmentIInv
    <2>3. CASE EpollWait
      BY <2>3, EpollWaitIInv
    <2>4. ASSUME NEW u \in Agents, AcceptAgent(u) PROVE IInv'
      BY <2>1, <2>4, AcceptAgentIInv
    <2>5. ASSUME NEW u \in Agents, LocalCommand(u) PROVE IInv'
      BY <2>1, <2>5, LocalCommandIInv
    <2>6. CASE AcceptWeb
      BY <2>1, <2>6, AcceptWebIInv
    <2>7. ASSUME NEW e \in batch, UseAfterFree(e) PROVE IInv'
      BY <2>7, UseAfterFreeIInv
    <2>8. ASSUME NEW e \in batch, Hangup(e) PROVE IInv'
      BY <2>1, <2>8, HangupIInv
    <2>9. ASSUME NEW e \in batch, AgentHeader(e) PROVE IInv'
      BY <2>1, <2>9, AgentHeaderIInv
    <2>10. ASSUME NEW e \in batch, AgentPayload(e) PROVE IInv'
      BY <2>1, <2>10, AgentPayloadIInv
    <2>11. ASSUME NEW e \in batch, WebData(e) PROVE IInv'
      BY <2>1, <2>11, WebDataIInv
    <2> QED BY <1>2, <2>2, <2>3, <2>4, <2>5, <2>6, <2>7, <2>8, <2>9, <2>10, <2>11
            DEF Next, Loop
  <1> QED BY <1>1, <1>2

(* IInv holds in every state the receiver reaches. *)
THEOREM Invariance == Spec => []IInv
  BY InitIInv, NextIInv, PTL DEF Spec

(* The tables hold descriptors, and a closed one is blank. *)
THEOREM TypeCorrect == Spec => []TypeOK
  <1>1. IInv => TypeOK
    BY DEF IInv, Typing, Conn, Conns, ConnOK, TypeOK, Open
  <1> QED BY <1>1, Invariance, PTL

(* register_connected_agent, unregister_connected_agent and the clean-up   *)
(* of stale connections: every slot of connected_agents is free or an open *)
(* agent's connection, and no connection has two.                          *)
THEOREM RegistryLive == Spec => []RegistryIsLive
  <1>1. IInv => RegistryIsLive
    BY DEF IInv
  <1> QED BY <1>1, Invariance, PTL

(* sse_add, sse_remove and sse_broadcast: an alert is written to browsers  *)
(* that asked for the live events, unless one asked with a query.          *)
THEOREM FollowersOpen == Spec => []FollowersAreOpen
  <1>1. IInv => FollowersAreOpen
    BY DEF IInv
  <1> QED BY <1>1, Invariance, PTL

(* Every open descriptor is watched or followed, unless its browser found  *)
(* sse_clients full.                                                       *)
THEOREM DescriptorsKept == Spec => []NoDescriptorLost
  <1>1. IInv => NoDescriptorLost
    BY DEF IInv
  <1> QED BY <1>1, Invariance, PTL

(* send_command_to_agent writes to the connection its agent was last heard *)
(* on, however many older ones of the same agent the registry has seen.    *)
THEOREM CommandsReach == Spec => []CommandsReachTheAgent
  <1>1. IInv => CommandsReachTheAgent
    BY DEF IInv
  <1> QED BY <1>1, Invariance, PTL
=============================================================================
