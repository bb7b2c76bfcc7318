--------------------------- MODULE AgentBlocklist ---------------------------
(***************************************************************************)
(* The agent's blocklist file and its way into the firewall                *)
(* (agent/fw_agent.c): commands of the SOC edit the file, and the file is  *)
(* loaded and pushed after every command, on SIGHUP and on every connect.  *)
(* Behind the agent is the kernel module, reached by Netlink               *)
(* (kernel/fw_inspect.c), or the userspace daemon on a UNIX socket         *)
(* (kernel/fw_nfq.c, module FwNfq); a host runs one of them.  Agent,       *)
(* daemon and kernel module may die and come back at any moment, the agent *)
(* also in the middle of rewriting its file.                               *)
(*                                                                         *)
(* A line is its kind and the address its text shows.  strstr compares     *)
(* texts: Within holds the pairs whose first text occurs in the second.    *)
(***************************************************************************)
EXTENDS Integers, Sequences, FiniteSetsExt

CONSTANTS
    Ips, None,
    Within,             \* \subseteq Ips \X Ips, reflexive
    MAX_BLOCKLIST_IPS,
    Files,              \* blocklist files an installation may start with
    Absent,             \* no such file
    Broken,             \* the SOC has closed the connection
    SocketCapacity      \* payloads that may wait for the daemon

(* An entry is a line that shows an address; others may. *)
Line == [kind : {"comment", "local"}, ip : Ips \cup {None}, val : BOOLEAN]
        \cup [kind : {"entry"}, ip : Ips, val : BOOLEAN]

Commands ==
    [type : {"BLOCK_IP", "UNBLOCK_IP"}, ip : Ips, val : {FALSE}]
    \cup [type : {"CONFIG_UPDATE"}, ip : {None}, val : BOOLEAN]
    \cup [type : {"unusable"}, ip : {None}, val : {FALSE}]

ASSUME AgentBlocklistConstants ==
    /\ None \notin Ips
    /\ Within \subseteq Ips \X Ips /\ \A i \in Ips : <<i, i>> \in Within
    /\ MAX_BLOCKLIST_IPS \in Nat /\ SocketCapacity \in Nat \ {0}
    /\ Files \subseteq Seq(Line) \cup {Absent}
    /\ {None, Absent} \cap Seq(Line) = {}
    /\ {None, Broken} \cap Seq(Commands) = {} /\ None # Broken

VARIABLES
    pc,                 \* where the main loop is, or "dead"
    file,               \* the blocklist file, or Absent
    rewrite,            \* what a command is about to write, or None
    reload_requested,
    fw_fd,              \* mode, and whether the firewall it was opened to lives
    wire,               \* commands on the SOC's connection, None or Broken
    daemon,             \* fw_nfq: up, its socket's payloads, its table
    kmod,               \* fw_inspect.ko: installed, loaded, agent_pid set, its table
    owed                \* history: addresses blocked by a command the file had
                        \* room for and that nothing has taken back

vars == <<pc, file, rewrite, reload_requested, fw_fd, wire, daemon, kmod, owed>>

Entry(ip) == [kind |-> "entry", ip |-> ip, val |-> FALSE]
Header == [kind |-> "comment", ip |-> None, val |-> FALSE]
LocalLine(v) == [kind |-> "local", ip |-> None, val |-> v]

NoTable == [ips |-> {}, local |-> FALSE]
Payloads == [ips : SUBSET Ips, local : BOOLEAN]

NoFirewall == [mode |-> "none", alive |-> FALSE]
DaemonDown == [up |-> FALSE, inbox |-> << >>, table |-> NoTable]
DaemonUp == [DaemonDown EXCEPT !.up = TRUE]
Unloaded(installed) ==
    [installed |-> installed, loaded |-> FALSE, agent |-> FALSE, table |-> NoTable]

Init ==
    /\ pc = "dead"
    /\ file \in Files
    /\ rewrite = None
    /\ reload_requested = FALSE
    /\ fw_fd = NoFirewall
    /\ wire = None
    /\ daemon = DaemonDown
    /\ kmod \in {Unloaded(installed) : installed \in BOOLEAN}
    /\ owed = {}

-----------------------------------------------------------------------------
(***************************************************************************)
(* load_and_push_blocklist.                                                *)
(***************************************************************************)
Lines(f) == IF f = Absent THEN << >> ELSE f

EntryLines(f) == {i \in DOMAIN f : f[i].kind = "entry"}

(* The lines read before the payload is full. *)
LinesRead(f) ==
    {i \in DOMAIN f : Cardinality({j \in EntryLines(f) : j < i}) < MAX_BLOCKLIST_IPS}

(* The payload: the entries, and the last directive read. *)
Load(f) ==
    LET local == {i \in LinesRead(f) : f[i].kind = "local"}
    IN [ips |-> {f[i].ip : i \in EntryLines(f) \cap LinesRead(f)},
        local |-> local # {} /\ f[Max(local)].val]

(* Pushing the file f over fd, with d and k the firewalls: nothing without *)
(* a file or a connection; a failed write is only reported.  Netlink       *)
(* messages are handled in the sender's context; the UNIX socket is a      *)
(* queue, and a write waits while it is full.                              *)
CanPush(fd, d) == fd.mode = "unix" /\ fd.alive => Len(d.inbox) < SocketCapacity

(* Mutant: a file without entries is not pushed. *)
PushedUnlessEmpty(f, fd, d, k) ==
    [daemon |-> IF fd.mode = "unix" /\ fd.alive /\ f # Absent /\ Load(f).ips # {}
                THEN [d EXCEPT !.inbox = Append(@, Load(f))] ELSE d,
     kmod |-> IF fd.mode = "netlink" /\ k.loaded /\ f # Absent /\ Load(f).ips # {}
              THEN [k EXCEPT !.table = Load(f)] ELSE k]

Pushed(f, fd, d, k) ==
    [daemon |-> IF fd.mode = "unix" /\ fd.alive /\ f # Absent
                THEN [d EXCEPT !.inbox = Append(@, Load(f))] ELSE d,
     kmod |-> IF fd.mode = "netlink" /\ k.loaded /\ f # Absent
              THEN [k EXCEPT !.table = Load(f)] ELSE k]

(* The agent pushes and goes on at next. *)
PushAnd(f, next) ==
    /\ CanPush(fw_fd, daemon)
    /\ daemon' = Pushed(f, fw_fd, daemon, kmod).daemon
    /\ kmod' = Pushed(f, fw_fd, daemon, kmod).kmod
    /\ pc' = next

(* connect_to_firewall: the kernel module when it is there, else the       *)
(* daemon, else nothing.  Registering sets the module's agent_pid.         *)
ConnectedFd ==
    IF kmod.loaded THEN [mode |-> "netlink", alive |-> TRUE]
    ELSE IF daemon.up THEN [mode |-> "unix", alive |-> TRUE] ELSE NoFirewall

Registered == [kmod EXCEPT !.agent = @ \/ kmod.loaded]

ConnectAndPush ==
    /\ CanPush(ConnectedFd, daemon)
    /\ fw_fd' = ConnectedFd
    /\ daemon' = Pushed(file, ConnectedFd, daemon, Registered).daemon
    /\ kmod' = Pushed(file, ConnectedFd, daemon, Registered).kmod

-----------------------------------------------------------------------------
(***************************************************************************)
(* main.                                                                   *)
(***************************************************************************)
(* Start: connect to the firewall and to the SOC, push. *)
Start ==
    /\ pc = "dead" /\ pc' = "top"
    /\ ConnectAndPush
    /\ wire' \in {None, << >>}
    /\ UNCHANGED <<file, rewrite, reload_requested, owed>>

(* A reload that SIGHUP asked for. *)
Reload ==
    /\ pc = "top" /\ reload_requested
    /\ reload_requested' = FALSE
    /\ PushAnd(file, "connect")
    /\ UNCHANGED <<file, rewrite, fw_fd, wire, owed>>

NoReload ==
    /\ pc = "top" /\ ~reload_requested
    /\ pc' = "connect"
    /\ UNCHANGED <<file, rewrite, reload_requested, fw_fd, wire, daemon, kmod, owed>>

(* Mutant: the new connection is left without a push. *)
ReconnectSilently ==
    /\ pc = "connect" /\ fw_fd.mode = "none"
    /\ fw_fd' = ConnectedFd
    /\ kmod' = Registered
    /\ pc' = "select"
    /\ UNCHANGED <<file, rewrite, reload_requested, wire, daemon, owed>>

(* Without a firewall the loop tries to connect, and pushes if it could. *)
Reconnect ==
    /\ pc = "connect" /\ fw_fd.mode = "none"
    /\ ConnectAndPush
    /\ pc' = "select"
    /\ UNCHANGED <<file, rewrite, reload_requested, wire, owed>>

StayConnected ==
    /\ pc = "connect" /\ fw_fd.mode # "none"
    /\ pc' = "select"
    /\ UNCHANGED <<file, rewrite, reload_requested, fw_fd, wire, daemon, kmod, owed>>

(* select: interrupted by a signal when no descriptor is readable, or on   *)
(* to the health check, which reconnects to the SOC when it is due, and    *)
(* pushes then.                                                            *)
SocReadable == wire # None /\ wire # << >>
FwReadable == fw_fd.mode = "unix" /\ ~fw_fd.alive

Interrupted ==
    /\ pc = "select" /\ reload_requested /\ ~SocReadable /\ ~FwReadable
    /\ pc' = "top"
    /\ UNCHANGED <<file, rewrite, reload_requested, fw_fd, wire, daemon, kmod, owed>>

SocReconnected ==
    /\ pc = "select" /\ wire = None
    /\ wire' = << >>
    /\ PushAnd(file, "events")
    /\ UNCHANGED <<file, rewrite, reload_requested, fw_fd, owed>>

NothingDue ==
    /\ pc = "select"
    /\ pc' = IF SocReadable THEN "command" ELSE "events"
    /\ UNCHANGED <<file, rewrite, reload_requested, fw_fd, wire, daemon, kmod, owed>>

(* The firewall's descriptor: a daemon that is gone reads as end of file   *)
(* and the loop starts over; a Netlink socket never reports its module     *)
(* gone.  The events themselves are the module AgentEvents.                *)
FirewallGone ==
    /\ pc = "events" /\ FwReadable
    /\ fw_fd' = NoFirewall
    /\ pc' = "top"
    /\ UNCHANGED <<file, rewrite, reload_requested, wire, daemon, kmod, owed>>

FirewallQuiet ==
    /\ pc = "events" /\ ~FwReadable
    /\ pc' = "top"
    /\ UNCHANGED <<file, rewrite, reload_requested, fw_fd, wire, daemon, kmod, owed>>

-----------------------------------------------------------------------------
(***************************************************************************)
(* The commands of the SOC.                                                *)
(***************************************************************************)
Shows(l, ip) == l.ip # None /\ <<ip, l.ip>> \in Within

(* The line says nothing of ip, or is its own entry. *)
Harmless(l, ip) == Shows(l, ip) => l = Entry(ip)

Content(f) == {i \in DOMAIN f : f[i].kind # "comment"}

Roomy(f) == Cardinality(Content(f)) < MAX_BLOCKLIST_IPS
TooLong(f) == Cardinality(Content(f)) > MAX_BLOCKLIST_IPS

Command(type) ==
    /\ pc = "command" /\ wire # Broken
    /\ Head(wire).type = type
    /\ wire' = Tail(wire)

(* Mutant: the entry replaces the file. *)
BlockedOver(ip) == <<Entry(ip)>>

(* BLOCK_IP: appended unless a line shows the address already. *)
Blocked(ip) ==
    IF \E i \in DOMAIN Lines(file) : Shows(file[i], ip)
    THEN file ELSE Append(Lines(file), Entry(ip))

HandleBlock ==
    /\ Command("BLOCK_IP")
    /\ LET ip == Head(wire).ip
       IN /\ file' = Blocked(ip)
          /\ PushAnd(file', "events")
          /\ owed' = IF Roomy(Lines(file))
                        /\ \A i \in DOMAIN Lines(file) : Harmless(file[i], ip)
                     THEN owed \cup {ip} ELSE owed
    /\ UNCHANGED <<rewrite, reload_requested, fw_fd>>

(* The first MAX_BLOCKLIST_IPS lines of f, without comments and those to   *)
(* leave out, in their order.                                              *)
Nth(S, n) == CHOOSE i \in S : Cardinality({j \in S : j < i}) = n - 1

Kept(f, out) ==
    LET all == {i \in Content(f) : f[i] \notin out}
    IN [n \in 1 .. Min({Cardinality(all), MAX_BLOCKLIST_IPS}) |-> f[Nth(all, n)]]

(* The lines are in memory and the file is opened for writing, which       *)
(* empties it.  What was owed may go: lines over the limit do.             *)
Truncate(content, still) ==
    /\ rewrite' = content
    /\ file' = << >>
    /\ owed' = IF TooLong(Lines(file)) THEN {} ELSE still
    /\ pc' = "rewrite"
    /\ UNCHANGED <<reload_requested, fw_fd, daemon, kmod>>

HandleUnblock ==
    /\ Command("UNBLOCK_IP")
    /\ LET ip == Head(wire).ip
       IN Truncate(<<Header>> \o Kept(Lines(file), {l \in Line : Shows(l, ip)}),
                   {i \in owed : <<ip, i>> \notin Within})

(* CONFIG_UPDATE: the new directive in front, the old ones dropped. *)
Configured(v) ==
    <<Header, LocalLine(v)>> \o Kept(Lines(file), {l \in Line : l.kind = "local"})

HandleConfig ==
    /\ Command("CONFIG_UPDATE")
    /\ Truncate(Configured(Head(wire).val), owed)

(* fclose, then the push. *)
WriteBack ==
    /\ pc = "rewrite"
    /\ file' = rewrite
    /\ rewrite' = None
    /\ PushAnd(file', "events")
    /\ UNCHANGED <<reload_requested, fw_fd, wire, owed>>

(* A wrong magic, an empty or oversized payload, one that does not         *)
(* decrypt or is too short, another type: nothing happens to the list.     *)
IgnoreCommand ==
    /\ Command("unusable")
    /\ pc' = "events"
    /\ UNCHANGED <<file, rewrite, reload_requested, fw_fd, daemon, kmod, owed>>

(* The connection ended under the command: closed, and the loop restarts. *)
SocGone ==
    /\ pc = "command" /\ wire = Broken
    /\ wire' = None
    /\ pc' = "top"
    /\ UNCHANGED <<file, rewrite, reload_requested, fw_fd, daemon, kmod, owed>>

Agent ==
    \/ Start \/ Reload \/ NoReload \/ Reconnect \/ StayConnected \/ Interrupted
    \/ SocReconnected \/ NothingDue \/ FirewallGone \/ FirewallQuiet
    \/ HandleBlock \/ HandleUnblock \/ HandleConfig \/ WriteBack
    \/ IgnoreCommand \/ SocGone

-----------------------------------------------------------------------------
(***************************************************************************)
(* The others: the firewall applies what it is sent, and everything may    *)
(* come and go.                                                            *)
(***************************************************************************)
Apply ==
    /\ daemon.up /\ daemon.inbox # << >>
    /\ daemon' = [daemon EXCEPT !.inbox = Tail(@), !.table = Head(daemon.inbox)]
    /\ UNCHANGED <<pc, file, rewrite, reload_requested, fw_fd, wire, kmod, owed>>

DaemonDies ==
    /\ daemon.up
    /\ daemon' = DaemonDown
    /\ fw_fd' = IF fw_fd.mode = "unix" THEN [fw_fd EXCEPT !.alive = FALSE] ELSE fw_fd
    /\ UNCHANGED <<pc, file, rewrite, reload_requested, wire, kmod, owed>>

DaemonStarts ==
    /\ ~daemon.up /\ ~kmod.installed
    /\ daemon' = DaemonUp
    /\ UNCHANGED <<pc, file, rewrite, reload_requested, fw_fd, wire, kmod, owed>>

(* fw_inspect_exit and fw_inspect_init: agent_pid and the table start      *)
(* empty.                                                                  *)
ModuleUnloads ==
    /\ kmod.loaded
    /\ kmod' = Unloaded(TRUE)
    /\ fw_fd' = IF fw_fd.mode = "netlink" THEN [fw_fd EXCEPT !.alive = FALSE]
                ELSE fw_fd
    /\ UNCHANGED <<pc, file, rewrite, reload_requested, wire, daemon, owed>>

ModuleLoads ==
    /\ kmod.installed /\ ~kmod.loaded
    /\ kmod' = [Unloaded(TRUE) EXCEPT !.loaded = TRUE]
    /\ UNCHANGED <<pc, file, rewrite, reload_requested, fw_fd, wire, daemon, owed>>

SocSends ==
    /\ wire = << >>
    /\ \E c \in Commands : wire' = <<c>>
    /\ UNCHANGED <<pc, file, rewrite, reload_requested, fw_fd, daemon, kmod, owed>>

SocBreaks ==
    /\ wire \notin {None, Broken}
    /\ wire' = Broken
    /\ UNCHANGED <<pc, file, rewrite, reload_requested, fw_fd, daemon, kmod, owed>>

Sighup ==
    /\ pc # "dead" /\ ~reload_requested
    /\ reload_requested' = TRUE
    /\ UNCHANGED <<pc, file, rewrite, fw_fd, wire, daemon, kmod, owed>>

(* The agent dies.  In the middle of a rewrite any beginning of the new    *)
(* content may have reached the file.                                      *)
AgentDies ==
    /\ pc # "dead" /\ pc' = "dead"
    /\ IF pc = "rewrite"
       THEN /\ \E n \in 0 .. Len(rewrite) : file' = SubSeq(rewrite, 1, n)
            /\ owed' = {}
       ELSE UNCHANGED <<file, owed>>
    /\ rewrite' = None /\ reload_requested' = FALSE
    /\ fw_fd' = NoFirewall /\ wire' = None
    /\ UNCHANGED <<daemon, kmod>>

Next ==
    \/ Agent \/ Apply \/ DaemonDies \/ DaemonStarts \/ ModuleUnloads \/ ModuleLoads
    \/ SocSends \/ SocBreaks \/ Sighup \/ AgentDies

(* The agent's loop and the daemon's listener are scheduled; a dead agent  *)
(* or daemon owes nothing.                                                 *)
Spec ==
    /\ Init /\ [][Next]_vars
    /\ WF_vars(Agent /\ pc # "dead") /\ WF_vars(Apply)

-----------------------------------------------------------------------------
(* Type invariant: a payload never names more than MAX_BLOCKLIST_IPS       *)
(* addresses, however long the file is.                                    *)
TypeOK ==
    /\ pc \in {"dead", "top", "connect", "select", "command", "rewrite", "events"}
    /\ file = Absent \/ \A i \in DOMAIN file : file[i] \in Line
    /\ (rewrite # None) = (pc = "rewrite")
    /\ reload_requested \in BOOLEAN
    /\ fw_fd \in [mode : {"none", "netlink", "unix"}, alive : BOOLEAN]
    /\ \A t \in {daemon.table, kmod.table} :
          t \in Payloads /\ Cardinality(t.ips) <= MAX_BLOCKLIST_IPS

(* The firewall the agent is connected to, once it has applied what it was *)
(* sent, and the table in it.                                              *)
Settled ==
    /\ pc \notin {"dead", "rewrite"}
    /\ file # Absent
    /\ fw_fd.alive
    /\ fw_fd.mode = "unix" => daemon.inbox = << >>

Table == IF fw_fd.mode = "netlink" THEN kmod.table ELSE daemon.table

(* Whatever dies and reconnects in between, the firewall the agent is      *)
(* connected to enforces what the file says: every change of the file and  *)
(* every new connection is followed by a push (load_and_push_blocklist).   *)
SettledTableIsFile == Settled => Table = Load(file)

(* An address that BLOCK_IP put into a file with room for it is enforced   *)
(* until a command unblocks an address whose text it contains, a rewrite   *)
(* of an overlong file drops it, or the agent dies in a rewrite.           *)
BlockedStaysBlocked == Settled => owed \subseteq Table.ips

(* A daemon that stays up in the end comes to enforce the file for good    *)
(* once commands no longer change it, however often it was restarted       *)
(* before and whatever signals and connections come and go, as long as     *)
(* the agent lives.                                                        *)
DaemonCatchesUp ==
    /\ ~kmod.installed
    /\ <>[](daemon.up /\ pc # "dead" /\ file # Absent)
    /\ <>[][file' = file]_vars
    => <>[](daemon.table = Load(Lines(file)))
=============================================================================
