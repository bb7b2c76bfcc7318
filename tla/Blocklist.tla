----------------------------- MODULE Blocklist ------------------------------
(***************************************************************************)
(* kernel/ip_blocklist.c in the userspace build: a hash table of linked    *)
(* nodes, replaced by the agent listener thread (update_ip_blocklist)      *)
(* while the NFQUEUE thread walks it (inspect_ip_blocklist).  In           *)
(* userspace_compat.h spin_lock and rcu_read_lock expand to nothing and    *)
(* the nodes are freed at once, so every access to a node or to a bucket   *)
(* head is a step of its own.                                              *)
(*                                                                         *)
(* Addresses are W-bit integers in host order (32 in the code); a node is  *)
(* a cell of the heap that malloc may hand out again after free.           *)
(***************************************************************************)
EXTENDS Integers, Sequences, FiniteSets

CONSTANTS
    W,                  \* bits of an address
    HashBits,           \* the table has 2^HashBits buckets
    MAX_BLOCKLIST_IPS,  \* entries taken from a payload
    NodeIds,            \* heap cells
    NULL,
    Payloads            \* payloads the agent pushes: [local, entries]

Addrs == 0 .. 2^W - 1
Buckets == 0 .. 2^HashBits - 1
Entries == [ip : Addrs, mask : 0 .. W]

ASSUME BlocklistConstants ==
    /\ W \in Nat /\ HashBits \in 0 .. W /\ MAX_BLOCKLIST_IPS \in Nat
    /\ NULL \notin NodeIds
    /\ \A p \in Payloads : p \in [local : BOOLEAN, entries : Seq(Entries)]

VARIABLES
    head,      \* blocklist_hash: [Buckets -> NodeIds \cup {NULL}]
    node,      \* contents of the heap cells: ip, mask, next
    live,      \* cells allocated and not freed
    g_block_local_ips,
    wr,        \* the listener thread: where it is in update_ip_blocklist
    rd         \* the NFQUEUE thread: where it is in inspect_ip_blocklist

vars == <<head, node, live, g_block_local_ips, wr, rd>>

(***************************************************************************)
(* Matching one entry: mask_val keeps the top mask bits; a full mask       *)
(* compares the addresses themselves.                                      *)
(***************************************************************************)
Masked(a, mask) == a - (a % 2^(W - mask))

Matches(e, a) ==
    IF e.mask = W THEN e.ip = a ELSE Masked(a, e.mask) = Masked(e.ip, e.mask)

(* The entries a payload loads: at most MAX_BLOCKLIST_IPS of them. *)
Taken(p) ==
    {p.entries[i] : i \in {j \in DOMAIN p.entries : j <= MAX_BLOCKLIST_IPS}}

Listed(p, a) == \E e \in Taken(p) : Matches(e, a)

(* What a cell outside live holds does not matter: it is kept blank. *)
Blank == [ip |-> 0, mask |-> 0, next |-> NULL]

NoPayload == [local |-> FALSE, entries |-> << >>]

Init ==
    /\ head = [b \in Buckets |-> NULL]
    /\ node = [n \in NodeIds |-> Blank]
    /\ live = {}
    /\ g_block_local_ips = FALSE
    /\ wr = [pc |-> "idle", old |-> NoPayload, new |-> NoPayload,
             bucket |-> 0, cur |-> NULL, i |-> 1, failed |-> FALSE]
    /\ rd = [pc |-> "idle", addr |-> 0, bucket |-> 0, cur |-> NULL,
             match |-> FALSE, lists |-> {}, quiet |-> TRUE, freed |-> FALSE]

(***************************************************************************)
(* update_ip_blocklist.  The update is in force when wr.pc is "idle"; old  *)
(* and new remember the lists it goes between, failed whether kmalloc has  *)
(* ever returned NULL.  rd.lists and rd.quiet are history: the payloads    *)
(* loaded or being loaded during the lookup, and whether no update ran and *)
(* the table is complete.                                                  *)
(***************************************************************************)
Walking == rd.pc \in {"head", "node"}

(* Mutant: the first bucket is not cleared. *)
UpdateStartAtOne ==
    /\ wr.pc = "idle"
    /\ \E p \in Payloads :
          /\ wr' = [wr EXCEPT !.pc = "bucket", !.old = wr.new, !.new = p,
                              !.bucket = 1]
          /\ g_block_local_ips' = p.local
          /\ rd' = IF Walking THEN [rd EXCEPT !.lists = @ \cup {p}, !.quiet = FALSE]
                   ELSE rd
    /\ UNCHANGED <<head, node, live>>

UpdateStart ==
    /\ wr.pc = "idle"
    /\ \E p \in Payloads :
          /\ wr' = [wr EXCEPT !.pc = "bucket", !.old = wr.new, !.new = p,
                              !.bucket = 0]
          /\ g_block_local_ips' = p.local
          /\ rd' = IF Walking THEN [rd EXCEPT !.lists = @ \cup {p}, !.quiet = FALSE]
                   ELSE rd
    /\ UNCHANGED <<head, node, live>>

(* Take the head of the next bucket to clear, or start loading. *)
UpdateBucket ==
    /\ wr.pc = "bucket"
    /\ wr' = IF wr.bucket \in Buckets
             THEN [wr EXCEPT !.pc = "free", !.cur = head[wr.bucket]]
             ELSE [wr EXCEPT !.pc = "load", !.i = 1]
    /\ UNCHANGED <<head, node, live, g_block_local_ips, rd>>

(* Free one node after reading its next, then the bucket becomes NULL. *)
UpdateFree ==
    /\ wr.pc = "free"
    /\ wr.cur # NULL
    /\ live' = live \ {wr.cur}
    /\ node' = [node EXCEPT ![wr.cur] = Blank]
    /\ wr' = [wr EXCEPT !.cur = node[wr.cur].next]
    /\ UNCHANGED <<head, g_block_local_ips, rd>>

UpdateNull ==
    /\ wr.pc = "free"
    /\ wr.cur = NULL
    /\ head' = [head EXCEPT ![wr.bucket] = NULL]
    /\ wr' = [wr EXCEPT !.pc = "bucket", !.bucket = @ + 1]
    /\ UNCHANGED <<node, live, g_block_local_ips, rd>>

(* The key is the address in network order: its low byte is the first      *)
(* octet, so the leading bits choose the bucket.                           *)
BucketOf(ip) == ip \div 2^(W - HashBits)

(* Mutant: the loop bound lets one entry too few through. *)
MoreToLoadShort ==
    wr.i < Len(wr.new.entries) /\ wr.i <= MAX_BLOCKLIST_IPS

MoreToLoad == wr.i <= Len(wr.new.entries) /\ wr.i <= MAX_BLOCKLIST_IPS

(* Mutant: the old list is not linked behind the new head. *)
LoadUnlinked ==
    /\ wr.pc = "load"
    /\ MoreToLoad
    /\ \E n \in NodeIds \ live :
          LET e == wr.new.entries[wr.i]
          IN /\ live' = live \cup {n}
             /\ node' = [node EXCEPT ![n] =
                    [ip |-> e.ip, mask |-> e.mask, next |-> NULL]]
             /\ head' = [head EXCEPT ![BucketOf(e.ip)] = n]
    /\ wr' = [wr EXCEPT !.i = @ + 1]
    /\ UNCHANGED <<g_block_local_ips, rd>>

(* kmalloc a node and hash_add_rcu it at the head of its bucket. *)
UpdateLoad ==
    /\ wr.pc = "load"
    /\ MoreToLoad
    /\ \E n \in NodeIds \ live :
          LET e == wr.new.entries[wr.i]
          IN /\ live' = live \cup {n}
             /\ node' = [node EXCEPT ![n] =
                    [ip |-> e.ip, mask |-> e.mask, next |-> head[BucketOf(e.ip)]]]
             /\ head' = [head EXCEPT ![BucketOf(e.ip)] = n]
    /\ wr' = [wr EXCEPT !.i = @ + 1]
    /\ UNCHANGED <<g_block_local_ips, rd>>

(* kmalloc returns NULL: the entry is skipped. *)
UpdateLoadFails ==
    /\ wr.pc = "load"
    /\ MoreToLoad
    /\ wr' = [wr EXCEPT !.i = @ + 1, !.failed = TRUE]
    /\ UNCHANGED <<head, node, live, g_block_local_ips, rd>>

UpdateDone ==
    /\ wr.pc = "load"
    /\ ~MoreToLoad
    /\ wr' = [wr EXCEPT !.pc = "idle"]
    /\ UNCHANGED <<head, node, live, g_block_local_ips, rd>>

(***************************************************************************)
(* inspect_ip_blocklist: bucket by bucket, node by node.                   *)
(***************************************************************************)
LookupStart ==
    /\ rd.pc \in {"idle", "done"}
    /\ \E a \in Addrs :
          rd' = [pc |-> "head", addr |-> a, bucket |-> 0, cur |-> NULL,
                 match |-> FALSE,
                 lists |-> IF wr.pc = "idle" THEN {wr.new} ELSE {wr.old, wr.new},
                 quiet |-> wr.pc = "idle" /\ ~wr.failed,
                 freed |-> FALSE]
    /\ UNCHANGED <<head, node, live, g_block_local_ips, wr>>

LookupHead ==
    /\ rd.pc = "head"
    /\ rd' = IF rd.bucket \notin Buckets THEN [rd EXCEPT !.pc = "done"]
             ELSE IF head[rd.bucket] = NULL THEN [rd EXCEPT !.bucket = @ + 1]
             ELSE [rd EXCEPT !.pc = "node", !.cur = head[rd.bucket]]
    /\ UNCHANGED <<head, node, live, g_block_local_ips, wr>>

(* A live node: match and stop, or go on to next. *)
LookupNode ==
    /\ rd.pc = "node"
    /\ rd.cur \in live
    /\ LET n == node[rd.cur]
       IN rd' = IF Matches(n, rd.addr)
                THEN [rd EXCEPT !.pc = "done", !.match = TRUE]
                ELSE IF n.next = NULL
                THEN [rd EXCEPT !.pc = "head", !.bucket = @ + 1]
                ELSE [rd EXCEPT !.cur = n.next]
    /\ UNCHANGED <<head, node, live, g_block_local_ips, wr>>

(* A freed node: what the memory holds is undefined; the walk ends with    *)
(* either answer.                                                          *)
LookupFreedNode ==
    /\ rd.pc = "node"
    /\ rd.cur \notin live
    /\ \E m \in BOOLEAN :
          rd' = [rd EXCEPT !.pc = "done", !.match = m, !.freed = TRUE]
    /\ UNCHANGED <<head, node, live, g_block_local_ips, wr>>

Update ==
    \/ UpdateStart \/ UpdateBucket \/ UpdateFree \/ UpdateNull
    \/ UpdateLoad \/ UpdateLoadFails \/ UpdateDone

Lookup == LookupStart \/ LookupHead \/ LookupNode \/ LookupFreedNode

Next == Update \/ Lookup

Spec == Init /\ [][Next]_vars

-----------------------------------------------------------------------------
RECURSIVE Chain(_)
(* The nodes linked from n. *)
Chain(n) == IF n = NULL THEN {} ELSE {n} \cup Chain(node[n].next)

Linked == UNION {Chain(head[b]) : b \in Buckets}

LoadedEntries == {[ip |-> node[n].ip, mask |-> node[n].mask] : n \in live}

(* Type invariant: heads, cells and program counters have their types.     *)
TypeOK ==
    /\ head \in [Buckets -> NodeIds \cup {NULL}]
    /\ node \in [NodeIds -> [ip : Addrs, mask : 0 .. W, next : NodeIds \cup {NULL}]]
    /\ live \subseteq NodeIds
    /\ g_block_local_ips \in BOOLEAN
    /\ wr.pc \in {"idle", "bucket", "free", "load"}
    /\ rd.pc \in {"idle", "head", "node", "done"}

(* Between updates the table is exactly the payload last pushed: every     *)
(* entry taken is linked once under its hash, nothing of the old list is   *)
(* left, no linked node has been freed and no allocated node is lost; only *)
(* an entry whose kmalloc failed may be missing.                           *)
TableIsPayload ==
    wr.pc = "idle" =>
        /\ Linked = live
        /\ LoadedEntries \subseteq Taken(wr.new)
        /\ ~wr.failed => LoadedEntries = Taken(wr.new)
        /\ \A b \in Buckets : \A n \in Chain(head[b]) : BucketOf(node[n].ip) = b
        /\ g_block_local_ips = wr.new.local

(* A lookup of a fully loaded table during which no update ran answers as  *)
(* the list says: exact address for a full mask, prefix otherwise.         *)
QuietLookupExact ==
    rd.pc = "done" /\ rd.quiet =>
        ~rd.freed /\ (rd.match <=> \E p \in rd.lists : Listed(p, rd.addr))

(* Also a lookup that races an update blocks only what a list blocks: one  *)
(* that has read no freed node and answers yes found the address in the    *)
(* list before or after, however bucket and cell were reused under it.     *)
NoFalseBlock ==
    rd.pc = "done" /\ ~rd.freed /\ rd.match => \E p \in rd.lists : Listed(p, rd.addr)
=============================================================================
