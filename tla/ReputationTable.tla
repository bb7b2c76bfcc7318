-------------------------- MODULE ReputationTable ---------------------------
(***************************************************************************)
(* The table ip_reputation of the SOC's database and the upsert the feeds  *)
(* write it with (db_update_ip_reputation of soc-server/db.c).  FeedsSpec  *)
(* is what the other writers of the table may expect of the aggregator     *)
(* thread: any listed address may be imported at any time.                 *)
(***************************************************************************)
EXTENDS Integers, Sequences, FiniteSetsExt

CONSTANTS
    Ips,
    NoRow,          \* no row for the address in ip_reputation
    Feeds           \* the three feeds, each a set of addresses

ASSUME FeedsAssumption == Feeds \in [1 .. 3 -> SUBSET Ips]

VARIABLE ip_reputation   \* [Ips -> row or NoRow]

Scores == 0 .. 100
Rows == [local_score : Scores, external_score : Scores, score : Scores]
HasRow(ip) == ip_reputation[ip] # NoRow

LEAST(a, b) == IF a <= b THEN a ELSE b
GREATEST(a, b) == IF a >= b THEN a ELSE b

(* The score a feed gives to every address on it. *)
FeedScore == <<15, 20, 25>>

TableInit == ip_reputation = [ip \in Ips |-> NoRow]

(* db_update_ip_reputation: the row as given, or the smaller scores. *)
Upsert(row, local, external, score) ==
    IF row = NoRow
    THEN [local_score |-> local, external_score |-> external, score |-> score]
    ELSE LET l == LEAST(row.local_score, local)
             e == LEAST(row.external_score, external)
         IN [local_score |-> l, external_score |-> e, score |-> LEAST(l, e)]

(* One line of feed f: its address gets the feed's score as external one. *)
Import(ip, f) ==
    ip_reputation' =
        [ip_reputation EXCEPT ![ip] = Upsert(@, 100, FeedScore[f], FeedScore[f])]

ImportListed == \E f \in 1 .. 3 : \E ip \in Feeds[f] : Import(ip, f)

(* What the feeds may do to the table, which Reputation relies on: an       *)
(* address gets a row or smaller scores, and only those of a feed that     *)
(* lists it (threat_intel.c, db_update_ip_reputation).                     *)
FeedsSpec == TableInit /\ [][ImportListed]_ip_reputation

-----------------------------------------------------------------------------

TableTypeOK == ip_reputation \in [Ips -> Rows \cup {NoRow}]
=============================================================================
