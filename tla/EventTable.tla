----------------------------- MODULE EventTable -----------------------------
(***************************************************************************)
(* The table events of the SOC's database as its readers see it.  Ids come *)
(* from a sequence, are taken by one connection at a time and are never    *)
(* given again; an insertion that fails leaves a gap.  The dashboard's     *)
(* clearReputation deletes the events of one address or all of them.       *)
(***************************************************************************)
EXTENDS Integers, FiniteSetsExt

CONSTANTS
    MaxId,          \* bound on the events ever inserted
    Senders         \* the sets of ids that have the same source address

Ids == 1 .. MaxId

ASSUME EventTableAssumption == MaxId \in Nat /\ Senders \subseteq SUBSET Ids

VARIABLES
    events,         \* the ids in the table
    nextId          \* events_id_seq

tableVars == <<events, nextId>>

TableInit == events = {} /\ nextId = 1

(* db_insert_event. *)
InsertEvent ==
    /\ nextId <= MaxId
    /\ nextId' = nextId + 1
    /\ events' \in {events, events \cup {nextId}}

(* The second statement of clearReputation. *)
DeleteEvents ==
    /\ \E S \in Senders \cup {Ids} : events' = events \ S
    /\ UNCHANGED nextId

(* Ids are given once and in increasing order: a row appears only with the  *)
(* id that the sequence gives next (db_insert_event), and leaves only with *)
(* all rows of its sender or of everyone (clearReputation).                *)
TableSpec == TableInit /\ [][InsertEvent \/ DeleteEvents]_tableVars

TableTypeOK == nextId \in 1 .. MaxId + 1 /\ events \subseteq 1 .. nextId - 1

(* SELECT COALESCE(MAX(id), 0). *)
MaxEvent == Max(events \cup {0})

(* ORDER BY id ASC LIMIT n, of the ids in S. *)
Oldest(S, n) == {e \in S : Cardinality({f \in S : f < e}) < n}
=============================================================================
