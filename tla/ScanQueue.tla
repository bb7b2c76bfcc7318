----------------------------- MODULE ScanQueue ------------------------------
(***************************************************************************)
(* What kernel/yara_engine.c promises of its upload queue: uploads are     *)
(* scanned one at a time in the order they were accepted; at most Capacity *)
(* wait; one that finds the queue full is refused; and once the engine     *)
(* stops and the scan in progress is over, what still waits is thrown away.*)
(***************************************************************************)
EXTENDS Naturals, Sequences

CONSTANTS Files, Capacity, None

VARIABLES waiting, scanning, stopped

Init == waiting = << >> /\ scanning = None /\ stopped = FALSE

(* An upload that finds the queue full leaves no trace: a stuttering step. *)
Submit(f) ==
    /\ Len(waiting) < Capacity
    /\ waiting' = Append(waiting, f)
    /\ UNCHANGED <<scanning, stopped>>

Begin ==
    /\ scanning = None /\ waiting # << >> /\ ~stopped
    /\ scanning' = Head(waiting)
    /\ waiting' = Tail(waiting)
    /\ UNCHANGED stopped

End ==
    /\ scanning # None
    /\ scanning' = None
    /\ UNCHANGED <<waiting, stopped>>

Stop ==
    /\ ~stopped /\ stopped' = TRUE
    /\ UNCHANGED <<waiting, scanning>>

Discard ==
    /\ stopped /\ scanning = None
    /\ waiting' = << >>
    /\ UNCHANGED <<scanning, stopped>>

Next == (\E f \in Files : Submit(f)) \/ Begin \/ End \/ Stop \/ Discard

Spec == Init /\ [][Next]_<<waiting, scanning, stopped>>
=============================================================================
