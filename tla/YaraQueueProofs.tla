-------------------------- MODULE YaraQueueProofs ---------------------------
(***************************************************************************)
(* Proofs about YaraQueue, for every ring size and every set of paths: no  *)
(* wakeup is lost, and the ring implements ScanQueue.                      *)
(***************************************************************************)
EXTENDS YaraQueue, SequenceTheorems, TLAPS

(* The worker holds a path exactly while it scans. *)
HoldsWhileScanning ==
    /\ worker.pc = "scan" => worker.file # None
    /\ worker.pc # "scan" => worker.file = None

(* The slots between queue_tail and queue_head hold paths. *)
OccupiedAreFiles ==
    \A i \in 0 .. Count - 1 : upload_queue[(queue_tail + i) % QUEUE_SIZE] # None

(* worker_running is set while the engine lives and cleared for good by    *)
(* cleanup_yara_engine, which goes past pthread_join only when the worker  *)
(* has left.                                                               *)
Phases ==
    /\ main \in {"init", "failed"} => worker.pc = "none"
    /\ main \in {"created", "running"} => worker_running
    /\ main \in {"join", "drain", "drained", "done"} => ~worker_running
    /\ main \in {"drain", "drained", "done"} => worker.pc = "exit"

(* The inductive invariant. *)
IInv ==
    /\ TypeOK
    /\ HoldsWhileScanning
    /\ OccupiedAreFiles
    /\ Phases
    /\ NoLostWakeup

-----------------------------------------------------------------------------
(* The index after i in the ring, without the remainder. *)
LEMMA FollowingIs ==
    ASSUME NEW i \in Slots
    PROVE  /\ Following(i) \in Slots
           /\ Following(i) = IF i + 1 = QUEUE_SIZE THEN 0 ELSE i + 1
  BY YaraConstants DEF Slots, Following

(* The number of occupied slots, without the remainder. *)
LEMMA CountIs ==
    ASSUME NEW h \in Slots, NEW t \in Slots
    PROVE  /\ (h - t) % QUEUE_SIZE \in Slots
           /\ (h - t) % QUEUE_SIZE = IF h >= t THEN h - t ELSE h - t + QUEUE_SIZE
  BY YaraConstants DEF Slots

(* The slot i places after t, without the remainder. *)
LEMMA SlotIs ==
    ASSUME NEW t \in Slots, NEW i \in 0 .. QUEUE_SIZE
    PROVE  /\ (t + i) % QUEUE_SIZE \in Slots
           /\ (t + i) % QUEUE_SIZE =
                IF t + i < QUEUE_SIZE THEN t + i ELSE t + i - QUEUE_SIZE
  BY YaraConstants DEF Slots

(* The ring is full when QUEUE_SIZE - 1 slots are occupied, and a free     *)
(* slot is never one of the occupied ones.                                 *)
LEMMA RingRoom ==
    ASSUME TypeOK
    PROVE  /\ Count \in Slots
           /\ QueueFull <=> Count = QUEUE_SIZE - 1
           /\ Empty <=> Count = 0
           /\ \A i \in 0 .. Count - 1 :
                (queue_tail + i) % QUEUE_SIZE # queue_head
           /\ (queue_tail + Count) % QUEUE_SIZE = queue_head
  <1>1. queue_head \in Slots /\ queue_tail \in Slots
    BY DEF TypeOK
  <1>2. /\ Count \in Slots
        /\ Count = IF queue_head >= queue_tail THEN queue_head - queue_tail
                   ELSE queue_head - queue_tail + QUEUE_SIZE
    BY <1>1, CountIs DEF Count
  <1>3. QueueFull <=> Count = QUEUE_SIZE - 1
    BY <1>1, <1>2, FollowingIs, YaraConstants DEF QueueFull, Slots
  <1>4. Empty <=> Count = 0
    BY <1>1, <1>2, YaraConstants DEF Empty, Slots
  <1>5. \A i \in 0 .. Count :
           (queue_tail + i) % QUEUE_SIZE =
             IF queue_tail + i < QUEUE_SIZE THEN queue_tail + i
             ELSE queue_tail + i - QUEUE_SIZE
    BY <1>1, <1>2, SlotIs, YaraConstants DEF Slots
  <1>6. \A i \in 0 .. Count - 1 : (queue_tail + i) % QUEUE_SIZE # queue_head
    BY <1>1, <1>2, <1>5, YaraConstants DEF Slots
  <1>7. (queue_tail + Count) % QUEUE_SIZE = queue_head
    BY <1>1, <1>2, <1>5, YaraConstants DEF Slots
  <1> QED BY <1>2, <1>3, <1>4, <1>6, <1>7

(* The waiting uploads are a sequence of paths, as long as Count. *)
LEMMA WaitingType ==
    ASSUME TypeOK, OccupiedAreFiles
    PROVE  /\ Waiting \in Seq(Files)
           /\ Len(Waiting) = Count
           /\ \A i \in 1 .. Count :
                Waiting[i] = upload_queue[(queue_tail + (i - 1)) % QUEUE_SIZE]
  <1>1. Count \in Nat /\ Count \in Slots /\ queue_tail \in Slots
    BY RingRoom, YaraConstants DEF Slots, TypeOK
  <1>2. \A i \in 1 .. Count :
           /\ (queue_tail + i - 1) = queue_tail + (i - 1)
           /\ i - 1 \in 0 .. Count - 1
           /\ i - 1 \in 0 .. QUEUE_SIZE
    BY <1>1, YaraConstants DEF Slots
  <1>3. \A i \in 1 .. Count : upload_queue[(queue_tail + (i - 1)) % QUEUE_SIZE] \in Files
    BY <1>1, <1>2, SlotIs, Zenon DEF TypeOK, OccupiedAreFiles
  <1>4. Waiting \in [1 .. Count -> Files]
    BY <1>2, <1>3 DEF Waiting
  <1> QED BY <1>1, <1>2, <1>4 DEF Waiting

-----------------------------------------------------------------------------
(* An accepted upload is the last of the occupied slots, and the others    *)
(* keep what they hold.                                                    *)
LEMMA EnqueueRing ==
    ASSUME TypeOK, Enqueue
    PROVE  /\ Count' = Count + 1
           /\ queue_head' \in Slots
           /\ upload_queue' \in [Slots -> Files \cup {None}]
           /\ \A i \in 0 .. Count - 1 :
                upload_queue'[(queue_tail + i) % QUEUE_SIZE] =
                  upload_queue[(queue_tail + i) % QUEUE_SIZE]
           /\ upload_queue'[(queue_tail + Count) % QUEUE_SIZE] = inotify
  <1>1. /\ queue_head \in Slots /\ queue_tail \in Slots
        /\ upload_queue \in [Slots -> Files \cup {None}]
        /\ inotify \in Files \cup {None}
    BY DEF TypeOK
  <1>2. /\ queue_head' = Following(queue_head)
        /\ queue_tail' = queue_tail
        /\ upload_queue' = [upload_queue EXCEPT ![queue_head] = inotify]
        /\ ~QueueFull
    BY DEF Enqueue
  <1>3. queue_head' \in Slots
    BY <1>1, <1>2, FollowingIs
  <1>4. Count' = Count + 1
    <2>1. Count = IF queue_head >= queue_tail THEN queue_head - queue_tail
                  ELSE queue_head - queue_tail + QUEUE_SIZE
      BY <1>1, CountIs DEF Count
    <2>2. Count' = IF queue_head' >= queue_tail' THEN queue_head' - queue_tail'
                   ELSE queue_head' - queue_tail' + QUEUE_SIZE
      BY <1>1, <1>2, <1>3, CountIs DEF Count
    <2>3. Following(queue_head) =
             IF queue_head + 1 = QUEUE_SIZE THEN 0 ELSE queue_head + 1
      BY <1>1, FollowingIs
    <2>4. Following(queue_head) # queue_tail
      BY <1>2 DEF QueueFull
    <2> QED BY <1>1, <1>2, <2>1, <2>2, <2>3, <2>4, YaraConstants DEF Slots
  <1>5. \A i \in 0 .. Count - 1 :
           upload_queue'[(queue_tail + i) % QUEUE_SIZE] =
             upload_queue[(queue_tail + i) % QUEUE_SIZE]
    <2> TAKE i \in 0 .. Count - 1
    <2>1. (queue_tail + i) % QUEUE_SIZE # queue_head
      BY RingRoom
    <2>2. (queue_tail + i) % QUEUE_SIZE \in Slots
      BY <1>1, RingRoom, SlotIs, YaraConstants DEF Slots
    <2> QED BY <1>1, <1>2, <2>1, <2>2
  <1>6. upload_queue'[(queue_tail + Count) % QUEUE_SIZE] = inotify
    BY <1>1, <1>2, RingRoom
  <1> QED BY <1>1, <1>2, <1>3, <1>4, <1>5, <1>6

(* Taking the oldest upload leaves the others, one place nearer. *)
LEMMA TakeRing ==
    ASSUME TypeOK, WorkerTakes
    PROVE  /\ Count \in Nat \ {0}
           /\ Count' = Count - 1
           /\ queue_tail' \in Slots
           /\ \A i \in 0 .. Count - 2 :
                (queue_tail' + i) % QUEUE_SIZE = (queue_tail + (i + 1)) % QUEUE_SIZE
           /\ (queue_tail + 0) % QUEUE_SIZE = queue_tail
  <1>1. queue_head \in Slots /\ queue_tail \in Slots
    BY DEF TypeOK
  <1>2. queue_tail' = Following(queue_tail) /\ queue_head' = queue_head
    BY DEF WorkerTakes
  <1>3. /\ queue_tail' \in Slots
        /\ queue_tail' = IF queue_tail + 1 = QUEUE_SIZE THEN 0 ELSE queue_tail + 1
    BY <1>1, <1>2, FollowingIs
  <1>4. Count \in Slots /\ Count # 0
    BY RingRoom DEF WorkerTakes
  <1>5. Count' = Count - 1
    <2>1. Count = IF queue_head >= queue_tail THEN queue_head - queue_tail
                  ELSE queue_head - queue_tail + QUEUE_SIZE
      BY <1>1, CountIs DEF Count
    <2>2. Count' = IF queue_head' >= queue_tail' THEN queue_head' - queue_tail'
                   ELSE queue_head' - queue_tail' + QUEUE_SIZE
      BY <1>1, <1>2, <1>3, CountIs DEF Count
    <2> QED BY <1>1, <1>2, <1>3, <1>4, <2>1, <2>2, YaraConstants DEF Slots
  <1>6. \A i \in 0 .. Count - 2 :
           (queue_tail' + i) % QUEUE_SIZE = (queue_tail + (i + 1)) % QUEUE_SIZE
    <2> TAKE i \in 0 .. Count - 2
    <2>1. i \in 0 .. QUEUE_SIZE /\ i + 1 \in 0 .. QUEUE_SIZE
      BY <1>4, YaraConstants DEF Slots
    <2>2. (queue_tail' + i) % QUEUE_SIZE =
            IF queue_tail' + i < QUEUE_SIZE THEN queue_tail' + i
            ELSE queue_tail' + i - QUEUE_SIZE
      BY <1>3, <2>1, SlotIs
    <2>3. (queue_tail + (i + 1)) % QUEUE_SIZE =
            IF queue_tail + (i + 1) < QUEUE_SIZE THEN queue_tail + (i + 1)
            ELSE queue_tail + (i + 1) - QUEUE_SIZE
      BY <1>1, <2>1, SlotIs
    <2> QED BY <1>1, <1>3, <1>4, <2>1, <2>2, <2>3, YaraConstants DEF Slots
  <1>7. (queue_tail + 0) % QUEUE_SIZE = queue_tail
    BY <1>1, YaraConstants DEF Slots
  <1> QED BY <1>3, <1>4, <1>5, <1>6, <1>7, YaraConstants DEF Slots

(* A step that leaves the ring alone leaves the waiting uploads alone. *)
LEMMA RingKept ==
    ASSUME UNCHANGED ring
    PROVE  /\ Count' = Count
           /\ Waiting' = Waiting
           /\ Empty' = Empty
           /\ OccupiedAreFiles => OccupiedAreFiles'
  BY DEF ring, Count, Waiting, Empty, OccupiedAreFiles

-----------------------------------------------------------------------------
(* The engine starts with an empty ring and no worker. *)
LEMMA InitIInv == Init => IInv
  <1> SUFFICES ASSUME Init PROVE IInv
    OBVIOUS
  <1>1. TypeOK
    <2>1. 0 \in Slots
      BY YaraConstants DEF Slots
    <2> QED BY <2>1, Zenon DEF Init, TypeOK
  <1>2. Count = 0
    BY <1>1, RingRoom DEF Init, Empty
  <1>3. OccupiedAreFiles
    BY <1>2 DEF OccupiedAreFiles
  <1> QED BY <1>1, <1>3 DEF Init, IInv, HoldsWhileScanning, Phases, NoLostWakeup

(* An accepted upload fills a slot and wakes the worker. *)
LEMMA EnqueueIInv ==
    ASSUME IInv, Enqueue
    PROVE  IInv'
  <1> USE DEF IInv
  <1>1. Count \in Nat /\ Count' = Count + 1 /\ queue_tail' = queue_tail
    BY EnqueueRing, RingRoom, YaraConstants DEF Slots, Enqueue
  <1>2. inotify # None /\ inotify \in Files \cup {None}
    BY DEF Enqueue, TypeOK
  <1>3. worker' = Woken /\ worker'.pc # "wait" /\ worker'.file = worker.file
        /\ (worker.pc # "wait" => worker' = worker)
        /\ (worker.pc = "wait" => worker'.pc = "lock")
        /\ worker' \in [pc : {"none", "loop", "lock", "wait", "scan", "exit"},
                         file : Files \cup {None}]
    BY DEF Enqueue, Woken, TypeOK
  <1>4. TypeOK'
    BY <1>3, EnqueueRing DEF TypeOK, Enqueue
  <1>5. OccupiedAreFiles'
    <2> SUFFICES ASSUME NEW i \in 0 .. Count
                 PROVE  upload_queue'[(queue_tail + i) % QUEUE_SIZE] # None
      BY <1>1 DEF OccupiedAreFiles
    <2>1. CASE i = Count
      BY <1>2, <2>1, EnqueueRing
    <2>2. CASE i \in 0 .. Count - 1
      BY <2>2, EnqueueRing DEF OccupiedAreFiles
    <2> QED BY <1>1, <2>1, <2>2
  <1>6. HoldsWhileScanning' /\ NoLostWakeup'
    BY <1>3 DEF HoldsWhileScanning, NoLostWakeup
  <1>7. Phases'
    BY <1>3 DEF Phases, Enqueue
  <1> QED BY <1>4, <1>5, <1>6, <1>7

(* The worker takes the path at queue_tail, which is one. *)
LEMMA TakeIInv ==
    ASSUME IInv, WorkerTakes
    PROVE  /\ IInv'
           /\ worker'.file = upload_queue[queue_tail]
           /\ upload_queue[queue_tail] \in Files
  <1> USE DEF IInv
  <1>1. upload_queue[queue_tail] \in Files
    <2>1. 0 \in 0 .. Count - 1
      BY TakeRing
    <2>2. upload_queue[(queue_tail + 0) % QUEUE_SIZE] # None
      BY <2>1 DEF OccupiedAreFiles
    <2> QED BY <2>2, TakeRing DEF TypeOK
  <1>2. worker' = [pc |-> "scan", file |-> upload_queue[queue_tail]]
    BY DEF WorkerTakes
  <1>3. TypeOK'
    BY <1>1, <1>2, TakeRing DEF TypeOK, WorkerTakes
  <1>4. OccupiedAreFiles'
    <2> SUFFICES ASSUME NEW i \in 0 .. Count - 2
                 PROVE  upload_queue[(queue_tail' + i) % QUEUE_SIZE] # None
      BY TakeRing DEF OccupiedAreFiles, WorkerTakes
    <2>1. i + 1 \in 0 .. Count - 1
      BY TakeRing
    <2> QED BY <2>1, TakeRing DEF OccupiedAreFiles
  <1>5. HoldsWhileScanning' /\ NoLostWakeup'
    BY <1>1, <1>2, YaraConstants DEF HoldsWhileScanning, NoLostWakeup
  <1>6. Phases'
    BY <1>2 DEF Phases, WorkerTakes
  <1> QED BY <1>1, <1>2, <1>3, <1>4, <1>5, <1>6

(* Every step keeps the inductive invariant. *)
LEMMA NextIInv == IInv /\ [Next]_vars => IInv'
  <1> SUFFICES ASSUME IInv, [Next]_vars PROVE IInv'
    OBVIOUS
  <1> USE DEF IInv
  <1>1. CASE InitRulesFail
    BY <1>1, RingKept DEF InitRulesFail, ring, TypeOK, HoldsWhileScanning, Phases,
                          NoLostWakeup
  <1>2. CASE InitThreadFails
    BY <1>2, RingKept DEF InitThreadFails, ring, TypeOK, HoldsWhileScanning, Phases,
                          NoLostWakeup
  <1>3. CASE InitThread
    <2>1. TypeOK'
      BY <1>3 DEF InitThread, ring, TypeOK
    <2> QED BY <1>3, <2>1, RingKept DEF InitThread, TypeOK, HoldsWhileScanning, Phases,
                                        NoLostWakeup
  <1>4. CASE InitDone
    BY <1>4, RingKept DEF InitDone, ring, TypeOK, HoldsWhileScanning, Phases,
                          NoLostWakeup
  <1>5. CASE Upload
    BY <1>5, RingKept DEF Upload, ring, TypeOK, HoldsWhileScanning, Phases,
                          NoLostWakeup
  <1>6. CASE EnqueueDrops
    BY <1>6, RingKept DEF EnqueueDrops, ring, TypeOK, HoldsWhileScanning, Phases,
                          NoLostWakeup
  <1>7. CASE Enqueue
    BY <1>7, EnqueueIInv
  <1>8. CASE WorkerLoop
    BY <1>8, RingKept DEF WorkerLoop, ring, TypeOK, HoldsWhileScanning, Phases,
                          NoLostWakeup
  <1>9. CASE WorkerWait
    BY <1>9, RingKept DEF WorkerWait, ring, TypeOK, HoldsWhileScanning, Phases,
                          NoLostWakeup
  <1>10. CASE WorkerStops
    BY <1>10, RingKept DEF WorkerStops, ring, TypeOK, HoldsWhileScanning, Phases,
                           NoLostWakeup
  <1>11. CASE WorkerTakes
    BY <1>11, TakeIInv
  <1>12. CASE WorkerScans
    BY <1>12, RingKept DEF WorkerScans, ring, TypeOK, HoldsWhileScanning, Phases,
                           NoLostWakeup
  <1>13. CASE SpuriousWakeup
    BY <1>13, RingKept DEF SpuriousWakeup, ring, TypeOK, HoldsWhileScanning, Phases,
                           NoLostWakeup
  <1>14. CASE CleanupStop
    BY <1>14, RingKept, Zenon DEF CleanupStop, Woken, ring, TypeOK, HoldsWhileScanning,
                           Phases, NoLostWakeup
  <1>15. CASE CleanupJoin
    BY <1>15, RingKept DEF CleanupJoin, ring, TypeOK, HoldsWhileScanning, Phases,
                           NoLostWakeup
  <1>16. CASE CleanupDrain
    <2>1. TypeOK'
      BY <1>16 DEF CleanupDrain, TypeOK
    <2>2. queue_tail' = queue_head'
      BY <1>16 DEF CleanupDrain
    <2>3. Count' = 0
      <3>1. queue_head' \in Slots
        BY <2>1 DEF TypeOK
      <3>2. (queue_head' - queue_head') % QUEUE_SIZE = 0
        BY <3>1, CountIs DEF Slots
      <3> QED BY <2>2, <3>2 DEF Count
    <2>4. OccupiedAreFiles'
      BY <2>3 DEF OccupiedAreFiles
    <2> QED BY <1>16, <2>1, <2>4 DEF CleanupDrain, HoldsWhileScanning, Phases,
                                     NoLostWakeup
  <1>17. CASE CleanupDone
    BY <1>17, RingKept, Zenon DEF CleanupDone, ring, TypeOK, HoldsWhileScanning, Phases,
                           NoLostWakeup
  <1>18. CASE UNCHANGED vars
    BY <1>18, RingKept DEF vars, ring, TypeOK, HoldsWhileScanning, Phases,
                           NoLostWakeup
  <1> QED
    BY <1>1, <1>2, <1>3, <1>4, <1>5, <1>6, <1>7, <1>8, <1>9, <1>10, <1>11,
       <1>12, <1>13, <1>14, <1>15, <1>16, <1>17, <1>18
    DEF Next, Worker, Cleanup

(* The invariants of the queue hold in every reachable state. *)
THEOREM Invariance == Spec => []IInv
  BY InitIInv, NextIInv, PTL DEF Spec

(* Type correctness: the indices of yara_engine.c stay inside the ring. *)
THEOREM TypeCorrect == Spec => []TypeOK
  <1>1. IInv => TypeOK
    BY DEF IInv
  <1> QED BY Invariance, <1>1, PTL

(* No wakeup is lost: the worker sleeps in pthread_cond_wait only on an    *)
(* empty ring and before the shutdown.                                     *)
THEOREM NoWakeupIsLost == Spec => []NoLostWakeup
  <1>1. IInv => NoLostWakeup
    BY DEF IInv
  <1> QED BY Invariance, <1>1, PTL

-----------------------------------------------------------------------------
(***************************************************************************)
(* The refinement.  Every step of the ring is a step of ScanQueue on the   *)
(* mapped state, or leaves the mapped state alone.                         *)
(***************************************************************************)
Stopped == main \in {"join", "drain", "drained", "done"}

(* The mapped queue is a sequence of paths, empty when the ring is. *)
Mapped ==
    /\ Count \in Nat
    /\ Waiting \in Seq(Files)
    /\ Len(Waiting) = Count
    /\ Waiting = << >> <=> Count = 0
    /\ Empty <=> Count = 0
    /\ \A i \in 1 .. Count :
         Waiting[i] = upload_queue[(queue_tail + (i - 1)) % QUEUE_SIZE]

(* The invariant makes it so. *)
LEMMA IInvMapped == IInv => Mapped
  <1> SUFFICES ASSUME IInv PROVE Mapped
    OBVIOUS
  <1>1. Count \in Nat /\ (Empty <=> Count = 0)
    BY RingRoom, YaraConstants DEF IInv, Slots
  <1> QED BY <1>1, WaitingType DEF IInv, Mapped

(* The same after a step. *)
LEMMA IInvMappedNext == IInv' => Mapped'
  BY IInvMapped, PTL

(* Enqueue appends to the mapped sequence. *)
LEMMA EnqueueSubmits ==
    ASSUME IInv, Enqueue
    PROVE  Abstract!Submit(inotify) /\ inotify \in Files
  <1> USE DEF IInv
  <1>1. IInv'
    BY EnqueueIInv
  <1>2. inotify \in Files
    BY DEF Enqueue, TypeOK
  <1>3. /\ Waiting \in Seq(Files) /\ Waiting' \in Seq(Files)
        /\ Len(Waiting) = Count /\ Len(Waiting') = Count + 1
        /\ Count \in Nat
    BY <1>1, IInvMapped, IInvMappedNext, EnqueueRing DEF Mapped
  <1>4. Len(Waiting) < QUEUE_SIZE - 1
    BY <1>3, RingRoom, YaraConstants DEF Enqueue, Slots
  <1>5. queue_tail' = queue_tail
    BY DEF Enqueue
  <1>6. \A i \in 1 .. Count + 1 :
           Waiting'[i] = upload_queue'[(queue_tail + (i - 1)) % QUEUE_SIZE]
    BY <1>1, <1>5, IInvMappedNext, EnqueueRing DEF Mapped
  <1>7. \A i \in 1 .. Count : Waiting'[i] = Waiting[i]
    <2> TAKE i \in 1 .. Count
    <2>1. i - 1 \in 0 .. Count - 1 /\ i \in 1 .. Count + 1
      BY <1>3
    <2> QED BY <1>6, <2>1, WaitingType, EnqueueRing
  <1>8. Waiting'[Count + 1] = inotify
    <2>1. Count + 1 \in 1 .. Count + 1 /\ (Count + 1) - 1 = Count
      BY <1>3
    <2> QED BY <1>6, <2>1, EnqueueRing
  <1>9. Waiting' = Append(Waiting, inotify)
    <2>1. /\ Append(Waiting, inotify) \in Seq(Files)
          /\ Len(Append(Waiting, inotify)) = Count + 1
          /\ \A i \in 1 .. Count : Append(Waiting, inotify)[i] = Waiting[i]
          /\ Append(Waiting, inotify)[Count + 1] = inotify
      BY <1>2, <1>3, AppendProperties
    <2>2. \A i \in 1 .. Count + 1 : Waiting'[i] = Append(Waiting, inotify)[i]
      BY <1>3, <1>7, <1>8, <2>1
    <2> QED BY <1>3, <2>1, <2>2, SeqEqual
  <1>10. worker'.file = worker.file /\ Stopped' = Stopped
    BY DEF Enqueue, Woken, TypeOK, Stopped
  <1> QED BY <1>2, <1>4, <1>9, <1>10 DEF Abstract!Submit, Stopped

(* WorkerTakes removes the head of the mapped sequence. *)
LEMMA TakeBegins ==
    ASSUME IInv, WorkerTakes
    PROVE  Abstract!Begin
  <1> USE DEF IInv
  <1>1. IInv'
    BY TakeIInv
  <1>2. /\ Waiting \in Seq(Files) /\ Waiting' \in Seq(Files)
        /\ Len(Waiting) = Count /\ Len(Waiting') = Count - 1
        /\ Count \in Nat \ {0}
    BY <1>1, IInvMapped, IInvMappedNext, TakeRing DEF Mapped
  <1>3. Waiting # << >>
    BY <1>2, IInvMapped DEF Mapped
  <1>4. worker'.file = Head(Waiting)
    <2>1. Waiting[1] = upload_queue[(queue_tail + (1 - 1)) % QUEUE_SIZE]
      BY <1>2, WaitingType
    <2>2. upload_queue[(queue_tail + 0) % QUEUE_SIZE] = upload_queue[queue_tail]
      BY TakeRing
    <2> QED BY <1>2, <1>3, <2>1, <2>2, TakeIInv, HeadTailProperties
  <1>5. Waiting' = Tail(Waiting)
    <2>1. /\ Tail(Waiting) \in Seq(Files)
          /\ Len(Tail(Waiting)) = Count - 1
          /\ \A i \in 1 .. Count - 1 : Tail(Waiting)[i] = Waiting[i + 1]
      BY <1>2, <1>3, HeadTailProperties
    <2>2. \A i \in 1 .. Count - 1 : Waiting'[i] = Waiting[i + 1]
      <3> TAKE i \in 1 .. Count - 1
      <3>1. /\ i \in 1 .. Count' /\ i + 1 \in 1 .. Count
            /\ i - 1 \in 0 .. Count - 2
            /\ (i - 1) + 1 = (i + 1) - 1
        BY <1>2, TakeRing
      <3>2. Waiting'[i] = upload_queue'[(queue_tail' + (i - 1)) % QUEUE_SIZE]
        BY <1>1, <3>1, IInvMappedNext DEF Mapped
      <3>3. Waiting[i + 1] = upload_queue[(queue_tail + ((i + 1) - 1)) % QUEUE_SIZE]
        BY <3>1, WaitingType
      <3>4. (queue_tail' + (i - 1)) % QUEUE_SIZE =
              (queue_tail + ((i - 1) + 1)) % QUEUE_SIZE
        BY <3>1, TakeRing
      <3> QED BY <3>1, <3>2, <3>3, <3>4 DEF WorkerTakes
    <2> QED BY <1>2, <2>1, <2>2, SeqEqual
  <1>6. worker.file = None /\ ~Stopped /\ Stopped' = Stopped
    BY DEF WorkerTakes, HoldsWhileScanning, Phases, Stopped
  <1> QED BY <1>3, <1>4, <1>5, <1>6 DEF Abstract!Begin, Stopped

(* Each step of the engine is a step of the queue or a stutter. *)
LEMMA StepRefines ==
    IInv /\ [Next]_vars => [Abstract!Next]_<<Waiting, worker.file, Stopped>>
  <1> SUFFICES ASSUME IInv, [Next]_vars
               PROVE  \/ Abstract!Next
                      \/ UNCHANGED <<Waiting, worker.file, Stopped>>
    OBVIOUS
  <1> USE DEF IInv
  <1>1. CASE InitRulesFail \/ InitThreadFails \/ InitDone \/ Upload \/ EnqueueDrops
    BY <1>1, RingKept DEF InitRulesFail, InitThreadFails, InitDone, Upload,
                          EnqueueDrops, Stopped
  <1>2. CASE InitThread \/ WorkerLoop \/ WorkerWait \/ WorkerStops \/ SpuriousWakeup
    BY <1>2, RingKept DEF InitThread, WorkerLoop, WorkerWait, WorkerStops,
                          SpuriousWakeup, Stopped, TypeOK
  <1>3. CASE Enqueue
    BY <1>3, EnqueueSubmits DEF Abstract!Next
  <1>4. CASE WorkerTakes
    BY <1>4, TakeBegins DEF Abstract!Next
  <1>5. CASE WorkerScans
    BY <1>5, RingKept DEF WorkerScans, HoldsWhileScanning, Stopped, Abstract!Next,
                          Abstract!End
  <1>6. CASE CleanupStop
    BY <1>6, RingKept DEF CleanupStop, Woken, Stopped, TypeOK, Abstract!Next,
                          Abstract!Stop
  <1>7. CASE CleanupJoin \/ CleanupDone
    BY <1>7, RingKept DEF CleanupJoin, CleanupDone, Stopped
  <1>8. CASE CleanupDrain
    <2>1. IInv'
      BY <1>8, NextIInv DEF Next, Cleanup
    <2>2. Waiting' = << >>
      <3>1. Empty'
        BY <1>8 DEF CleanupDrain, Empty
      <3> QED BY <2>1, <3>1, IInvMappedNext DEF Mapped
    <2> QED BY <1>8, <2>2 DEF CleanupDrain, HoldsWhileScanning, Phases, Stopped,
                              Abstract!Next, Abstract!Discard
  <1>9. CASE UNCHANGED vars
    BY <1>9, RingKept DEF vars, ring, Stopped
  <1> QED
    BY <1>1, <1>2, <1>3, <1>4, <1>5, <1>6, <1>7, <1>8, <1>9 DEF Next, Worker, Cleanup

(* The ring of yara_engine.c implements the bounded queue: order is kept   *)
(* across the wrap-around, and nothing is overwritten, scanned twice or    *)
(* scanned after the shutdown, for every QUEUE_SIZE.                       *)
THEOREM RingRefinesQueue == Spec => ImplementsScanQueue
  <1>1. Init => Abstract!Init
    <2> SUFFICES ASSUME Init PROVE Abstract!Init
      OBVIOUS
    <2>1. IInv
      BY InitIInv
    <2>2. Waiting = << >>
      BY <2>1, IInvMapped DEF Mapped, Init, Empty
    <2> QED BY <2>2 DEF Init, Abstract!Init
  <1> QED
    BY <1>1, Invariance, StepRefines, PTL
    DEF Spec, ImplementsScanQueue, Abstract!Spec, Stopped
=============================================================================
