----------------------------- MODULE YaraQueue ------------------------------
(***************************************************************************)
(* The asynchronous part of kernel/yara_engine.c: a ring of QUEUE_SIZE     *)
(* slots filled by the inotify thread (queue_file_upload_scan), emptied by *)
(* one worker (yara_worker_thread), and torn down by the main thread       *)
(* (cleanup_yara_engine).  What runs under queue_lock is one step, except  *)
(* that pthread_cond_wait releases the lock; yara_initialized, and         *)
(* worker_running in the worker's loop, are read without it.               *)
(***************************************************************************)
EXTENDS Integers, Sequences

CONSTANTS
    QUEUE_SIZE,   \* slots of upload_queue (256 in the code)
    Files,        \* paths that are uploaded
    None

ASSUME YaraConstants ==
    QUEUE_SIZE \in Nat \ {0} /\ None \notin Files

VARIABLES
    upload_queue, queue_head, queue_tail,
    worker_running, yara_initialized,
    worker,       \* where the worker is, and the path it holds
    inotify,      \* the path the watcher is about to queue, or None
    main          \* where the main thread is in the engine's life

vars == <<upload_queue, queue_head, queue_tail, worker_running,
          yara_initialized, worker, inotify, main>>

ring == <<upload_queue, queue_head, queue_tail>>

Slots == 0 .. QUEUE_SIZE - 1

Init ==
    /\ upload_queue = [i \in Slots |-> None]
    /\ queue_head = 0 /\ queue_tail = 0
    /\ worker_running = FALSE /\ yara_initialized = FALSE
    /\ worker = [pc |-> "none", file |-> None]
    /\ inotify = None
    /\ main = "init"

Empty == queue_head = queue_tail

Following(i) == (i + 1) % QUEUE_SIZE

-----------------------------------------------------------------------------
(***************************************************************************)
(* init_yara_engine: libyara or the rules fail, the thread cannot be       *)
(* created, or the engine starts.  fw_nfq goes on in each case.            *)
(***************************************************************************)
InitRulesFail ==
    /\ main = "init" /\ main' = "failed"
    /\ UNCHANGED <<ring, worker_running, yara_initialized, worker, inotify>>

InitThreadFails ==
    /\ main = "init" /\ main' = "failed"
    /\ worker_running' = TRUE
    /\ UNCHANGED <<ring, yara_initialized, worker, inotify>>

InitThread ==
    /\ main = "init" /\ main' = "created"
    /\ worker_running' = TRUE
    /\ worker' = [worker EXCEPT !.pc = "loop"]
    /\ UNCHANGED <<ring, yara_initialized, inotify>>

InitDone ==
    /\ main = "created" /\ main' = "running"
    /\ yara_initialized' = TRUE
    /\ UNCHANGED <<ring, worker_running, worker, inotify>>

(***************************************************************************)
(* queue_file_upload_scan                                                  *)
(***************************************************************************)
Upload ==
    /\ inotify = None /\ yara_initialized
    /\ \E f \in Files : inotify' = f
    /\ UNCHANGED <<ring, worker_running, yara_initialized, worker, main>>

(* Mutant: the test for a free slot is left out. *)
QueueNeverFull == FALSE

QueueFull == Following(queue_head) = queue_tail

EnqueueDrops ==
    /\ inotify # None /\ QueueFull
    /\ inotify' = None
    /\ UNCHANGED <<ring, worker_running, yara_initialized, worker, main>>

Woken == IF worker.pc = "wait" THEN [worker EXCEPT !.pc = "lock"] ELSE worker

(* Mutant: pthread_cond_signal is left out. *)
EnqueueSilent ==
    /\ inotify # None /\ ~QueueFull
    /\ upload_queue' = [upload_queue EXCEPT ![queue_head] = inotify]
    /\ queue_head' = Following(queue_head)
    /\ inotify' = None
    /\ UNCHANGED <<queue_tail, worker_running, yara_initialized, worker, main>>

Enqueue ==
    /\ inotify # None /\ ~QueueFull
    /\ upload_queue' = [upload_queue EXCEPT ![queue_head] = inotify]
    /\ queue_head' = Following(queue_head)
    /\ worker' = Woken
    /\ inotify' = None
    /\ UNCHANGED <<queue_tail, worker_running, yara_initialized, main>>

(***************************************************************************)
(* yara_worker_thread                                                      *)
(***************************************************************************)
WorkerLoop ==
    /\ worker.pc = "loop"
    /\ worker' = [worker EXCEPT !.pc = IF worker_running THEN "lock" ELSE "exit"]
    /\ UNCHANGED <<ring, worker_running, yara_initialized, inotify, main>>

WorkerWait ==
    /\ worker.pc = "lock" /\ Empty /\ worker_running
    /\ worker' = [worker EXCEPT !.pc = "wait"]
    /\ UNCHANGED <<ring, worker_running, yara_initialized, inotify, main>>

(* pthread_cond_wait may return without a signal. *)
SpuriousWakeup ==
    /\ worker.pc = "wait"
    /\ worker' = [worker EXCEPT !.pc = "lock"]
    /\ UNCHANGED <<ring, worker_running, yara_initialized, inotify, main>>

WorkerStops ==
    /\ worker.pc = "lock" /\ ~worker_running
    /\ worker' = [worker EXCEPT !.pc = "exit"]
    /\ UNCHANGED <<ring, worker_running, yara_initialized, inotify, main>>

WorkerTakes ==
    /\ worker.pc = "lock" /\ ~Empty /\ worker_running
    /\ worker' = [pc |-> "scan", file |-> upload_queue[queue_tail]]
    /\ queue_tail' = Following(queue_tail)
    /\ UNCHANGED <<upload_queue, queue_head, worker_running, yara_initialized,
                   inotify, main>>

(* The scan, its alert and the free. *)
WorkerScans ==
    /\ worker.pc = "scan"
    /\ worker' = [pc |-> "loop", file |-> None]
    /\ UNCHANGED <<ring, worker_running, yara_initialized, inotify, main>>

Worker ==
    \/ WorkerLoop \/ WorkerWait \/ WorkerStops \/ WorkerTakes \/ WorkerScans

(***************************************************************************)
(* cleanup_yara_engine                                                     *)
(***************************************************************************)
(* Mutant: the worker is not woken. *)
StopSilent ==
    /\ main = "running" /\ main' = "join"
    /\ worker_running' = FALSE
    /\ UNCHANGED <<ring, yara_initialized, worker, inotify>>

CleanupStop ==
    /\ main = "running" /\ main' = "join"
    /\ worker_running' = FALSE
    /\ worker' = Woken
    /\ UNCHANGED <<ring, yara_initialized, inotify>>

CleanupJoin ==
    /\ main = "join" /\ worker.pc = "exit"
    /\ main' = "drain"
    /\ UNCHANGED <<ring, worker_running, yara_initialized, worker, inotify>>

CleanupDrain ==
    /\ main = "drain"
    /\ queue_tail' = queue_head
    /\ main' = "drained"
    /\ UNCHANGED <<upload_queue, queue_head, worker_running, yara_initialized,
                   worker, inotify>>

CleanupDone ==
    /\ main = "drained" /\ main' = "done"
    /\ yara_initialized' = FALSE
    /\ UNCHANGED <<ring, worker_running, worker, inotify>>

Cleanup == CleanupJoin \/ CleanupDrain \/ CleanupDone

Next ==
    \/ InitRulesFail \/ InitThreadFails \/ InitThread \/ InitDone
    \/ Upload \/ EnqueueDrops \/ Enqueue
    \/ Worker \/ SpuriousWakeup
    \/ CleanupStop \/ Cleanup

(* The worker and the thread that waits for it are scheduled; nothing has  *)
(* to be uploaded, the daemon need not stop, and no wakeup is owed beyond  *)
(* the signals.                                                            *)
Spec == Init /\ [][Next]_vars /\ WF_vars(Worker) /\ WF_vars(Cleanup)

-----------------------------------------------------------------------------
(* Type invariant: the indices stay inside the ring. *)
TypeOK ==
    /\ upload_queue \in [Slots -> Files \cup {None}]
    /\ queue_head \in Slots /\ queue_tail \in Slots
    /\ worker_running \in BOOLEAN /\ yara_initialized \in BOOLEAN
    /\ worker \in [pc : {"none", "loop", "lock", "wait", "scan", "exit"},
                    file : Files \cup {None}]
    /\ inotify \in Files \cup {None}
    /\ main \in {"init", "failed", "created", "running", "join", "drain",
                 "drained", "done"}

(* The worker never sleeps on work or through the shutdown: while it is in *)
(* pthread_cond_wait with no signal on its way, the ring is empty and      *)
(* cleanup_yara_engine has not cleared worker_running.                     *)
NoLostWakeup == worker.pc = "wait" => Empty /\ worker_running

(* The ring seen as a sequence: Count slots from queue_tail on. *)
Count == (queue_head - queue_tail) % QUEUE_SIZE

Waiting == [i \in 1 .. Count |-> upload_queue[(queue_tail + i - 1) % QUEUE_SIZE]]

(* ScanQueue, read off the ring. *)
Abstract == INSTANCE ScanQueue
    WITH waiting <- Waiting, scanning <- worker.file,
         stopped <- main \in {"join", "drain", "drained", "done"},
         Capacity <- QUEUE_SIZE - 1

(* The ring implements a bounded queue of QUEUE_SIZE - 1 uploads: order is *)
(* kept across the wrap-around, nothing accepted is overwritten, scanned   *)
(* twice or scanned after the shutdown (queue_file_upload_scan,            *)
(* yara_worker_thread).                                                    *)
ImplementsScanQueue == Abstract!Spec

(* cleanup_yara_engine returns: the worker, wherever it is, reaches its    *)
(* exit and pthread_join ends.                                             *)
ShutdownCompletes == main = "join" ~> main = "done"
=============================================================================
