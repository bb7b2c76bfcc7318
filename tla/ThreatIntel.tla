---------------------------- MODULE ThreatIntel -----------------------------
(***************************************************************************)
(* The threat intelligence aggregator of the SOC receiver                  *)
(* (soc-server/threat_intel.c): a thread that imports three feeds when it  *)
(* starts, every six hours and whenever it is asked to.                    *)
(*                                                                         *)
(* A download and the lines of a feed are sets of addresses; comments and  *)
(* short lines are left out of them.  The table threat_intel keeps a copy  *)
(* of every line and nothing reads it back, so it has no variable.         *)
(***************************************************************************)
EXTENDS ReputationTable

VARIABLES
    thread_running, fetch_requested,
    intel           \* the aggregator: where it is, feed and lines at hand

vars == <<thread_running, fetch_requested, intel, ip_reputation>>

(* at: fetch (about to download feed), import (lines are left of feed),    *)
(* loop (the test of thread_running), lock (fetch_lock is taken), asleep   *)
(* (in pthread_cond_timedwait), woken (fetch_lock is given back), done.    *)
At(at) == [at |-> at, feed |-> 1, lines |-> {}]

Init ==
    /\ thread_running = TRUE /\ fetch_requested = FALSE
    /\ intel = At("fetch")
    /\ TableInit

(* run_all_fetches goes on with the next feed, or returns to the loop. *)
AfterFeed == IF intel.feed < 3 THEN [At("fetch") EXCEPT !.feed = intel.feed + 1]
             ELSE At("loop")

(* download_url: it brings the feed, or nothing and the feed is skipped. *)
Download ==
    /\ intel.at = "fetch"
    /\ \/ intel' = AfterFeed
       \/ intel' = IF Feeds[intel.feed] = {} THEN AfterFeed
                   ELSE [intel EXCEPT !.at = "import", !.lines = Feeds[intel.feed]]
    /\ UNCHANGED <<thread_running, fetch_requested, ip_reputation>>

(* Mutant: a line is imported with the score of the next feed. *)
ImportLineShifted ==
    /\ intel.at = "import"
    /\ \E ip \in intel.lines :
         LET left == intel.lines \ {ip}
         IN /\ Import(ip, (intel.feed % 3) + 1)
            /\ intel' = IF left = {} THEN AfterFeed
                        ELSE [intel EXCEPT !.lines = left]
    /\ UNCHANGED <<thread_running, fetch_requested>>

(* The next line of the feed. *)
ImportLine ==
    /\ intel.at = "import"
    /\ \E ip \in intel.lines :
         LET left == intel.lines \ {ip}
         IN /\ Import(ip, intel.feed)
            /\ intel' = IF left = {} THEN AfterFeed
                        ELSE [intel EXCEPT !.lines = left]
    /\ UNCHANGED <<thread_running, fetch_requested>>

(* The head of the loop: thread_running is read without the lock. *)
LoopTest ==
    /\ intel.at = "loop"
    /\ intel' = At(IF thread_running THEN "lock" ELSE "done")
    /\ UNCHANGED <<thread_running, fetch_requested, ip_reputation>>

(* Mutant: the request is forgotten when the thread gets the lock. *)
EnterWaitForgetting ==
    /\ intel.at = "lock"
    /\ fetch_requested' = FALSE
    /\ intel' = At(IF thread_running THEN "asleep" ELSE "woken")
    /\ UNCHANGED <<thread_running, ip_reputation>>

(* Under the lock: sleep, or take the request and give the lock back. *)
EnterWait ==
    /\ intel.at = "lock"
    /\ IF ~fetch_requested /\ thread_running
       THEN intel' = At("asleep") /\ UNCHANGED fetch_requested
       ELSE intel' = At("woken") /\ fetch_requested' = FALSE
    /\ UNCHANGED <<thread_running, ip_reputation>>

(* ETIMEDOUT after six hours. *)
WaitTimeout ==
    /\ intel.at = "asleep"
    /\ intel' = At("woken") /\ fetch_requested' = FALSE
    /\ UNCHANGED <<thread_running, ip_reputation>>

(* After the lock is given back: shut down, or fetch everything again. *)
Woken ==
    /\ intel.at = "woken"
    /\ intel' = At(IF thread_running THEN "fetch" ELSE "done")
    /\ UNCHANGED <<thread_running, fetch_requested, ip_reputation>>

(* pthread_cond_signal: a sleeping thread tests its condition again. *)
Signalled == IF intel.at = "asleep" THEN At("lock") ELSE intel

(* trigger_feed_fetch, called by the receiver's web API. *)
TriggerFetch ==
    /\ thread_running
    /\ fetch_requested' = TRUE
    /\ intel' = Signalled
    /\ UNCHANGED <<thread_running, ip_reputation>>

(* Mutant: the thread is not woken to be told. *)
CleanupUnsignalled ==
    /\ thread_running
    /\ thread_running' = FALSE
    /\ UNCHANGED <<intel, fetch_requested, ip_reputation>>

(* cleanup_threat_intel, on the way out of main: it then joins the thread. *)
Cleanup ==
    /\ thread_running
    /\ thread_running' = FALSE
    /\ intel' = Signalled
    /\ UNCHANGED <<fetch_requested, ip_reputation>>

(* The receiver is started again: init_threat_intel, on the same table. *)
ReceiverStarts ==
    /\ intel.at = "done"
    /\ thread_running' = TRUE /\ fetch_requested' = FALSE
    /\ intel' = At("fetch")
    /\ UNCHANGED ip_reputation

IntelThread == Download \/ ImportLine \/ LoopTest \/ EnterWait \/ Woken

Next == IntelThread \/ WaitTimeout \/ TriggerFetch \/ Cleanup \/ ReceiverStarts

Spec == Init /\ [][Next]_vars /\ WF_vars(IntelThread)

-----------------------------------------------------------------------------

(* Type invariant: run_all_fetches never goes past its three feeds. *)
TypeOK ==
    /\ thread_running \in BOOLEAN /\ fetch_requested \in BOOLEAN
    /\ intel \in [at : {"fetch", "import", "loop", "lock", "asleep", "woken", "done"},
                  feed : 1 .. 3, lines : SUBSET Ips]
    /\ TableTypeOK

(* Nothing the thread waits for can be missed: a request, even one made    *)
(* while feeds are being fetched, is followed by a fetch from the first    *)
(* feed on, without waiting for the six hours, unless the receiver is      *)
(* being shut down (trigger_feed_fetch, intel_aggregator_thread).          *)
RequestIsServed ==
    (fetch_requested /\ thread_running)
        ~> (intel = At("fetch") \/ ~thread_running)

(* pthread_join in cleanup_threat_intel returns: once asked to stop, the   *)
(* aggregator ends, whether it slept or fetched.                           *)
ShutdownCompletes == ~thread_running ~> intel.at = "done"
=============================================================================
