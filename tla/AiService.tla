----------------------------- MODULE AiService ------------------------------
(***************************************************************************)
(* AIService.java: a scheduled job sends the oldest events without an      *)
(* analysis to a model, one by one, and then the pending Slowloris events  *)
(* in one batch.  Every step is a query or a call of some seconds, and     *)
(* events are deleted in between.  What the analysis says is left out, and *)
(* so are the status lines written to config.                              *)
(***************************************************************************)
EXTENDS EventStore, Functions, TLC

CONSTANTS
    PerRun,         \* LIMIT of the events analysed one by one (5)
    BatchLimit,     \* LIMIT of the Slowloris batch (100)
    Slowloris,      \* the events with threat_type 4
    Unanswerable    \* events the model never gives a usable answer to

ASSUME AiAssumption ==
    /\ PerRun \in Nat \ {0} /\ BatchLimit \in Nat \ {0}
    /\ Slowloris \subseteq Ids /\ Unanswerable \subseteq Ids \ Slowloris
    /\ Cardinality(Unanswerable) < PerRun

VARIABLES
    dataset,        \* ai_analysis_dataset: [ids -> model_used]
    configured,     \* there is an API key and an https URL
    job, todo       \* where runAIAnalysis is, and the events it has selected

aiVars == <<dataset, configured, job, todo>>
vars == <<events, nextId, storeVars, aiVars>>

Pending == events \ DOMAIN dataset
NoRows == [e \in {} |-> "model"]

Init ==
    /\ StoreInit
    /\ dataset = NoRows /\ configured = FALSE /\ job = "idle" /\ todo = {}

(* Mutant: one event less per run. *)
UnanalyzedFewer == Oldest(Pending, PerRun - 1)

unanalyzedEvents == Oldest(Pending, PerRun)

runAIAnalysis ==
    /\ job = "idle" /\ configured
    /\ todo' = unanalyzedEvents
    /\ job' = "analyze"
    /\ UNCHANGED <<tableVars, storeVars, dataset, configured>>

(* The next event of the loop, or the batch after the last one. *)
NextEvent ==
    /\ todo' = todo \ {Min(todo)}
    /\ job' = "analyze"

(* analyzeEvent gets a usable answer, perhaps with the second header. *)
Answered ==
    /\ job = "analyze" /\ todo # {} /\ Min(todo) \notin Unanswerable
    /\ job' = "insert"
    /\ UNCHANGED <<tableVars, storeVars, dataset, configured, todo>>

(* An error, a timeout or an answer that is not the JSON asked for: the    *)
(* event stays pending.                                                    *)
Unanswered ==
    /\ job = "analyze" /\ todo # {}
    /\ NextEvent
    /\ UNCHANGED <<tableVars, storeVars, dataset, configured>>

(* INSERT ... ON CONFLICT DO NOTHING; an event deleted meanwhile is an     *)
(* integrity violation.                                                    *)
Inserted(e, model) ==
    IF e \in DOMAIN dataset \/ e \notin events THEN dataset
    ELSE dataset @@ (e :> model)

InsertAnalysis ==
    /\ job = "insert"
    /\ dataset' = Inserted(Min(todo), "model")
    /\ NextEvent
    /\ UNCHANGED <<tableVars, storeVars, configured>>

InsertFails ==
    /\ job = "insert"
    /\ NextEvent
    /\ UNCHANGED <<tableVars, storeVars, dataset, configured>>

slowlorisEvents == Oldest(Pending \cap Slowloris, BatchLimit)

analyzeSlowlorisBatch ==
    /\ job = "analyze" /\ todo = {}
    /\ todo' = slowlorisEvents
    /\ job' = IF slowlorisEvents = {} THEN "idle" ELSE "batch"
    /\ UNCHANGED <<tableVars, storeVars, dataset, configured>>

(* An answer, or a status other than 200 and 201 or an answer without      *)
(* choices: the rows are written in both cases.                            *)
BatchAnswered ==
    /\ job = "batch"
    /\ job' \in {"model (batch)", "batch_failed"}
    /\ UNCHANGED <<tableVars, storeVars, dataset, configured, todo>>

(* A timeout or an unusable answer ends the job. *)
BatchUnanswered ==
    /\ job = "batch"
    /\ job' = "idle"
    /\ todo' = {}
    /\ UNCHANGED <<tableVars, storeVars, dataset, configured>>

(* One row of the loop over the batch; a failure is only printed. *)
ApplyTo(rows) ==
    /\ job \in {"model (batch)", "batch_failed"}
    /\ dataset' = rows
    /\ todo' = todo \ {Min(todo)}
    /\ job' = IF todo' = {} THEN "idle" ELSE job
    /\ UNCHANGED <<tableVars, storeVars, configured>>

Apply == ApplyTo(Inserted(Min(todo), job))
ApplyFails == ApplyTo(dataset)

(* A query fails, or the dashboard is restarted: the job is over. *)
JobEnds ==
    /\ job # "idle"
    /\ job' = "idle"
    /\ todo' = {}
    /\ UNCHANGED <<tableVars, storeVars, dataset, configured>>

-----------------------------------------------------------------------------
(* setConfig, for the key and the URL. *)
SetConfig ==
    /\ configured' = ~configured
    /\ UNCHANGED <<tableVars, storeVars, dataset, job, todo>>

(* The rows of deleted events go with them (ON DELETE CASCADE). *)
ClearEvents ==
    /\ DeleteEvents
    /\ dataset' = [e \in DOMAIN dataset \cap events' |-> dataset[e]]
    /\ UNCHANGED <<storeVars, configured, job, todo>>

Job ==
    \/ runAIAnalysis \/ Answered \/ Unanswered \/ InsertAnalysis
    \/ analyzeSlowlorisBatch \/ BatchAnswered \/ Apply

Next ==
    \/ StoreStep /\ UNCHANGED aiVars
    \/ Job \/ InsertFails \/ BatchUnanswered \/ ApplyFails \/ JobEnds
    \/ SetConfig \/ ClearEvents

(* The scheduler runs the job again and again, and its thread goes on. *)
Spec == Init /\ [][Next]_vars /\ WF_<<job, todo>>(Job)

-----------------------------------------------------------------------------
ModelUsed == {"model", "model (batch)", "batch_failed"}

(* Type invariant: only Slowloris events are analysed as a batch. *)
TypeOK ==
    /\ StoreTypeOK
    /\ configured \in BOOLEAN
    /\ job \in {"idle", "analyze", "insert", "batch"} \cup ModelUsed
    /\ todo \subseteq 1 .. nextId - 1
    /\ job \in {"insert", "batch"} \cup ModelUsed => todo # {}
    /\ job \in {"batch"} \cup ModelUsed => todo \subseteq Slowloris

(* The job is cut short while there is something left to do. *)
CutShort == JobEnds /\ (todo # {} \/ slowlorisEvents # {})
BatchFails == BatchUnanswered \/ ApplyFails \/ CutShort
AnalysisFails ==
    \/ Unanswered /\ Min(todo) \notin Unanswerable
    \/ InsertFails \/ BatchFails

(* Fewer events than are taken per run do not hold up the rest: if the     *)
(* model never answers for Unanswerable, and for the others does not fail  *)
(* for ever, again and again a moment comes when only they are pending,    *)
(* unless the service is switched off (runAIAnalysis).                     *)
OthersAreAnalyzed ==
    \/ []<>~configured \/ []<><<AnalysisFails>>_vars
    \/ []<>(Pending \subseteq Unanswerable)
=============================================================================
