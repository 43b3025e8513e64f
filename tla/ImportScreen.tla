---------------------------- MODULE ImportScreen ----------------------------
(***************************************************************************)
(* useImport and ImportSection: the screen that follows one import.        *)
(*                                                                         *)
(* It learns the job from the answer to its upload, asks for the status,   *)
(* and asks again a second later as long as the last status it was told is *)
(* PROCESSING.  Answers are delayed and can be lost; the answer to a retry *)
(* of a row carries a status too, and may overtake a status or be          *)
(* overtaken.  The job is the one ImportJob promises.                      *)
(***************************************************************************)
EXTENDS ImportJob

CONSTANT RowRetries     \* POST /imports/:jobId/retry-row

VARIABLES
    shown,              \* the status the screen was last told
    poll,               \* its status query: off, due, sent, or the answer on its way
    rowRetry            \* the retries: new, sent, or the answer on its way

screenVars == <<jobVars, shown, poll, rowRetry>>

JobStatus == {"PROCESSING", "COMPLETED"}

ScreenInit ==
    /\ JobInit
    /\ shown = "none"
    /\ poll = "off"
    /\ rowRetry = [q \in RowRetries |-> "new"]

\* Mutant: the screen only asks again while it was told nothing.
AgainAtFirst(status) == IF status = "none" THEN "due" ELSE "off"
\* refetchInterval
Again(status) == IF status = "PROCESSING" THEN "due" ELSE "off"

---------------------------------------------------------------------------
\* The answer of the upload arrives with the id of the job.
Watch ==
    /\ phase # "none" /\ shown = "none" /\ poll = "off"
    /\ poll' = "due"
    /\ UNCHANGED <<jobVars, shown, rowRetry>>

PollSent == poll = "due" /\ poll' = "sent" /\ UNCHANGED <<jobVars, shown, rowRetry>>

PollServed ==
    /\ poll = "sent"
    /\ poll' = IF held THEN phase ELSE "lost"
    /\ UNCHANGED <<jobVars, shown, rowRetry>>

PollArrives ==
    /\ poll \in JobStatus
    /\ shown' = poll
    /\ poll' = Again(poll)
    /\ UNCHANGED <<jobVars, rowRetry>>

\* An error: 404, or no answer.  The query goes by the status it has.
PollFails ==
    /\ poll \in JobStatus \cup {"sent", "lost"}
    /\ poll' = Again(shown)
    /\ UNCHANGED <<jobVars, shown, rowRetry>>

\* The screen offers the errors of the job it was told about for a retry.
RowRetrySent(q) ==
    /\ rowRetry[q] = "new" /\ shown \in JobStatus
    /\ rowRetry' = [rowRetry EXCEPT ![q] = "sent"]
    /\ UNCHANGED <<jobVars, shown, poll>>

RowRetryServed(q) ==
    /\ rowRetry[q] = "sent"
    /\ rowRetry' = [rowRetry EXCEPT ![q] = IF held THEN phase ELSE "done"]
    /\ UNCHANGED <<jobVars, shown, poll>>

\* setQueryData: the screen believes it, and the timer of the query follows it.
RowRetryArrives(q) ==
    /\ rowRetry[q] \in JobStatus
    /\ shown' = rowRetry[q]
    /\ rowRetry' = [rowRetry EXCEPT ![q] = "done"]
    /\ poll' = IF poll \in {"off", "due"} THEN Again(rowRetry[q]) ELSE poll
    /\ UNCHANGED jobVars

ScreenStep == Watch \/ PollSent \/ PollServed \/ PollArrives \/ PollFails
RowRetryStep(q) == RowRetryServed(q) \/ RowRetryArrives(q)

ScreenNext ==
    \/ JobNext /\ UNCHANGED <<shown, poll, rowRetry>>
    \/ ScreenStep
    \/ \E q \in RowRetries : RowRetrySent(q) \/ RowRetryStep(q)

\* The loop of the job runs, requests are sent and served, and the network does
\* not lose every status query.
ScreenFairness ==
    /\ WF_screenVars((JobRow \/ JobCompletes) /\ UNCHANGED <<shown, poll, rowRetry>>)
    /\ WF_screenVars(PollSent)
    /\ SF_screenVars(PollServed) /\ SF_screenVars(PollArrives)
    /\ \A q \in RowRetries : WF_screenVars(RowRetryStep(q))

ScreenSpec == ScreenInit /\ [][ScreenNext]_screenVars /\ ScreenFairness

---------------------------------------------------------------------------
ScreenTypeOK ==
    /\ phase \in {"none"} \cup JobStatus
    /\ progress \in 0..JobRows
    /\ held \in BOOLEAN
    /\ shown \in {"none"} \cup JobStatus
    /\ poll \in {"off", "due", "sent", "lost"} \cup JobStatus
    /\ rowRetry \in [RowRetries -> {"new", "sent", "done"} \cup JobStatus]

\* A screen that was told about the import once ends up showing that it is
\* finished, and keeps showing it, in whatever order statuses and retries are
\* answered and however many answers are lost, unless the process no longer
\* knows the job (useImport.ts:35-51, 64-71).
CompletionShown == (shown # "none") ~> (~held \/ [](shown = "COMPLETED"))
=============================================================================
