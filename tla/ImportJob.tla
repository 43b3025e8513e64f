------------------------------ MODULE ImportJob ------------------------------
(***************************************************************************)
(* What an import promises to the screen that follows it: it goes through  *)
(* its rows one by one, is COMPLETED after the last one and never again    *)
(* anything else, whatever the retries of its rows do.  The process may    *)
(* stop knowing it at any time: half an hour later, or when it ends.       *)
(***************************************************************************)
EXTENDS Naturals

CONSTANT JobRows        \* rows of the file

VARIABLES
    phase,              \* the status of the job
    progress,           \* processedRows
    held                \* the process knows the job

jobVars == <<phase, progress, held>>

JobInit == phase = "none" /\ progress = 0 /\ held = FALSE

JobBegins == phase = "none" /\ phase' = "PROCESSING" /\ held' = TRUE /\ UNCHANGED progress

JobRow ==
    /\ phase = "PROCESSING" /\ progress < JobRows
    /\ progress' = progress + 1
    /\ UNCHANGED <<phase, held>>

JobCompletes ==
    /\ phase = "PROCESSING" /\ progress = JobRows
    /\ phase' = "COMPLETED"
    /\ UNCHANGED <<progress, held>>

JobDropped == held /\ held' = FALSE /\ UNCHANGED <<phase, progress>>

JobNext == JobBegins \/ JobRow \/ JobCompletes \/ JobDropped

JobSpec == JobInit /\ [][JobNext]_jobVars
=============================================================================
