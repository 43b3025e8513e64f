------------------------------- MODULE Imports -------------------------------
(***************************************************************************)
(* ImportsService: one import of a product file, the retries of its failed *)
(* rows and the rest of the organization, which creates products           *)
(* meanwhile.                                                              *)
(*                                                                         *)
(* The job lives in the memory of the process.  It handles its rows one    *)
(* after another, and a retry runs next to it and next to other retries;   *)
(* both look for duplicates in sets the job keeps, wait for the database,  *)
(* and enter their SKU in the one they share only after the product        *)
(* exists.  The sets hold lookup keys, in which letter case and accents    *)
(* are gone, while the unique index compares SKUs as they are written.  A  *)
(* barcode is checked in the same places as a SKU and is left out, as are  *)
(* the parsing of cells, the messages, and the category of a row, which    *)
(* Names models.                                                           *)
(***************************************************************************)
EXTENDS Naturals, FiniteSets

CONSTANTS
    FileRows,           \* number of rows of the file
    ImportRetries,      \* POST /imports/:jobId/retry-row
    SkuKeys,            \* lookup keys of the SKUs of the file
    Spellings           \* how a key may be written

ASSUME ImportsAssumption == FileRows \in Nat \ {0} /\ ImportRetries \cap (1..FileRows) = {}

VARIABLES
    job,                \* the job: its counters, its sets and where its loop is
    rowError,           \* job.errors, by row
    retry,              \* progress of each retry
    skus,               \* the SKUs of the products of the organization
    madeBy,             \* history: the products the job and its retries made
    rowOverlap,         \* history: the pairs of rows or retries handled at the same time
    unmoved             \* history: the rows and retries whose movement failed

importVars == <<job, rowError, retry, skus, madeBy, rowOverlap, unmoved>>

Rows == 1..FileRows
Importers == Rows \cup ImportRetries
ImportSkus == SkuKeys \X {0} \X Spellings
Key(sku) == <<sku[1], sku[2]>>

\* What parseRawRow finds: no name, a value it refuses, no SKU, or a SKU.
\* buildGeneratedSku numbers a row without SKU within its own file, so the
\* product of the same row of an earlier file has the same one.
Blank == <<"blank", 0, "blank">>
Invalid == <<"invalid", 0, "invalid">>
NoSku == <<"none", 0, "none">>
RowKinds == {Blank, Invalid, NoSku} \cup ImportSkus
GeneratedSku(row) == <<"IMP", row, "IMP">>
SkuOf(found, row) == IF found = NoSku THEN GeneratedSku(row) ELSE found
AllSkus == ImportSkus \cup {GeneratedSku(row) : row \in Rows}

JobLive == job.status = "PROCESSING"
Handling(row) == JobLive /\ job.at # "next" /\ job.processed + 1 = row
Retrying(t) == retry[t].at \notin {"new", "done"}
Busy == {row \in Rows : Handling(row)} \cup {t \in ImportRetries : Retrying(t)}

NewJob == [status |-> "none", at |-> "next", known |-> FALSE,
           sku |-> NoSku, processed |-> 0, imported |-> 0, skipped |-> 0, errors |-> 0,
           existing |-> {}, seen |-> {}]

ImportsInit ==
    /\ skus \in SUBSET {GeneratedSku(1)}
    /\ job = NewJob
    /\ rowError = [row \in Rows |-> "none"]
    /\ retry = [t \in ImportRetries |-> [at |-> "new", row |-> 0, sku |-> NoSku]]
    /\ madeBy = {}
    /\ rowOverlap = {}
    /\ unmoved = {}

---------------------------------------------------------------------------
(* POST /imports/products: the products and categories are read once, the *)
(* job is stored and its loop starts, while the request is answered       *)
StartImport ==
    /\ job.status = "none"
    /\ job' = [NewJob EXCEPT !.status = "PROCESSING", !.known = TRUE,
                             !.existing = {Key(sku) : sku \in skus}]
    /\ UNCHANGED <<rowError, retry, skus, madeBy, rowOverlap, unmoved>>

\* The row ends: one counter and processedRows move, and the loop goes on.
RowEnds(counter, existing, seen) ==
    LET counted(name, count) == IF counter = name THEN count + 1 ELSE count
    IN job' = [job EXCEPT !.at = "next", !.sku = NoSku, !.processed = job.processed + 1,
                          !.imported = counted("imported", job.imported),
                          !.skipped = counted("skipped", job.skipped),
                          !.errors = counted("errors", job.errors),
                          !.existing = existing, !.seen = seen]

RowFails(row, seen) ==
    /\ RowEnds("errors", job.existing, seen)
    /\ rowError' = [rowError EXCEPT ![row] = "pending"]

\* Mutant: the SKUs of the job are compared as they are written.
DuplicateAsWritten(sku) == sku \in skus
Duplicate(sku) == Key(sku) \in job.existing \cup job.seen

\* processRow up to its first await: skip, refuse, or go on to the product.
RowParse ==
    /\ JobLive /\ job.at = "next" /\ job.processed < FileRows
    /\ \E found \in RowKinds :
       LET row == job.processed + 1
           sku == SkuOf(found, row)
           seen == job.seen \cup {Key(sku)}
       IN \/ /\ found = Blank
             /\ RowEnds("skipped", job.existing, job.seen)
             /\ UNCHANGED <<rowError, rowOverlap>>
          \/ /\ found = Invalid
             /\ RowFails(row, job.seen)
             /\ UNCHANGED rowOverlap
          \/ /\ found \notin {Blank, Invalid}
             /\ Duplicate(sku)
             /\ RowFails(row, seen)
             /\ UNCHANGED rowOverlap
          \/ /\ found \notin {Blank, Invalid}
             /\ ~Duplicate(sku)
             /\ job' = [job EXCEPT !.at = "insert", !.sku = sku, !.seen = seen]
             /\ rowOverlap' = rowOverlap \cup {{row, t} : t \in Busy}
             /\ UNCHANGED rowError
    /\ UNCHANGED <<retry, skus, madeBy, unmoved>>

\* resolveCategory and ProductsService.create: the check of the SKU and the insert, which the
\* unique index repeats.  Whatever else the database refuses before the product exists fails the
\* row too: processRow catches it, so that the job itself never gets to FAILED.
RowInsert ==
    /\ JobLive /\ job.at = "insert"
    /\ LET row == job.processed + 1
       IN \/ /\ job.sku \notin skus
             /\ skus' = skus \cup {job.sku}
             /\ madeBy' = madeBy \cup {<<row, job.sku>>}
             /\ job' = [job EXCEPT !.at = "movement"]
             /\ UNCHANGED rowError
          \/ /\ RowFails(row, job.seen)
             /\ UNCHANGED <<skus, madeBy>>
    /\ UNCHANGED <<retry, rowOverlap, unmoved>>

\* The initial movement is a statement of its own: when it fails the row is an
\* error, and its product stays.
RowMovement ==
    /\ JobLive /\ job.at = "movement"
    /\ \/ /\ RowEnds("imported", job.existing \cup {Key(job.sku)}, job.seen)
          /\ UNCHANGED <<rowError, unmoved>>
       \/ /\ RowFails(job.processed + 1, job.seen)
          /\ unmoved' = unmoved \cup {job.processed + 1}
    /\ UNCHANGED <<retry, skus, madeBy, rowOverlap>>

\* Mutant: the last row is not waited for.
AllRowsBegun(n) == n + 1 >= FileRows
AllRows(n) == n = FileRows

JobEnds ==
    /\ JobLive /\ AllRows(job.processed)
    /\ job' = [job EXCEPT !.status = "COMPLETED"]
    /\ UNCHANGED <<rowError, retry, skus, madeBy, rowOverlap, unmoved>>

---------------------------------------------------------------------------
(* POST /imports/:jobId/retry-row, with the data the user corrected *)
RetryGoto(t, step) == retry' = [retry EXCEPT ![t].at = step]
RetryEnds(t) == retry' = [retry EXCEPT ![t].at = "done", ![t].sku = NoSku]

\* An error that was not resolved; the answer of a refused retry marks it retried.
RetryBegin(t) ==
    /\ retry[t].at = "new"
    /\ job.known
    /\ \E row \in Rows : \E sku \in ImportSkus \cup {GeneratedSku(row)} :
         /\ rowError[row] = "pending"
         /\ \/ /\ Key(sku) \notin job.existing
               /\ retry' = [retry EXCEPT ![t] = [at |-> "insert", row |-> row, sku |-> sku]]
               /\ rowOverlap' = rowOverlap \cup {{t, b} : b \in Busy}
            \/ /\ Key(sku) \in job.existing
               /\ retry' = [retry EXCEPT ![t] = [at |-> "done", row |-> row, sku |-> NoSku]]
               /\ UNCHANGED rowOverlap
    /\ UNCHANGED <<job, rowError, skus, madeBy, unmoved>>

\* Mutant: a failed retry makes the row an error again and counts it.
CountedAgain(t) ==
    /\ rowError' = [rowError EXCEPT ![retry[t].row] = "pending"]
    /\ job' = [job EXCEPT !.errors = job.errors + 1]
RetryFails(t) ==
    /\ rowError' = [rowError EXCEPT ![retry[t].row] = "pending"]
    /\ UNCHANGED job

RetryInsert(t) ==
    /\ retry[t].at = "insert"
    /\ \/ /\ retry[t].sku \notin skus
          /\ skus' = skus \cup {retry[t].sku}
          /\ madeBy' = madeBy \cup {<<t, retry[t].sku>>}
          /\ RetryGoto(t, "movement")
          /\ UNCHANGED <<job, rowError>>
       \/ /\ RetryFails(t)
          /\ RetryEnds(t)
          /\ UNCHANGED <<skus, madeBy>>
    /\ UNCHANGED <<rowOverlap, unmoved>>

Entered(t) == job.existing \cup {Key(retry[t].sku)}

RetryMovement(t) ==
    /\ retry[t].at = "movement"
    /\ \/ /\ job' = [job EXCEPT !.imported = job.imported + 1,
                                !.errors = IF job.errors = 0 THEN 0 ELSE job.errors - 1,
                                !.existing = Entered(t)]
          /\ rowError' = [rowError EXCEPT ![retry[t].row] = "resolved"]
          /\ UNCHANGED unmoved
       \/ /\ RetryFails(t)
          /\ unmoved' = unmoved \cup {t}
    /\ RetryEnds(t)
    /\ UNCHANGED <<skus, madeBy, rowOverlap>>

---------------------------------------------------------------------------
\* The product form: another user's product.
CreateElsewhere ==
    /\ skus \subseteq {made[2] : made \in madeBy}    \* bound: one such product
    \* bound: of a SKU somebody is about to insert
    /\ \E sku \in ImportSkus \cap ({job.sku} \cup {retry[t].sku : t \in ImportRetries}) :
          sku \notin skus /\ skus' = skus \cup {sku}
    /\ UNCHANGED <<job, rowError, retry, madeBy, rowOverlap, unmoved>>

\* cleanupExpiredJobs forgets a job half an hour after its end, or, while it
\* still runs, half an hour after its start; its loop goes on.
JobForgotten ==
    /\ job.known
    /\ job' = [job EXCEPT !.known = FALSE]
    /\ UNCHANGED <<rowError, retry, skus, madeBy, rowOverlap, unmoved>>

\* The process ends: the job and its requests are gone, the products stay.
ImportCrash ==
    /\ JobLive \/ \E t \in ImportRetries : Retrying(t)
    /\ job' = [job EXCEPT !.known = FALSE, !.at = "next", !.existing = {}, !.seen = {},
                          !.status = IF JobLive THEN "lost" ELSE job.status]
    /\ retry' = [t \in ImportRetries |-> IF Retrying(t) THEN [retry[t] EXCEPT !.at = "done", !.sku = NoSku]
                                         ELSE retry[t]]
    /\ UNCHANGED <<rowError, skus, madeBy, rowOverlap, unmoved>>

---------------------------------------------------------------------------
JobStep == RowParse \/ RowInsert \/ RowMovement \/ JobEnds
RetryStep(t) == RetryInsert(t) \/ RetryMovement(t)

ImportsNext ==
    \/ StartImport \/ JobStep
    \/ \E t \in ImportRetries : RetryBegin(t) \/ RetryStep(t)
    \/ CreateElsewhere \/ JobForgotten \/ ImportCrash

ImportsSpec == ImportsInit /\ [][ImportsNext]_importVars

---------------------------------------------------------------------------
ImportsTypeOK ==
    /\ job \in [status : {"none", "PROCESSING", "COMPLETED", "lost"},
                at : {"next", "insert", "movement"},
                known : BOOLEAN, sku : AllSkus \cup {NoSku},
                processed : 0..FileRows, imported : Nat, skipped : Nat, errors : Nat,
                existing : SUBSET {Key(sku) : sku \in AllSkus}, seen : SUBSET {Key(sku) : sku \in AllSkus}]
    /\ rowError \in [Rows -> {"none", "pending", "resolved"}]
    /\ retry \in [ImportRetries -> [at : {"new", "insert", "movement", "done"},
                                    row : 0..FileRows, sku : AllSkus \cup {NoSku}]]
    /\ skus \subseteq AllSkus
    /\ madeBy \subseteq Importers \X AllSkus
    /\ rowOverlap \subseteq SUBSET Importers
    /\ unmoved \subseteq Importers

RetriedTogether == \E s, t \in ImportRetries : retry[s].row = retry[t].row /\ {s, t} \in rowOverlap
                                               /\ s # t

\* The screen's counters add up: every processed row is imported, skipped or an
\* error to correct, unless two retries of one row overlapped
\* (imports.service.ts:291-294, 410-432, 1086).
TallyAddsUp ==
    \/ RetriedTogether
    \/ /\ job.imported + job.skipped + job.errors = job.processed
       /\ job.errors = Cardinality({row \in Rows : rowError[row] = "pending"})

\* An import makes two products whose SKUs have one lookup key only when a retry
\* overlapped the other one, or one of them failed after its product was made:
\* the job then forgets its SKU (imports.service.ts:459-487, 508, 296).
KeysUniqueUnlessOverlapped ==
    \A a, b \in madeBy :
        a # b /\ Key(a[2]) = Key(b[2]) =>
            {a[1], b[1]} \in rowOverlap \/ {a[1], b[1]} \cap unmoved # {}

\* The job keeps the promise its screen relies on: row after row, finished
\* after the last one, and never again anything else, next to retries, other
\* users, the cleanup and the end of the process (imports.service.ts:410-437).
Promised == INSTANCE ImportJob WITH
    JobRows <- FileRows,
    phase <- IF job.status = "lost" THEN "PROCESSING" ELSE job.status,
    progress <- job.processed,
    held <- job.known
KeepsPromise == Promised!JobSpec
=============================================================================
