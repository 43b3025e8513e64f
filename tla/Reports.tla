------------------------------ MODULE Reports ------------------------------
(***************************************************************************)
(* ReportsService and the CacheService behind its two cached reports.      *)
(*                                                                         *)
(* The sales it reads are those SalesService writes: a checkout commits    *)
(* and then clears the cached dashboards; a cancellation reads that the    *)
(* sale is completed, writes in a transaction of its own and clears        *)
(* nothing.  A report runs its queries one after another, each on the      *)
(* database as it is then, and stores the answer for five minutes.         *)
(*                                                                         *)
(* Time is a count of ticks, two to a day, so that a day has a first and a *)
(* last instant.  A query is the set of sales it counts; what is summed    *)
(* over them is left out, but for the returns of the financial overview.   *)
(***************************************************************************)
EXTENDS Integers, FiniteSets

CONSTANTS
    ReportSales,        \* the sales of one organization
    Cancellations,      \* PATCH /sales/:id with status CANCELLED or RETURNED_PARTIAL
    ReportReads,        \* GET /reports/dashboard and /reports/financial
    LastTick            \* bound: where the clock stops

ASSUME ReportsAssumption == LastTick \in Nat

VARIABLES
    now,                \* the clock
    soldRow,            \* the rows of Sale, with their RETURN movements
    cancellation,       \* progress of each cancellation
    reading,            \* progress of each report
    cached,             \* CacheService.cache, by the prefix of the key
    racing              \* history: sales whose checkout cleared the cache during a report

reportVars == <<now, soldRow, cancellation, reading, cached, racing>>

Ticks == 0..LastTick
OneDay == 2
Never == -1
ReportKeys == {"dashboard", "financial"}
NoEntry == [counted |-> {}, summed |-> {}, stored |-> FALSE]
Unsold == [status |-> "NONE", created |-> Never, cancelled |-> Never,
           returns |-> [t \in Ticks |-> 0], cleared |-> FALSE]
NotReading == [at |-> "new", key |-> "dashboard", counted |-> {}]

ReportsInit ==
    /\ now = 0
    /\ soldRow = [s \in ReportSales |-> Unsold]
    /\ cancellation = [c \in Cancellations |-> "new"]
    /\ reading = [r \in ReportReads |-> NotReading]
    /\ cached = [k \in ReportKeys |-> NoEntry]
    /\ racing = {}

---------------------------------------------------------------------------
(* The periods of a report; a date is a day, None one that was not sent *)
NoDate == Never
StartOfDay(date) == date * OneDay
EndOfDay(date) == date * OneDay + OneDay - 1
LaterOf(a, b) == IF a > b THEN a ELSE b
DefaultDays == 2        \* DEFAULT_COMPARISON_DAYS: 30

\* Mutant: the two periods share an instant.
PreviousTouching(start, length) == [gte |-> start - length + 1, lte |-> start]
PreviousPeriod(start, length) == [gte |-> start - length, lte |-> start - 1]

\* buildComparisonPeriod: a start in the future, with no end, changes places with now.
ComparisonPeriod(startDate, endDate, today) ==
    LET end == IF endDate = NoDate THEN today ELSE EndOfDay(endDate)
        start == IF startDate = NoDate THEN end - DefaultDays * OneDay + 1 ELSE StartOfDay(startDate)
        first == IF start > end THEN end ELSE start
        last == IF start > end THEN start ELSE end
    IN [current |-> [gte |-> first, lte |-> last],
        previous |-> PreviousPeriod(first, LaterOf(OneDay, last - first + 1))]

In(instant, period) == instant # Never /\ instant >= period.gte /\ instant <= period.lte

\* Mutant: only completed sales are booked, on the day they were made.
ContributionWhileCompleted(row, period) ==
    IF row.status = "COMPLETED" /\ In(row.created, period) THEN 1 ELSE 0

\* expandFinancialSale: what a sale adds to a period.  The sale, once; minus
\* the sale, when it is cancelled in it; minus what was returned of a sale
\* that is not cancelled.
Contribution(row, period) ==
    LET once(instant) == IF In(instant, period) THEN 1 ELSE 0
        returned == LET inPeriod == {t \in Ticks : In(t, period) /\ row.returns[t] > 0}
                    IN IF row.status = "CANCELLED" THEN 0 ELSE Cardinality(inPeriod)
    IN once(row.created) - once(row.cancelled) - returned

\* The COMPLETED sales a dashboard counts, as they are now.
CompletedSales == {s \in ReportSales : soldRow[s].status = "COMPLETED"}

---------------------------------------------------------------------------
(* SalesService, as far as reports see it *)
Tick ==
    /\ now < LastTick
    /\ now' = now + 1
    /\ UNCHANGED <<soldRow, cancellation, reading, cached, racing>>

SaleCommits(s) ==
    /\ soldRow[s].status = "NONE"
    /\ soldRow' = [soldRow EXCEPT ![s].status = "COMPLETED", ![s].created = now]
    /\ UNCHANGED <<now, cancellation, reading, cached, racing>>

\* Mutant: the checkout clears the financial overviews instead.
ClearedFinancial(key) == key = "financial"
ClearedBySale(key) == key = "dashboard"

\* cache.clear('dashboard:'), after the transaction.
SaleClears(s) ==
    /\ soldRow[s].status # "NONE" /\ ~soldRow[s].cleared
    /\ soldRow' = [soldRow EXCEPT ![s].cleared = TRUE]
    /\ cached' = [k \in ReportKeys |-> IF ClearedBySale(k) THEN NoEntry ELSE cached[k]]
    /\ racing' = racing \cup
           (IF \E r \in ReportReads : reading[r].at = "second" THEN {s} ELSE {})
    /\ UNCHANGED <<now, cancellation, reading>>

SaleChangeRead(c) ==
    /\ cancellation[c] = "new"
    /\ \E s \in CompletedSales : cancellation' = [cancellation EXCEPT ![c] = s]
    /\ UNCHANGED <<now, soldRow, reading, cached, racing>>

\* Mutant: a return is booked with the sign of a sale.
CancelledNegative(row) == [row EXCEPT !.status = "CANCELLED", !.cancelled = now,
                                      !.returns[now] = row.returns[now] - 1]
Cancelled(row) == [row EXCEPT !.status = "CANCELLED", !.cancelled = now,
                              !.returns[now] = row.returns[now] + 1]

\* The cancellation writes its returns and the sale; a partial return only the status.
SaleChangeWrite(c) ==
    /\ cancellation[c] \in ReportSales
    /\ LET s == cancellation[c]
       IN \/ soldRow' = [soldRow EXCEPT ![s] = Cancelled(soldRow[s])]
          \/ soldRow' = [soldRow EXCEPT ![s].status = "RETURNED_PARTIAL"]
    /\ cancellation' = [cancellation EXCEPT ![c] = "done"]
    /\ UNCHANGED <<now, reading, cached, racing>>

---------------------------------------------------------------------------
(* getDashboardKPIs and getFinancialOverview *)

ReportAnswer(r) == reading' = [reading EXCEPT ![r] = [NotReading EXCEPT !.at = "done"]]

\* A cached answer, or the first query.
ReportBegin(r) ==
    /\ reading[r].at = "new"
    /\ \E key \in ReportKeys :
         \/ cached[key].stored /\ ReportAnswer(r)
         \/ /\ ~cached[key].stored
            /\ reading' = [reading EXCEPT ![r] =
                   [at |-> "second", key |-> key, counted |-> CompletedSales]]
    /\ UNCHANGED <<now, soldRow, cancellation, cached, racing>>

\* The last query; the answer is stored in the same turn.
ReportStore(r) ==
    /\ reading[r].at = "second"
    /\ cached' = [cached EXCEPT ![reading[r].key] =
           [counted |-> reading[r].counted, summed |-> CompletedSales, stored |-> TRUE]]
    /\ ReportAnswer(r)
    /\ UNCHANGED <<now, soldRow, cancellation, racing>>

\* Five minutes are over, or the process has ended, which no answer survives.
ReportExpires ==
    /\ \E key \in ReportKeys : cached[key].stored /\ cached' = [cached EXCEPT ![key] = NoEntry]
    /\ UNCHANGED <<now, soldRow, cancellation, reading, racing>>

---------------------------------------------------------------------------
ReportsNext ==
    \/ Tick \/ ReportExpires
    \/ \E s \in ReportSales : SaleCommits(s) \/ SaleClears(s)
    \/ \E c \in Cancellations : SaleChangeRead(c) \/ SaleChangeWrite(c)
    \/ \E r \in ReportReads : ReportBegin(r) \/ ReportStore(r)

ReportsSpec == ReportsInit /\ [][ReportsNext]_reportVars

---------------------------------------------------------------------------
ReportsTypeOK ==
    /\ now \in Ticks
    /\ soldRow \in [ReportSales ->
         [status : {"NONE", "COMPLETED", "RETURNED_PARTIAL", "CANCELLED"},
          created : Ticks \cup {Never}, cancelled : Ticks \cup {Never},
          returns : [Ticks -> Nat], cleared : BOOLEAN]]
    /\ cancellation \in [Cancellations -> ReportSales \cup {"new", "done"}]
    /\ reading \in [ReportReads -> [at : {"new", "second", "done"}, key : ReportKeys,
                                    counted : SUBSET ReportSales]]
    /\ cached \in [ReportKeys -> [counted : SUBSET ReportSales, summed : SUBSET ReportSales,
                                  stored : BOOLEAN]]
    /\ racing \subseteq ReportSales

\* A cached dashboard counts and sums every sale whose checkout has ended, unless
\* the checkout ended while a report was being read, or the sale was changed
\* since (sales.service.ts:282, reports.service.ts:632-775).
DashboardShowsSales ==
    cached["dashboard"].stored =>
        \A s \in CompletedSales \ racing :
            soldRow[s].cleared => s \in cached["dashboard"].counted \cap cached["dashboard"].summed

\* The financial overview of a day that is over never changes: a later return is
\* booked on its own day.  Only two cancellations of one sale move the first one
\* (reports.service.ts:340-379, sales.service.ts:511-519).
ClosedDaysStayBooked ==
    [][\A s \in {sale \in ReportSales : soldRow'[sale] # soldRow[sale]}, date \in 0..LastTick :
          /\ EndOfDay(date) < now
          /\ soldRow[s].cancelled = Never
          => LET day == [gte |-> StartOfDay(date), lte |-> EndOfDay(date)]
             IN Contribution(soldRow'[s], day) = Contribution(soldRow[s], day)]_reportVars

\* Whatever dates are sent, the compared period ends where the reported one
\* begins: together they book every sale and every return once
\* (reports.service.ts:177-217).
PeriodsMeet ==
    \A s \in ReportSales : soldRow[s] # Unsold =>
        \A startDate, endDate \in {NoDate} \cup 0..(LastTick \div OneDay) :
            LET p == ComparisonPeriod(startDate, endDate, now)
                both == [gte |-> p.previous.gte, lte |-> p.current.lte]
            IN Contribution(soldRow[s], p.previous) + Contribution(soldRow[s], p.current)
                 = Contribution(soldRow[s], both)
=============================================================================
