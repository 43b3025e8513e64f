---------------------------- MODULE RecordList -----------------------------
(***************************************************************************)
(* The list of a page of records: which page of it is asked for, while the *)
(* filter changes and records come and go.                                 *)
(*                                                                         *)
(* The server answers with the rows of the page that was asked for and the *)
(* number of pages.  A list of cards without rows shows no buttons to turn *)
(* the page either, whatever the number of pages is; a table shows them.   *)
(***************************************************************************)
EXTENDS Naturals, FiniteSetsExt

CONSTANTS
    MaxMatching,        \* how many records may match a filter
    PageSize

ASSUME RecordListAssumption == MaxMatching \in Nat /\ PageSize \in Nat \ {0}

VARIABLES
    listOf,             \* which page it is
    matching,           \* how many records match the filter
    page,               \* the page asked for
    whole,              \* the inventory of a category, or of what runs low: not paged
    shrunk              \* history: the list has become shorter since the page was set

listVars == <<listOf, matching, page, whole, shrunk>>

Staying == {"inventory", "categories", "customers"}
Cards == Staying \cup {"suppliers"}
Lists == Cards \cup {"expenses", "purchase-orders", "sales"}

ListInit ==
    /\ listOf \in Lists
    /\ matching \in 0..MaxMatching
    /\ page = 1 /\ whole = FALSE /\ shrunk = FALSE

Pages(n) == (n + PageSize - 1) \div PageSize
\* The rows of the page asked for: skip the pages before it, take one page.
Skipped == (page - 1) * PageSize
Listed == IF whole THEN matching
          ELSE IF matching <= Skipped THEN 0
          ELSE IF matching >= Skipped + PageSize THEN PageSize
          ELSE matching - Skipped

\* Mutant: the page that is past the end becomes the last one, also of none.
LastPage(p, n) == IF p > Pages(n) THEN Pages(n) ELSE p
\* The effect of the sales page, once it is told the number of pages.
LeftWhenPast(p, n) == IF listOf = "sales" /\ Pages(n) > 0 /\ p > Pages(n) THEN 1 ELSE p

\* Mutant: no page starts again with the first one.
Stays(list) == TRUE
\* The pages whose filters leave the number of the page alone.
KeepsPage(list) == list \in Staying

\* Another filter: any number of records may match it.
Filter(n, all) ==
    /\ all => listOf = "inventory"
    /\ matching' = n
    /\ whole' = all
    /\ page' = LeftWhenPast(IF KeepsPage(listOf) THEN page ELSE 1, n)
    /\ shrunk' = (shrunk /\ page' # 1)
    /\ UNCHANGED listOf

\* Records are created, removed, or changed so that they match or no longer do.
RecordsChange(n) ==
    /\ n # matching
    /\ matching' = n
    /\ page' = LeftWhenPast(page, n)
    /\ shrunk' = ((shrunk \/ n < matching) /\ page' # 1)
    /\ UNCHANGED <<listOf, whole>>

\* Pagination is shown when there is a second page; it shows the last one for a later one.
TurnPage(p) ==
    /\ Listed > 0 \/ listOf \notin Cards
    /\ ~whole
    /\ Pages(matching) > 1
    /\ LET shown == Min({page, Pages(matching)})
       IN p \in {shown - 1, shown + 1} \cap 1..Pages(matching)
    /\ page' = p
    /\ shrunk' = FALSE
    /\ UNCHANGED <<listOf, matching, whole>>

ListNext ==
    \E n \in 0..MaxMatching :
        \/ RecordsChange(n)
        \/ TurnPage(n)
        \/ \E all \in BOOLEAN : Filter(n, all)

ListSpec == ListInit /\ [][ListNext]_listVars

---------------------------------------------------------------------------
ListTypeOK ==
    /\ listOf \in Lists
    /\ matching \in 0..MaxMatching
    /\ page \in 1..(MaxMatching + 1)
    /\ whole \in BOOLEAN /\ shrunk \in BOOLEAN

\* A list without rows means that nothing matches, or that it became shorter
\* while a later page of it was shown; the sales page leaves such a page.  Not so
\* on the pages that keep their page under another filter (inventory/page.tsx:329-349,
\* categories/page.tsx:178-182, customers/page.tsx:162-177; sales/page.tsx:80-85).
EmptyMeansNone ==
    Listed = 0 =>
        \/ matching = 0
        \/ shrunk /\ listOf # "sales"
        \/ listOf \in Staying
=============================================================================
