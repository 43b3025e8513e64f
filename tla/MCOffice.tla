------------------------------ MODULE MCOffice ------------------------------
(***************************************************************************)
(* Small instances of the records of an organization (expenses, settings,  *)
(* tasks, names), and of its pages: the screen of an import, the cart, the *)
(* cache of queries, the tasks, the lists and forms of the pages that keep *)
(* records, and the ways from one page to another.                         *)
(*                                                                         *)
(* Each of these modules has rows and screens that no other of them        *)
(* touches, so an interleaving of two of them is one of each: a behaviour  *)
(* picks one of them at first and runs that one alone.                     *)
(***************************************************************************)
EXTENDS Expenses, Settings, Tasks, Names, ImportScreen, Cart, QueryCache, TaskBoard,
        RecordForms, RecordList, Access, TLC

CONSTANT Services       \* the modules a run looks at

MCFirstTasks == <<"t1", "t2">>

VARIABLE service        \* the one this behaviour runs

\* The modules that rest are in one state.
MCInit ==
    /\ service \in Services
    /\ ExpensesInit
    /\ SettingsInit
    /\ TasksInit
    /\ NamesInit /\ (service = "names" \/ kind = "category")
    /\ ScreenInit
    /\ CartInit /\ (service = "cart" \/ shelf = 0)
    /\ CacheInit /\ (service = "cache" \/ watched = "useTasks")
    /\ BoardInit /\ (service = "board" \/ completed = {})
    /\ FormsInit /\ (service = "forms" \/ recordPage = "inventory")
    /\ recordPage # "customers"     \* the same as categories
    /\ ListInit /\ (service = "lists" \/ (listOf = "inventory" /\ matching = 0))
    /\ AccessInit /\ (service = "access" \/ \A org \in AccessOrgs : grantedRole[org] = "CASHIER")

\* Every module but that one is left alone.
Rest(name, variables) == IF service = name THEN TRUE ELSE UNCHANGED variables
OthersRest ==
    /\ UNCHANGED service
    /\ Rest("expenses", expenseVars)
    /\ Rest("settings", settingsVars)
    /\ Rest("tasks", taskVars)
    /\ Rest("names", nameVars)
    /\ Rest("screen", screenVars)
    /\ Rest("cart", cartVars)
    /\ Rest("cache", cacheVars)
    /\ Rest("board", boardVars)
    /\ Rest("forms", formVars)
    /\ Rest("lists", listVars)
    /\ Rest("access", accessVars)

MCNext ==
    \/ service = "expenses" /\ ExpensesNext /\ OthersRest
    \/ service = "settings" /\ SettingsNext /\ OthersRest
    \/ service = "tasks" /\ TasksNext /\ OthersRest
    \/ service = "names" /\ NamesNext /\ OthersRest
    \/ service = "screen" /\ ScreenNext /\ OthersRest
    \/ service = "cart" /\ CartNext /\ OthersRest
    \/ service = "cache" /\ CacheNext /\ OthersRest
    \/ service = "board" /\ BoardNext /\ OthersRest
    \/ service = "forms" /\ FormsNext /\ OthersRest
    \/ service = "lists" /\ ListNext /\ OthersRest
    \/ service = "access" /\ AccessNext /\ OthersRest

MCVars == <<service, expenseVars, settingsVars, taskVars, nameVars, screenVars, cartVars,
            cacheVars, boardVars, formVars, listVars, accessVars>>

\* ScreenFairness, among the other modules.
Running(step) == service = "screen" /\ step /\ OthersRest
MCFairness ==
    /\ WF_MCVars(Running((JobRow \/ JobCompletes) /\ UNCHANGED <<shown, poll, rowRetry>>))
    /\ WF_MCVars(Running(PollSent))
    /\ SF_MCVars(Running(PollServed)) /\ SF_MCVars(Running(PollArrives))
    /\ \A q \in RowRetries : WF_MCVars(Running(RowRetryStep(q)))

MCSpec == MCInit /\ [][MCNext]_MCVars /\ MCFairness

\* Every module keeps its types.
OfficeTypeOK ==
    /\ service = "expenses" => ExpensesTypeOK
    /\ service = "settings" => SettingsTypeOK
    /\ service = "tasks" => TasksTypeOK
    /\ service = "names" => NamesTypeOK
    /\ service = "screen" => ScreenTypeOK
    /\ service = "cart" => CartTypeOK
    /\ service = "cache" => CacheTypeOK
    /\ service = "board" => BoardTypeOK
    /\ service = "forms" => FormsTypeOK
    /\ service = "lists" => ListTypeOK
    /\ service = "access" => AccessTypeOK
=============================================================================
