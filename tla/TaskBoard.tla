----------------------------- MODULE TaskBoard ------------------------------
(***************************************************************************)
(* The tasks page (app/tasks/page.tsx): a list the server orders, a        *)
(* selected task, a draft of its text, and deletions that hide their tasks *)
(* before the server has deleted them.                                     *)
(*                                                                         *)
(* Each handler is a call with one request (Borrar completadas: one per    *)
(* task, under Promise.all).  Module Tasks says what the server accepts,   *)
(* QueryCache when an answered mutation makes the page fetch its list      *)
(* again; a colleague's work shows in the list only then.                  *)
(***************************************************************************)
EXTENDS Naturals, FiniteSets, Sequences, Functions

CONSTANTS
    BoardTasks,         \* tasks that exist, and the ones to be created
    FirstTasks,         \* a sequence: those that exist, the latest first
    TaskLimit,          \* as many tasks the page asks for
    BoardCalls,         \* calls of a handler
    NoneSelected

ASSUME TaskBoardAssumption ==
    /\ NoneSelected \notin BoardTasks /\ TaskLimit \in Nat
    /\ FirstTasks \in Seq(BoardTasks) /\ IsInjective(FirstTasks)

VARIABLES
    tasks,              \* the tasks of the server
    completed,          \* those of them that are COMPLETED
    newer,              \* <<t, u>>: task t was changed after u
    list,               \* what the page was answered last
    outdated,           \* the page has to fetch the list again
    selected,           \* selectedTaskId
    hidden,             \* pendingDeletedTaskIds
    draft,              \* the task whose text is being edited; NoneSelected when none is
    call,               \* progress of each call
    adrift,             \* history: the page moved on from the draft's task by itself
    unseen              \* history: the tasks changed and the page was not told to fetch them

serverVars == <<tasks, completed, newer>>
boardVars == <<serverVars, list, outdated, selected, hidden, draft, call, adrift, unseen>>

\* findAll: ordered by status and by the time of the last change, as many as the page asks for
Above(t, u) == IF t \in completed <=> u \in completed THEN <<t, u>> \in newer ELSE u \in completed
TasksListed == {t \in tasks : Cardinality({u \in tasks : Above(u, t)}) < TaskLimit}
Answer == [tasks |-> TasksListed, completed |-> completed \cap TasksListed,
           above |-> {p \in TasksListed \X TasksListed : Above(p[1], p[2])}]

NewCall == [at |-> "new", op |-> "none", on |-> {}, left |-> {}, last |-> NoneSelected,
            to |-> FALSE, from |-> NoneSelected, adrift |-> FALSE, selected |-> NoneSelected]

BoardInit ==
    /\ tasks = Range(FirstTasks)
    /\ completed \in {{}, tasks}
    /\ newer = {p \in tasks \X tasks :
                   \E i, j \in DOMAIN FirstTasks : i < j /\ p = <<FirstTasks[i], FirstTasks[j]>>}
    /\ list = Answer
    /\ outdated = FALSE
    /\ selected = NoneSelected
    /\ hidden = {}
    /\ draft = NoneSelected
    /\ call = [c \in BoardCalls |-> NewCall]
    /\ adrift = FALSE /\ unseen = FALSE

---------------------------------------------------------------------------
(* What the page shows *)

Visible == list.tasks \ hidden
FirstOf(shown) ==
    IF shown = {} THEN NoneSelected
    ELSE CHOOSE t \in shown : \A u \in shown \ {t} : <<t, u>> \in list.above
LastOf(shown) == CHOOSE t \in shown : \A u \in shown \ {t} : <<u, t>> \in list.above
ResolvedIn(id, shown) == IF id \in shown THEN id ELSE FirstOf(shown)
Resolved == ResolvedIn(selected, Visible)
Editing == draft # NoneSelected /\ Resolved # NoneSelected

\* After a change the user did not make: has the panel another task than the draft's?
Drifts == adrift' = (draft' # NoneSelected /\ (adrift \/ Resolved' # draft'))

ClickTask(t) ==
    /\ t \in Visible
    /\ selected' = t
    /\ draft' = NoneSelected
    /\ adrift' = FALSE
    /\ UNCHANGED <<serverVars, list, outdated, hidden, call, unseen>>

EditSelectedTask ==
    /\ ~Editing /\ Resolved # NoneSelected
    /\ draft' = Resolved
    /\ adrift' = FALSE
    /\ UNCHANGED <<serverVars, list, outdated, selected, hidden, call, unseen>>

\* isPending of a mutation: that of its last request
Pending(op) == \E c \in BoardCalls :
    call[c].op = op /\ call[c].last \in call[c].left

CancelTaskEdit ==
    /\ Editing /\ ~Pending("save")
    /\ draft' = NoneSelected
    /\ adrift' = FALSE
    /\ UNCHANGED <<serverVars, list, outdated, selected, hidden, call, unseen>>

\* The answer of the refetch.
ListArrives ==
    /\ outdated
    /\ list' = Answer
    /\ outdated' = FALSE
    /\ unseen' = FALSE
    /\ UNCHANGED <<serverVars, selected, hidden, draft, call>>
    /\ Drifts

---------------------------------------------------------------------------
(* Calls of one request *)

Request(op, on, last) ==
    [NewCall EXCEPT !.at = "sent", !.op = op, !.on = on, !.left = on, !.last = last]
Sends(c, request) == call[c].at = "new" /\ call' = [call EXCEPT ![c] = request]

\* handleToggleTask, on any row; handleSetTaskStatus, on the selected task
SetStatus(c, t) ==
    /\ t \in Visible
    /\ Sends(c, [Request("status", {t}, t) EXCEPT !.to = t \notin list.completed])
    /\ UNCHANGED <<serverVars, list, outdated, selected, hidden, draft, adrift, unseen>>

AddTask(c, t) ==
    /\ ~Pending("add")
    /\ t \notin tasks \cup Range(FirstTasks)
    /\ \A d \in BoardCalls : t \notin call[d].on
    /\ Sends(c, Request("add", {t}, t))
    /\ UNCHANGED <<serverVars, list, outdated, selected, hidden, draft, adrift, unseen>>

SaveTaskEdit(c) ==
    /\ Editing /\ ~Pending("save")
    /\ Sends(c, [Request("save", {Resolved}, Resolved) EXCEPT !.from = draft, !.adrift = adrift])
    /\ UNCHANGED <<serverVars, list, outdated, selected, hidden, draft, adrift, unseen>>

\* handleDeleteTask and handleClearCompletedTasks
DeleteTasks(c, doomed) ==
    /\ ~Pending("delete")
    /\ Sends(c, [Request("delete", doomed, LastOf(doomed)) EXCEPT !.selected = Resolved])
    /\ hidden' = hidden \cup doomed
    /\ IF Resolved \in doomed
       THEN /\ selected' = FirstOf(Visible \ doomed)
            /\ draft' = NoneSelected
            /\ adrift' = FALSE
       ELSE UNCHANGED <<selected, draft, adrift>>
    /\ UNCHANGED <<serverVars, list, outdated, unseen>>
DeleteTask(c) == Resolved # NoneSelected /\ DeleteTasks(c, {Resolved})
ClearCompletedTasks(c) ==
    LET doomed == Visible \cap list.completed IN doomed # {} /\ DeleteTasks(c, doomed)

---------------------------------------------------------------------------
(* The server, and its answers.  A request is answered as it is done. *)

ToFront(t) ==
    /\ tasks' = tasks \cup {t}
    /\ newer' = {p \in newer : p[2] # t} \cup {<<t, u>> : u \in tasks \ {t}}
TaskRemoved(t) ==
    /\ tasks' = tasks \ {t}
    /\ newer' = {p \in newer : p[1] # t /\ p[2] # t}

\* What the server does for one request of a call.
Done(c, t) ==
    /\ call[c].op = "add" \/ t \in tasks
    /\ IF call[c].op = "delete" THEN TaskRemoved(t) ELSE ToFront(t)
    /\ completed' = IF call[c].op = "status" /\ call[c].to THEN completed \cup {t}
                    ELSE IF call[c].op \in {"status", "delete"} THEN completed \ {t}
                    ELSE completed
Waiting(c, t) == call[c].at \in {"sent", "failed"} /\ t \in call[c].left

Succeeds(c, t) ==
    /\ Waiting(c, t)
    /\ Done(c, t)
    /\ outdated' = TRUE
    /\ LET left == call[c].left \ {t}
       IN  /\ call' = [call EXCEPT ![c].left = left, ![c].at = IF left = {} THEN "done" ELSE @]
           /\ hidden' = IF left = {} /\ <<call[c].at, call[c].op>> = <<"sent", "delete">>
                        THEN hidden \ call[c].on ELSE hidden
    /\ selected' = IF call[c].op = "add" THEN t ELSE selected
    /\ draft' = IF call[c].op = "save" THEN NoneSelected ELSE draft
    /\ UNCHANGED <<list, unseen>>
    /\ Drifts

\* Mutant: a failed deletion selects its task again and leaves it hidden.
RestoredNever(c) == hidden' = hidden

Restored(c) == hidden' = hidden \ call[c].on

\* Refused, or done without an answer.  The first failure of a deletion shows all its tasks
\* again, the ones still being deleted too, and selects what was selected.
Fails(c, t) ==
    /\ Waiting(c, t)
    /\ \/ UNCHANGED <<serverVars, unseen>>
       \/ Done(c, t) /\ unseen' = TRUE
    /\ LET left == call[c].left \ {t}
       IN  call' = [call EXCEPT ![c].left = left,
                                ![c].at = IF left = {} THEN "done" ELSE "failed"]
    /\ IF call[c].op = "delete" /\ call[c].at = "sent"
       THEN /\ Restored(c)
            /\ selected' = IF call[c].selected \in call[c].on THEN call[c].selected ELSE selected
       ELSE UNCHANGED <<hidden, selected>>
    /\ UNCHANGED <<list, outdated, draft>>
    /\ Drifts

\* A colleague's work takes the place of a call: he changes, completes, reopens or deletes a task.
ColleagueWorks(c, t) ==
    /\ call[c].at = "new" /\ t \in tasks
    /\ call' = [call EXCEPT ![c] = [NewCall EXCEPT !.at = "done"]]
    /\ \/ ToFront(t) /\ completed' \in {completed, completed \cup {t}, completed \ {t}}
       \/ TaskRemoved(t) /\ completed' = completed \ {t}
    /\ unseen' = TRUE
    /\ UNCHANGED <<list, outdated, selected, hidden, draft, adrift>>

---------------------------------------------------------------------------

BoardNext ==
    \/ \E t \in BoardTasks : ClickTask(t)
    \/ EditSelectedTask \/ CancelTaskEdit \/ ListArrives
    \/ \E c \in BoardCalls : SaveTaskEdit(c) \/ DeleteTask(c) \/ ClearCompletedTasks(c)
    \/ \E c \in BoardCalls, t \in BoardTasks :
        SetStatus(c, t) \/ AddTask(c, t) \/ Succeeds(c, t) \/ Fails(c, t) \/ ColleagueWorks(c, t)

BoardSpec == BoardInit /\ [][BoardNext]_boardVars

BoardTypeOK ==
    /\ tasks \subseteq BoardTasks /\ completed \subseteq tasks /\ newer \subseteq tasks \X tasks
    /\ list.tasks \subseteq BoardTasks /\ list.completed \subseteq list.tasks
    /\ {selected, draft} \subseteq BoardTasks \cup {NoneSelected}
    /\ hidden \subseteq BoardTasks
    /\ {outdated, adrift, unseen} \subseteq BOOLEAN
    /\ \A c \in BoardCalls : call[c].at \in {"new", "sent", "failed", "done"}

---------------------------------------------------------------------------
(* Properties *)

\* A page with nothing under way shows the first tasks of the server, whichever of its deletions
\* failed, and a draft is saved on another task than its own only after the page moved its
\* selection by itself: a click on a task, and the deletion of the selected one, close it.
BoardIsTrue ==
    /\ ~outdated /\ ~unseen /\ (\A c \in BoardCalls : call[c].at \in {"new", "done"}) =>
           list = Answer /\ Visible = TasksListed
    /\ \A c \in BoardCalls : call[c].op = "save" =>
           call[c].on = {call[c].from} \/ call[c].adrift
=============================================================================
