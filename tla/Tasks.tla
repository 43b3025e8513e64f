------------------------------- MODULE Tasks -------------------------------
(***************************************************************************)
(* TasksService: the tasks of one organization and their timelines.        *)
(*                                                                         *)
(* Every operation finds the task among those its user may see, checks     *)
(* what it read, and then writes the task and one event in a transaction   *)
(* that checks nothing again.  Administrators see every task, others the   *)
(* ones they created or are assigned to.  Titles, descriptions and due     *)
(* dates are data: an update that changes one of them changes nothing here *)
(* but the timeline.                                                       *)
(***************************************************************************)
EXTENDS Naturals, Sequences

CONSTANTS
    TaskRequests,       \* requests to /tasks; each creates at most one task
    TaskUsers,          \* the active members of the organization
    TaskAdmins,         \* those with the role ADMIN or OWNER
    Nobody              \* no assignee

ASSUME TasksAssumption == TaskAdmins \subseteq TaskUsers /\ Nobody \notin TaskUsers \cup {"unsent"}

VARIABLES
    task,               \* the tasks, by the request that created them
    taskEvents,         \* their timelines, oldest event first
    taskRequest,        \* progress of each request
    taskOverlap         \* history: the pairs of requests that ran at the same time

taskVars == <<task, taskEvents, taskRequest, taskOverlap>>

TaskStatus == {"PENDING", "IN_PROGRESS", "COMPLETED", "CANCELLED"}
NoTask == [status |-> "NONE", createdBy |-> Nobody, assignee |-> Nobody, deleted |-> FALSE]
TaskIdle == [at |-> "new", on |-> "none", seen |-> "NONE", to |-> "NONE", assignee |-> Nobody]
TaskAt(r, step) == taskRequest[r].at = step

AllowedTransitions ==
    [s \in TaskStatus |->
        IF s \in {"PENDING", "IN_PROGRESS"} THEN TaskStatus \ {s} ELSE {"PENDING", "IN_PROGRESS"}]

Event(r, type, from, to) == [by |-> r, type |-> type, from |-> from, to |-> to]

TasksInit ==
    /\ task = [t \in TaskRequests |-> NoTask]
    /\ taskEvents = [t \in TaskRequests |-> <<>>]
    /\ taskRequest = [r \in TaskRequests |-> TaskIdle]
    /\ taskOverlap = {}

VisibleTo(user, t) == user \in TaskAdmins \cup {task[t].createdBy, task[t].assignee}

Findable(t) == task[t].status # "NONE" /\ ~task[t].deleted

\* findVisibleTaskOrThrow, for some user of the organization.
FindTask(r, t, step, to, assignee) ==
    /\ TaskAt(r, "new")
    /\ Findable(t)
    /\ \E user \in TaskUsers : VisibleTo(user, t)
    /\ taskRequest' = [taskRequest EXCEPT ![r] =
           [at |-> step, on |-> t, seen |-> task[t].status, to |-> to, assignee |-> assignee]]
    /\ taskOverlap' = taskOverlap \cup
           {{r, q} : q \in {s \in TaskRequests : taskRequest[s].at \notin {"new", "done"}}}
    /\ UNCHANGED <<task, taskEvents>>

\* The transaction: the task becomes `row`, and its timeline grows by one event.
WriteTask(r, t, row, event) ==
    /\ task' = [task EXCEPT ![t] = row]
    /\ taskEvents' = [taskEvents EXCEPT ![t] = Append(taskEvents[t], event)]
    /\ taskRequest' = [taskRequest EXCEPT ![r] = [TaskIdle EXCEPT !.at = "done"]]
    /\ UNCHANGED taskOverlap

---------------------------------------------------------------------------
(* POST /tasks *)
TaskCreate(r) ==
    /\ TaskAt(r, "new")
    /\ \E user \in TaskUsers, assignee \in TaskUsers \cup {Nobody} :
         WriteTask(r, r, [status |-> "PENDING", createdBy |-> user, assignee |-> assignee,
                          deleted |-> FALSE],
                   Event(r, "CREATED", "NONE", "PENDING"))

(* PATCH /tasks/:id; an assignee that is sent must be an active member when it is read *)
TaskUpdateRead(r) ==
    \E t \in TaskRequests, assignee \in TaskUsers \cup {Nobody, "unsent"} :
        FindTask(r, t, "update", "NONE", assignee)

UpdatedEvent(r, t) == Event(r, "UPDATED", task[t].status, task[t].status)

TaskUpdateWrite(r) ==
    /\ TaskAt(r, "update")
    /\ LET t == taskRequest[r].on
           sent == taskRequest[r].assignee
       IN WriteTask(r, t, [task[t] EXCEPT !.assignee = IF sent = "unsent" THEN task[t].assignee
                                                       ELSE sent],
                    UpdatedEvent(r, t))

(* PATCH /tasks/:id/status *)
TaskStatusRead(r) ==
    \E t \in TaskRequests : Findable(t) /\ \E to \in AllowedTransitions[task[t].status] :
        FindTask(r, t, "status", to, Nobody)

\* Mutant: the status is written unless somebody removed the task meanwhile, the event always.
StatusOfLive(r, t) == IF task[t].deleted THEN task[t].status ELSE taskRequest[r].to
StatusWritten(r, t) == taskRequest[r].to

TaskStatusWrite(r) ==
    /\ TaskAt(r, "status")
    /\ LET t == taskRequest[r].on
       IN WriteTask(r, t, [task[t] EXCEPT !.status = StatusWritten(r, t)],
                    Event(r, "STATUS_CHANGED", taskRequest[r].seen, taskRequest[r].to))

(* DELETE /tasks/:id *)
TaskRemoveRead(r) == \E t \in TaskRequests : FindTask(r, t, "remove", "NONE", Nobody)

TaskRemoveWrite(r) ==
    /\ TaskAt(r, "remove")
    /\ LET t == taskRequest[r].on
       IN WriteTask(r, t, [task[t] EXCEPT !.deleted = TRUE],
                    Event(r, "DELETED", taskRequest[r].seen, taskRequest[r].seen))

---------------------------------------------------------------------------
TaskStep(r) == TaskUpdateWrite(r) \/ TaskStatusWrite(r) \/ TaskRemoveWrite(r)

TasksNext ==
    \E r \in TaskRequests :
        \/ TaskCreate(r) \/ TaskUpdateRead(r) \/ TaskStatusRead(r) \/ TaskRemoveRead(r)
        \/ TaskStep(r)

TasksSpec == TasksInit /\ [][TasksNext]_taskVars

---------------------------------------------------------------------------
TaskEvent == [by : TaskRequests, type : {"CREATED", "UPDATED", "STATUS_CHANGED", "DELETED"},
              from : TaskStatus \cup {"NONE"}, to : TaskStatus]

TasksTypeOK ==
    /\ task \in [TaskRequests ->
         [status : TaskStatus \cup {"NONE"}, createdBy : TaskUsers \cup {Nobody},
          assignee : TaskUsers \cup {Nobody}, deleted : BOOLEAN]]
    /\ taskEvents \in [TaskRequests -> Seq(TaskEvent)]
    /\ taskRequest \in [TaskRequests ->
         [at : {"new", "update", "status", "remove", "done"}, on : TaskRequests \cup {"none"},
          seen : TaskStatus \cup {"NONE"}, to : TaskStatus \cup {"NONE"},
          assignee : TaskUsers \cup {Nobody, "unsent"}]]
    /\ taskOverlap \subseteq SUBSET TaskRequests

\* Replaying a timeline ends at the status of its task; a removal does not touch
\* the status, and its event may carry an old one.
Replayed(t) ==
    LET told == {i \in DOMAIN taskEvents[t] : taskEvents[t][i].type # "DELETED"}
    IN \/ told = {} /\ task[t].status = "NONE"
       \/ \E i \in told : task[t].status = taskEvents[t][i].to /\ \A j \in told : j <= i

\* Each event starts at the status the one prior it ended at, makes an allowed
\* transition and follows no removal, unless the two requests overlapped.
Chained(t, i) ==
    LET prior == taskEvents[t][i - 1]
        event == taskEvents[t][i]
    IN \/ {prior.by, event.by} \in taskOverlap
       \/ /\ prior.type # "DELETED"
          /\ event.from = prior.to
          /\ event.type = "STATUS_CHANGED" /\ event.to \in {"COMPLETED", "CANCELLED"} =>
               event.from \in {"PENDING", "IN_PROGRESS"}

\* A timeline tells what happened to its task: it ends at the status of the task,
\* however requests overlapped, and only requests that overlapped leave a gap in
\* it, a forbidden transition or an event after the removal (tasks.service.ts:188-238).
TimelineTellsStatus ==
    \A t \in TaskRequests : Replayed(t) /\ \A i \in 2..Len(taskEvents[t]) : Chained(t, i)
=============================================================================
