--------------------------- MODULE TaskLifecycle ---------------------------
(***************************************************************************)
(* The life of inference tasks and of the nodes that run them, as the      *)
(* handlers of the relay move them through the database                    *)
(* (src/service/task_status.go, node.go, start_task.go, validate_task.go   *)
(* and the API handlers that call them).                                   *)
(*                                                                         *)
(* A handler reads the task row (GetTask), reads the node row              *)
(* (checkTaskSelectedNode) and then runs one database transaction whose    *)
(* UPDATEs carry the condition "status = <the status it read>".  Each of   *)
(* the three is a step of its own here, so that any other handler may run  *)
(* between them.  The per-node mutex of ExecuteNodeStateUpdate is not      *)
(* modelled: it only removes interleavings, and what is shown here is that *)
(* the conditional updates are enough without it.                          *)
(***************************************************************************)
EXTENDS GroupDecision, FiniteSets

CONSTANTS
    Tasks,             \* task commitments
    Nodes,             \* node addresses
    Workers,           \* goroutines serving API requests, chain events and matching
    Timer,             \* the goroutine of processTaskTimeouts
    None,
    TaskID,            \* the TaskID behind each commitment, secret until validation
    Sampled,           \* tasks whose VRF output selects them for group validation
    Sdft,              \* tasks of type SDFT LoRA, which have a single deadline
    Ops,               \* the requests that are made: all of TaskOps and NodeOps, or some
    SingleRequests,    \* the tasks whose creators ask for validation alone: all, or some
    PassiveSlashMode   \* config.Task.PassiveSlashMode

ASSUME ConstantsAssumption ==
    /\ None \notin Tasks \cup Nodes
    /\ Timer \notin Workers
    /\ Sampled \subseteq Tasks /\ SingleRequests \subseteq Tasks
    /\ PassiveSlashMode \in BOOLEAN

VARIABLES
    task,      \* the inference_tasks rows
    node,      \* the nodes rows
    ledger,    \* the kinds of relay account events recorded for each task
    ended,     \* the number of terminal events emitted for each task
    pending,   \* the pending_slashes rows, by invalidated task
    req        \* what each goroutine holds in memory

vars == <<task, node, ledger, ended, pending, req>>

Procs == Workers \cup {Timer}

NodeStatus == {"Quit", "Available", "Busy", "PendingPause", "PendingQuit", "Paused"}
\* The statuses of a node that holds a current task.
HeldStatus == {"Busy", "PendingPause", "PendingQuit"}
LedgerEvent == {"Payment", "Refund", "Income"}

TaskOps == {"StartTask", "SubmitScore", "ReportTaskError", "AbortTask", "ModelNotAllowed",
            "ValidateSingleTask", "UploadResult", "Timeout"}
NodeOps == {"NodeQuit", "NodePause", "NodeResume", "TriggerNodeSlash"}

TaskRow == [status : Status, node : Nodes \cup {None}, reason : AbortReason,
            revealed : BOOLEAN, deadline : BOOLEAN]
NodeRow == [status : NodeStatus, current : Tasks \cup {None}]
Request == [op : {"idle"} \cup TaskOps \cup NodeOps, task : Tasks \cup {None},
            node : Nodes \cup {None}, status : Status, loaded : BOOLEAN,
            nstatus : NodeStatus, current : Tasks \cup {None},
            pay : SUBSET Tasks, final : Status]

TypeOK ==
    /\ task \in [Tasks -> TaskRow]
    /\ node \in [Nodes -> NodeRow]
    /\ ledger \in [Tasks -> SUBSET LedgerEvent]
    /\ ended \in [Tasks -> Nat]
    /\ pending \in [Tasks -> {"none", "pending", "slashed"}]
    /\ req \in [Procs -> Request]

Idle == [op |-> "idle", task |-> None, node |-> None, status |-> "Absent", loaded |-> FALSE,
         nstatus |-> "Quit", current |-> None, pay |-> {}, final |-> "Absent"]

Init ==
    /\ task = [t \in Tasks |-> [status |-> "Absent", node |-> None, reason |-> "None",
                                revealed |-> FALSE, deadline |-> FALSE]]
    /\ node = [n \in Nodes |-> [status |-> "Quit", current |-> None]]
    /\ ledger = [t \in Tasks |-> {}]
    /\ ended = [t \in Tasks |-> 0]
    /\ pending = [t \in Tasks |-> "none"]
    /\ req = [p \in Procs |-> Idle]

(***************************************************************************)
(* What the handlers accept                                                *)
(***************************************************************************)
\* The statuses in which a handler accepts the task row it has read.
EntryStatus(op) ==
    CASE op \in {"SubmitScore", "ReportTaskError"} -> {"Started"}
      [] op \in {"StartTask", "AbortTask", "ModelNotAllowed"} -> {"Queued"}
      [] op = "ValidateSingleTask" -> {"ScoreReady", "ErrorReported"}
      [] op = "UploadResult" -> {"Validated", "GroupValidated"}
      [] OTHER -> ActiveStatus

\* The statuses it accepts again after a retry has reloaded the status.
\* SetTaskStatusEndSuccess, alone, does not look at the status.
RetryStatus(op) == IF op = "UploadResult" THEN Status ELSE EntryStatus(op)

\* GetTaskDeadline: the reason for which a task in status s expires.
TimeoutReason(t, s) ==
    IF t \in Sdft \/ s \in {"Queued", "Started"} THEN "Timeout"
    ELSE IF s \in {"ScoreReady", "ErrorReported"} THEN "CreatorValidationTimeout"
    ELSE "ResultUploadTimeout"

\* The abort reason a handler sets before it calls SetTaskStatusEndAborted.
AbortReasonOf(r) ==
    CASE r.op = "AbortTask" -> "CreatorCancelled"
      [] r.op = "ModelNotAllowed" -> "ModelNotAllowed"
      [] r.op = "ValidateSingleTask" -> "ErrorReported"
      [] OTHER -> TimeoutReason(r.task, r.status)

Aborts(r) == \/ r.op \in {"AbortTask", "ModelNotAllowed", "Timeout"}
             \/ r.op = "ValidateSingleTask" /\ r.status = "ErrorReported"

\* The transactions that call nodeFinishTask.
UpdatesNode(r) == r.op = "UploadResult" \/ Aborts(r)

\* GetTaskGroupByTaskID: rows whose task_id column holds the TaskID of t.
SameTaskID(t) == {u \in Tasks : TaskID[u] = TaskID[t]}
TaskGroup(t) == {u \in SameTaskID(t) : task[u].revealed}

\* Mutant: the refunded members of a validation group get no share.
PayableTasks_OnlyValidated(t) == {t}

\* The payments SetTaskStatusEndSuccess computes, and the status it will set.
PayableTasks(t) ==
    IF Cardinality(TaskGroup(t)) > 1
    THEN {u \in TaskGroup(t) : task[u].status \in {"GroupValidated", "EndGroupRefund"}}
    ELSE {t}
SuccessStatus(t) ==
    IF Cardinality(TaskGroup(t)) > 1 THEN "EndGroupSuccess" ELSE "EndSuccess"

(***************************************************************************)
(* Steps common to the handlers                                            *)
(***************************************************************************)
\* Mutant: the unused status TaskParametersUploaded is assigned.
CreateTask_ParametersUploaded(t) ==
    /\ task[t].status = "Absent"
    /\ task' = [task EXCEPT ![t].status = "ParametersUploaded"]
    /\ UNCHANGED <<node, ledger, ended, pending, req>>

\* CreateTask: the row and its TaskPayment event are one transaction.
CreateTask(t) ==
    /\ task[t].status = "Absent"
    /\ task' = [task EXCEPT ![t] = [@ EXCEPT !.status = "Queued", !.deadline = TRUE]]
    /\ ledger' = [ledger EXCEPT ![t] = {"Payment"}]
    /\ UNCHANGED <<node, ended, pending, req>>

\* The read of the task row with which a handler starts.  The node of
\* StartTask is the one runMatchingRound paired with the task.
GetTask(p, op, t, n) ==
    /\ req[p].op = "idle"
    /\ op \in TaskOps \cap Ops
    /\ op = "Timeout" <=> p = Timer
    /\ task[t].status \in EntryStatus(op)
    /\ op = "Timeout" => task[t].deadline
    /\ op = "ValidateSingleTask" => t \in SingleRequests \ Sampled
    /\ IF op = "StartTask" THEN n \in Nodes ELSE n = task[t].node
    /\ req' = [req EXCEPT ![p] = [Idle EXCEPT !.op = op, !.task = t, !.node = n,
                                              !.status = task[t].status]]
    /\ UNCHANGED <<task, node, ledger, ended, pending>>

\* checkTaskSelectedNode and, for StartTask, Node.Sync with the checks of
\* nodeStartTask.  A task without selected node has nothing to check; the
\* abort of a reported error goes on without a node that holds another task.
Loaded(r, n, s) ==
    [r EXCEPT !.loaded = TRUE, !.node = n, !.nstatus = s,
              !.pay = IF r.op = "UploadResult" THEN PayableTasks(r.task) ELSE {},
              !.final = IF r.op = "UploadResult" THEN SuccessStatus(r.task) ELSE "Absent"]

checkTaskSelectedNode(p) ==
    LET r == req[p]
        load(n, s) == req' = [req EXCEPT ![p] = Loaded(r, n, s)]
    IN  /\ r.op \in TaskOps /\ ~r.loaded
        /\ r.status \in RetryStatus(r.op)
        /\ \/ r.node = None /\ load(None, "Quit")
           \/ /\ r.op = "StartTask"
              /\ node[r.node] = [status |-> "Available", current |-> None]
              /\ load(r.node, "Available")
           \/ /\ r.op # "StartTask" /\ r.node # None
              /\ node[r.node].current = r.task
              /\ load(r.node, node[r.node].status)
           \/ /\ r.op = "ValidateSingleTask" /\ r.status = "ErrorReported" /\ r.node # None
              /\ node[r.node].current # r.task
              /\ load(None, "Quit")
        /\ UNCHANGED <<task, node, ledger, ended, pending>>

Return(p) == req' = [req EXCEPT ![p] = Idle]

\* Mutants: an update without its condition on the status.
TaskUnchanged_NoCondition(r) == TRUE
NodeUnchanged_NoCondition(r) == TRUE

\* The condition of InferenceTask.Update and of Node.Update.
TaskUnchanged(r) == task[r.task].status = r.status
NodeUnchanged(r) == node[r.node].status = r.nstatus

\* Mutant: a node that asked to quit becomes available again.
FinishStatus_ForgetsQuit(s, kicked) ==
    IF kicked THEN "Quit" ELSE IF s = "PendingPause" THEN "Paused" ELSE "Available"

\* nodeFinishTask, kicked when ShouldPermanentKickout holds.
FinishStatus(s, kicked) ==
    IF kicked \/ s = "PendingQuit" THEN "Quit"
    ELSE IF s = "PendingPause" THEN "Paused" ELSE "Available"

nodeFinishTask(r) ==
    \E kicked \in BOOLEAN :
        node' = [node EXCEPT ![r.node] = [status |-> FinishStatus(r.nstatus, kicked),
                                          current |-> None]]

\* The row of a relay account event has a unique reason, made of its kind
\* and the task: a second insert fails and rolls the transaction back.
RecordEvent(kind, ts) ==
    /\ \A t \in ts : kind \notin ledger[t]
    /\ ledger' = [t \in Tasks |-> IF t \in ts THEN ledger[t] \cup {kind} ELSE ledger[t]]

EmitTerminal(t) == ended' = [ended EXCEPT ![t] = @ + 1]

(***************************************************************************)
(* The transactions                                                        *)
(***************************************************************************)
SetTaskStatusStarted(p) ==
    LET r == req[p] IN
    /\ r.op = "StartTask" /\ r.loaded
    /\ TaskUnchanged(r) /\ NodeUnchanged(r)
    /\ task' = [task EXCEPT ![r.task] = [@ EXCEPT !.status = "Started", !.node = r.node,
                                                  !.deadline = TRUE]]
    /\ node' = [node EXCEPT ![r.node] = [status |-> "Busy", current |-> r.task]]
    /\ Return(p)
    /\ UNCHANGED <<ledger, ended, pending>>

\* Mutant: the deadline of the validation is not set.
SetTaskStatusScoreReady_NoDeadline(p) ==
    LET r == req[p] IN
    /\ r.op = "SubmitScore" /\ r.loaded
    /\ TaskUnchanged(r)
    /\ task' = [task EXCEPT ![r.task] = [@ EXCEPT !.status = "ScoreReady",
                                                  !.deadline = FALSE]]
    /\ Return(p)
    /\ UNCHANGED <<node, ledger, ended, pending>>

SetTaskStatusScoreReady(p) ==
    LET r == req[p] IN
    /\ r.op = "SubmitScore" /\ r.loaded
    /\ TaskUnchanged(r)
    /\ task' = [task EXCEPT ![r.task] = [@ EXCEPT !.status = "ScoreReady",
                                                  !.deadline = TRUE]]
    /\ Return(p)
    /\ UNCHANGED <<node, ledger, ended, pending>>

SetTaskStatusErrorReported(p) ==
    LET r == req[p] IN
    /\ r.op = "ReportTaskError" /\ r.loaded
    /\ TaskUnchanged(r)
    /\ task' = [task EXCEPT ![r.task] = [@ EXCEPT !.status = "ErrorReported",
                                                  !.deadline = TRUE]]
    /\ Return(p)
    /\ UNCHANGED <<node, ledger, ended, pending>>

SetTaskStatusValidated(p) ==
    LET r == req[p] IN
    /\ r.op = "ValidateSingleTask" /\ r.status = "ScoreReady" /\ r.loaded
    /\ TaskUnchanged(r)
    /\ task' = [task EXCEPT ![r.task] = [@ EXCEPT !.status = "Validated",
                                                  !.revealed = TRUE, !.deadline = TRUE]]
    /\ Return(p)
    /\ UNCHANGED <<node, ledger, ended, pending>>

SetTaskStatusEndAborted(p) ==
    LET r == req[p]
        reason == AbortReasonOf(r)
    IN  /\ Aborts(r) /\ r.loaded
        /\ TaskUnchanged(r)
        /\ reason = "CreatorValidationTimeout" => r.node # None
        /\ RecordEvent(IF reason = "CreatorValidationTimeout" THEN "Income" ELSE "Refund",
                       {r.task})
        /\ task' = [task EXCEPT ![r.task] =
               [@ EXCEPT !.status = "EndAborted", !.reason = reason, !.deadline = FALSE,
                         !.revealed = IF r.op = "ValidateSingleTask" THEN TRUE
                                      ELSE task[r.task].revealed]]
        /\ IF r.node = None THEN node' = node ELSE NodeUnchanged(r) /\ nodeFinishTask(r)
        /\ EmitTerminal(r.task)
        /\ Return(p)
        /\ UNCHANGED pending

\* Mutant: the result is accepted whatever became of the task since it was read.
SetTaskStatusEndSuccess_NoCondition(p) ==
    LET r == req[p] IN
    /\ r.op = "UploadResult" /\ r.loaded
    /\ NodeUnchanged(r)
    /\ RecordEvent("Income", r.pay)
    /\ task' = [task EXCEPT ![r.task] = [@ EXCEPT !.status = r.final, !.deadline = FALSE]]
    /\ nodeFinishTask(r)
    /\ EmitTerminal(r.task)
    /\ Return(p)
    /\ UNCHANGED pending

SetTaskStatusEndSuccess(p) ==
    LET r == req[p] IN
    /\ r.op = "UploadResult" /\ r.loaded
    /\ TaskUnchanged(r) /\ NodeUnchanged(r)
    /\ RecordEvent("Income", r.pay)
    /\ task' = [task EXCEPT ![r.task] = [@ EXCEPT !.status = r.final, !.deadline = FALSE]]
    /\ nodeFinishTask(r)
    /\ EmitTerminal(r.task)
    /\ Return(p)
    /\ UNCHANGED pending

\* ErrTaskStatusChanged or ErrNodeStatusChanged: the handler reloads the
\* status (SyncStatus; abortTimedOutTask reloads the row) and tries again.
StatusChanged(p) ==
    LET r == req[p] IN
    /\ r.op \in TaskOps \ {"StartTask", "ModelNotAllowed"} /\ r.loaded
    /\ \/ ~TaskUnchanged(r)
       \/ UpdatesNode(r) /\ r.node # None /\ ~NodeUnchanged(r)
    /\ req' = [req EXCEPT ![p] =
           [Idle EXCEPT !.op = r.op, !.task = r.task, !.status = task[r.task].status,
                        !.node = IF r.op = "Timeout" THEN task[r.task].node ELSE r.node]]
    /\ UNCHANGED <<task, node, ledger, ended, pending>>

\* Any error returned to the caller: a failed check, a failed transaction, the
\* third failed try, a request that went away.
GiveUp(p) ==
    /\ req[p].op # "idle"
    /\ Return(p)
    /\ UNCHANGED <<task, node, ledger, ended, pending>>

(***************************************************************************)
(* ValidateTaskGroup                                                       *)
(*                                                                         *)
(* The transaction locks the three rows (SELECT ... FOR UPDATE) and reads  *)
(* them again, so the decision and its application are one step.  Failure  *)
(* of one member rolls back all three.                                     *)
(***************************************************************************)
Groups == {g \in SUBSET Tasks :
              Cardinality(g) = 3 /\ \A t, u \in g : TaskID[t] = TaskID[u]}

\* Mutant: groupHasCreatorValidationTimeout is not asked again under the lock.
GroupReady_IgnoresExpiry(g) ==
    /\ g \cap Sampled # {}
    /\ \E t \in g : ~task[t].revealed
    /\ \A t \in g : task[t].status \in {"ScoreReady", "ErrorReported", "EndAborted"}

\* refreshValidationGroupTasksForFinalUpdate.  Every task has a sampling seed of its
\* own; the VRF proof is checked on the seed of one member only, the first created,
\* which may be any.
GroupReady(g) ==
    /\ g \cap Sampled # {}
    /\ \E t \in g : ~task[t].revealed
    /\ \A t \in g : /\ task[t].status \in {"ScoreReady", "ErrorReported", "EndAborted"}
                    /\ task[t].reason # "CreatorValidationTimeout"

\* The finished tasks in order of execution time: any order.
Finished(g) == {t \in g : task[t].status # "EndAborted"}
Orders(S) == {f \in [1..Cardinality(S) -> S] : \A t \in S : \E i \in DOMAIN f : f[i] = t}

\* Whether SetTaskStatusGroupValidated, SetTaskStatusEndGroupRefund and
\* SetTaskStatusEndInvalidatedWithEvidence accept the member.
MemberAccepts(t, next) ==
    /\ next \in {"GroupValidated", "EndGroupRefund"} => task[t].status = "ScoreReady"
    /\ next # "EndAborted" => node[task[t].node].current = t

\* The members that end, and among them those whose node is slashed.
Ending(g, next) == {t \in Finished(g) : next[t] # "GroupValidated"}
Invalidated(g, next) == {t \in Finished(g) : next[t] = "EndInvalidated"}

\* The rows of a task and of a node after the validation.
GroupTaskRow(g, next, reason, t) ==
    IF t \notin g THEN task[t]
    ELSE IF t \notin Finished(g) THEN [task[t] EXCEPT !.revealed = TRUE]
    ELSE [task[t] EXCEPT !.status = next[t], !.revealed = TRUE,
                         !.deadline = next[t] = "GroupValidated",
                         !.reason = IF next[t] = "EndAborted" THEN reason ELSE task[t].reason]
GroupNodeRow(g, next, kicked, n) ==
    LET quits == \/ n \in kicked
                 \/ node[n].current \in Invalidated(g, next) /\ ~PassiveSlashMode
    IN  IF node[n].current \notin Ending(g, next) THEN node[n]
        ELSE [status |-> FinishStatus(node[n].status, quits), current |-> None]

ApplyGroup(g, f, next, kicked) ==
    /\ RecordEvent("Refund", Ending(g, next) \ Invalidated(g, next))
    /\ task' = [t \in Tasks |-> GroupTaskRow(g, next, GroupAbortReason(f), t)]
    /\ node' = [n \in Nodes |-> GroupNodeRow(g, next, kicked, n)]
    /\ ended' = [t \in Tasks |-> IF t \in Ending(g, next) THEN ended[t] + 1 ELSE ended[t]]
    /\ pending' = [t \in Tasks |-> IF t \in Invalidated(g, next) /\ PassiveSlashMode
                                   THEN "pending" ELSE pending[t]]
    /\ UNCHANGED req

ValidateTaskGroup(g) ==
    /\ GroupReady(g)
    /\ \E f \in Orders(Finished(g)), same \in SUBSET Pairs :
          LET st == [i \in DOMAIN f |-> task[f[i]].status]
              rank(t) == CHOOSE i \in DOMAIN f : f[i] = t
              next == [t \in Finished(g) |-> NextStatus(st, same, rank(t))]
          IN  /\ compareTaskScore(st, same)
              /\ \A t \in Finished(g) : MemberAccepts(t, next[t])
              /\ \E kicked \in SUBSET {task[t].node : t \in Finished(g)} :
                    ApplyGroup(g, f, next, kicked)

(***************************************************************************)
(* Node operations                                                         *)
(***************************************************************************)
\* SetNodeStatusJoin, which NodeJoin runs under the node's index lock from the
\* read of the row to its save.
SetNodeStatusJoin(n) ==
    /\ node[n].status = "Quit"
    /\ node' = [node EXCEPT ![n].status = "Available"]
    /\ UNCHANGED <<task, ledger, ended, pending, req>>

\* The handlers read the node row before ExecuteNodeStateUpdate takes the lock.
GetNode(p, op, n) ==
    /\ req[p].op = "idle" /\ p # Timer
    /\ op \in NodeOps \cap Ops
    /\ req' = [req EXCEPT ![p] = [Idle EXCEPT !.op = op, !.node = n, !.loaded = TRUE,
                                  !.nstatus = node[n].status, !.current = node[n].current]]
    /\ UNCHANGED <<task, node, ledger, ended, pending>>

\* Mutant: an occupied node quits at once.
NodeTransition_QuitsBusy(op) ==
    CASE op = "NodeQuit"   -> {<<"Available", "Quit">>, <<"Paused", "Quit">>, <<"Busy", "Quit">>}
      [] op = "NodePause"  -> {<<"Available", "Paused">>, <<"Busy", "PendingPause">>}
      [] op = "NodeResume" -> {<<"Paused", "Available">>}
      [] OTHER -> {}

\* NodeQuit and nodeTryUnstaked, NodePause, NodeResume: one conditional update.
NodeTransition(op) ==
    CASE op = "NodeQuit"   -> {<<"Available", "Quit">>, <<"Paused", "Quit">>, <<"Busy", "PendingQuit">>}
      [] op = "NodePause"  -> {<<"Available", "Paused">>, <<"Busy", "PendingPause">>}
      [] op = "NodeResume" -> {<<"Paused", "Available">>}
      [] OTHER -> {}

UpdateNodeStatus(p) ==
    LET r == req[p] IN
    /\ r.op \in NodeOps
    /\ NodeUnchanged(r)
    /\ \E tr \in NodeTransition(r.op) :
          /\ tr[1] = r.nstatus
          /\ node' = [node EXCEPT ![r.node] =
                 [status |-> tr[2],
                  current |-> IF tr[2] = "Quit" THEN None ELSE node[r.node].current]]
    /\ Return(p)
    /\ UNCHANGED <<task, ledger, ended, pending>>

\* ErrNodeStatusChanged: Node.SyncStatus reloads the status alone.
NodeStatusChanged(p) ==
    LET r == req[p] IN
    /\ r.op \in NodeOps \ {"TriggerNodeSlash"}
    /\ ~NodeUnchanged(r)
    /\ req' = [req EXCEPT ![p].nstatus = node[r.node].status]
    /\ UNCHANGED <<task, node, ledger, ended, pending>>

\* Mutants: the slash leaves the current task alone; it refunds nothing; it
\* aborts a task that has ended.
abortNodeCurrentTaskForSlash_Skipped(n, c) == UNCHANGED <<task, ledger, ended>>
abortNodeCurrentTaskForSlash_NoRefund(n, c) ==
    IF c = None
    THEN UNCHANGED <<task, ledger, ended>>
    ELSE /\ task' = [task EXCEPT ![c] = [@ EXCEPT !.status = "EndAborted",
                                                  !.reason = "NodeSlashed",
                                                  !.deadline = FALSE]]
         /\ EmitTerminal(c)
         /\ UNCHANGED ledger
abortNodeCurrentTaskForSlash_EndedToo(n, c) ==
    IF c = None
    THEN UNCHANGED <<task, ledger, ended>>
    ELSE /\ task' = [task EXCEPT ![c] = [@ EXCEPT !.status = "EndAborted",
                                                  !.reason = "NodeSlashed",
                                                  !.deadline = FALSE]]
         /\ RecordEvent("Refund", {c})
         /\ EmitTerminal(c)

\* abortNodeCurrentTaskForSlash: c is the current task in the node row in memory.
abortNodeCurrentTaskForSlash(n, c) ==
    /\ c # None => task[c].node = n
    /\ IF c = None \/ task[c].status \in TerminalStatus
       THEN UNCHANGED <<task, ledger, ended>>
       ELSE /\ task' = [task EXCEPT ![c] = [@ EXCEPT !.status = "EndAborted",
                                                     !.reason = "NodeSlashed",
                                                     !.deadline = FALSE]]
            /\ RecordEvent("Refund", {c})
            /\ EmitTerminal(c)

\* slashNodeTx on the node row in memory.
slashNodeTx(n, status, c) ==
    /\ status # "Quit"
    /\ node[n].status = status
    /\ abortNodeCurrentTaskForSlash(n, c)
    /\ node' = [node EXCEPT ![n] = [status |-> "Quit", current |-> None]]

\* SlashPendingNode reads the node row inside its transaction.
SlashPendingNode(t) ==
    /\ pending[t] = "pending"
    /\ slashNodeTx(task[t].node, node[task[t].node].status, node[task[t].node].current)
    /\ pending' = [pending EXCEPT ![t] = "slashed"]
    /\ UNCHANGED req

\* TriggerNodeSlash without a pending slash: SlashNode on the row that
\* getNodeByAdminAddress read before the lock was taken.
SlashNode(p) ==
    LET r == req[p] IN
    /\ r.op = "TriggerNodeSlash"
    /\ slashNodeTx(r.node, r.nstatus, r.current)
    /\ Return(p)
    /\ UNCHANGED pending

(***************************************************************************)
(* Specifications                                                          *)
(***************************************************************************)
Next ==
    \/ \E t \in Tasks : CreateTask(t) \/ SlashPendingNode(t)
    \/ \E g \in Groups : ValidateTaskGroup(g)
    \/ \E n \in Nodes : SetNodeStatusJoin(n)
    \/ \E p \in Procs :
          \/ \E op \in TaskOps, t \in Tasks, n \in Nodes \cup {None} : GetTask(p, op, t, n)
          \/ checkTaskSelectedNode(p)
          \/ SetTaskStatusStarted(p)
          \/ SetTaskStatusScoreReady(p)
          \/ SetTaskStatusErrorReported(p)
          \/ SetTaskStatusValidated(p)
          \/ SetTaskStatusEndAborted(p)
          \/ SetTaskStatusEndSuccess(p)
          \/ StatusChanged(p)
          \/ GiveUp(p)
          \/ \E op \in NodeOps, n \in Nodes : GetNode(p, op, n)
          \/ UpdateNodeStatus(p)
          \/ NodeStatusChanged(p)
          \/ SlashNode(p)

Spec == Init /\ [][Next]_vars

(***************************************************************************)
(* Liveness assumptions.  Every database call of processTaskTimeouts has a *)
(* timeout, so an attempt to abort a task ends (the first conjunct).  It   *)
(* wakes up every two seconds for ever and its cursor visits every due     *)
(* task, so each task whose deadline is set is tried again and again; an   *)
(* attempt may fail, but not all of them (the others).  Nothing is assumed *)
(* of creators, nodes or matching.                                         *)
(***************************************************************************)
Fairness ==
    /\ WF_vars(\/ checkTaskSelectedNode(Timer) \/ SetTaskStatusEndAborted(Timer)
               \/ StatusChanged(Timer) \/ GiveUp(Timer))
    /\ \A t \in Tasks :
          /\ SF_vars(\E n \in Nodes \cup {None} : GetTask(Timer, "Timeout", t, n))
          /\ SF_vars(req[Timer].task = t /\ checkTaskSelectedNode(Timer))
          /\ SF_vars(req[Timer].task = t /\ SetTaskStatusEndAborted(Timer))

FairSpec == Spec /\ Fairness

(***************************************************************************)
(* Properties                                                              *)
(***************************************************************************)
\* What docs/task_validation_and_slashing.md:55 has the creator do: a TaskID labels
\* one task, or a selected task and the two added to it, whether the seeds of these
\* two would select them or not; and only a task alone is validated alone.  The
\* relay enforces neither: a member whose seed does not select it passes
\* ValidateSingleTask.
CreatorsFollowProtocol ==
    /\ \A t \in SingleRequests : SameTaskID(t) = {t}
    /\ \A g \in Groups : \A t \in g : SameTaskID(t) = g

\* A node's current task is a running task that was assigned to that node, and
\* a node has a current task exactly when its status says it is occupied.
CurrentTaskIsRunning ==
    \A n \in Nodes :
        /\ node[n].status \in HeldStatus <=> node[n].current # None
        /\ node[n].current # None =>
              /\ task[node[n].current].status \in RunningStatus
              /\ task[node[n].current].node = n

\* Every running task is the current task of its selected node: whatever clears
\* a node's current task ends that task in the same transaction, as the comment
\* in SetTaskStatusEndAborted relies on (src/service/task_status.go:617).
RunningTaskIsHeld ==
    \A t \in Tasks :
        task[t].status \in RunningStatus =>
            task[t].node # None /\ node[task[t].node].current = t

\* What the terminal-state ledger contract has recorded for a task in its status.
ResultShared(t) == \E u \in SameTaskID(t) : task[u].status = "EndGroupSuccess"
Settlement(t) ==
    LET s == task[t].status
    IN  CASE s = "Absent" -> {}
          [] s \in ActiveStatus \cup {"EndInvalidated"} -> {"Payment"}
          [] s \in {"EndSuccess", "EndGroupSuccess"} -> {"Payment", "Income"}
          [] s = "EndGroupRefund" ->
               {"Payment", "Refund"} \cup (IF ResultShared(t) THEN {"Income"} ELSE {})
          [] s = "EndAborted" ->
               {"Payment", IF task[t].reason = "CreatorValidationTimeout" THEN "Income" ELSE "Refund"}

\* The relay account events of a task are the ones the terminal-state ledger
\* contract allows for its status, each recorded once: whatever handlers raced,
\* the fee went to one destination (docs/task_fee_charge_and_settlement.md:88).
LedgerContract == \A t \in Tasks : ledger[t] = Settlement(t)

\* Exactly one of the competing paths emits the terminal event of a task
\* (docs/task_timeout.md:119).
OneTerminalEvent ==
    \A t \in Tasks : ended[t] = IF task[t].status \in TerminalStatus THEN 1 ELSE 0

\* A group in which the creator let the validation of one task expire is never
\* validated afterwards, and a validated group never expires that way
\* (ValidateTaskGroup; docs/task_timeout.md:80), as long as its members are not
\* validated alone as well (CreatorsFollowProtocol).
ExpiredGroupStaysUnvalidated ==
    \A t \in Tasks, u \in Tasks :
        /\ TaskID[t] = TaskID[u]
        /\ task[t].status = "EndAborted" /\ task[t].reason = "CreatorValidationTimeout"
        => task[u].status \notin {"GroupValidated", "EndGroupRefund", "EndGroupSuccess",
                                  "EndInvalidated"}

\* A terminal status, its abort reason and the selected node are never replaced:
\* a terminal success never becomes an abort (docs/task_timeout.md:119).
TerminalIsFinal ==
    [][\A t \in Tasks :
          /\ task[t].status \in TerminalStatus =>
                task'[t].status = task[t].status /\ task'[t].reason = task[t].reason
          /\ task[t].node # None => task'[t].node = task[t].node]_vars

\* Every created task reaches a terminal status by the timeout processor alone
\* (processTaskTimeouts), whatever its creator and its node do or fail to do, as
\* long as no node slash takes its node away (RunningTaskIsHeld).
EveryTaskEnds ==
    \A t \in Tasks : task[t].status = "Queued" ~> task[t].status \in TerminalStatus

\* A node that asked to quit while occupied does quit.
PendingQuitEnds ==
    \A n \in Nodes : node[n].status = "PendingQuit" ~> node[n].status = "Quit"

(***************************************************************************)
(* The inductive invariant behind the properties                           *)
(***************************************************************************)
\* A task has a selected node from its start on.
SelectedNodeInv ==
    \A t \in Tasks :
        /\ task[t].status \in {"Absent", "Queued"} => task[t].node = None
        /\ task[t].status \in RunningStatus \cup {"EndInvalidated"} => task[t].node \in Nodes
        /\ pending[t] = "pending" => task[t].status = "EndInvalidated"

\* What remains true of the rows a handler holds in memory while others run.
StaleRequest(r) ==
    /\ r.op \in TaskOps => r.task \in Tasks
    /\ r.op \in TaskOps /\ r.loaded => r.status \in RetryStatus(r.op)
    /\ r.op \in NodeOps => r.node \in Nodes /\ r.op \in Ops
    /\ r.op = "StartTask" =>
          r.node \in Nodes /\ r.status = "Queued" /\ (r.loaded => r.nstatus = "Available")
    /\ r.op \in TaskOps \ {"StartTask"} /\ r.node # None =>
          /\ r.node = task[r.task].node
          /\ r.status \notin {"Absent", "Queued"}
          /\ r.loaded => r.status \in RunningStatus
    /\ r.op \in TaskOps /\ r.status \in TerminalStatus => task[r.task].status = r.status
    /\ r.op \in {"SubmitScore", "ReportTaskError", "UploadResult"} => r.node # None
    /\ r.op = "ValidateSingleTask" => r.task \in SingleRequests
    /\ r.op = "ValidateSingleTask" /\ r.node = None =>
          /\ task[r.task].status \notin {"Absent", "Queued"}
          /\ \A n \in Nodes : node[n].current # r.task
    /\ r.op = "Timeout" /\ r.node = None => r.status \notin RunningStatus
    /\ r.op = "UploadResult" =>
          /\ r.status \in {"Validated", "GroupValidated"} \cup TerminalStatus
          /\ task[r.task].status \in {r.status} \cup TerminalStatus
          /\ r.loaded => r.final \in {"EndSuccess", "EndGroupSuccess"}

RequestInv == \A p \in Procs : StaleRequest(req[p])

Inv ==
    /\ TypeOK
    /\ CurrentTaskIsRunning
    /\ SelectedNodeInv
    /\ RequestInv

\* The members of a validation group are settled together, one of them at most
\* goes on to deliver the result.
GroupInv ==
    \A t \in Tasks :
        LET s == task[t].status IN
        /\ s \in {"Validated", "EndSuccess"} => t \in SingleRequests
        /\ s \in {"GroupValidated", "EndGroupSuccess", "EndGroupRefund", "EndInvalidated"} =>
              /\ SameTaskID(t) \in Groups
              /\ \A u \in SameTaskID(t) :
                    task[u].revealed /\ task[u].status \in TerminalStatus \cup {"GroupValidated"}
        /\ s \in {"GroupValidated", "EndGroupSuccess"} =>
              \A u \in SameTaskID(t) \ {t} :
                    task[u].status \notin {"GroupValidated", "EndGroupSuccess"}

\* The payments computed when the result was read are still the right ones when
\* the transaction commits.
PaymentInv ==
    \A p \in Procs, t \in Tasks :
        LET r == req[p] IN
        r.op = "UploadResult" /\ r.loaded /\ r.task = t /\ task[t].status = r.status =>
            r.pay = PayableTasks(t) /\ r.final = SuccessStatus(t)

=============================================================================
