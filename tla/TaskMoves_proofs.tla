------------------------- MODULE TaskMoves_proofs ---------------------------
(***************************************************************************)
(* Proofs about TaskLifecycle: the few ways in which a step changes the    *)
(* rows of the database, whichever handler takes it, and what they never   *)
(* undo.                                                                   *)
(***************************************************************************)
EXTENDS TaskTypes_proofs

(***************************************************************************)
(* The moves: what a step does to the rows, whichever handler takes it.    *)
(***************************************************************************)
OnlyTask(t) == \A u \in Tasks \ {t} : task'[u] = task[u]
OnlyNode(n) == \A m \in Nodes \ {n} : node'[m] = node[m]
NoNewPending == \A t \in Tasks : pending'[t] = "pending" => pending[t] = "pending"

\* The status of t goes from s to s', its other columns change as the last two
\* arguments say.
RowMove(t, s, n, reason) ==
    /\ task'[t].status = s /\ task'[t].node = n /\ task'[t].reason = reason
    /\ task[t].revealed => task'[t].revealed
    /\ OnlyTask(t)

\* The node n gives up its current task; nothing is released if it is None.
Release(t, n) ==
    IF n = None THEN node' = node /\ \A m \in Nodes : node[m].current # t
    ELSE /\ n \in Nodes /\ task[t].node = n
         /\ node'[n].current = None /\ node'[n].status \notin HeldStatus
         /\ OnlyNode(n)

MCreate(t) ==
    /\ task[t].status = "Absent"
    /\ RowMove(t, "Queued", task[t].node, task[t].reason)
    /\ ledger' = [ledger EXCEPT ![t] = {"Payment"}]
    /\ UNCHANGED <<node, ended, pending>>
MStart(t, n) ==
    /\ task[t].status = "Queued" /\ n \in Nodes /\ node[n].status = "Available"
    /\ RowMove(t, "Started", n, task[t].reason)
    /\ node'[n].status = "Busy" /\ node'[n].current = t /\ OnlyNode(n)
    /\ UNCHANGED <<ledger, ended, pending>>
MAdvance(t, s) ==
    /\ task[t].status \in {"Started", "ScoreReady"}
    /\ s \in {"ScoreReady", "ErrorReported", "Validated"}
    /\ s = "Validated" => t \in SingleRequests
    /\ RowMove(t, s, task[t].node, task[t].reason)
    /\ UNCHANGED <<node, ledger, ended, pending>>
MAbort(t, n, reason) ==
    /\ task[t].status \in ActiveStatus
    /\ RowMove(t, "EndAborted", task[t].node, reason)
    /\ reason = "CreatorValidationTimeout" => task[t].status \in {"ScoreReady", "ErrorReported"}
    /\ Release(t, n)
    /\ RecordEvent(IF reason = "CreatorValidationTimeout" THEN "Income" ELSE "Refund", {t})
    /\ EmitTerminal(t)
    /\ NoNewPending
MSuccess(t, n, pay, final) ==
    /\ task[t].status \in {"Validated", "GroupValidated"}
    /\ final \in {"EndSuccess", "EndGroupSuccess"}
    /\ PaymentInv => pay = PayableTasks(t) /\ final = SuccessStatus(t)
    /\ RowMove(t, final, task[t].node, task[t].reason)
    /\ n \in Nodes /\ Release(t, n)
    /\ RecordEvent("Income", pay)
    /\ EmitTerminal(t)
    /\ UNCHANGED pending
MNode(n) ==
    /\ node'[n].current = node[n].current
    /\ node'[n].status \in HeldStatus <=> node[n].status \in HeldStatus
    /\ OnlyNode(n)
    /\ UNCHANGED <<task, ledger, ended, pending>>
MQuit(n) ==
    /\ node'[n].current = None /\ node'[n].status = "Quit" /\ OnlyNode(n)
    /\ node[n].current = None \/ "TriggerNodeSlash" \in Ops
    /\ NoNewPending
    /\ UNCHANGED <<task, ledger, ended>>
MGroup(g, next, f, kicked) ==
    /\ GroupReady(g)
    /\ \A t, u \in Finished(g) :
          next[t] = "GroupValidated" /\ next[u] = "GroupValidated" => t = u
    /\ \A t \in Finished(g) : MemberAccepts(t, next[t])
    /\ ApplyGroup(g, f, next, kicked)
MRead == UNCHANGED <<task, node, ledger, ended, pending>>

Move ==
    \/ \E t \in Tasks : MCreate(t)
    \/ \E t \in Tasks, n \in Nodes : MStart(t, n)
    \/ \E t \in Tasks, s \in Status : MAdvance(t, s)
    \/ \E t \in Tasks, n \in Nodes \cup {None}, reason \in AbortReason : MAbort(t, n, reason)
    \/ \E t \in Tasks, n \in Nodes, pay \in SUBSET Tasks, final \in Status :
          MSuccess(t, n, pay, final)
    \/ \E n \in Nodes : MNode(n)
    \/ \E n \in Nodes : MQuit(n)
    \/ \E g \in Groups : \E next \in [Finished(g) -> GroupOutcome] : \E f, kicked :
          MGroup(g, next, f, kicked)
    \/ MRead

\* Every handler step is one of the moves.
LEMMA MoveNext ==
    ASSUME Inv, [Next]_vars
    PROVE  Move
<1>t. task \in [Tasks -> TaskRow]
    BY DEF Inv, TypeOK
<1>n. node \in [Nodes -> NodeRow]
    BY DEF Inv, TypeOK
<1>r. req \in [Procs -> Request]
    BY DEF Inv, TypeOK
<1>s. ASSUME NEW p \in Procs PROVE req[p] \in Request /\ StaleRequest(req[p])
    BY <1>r DEF Inv, RequestInv
<1>1. ASSUME NEW t \in Tasks, CreateTask(t) PROVE MCreate(t)
    BY <1>1, <1>t DEF CreateTask, MCreate, RowMove, OnlyTask, TaskRow
<1>2. ASSUME NEW n \in Nodes, SetNodeStatusJoin(n) PROVE MNode(n)
    BY <1>2, <1>n DEF SetNodeStatusJoin, MNode, OnlyNode, NodeRow, HeldStatus
<1>3. ASSUME NEW p \in Procs, SetTaskStatusStarted(p) PROVE MStart(req[p].task, req[p].node)
    <2>1. /\ req[p].task \in Tasks /\ req[p].node \in Nodes
          /\ req[p].status = "Queued" /\ req[p].nstatus = "Available"
        BY <1>3, <1>s DEF StaleRequest, SetTaskStatusStarted, TaskOps
    <2>2. task[req[p].task].status = "Queued" /\ node[req[p].node].status = "Available"
        BY <1>3, <2>1 DEF SetTaskStatusStarted, TaskUnchanged, NodeUnchanged
    <2>3. RowMove(req[p].task, "Started", req[p].node, task[req[p].task].reason)
        BY <1>3, <1>t, <2>1 DEF SetTaskStatusStarted, RowMove, OnlyTask, TaskRow
    <2>4. /\ node'[req[p].node].status = "Busy" /\ node'[req[p].node].current = req[p].task
          /\ OnlyNode(req[p].node)
        BY <1>3, <1>n, <2>1 DEF SetTaskStatusStarted, OnlyNode
    <2> QED
        BY <1>3, <2>1, <2>2, <2>3, <2>4 DEF SetTaskStatusStarted, MStart
<1>4. ASSUME NEW p \in Procs, SetTaskStatusScoreReady(p) PROVE MAdvance(req[p].task, "ScoreReady")
    <2>1. req[p].task \in Tasks /\ req[p].status = "Started"
        BY <1>4, <1>s DEF StaleRequest, SetTaskStatusScoreReady, TaskOps, RetryStatus, EntryStatus
    <2>2. RowMove(req[p].task, "ScoreReady", task[req[p].task].node, task[req[p].task].reason)
        BY <1>4, <1>t, <2>1 DEF SetTaskStatusScoreReady, RowMove, OnlyTask, TaskRow
    <2> QED
        BY <1>4, <2>1, <2>2 DEF SetTaskStatusScoreReady, TaskUnchanged, MAdvance
<1>5. ASSUME NEW p \in Procs, SetTaskStatusErrorReported(p)
      PROVE  MAdvance(req[p].task, "ErrorReported")
    <2>1. req[p].task \in Tasks /\ req[p].status = "Started"
        BY <1>5, <1>s DEF StaleRequest, SetTaskStatusErrorReported, TaskOps, RetryStatus, EntryStatus
    <2>2. RowMove(req[p].task, "ErrorReported", task[req[p].task].node, task[req[p].task].reason)
        BY <1>5, <1>t, <2>1 DEF SetTaskStatusErrorReported, RowMove, OnlyTask, TaskRow
    <2> QED
        BY <1>5, <2>1, <2>2 DEF SetTaskStatusErrorReported, TaskUnchanged, MAdvance
<1>6. ASSUME NEW p \in Procs, SetTaskStatusValidated(p) PROVE MAdvance(req[p].task, "Validated")
    <2>1. req[p].task \in Tasks /\ req[p].status = "ScoreReady" /\ req[p].task \in SingleRequests
        BY <1>6, <1>s DEF StaleRequest, SetTaskStatusValidated, TaskOps
    <2>2. RowMove(req[p].task, "Validated", task[req[p].task].node, task[req[p].task].reason)
        BY <1>6, <1>t, <2>1 DEF SetTaskStatusValidated, RowMove, OnlyTask, TaskRow
    <2> QED
        BY <1>6, <2>1, <2>2 DEF SetTaskStatusValidated, TaskUnchanged, MAdvance
<1>7. ASSUME NEW p \in Procs, UpdateNodeStatus(p) PROVE MNode(req[p].node)
    <2>1. req[p].node \in Nodes
        BY <1>7, <1>s DEF UpdateNodeStatus, StaleRequest
    <2>2. PICK tr \in NodeTransition(req[p].op) :
             /\ tr[1] = req[p].nstatus
             /\ node' = [node EXCEPT ![req[p].node] =
                   [status |-> tr[2],
                    current |-> IF tr[2] = "Quit" THEN None ELSE node[req[p].node].current]]
        BY Zenon, <1>7 DEF UpdateNodeStatus
    <2>3. node[req[p].node].status = tr[1]
        BY <1>7, <2>2 DEF UpdateNodeStatus, NodeUnchanged
    <2>4. /\ tr[1] \in HeldStatus <=> tr[2] \in HeldStatus
          /\ tr[2] = "Quit" => tr[1] \notin HeldStatus
        BY <2>2 DEF NodeTransition, HeldStatus
    <2>5. tr[2] = "Quit" => node[req[p].node].current = None
        BY <2>1, <2>3, <2>4 DEF Inv, CurrentTaskIsRunning
    <2>6. /\ node'[req[p].node].status = tr[2]
          /\ node'[req[p].node].current = node[req[p].node].current
          /\ OnlyNode(req[p].node)
        BY <1>n, <2>1, <2>2, <2>5 DEF OnlyNode
    <2> QED
        BY <1>7, <2>3, <2>4, <2>6 DEF UpdateNodeStatus, MNode
<1>8. ASSUME NEW p \in Procs, SetTaskStatusEndAborted(p)
      PROVE  /\ req[p].task \in Tasks /\ req[p].node \in Nodes \cup {None}
             /\ AbortReasonOf(req[p]) \in AbortReason
             /\ MAbort(req[p].task, req[p].node, AbortReasonOf(req[p]))
    <2> DEFINE r == req[p]
    <2>1. Aborts(r) /\ r.loaded /\ TaskUnchanged(r)
        BY <1>8 DEF SetTaskStatusEndAborted
    <2>2. r.op \in {"AbortTask", "ModelNotAllowed", "Timeout", "ValidateSingleTask"}
        BY <2>1 DEF Aborts
    <2>3. r.task \in Tasks /\ r.node \in Nodes \cup {None}
        BY <1>s, <2>2 DEF StaleRequest, Request, TaskOps
    <2>4. r.status \in RetryStatus(r.op)
        BY <1>s, <2>1, <2>2 DEF StaleRequest, TaskOps
    <2>5. r.status \in ActiveStatus /\ task[r.task].status = r.status
        BY <2>1, <2>2, <2>4 DEF RetryStatus, EntryStatus, ActiveStatus, TaskUnchanged
    <2>6. /\ AbortReasonOf(r) \in AbortReason
          /\ AbortReasonOf(r) = "CreatorValidationTimeout" => r.status \in {"ScoreReady", "ErrorReported"}
        BY DEF AbortReasonOf, TimeoutReason, AbortReason
    <2>7. RowMove(r.task, "EndAborted", task[r.task].node, AbortReasonOf(r))
        <3>1. task' = [task EXCEPT ![r.task] =
                 [@ EXCEPT !.status = "EndAborted", !.reason = AbortReasonOf(r), !.deadline = FALSE,
                           !.revealed = IF r.op = "ValidateSingleTask" THEN TRUE
                                        ELSE task[r.task].revealed]]
            BY <1>8 DEF SetTaskStatusEndAborted
        <3> QED
            BY <1>t, <2>3, <3>1 DEF RowMove, OnlyTask, TaskRow
    <2>8. CASE r.node = None
        <3>1. r.status = "Queued" \/ r.op = "ValidateSingleTask"
            BY <1>s, <2>2, <2>4, <2>5, <2>8
               DEF StaleRequest, RetryStatus, EntryStatus, ActiveStatus, RunningStatus
        <3>2. \A m \in Nodes : node[m].current # r.task
            <4>1. CASE r.status = "Queued"
                BY <2>3, <2>5, <4>1, ConstantsAssumption
                   DEF Inv, CurrentTaskIsRunning, RunningStatus
            <4>2. CASE r.op = "ValidateSingleTask"
                BY <1>s, <2>8, <4>2 DEF StaleRequest
            <4> QED
                BY <3>1, <4>1, <4>2
        <3>3. node' = node
            BY <1>8, <2>8 DEF SetTaskStatusEndAborted
        <3> QED
            BY <1>8, <2>3, <2>5, <2>6, <2>7, <2>8, <3>2, <3>3
               DEF MAbort, Release, SetTaskStatusEndAborted, NoNewPending
    <2>9. CASE r.node # None
        <3>1. r.node \in Nodes /\ task[r.task].node = r.node
            BY <1>s, <2>2, <2>3, <2>9 DEF StaleRequest, TaskOps
        <3>2. nodeFinishTask(r)
            BY <1>8, <2>9 DEF SetTaskStatusEndAborted
        <3>3. Release(r.task, r.node)
            BY SMTT(30), <1>n, <2>9, <3>1, <3>2
               DEF Release, nodeFinishTask, FinishStatus, HeldStatus, OnlyNode
        <3> QED
            BY <1>8, <2>3, <2>5, <2>6, <2>7, <3>3
               DEF MAbort, SetTaskStatusEndAborted, NoNewPending
    <2> QED
        BY <2>8, <2>9
<1>9. ASSUME NEW p \in Procs, SetTaskStatusEndSuccess(p)
      PROVE  /\ req[p].task \in Tasks /\ req[p].node \in Nodes
             /\ req[p].pay \in SUBSET Tasks /\ req[p].final \in Status
             /\ MSuccess(req[p].task, req[p].node, req[p].pay, req[p].final)
    <2> DEFINE r == req[p]
    <2>1. r.op = "UploadResult" /\ r.loaded /\ TaskUnchanged(r)
        BY <1>9 DEF SetTaskStatusEndSuccess
    <2>2. /\ r.task \in Tasks /\ r.node \in Nodes \cup {None}
          /\ r.pay \in SUBSET Tasks /\ r.final \in Status
        BY <1>s, <2>1 DEF StaleRequest, Request, TaskOps
    <2>3. /\ r.node # None /\ r.node = task[r.task].node /\ r.status \in RunningStatus
          /\ r.status \in {"Validated", "GroupValidated"} \cup TerminalStatus
          /\ r.final \in {"EndSuccess", "EndGroupSuccess"}
        BY <1>s, <2>1 DEF StaleRequest, TaskOps
    <2>4. task[r.task].status \in {"Validated", "GroupValidated"}
        BY <2>1, <2>3 DEF TaskUnchanged, RunningStatus, ActiveStatus, TerminalStatus
    <2>5. RowMove(r.task, r.final, task[r.task].node, task[r.task].reason)
        <3>1. task' = [task EXCEPT ![r.task] = [@ EXCEPT !.status = r.final, !.deadline = FALSE]]
            BY <1>9 DEF SetTaskStatusEndSuccess
        <3> QED
            BY <1>t, <2>2, <3>1 DEF RowMove, OnlyTask, TaskRow
    <2>6. nodeFinishTask(r)
        BY <1>9 DEF SetTaskStatusEndSuccess
    <2>7. r.node \in Nodes /\ Release(r.task, r.node)
        BY <1>n, <2>2, <2>3, <2>6 DEF Release, nodeFinishTask, FinishStatus, HeldStatus, OnlyNode
    <2>8. PaymentInv => r.pay = PayableTasks(r.task) /\ r.final = SuccessStatus(r.task)
        BY <2>1, <2>2 DEF PaymentInv, TaskUnchanged
    <2> QED
        BY <1>9, <2>2, <2>3, <2>4, <2>5, <2>7, <2>8 DEF MSuccess, SetTaskStatusEndSuccess
<1>10. ASSUME NEW n \in Nodes, NEW s, NEW c \in Tasks \cup {None}, slashNodeTx(n, s, c), NoNewPending,
              node[n].current = c \/ "TriggerNodeSlash" \in Ops
       PROVE  MQuit(n) \/ (c \in Tasks /\ MAbort(c, n, "NodeSlashed"))
    <2>1. /\ node'[n].current = None /\ node'[n].status = "Quit" /\ OnlyNode(n)
          /\ abortNodeCurrentTaskForSlash(n, c)
        BY <1>10, <1>n DEF slashNodeTx, OnlyNode
    <2>2. CASE c = None
        BY <1>10, <2>1, <2>2 DEF MQuit, abortNodeCurrentTaskForSlash
    <2>3. CASE c # None /\ task[c].status \in TerminalStatus
        <3>1. node[n].current = c => FALSE
            BY <2>3 DEF Inv, CurrentTaskIsRunning, RunningStatus, ActiveStatus, TerminalStatus
        <3> QED
            BY <1>10, <2>1, <2>3, <3>1 DEF MQuit, abortNodeCurrentTaskForSlash
    <2>4. CASE c # None /\ task[c].status \notin TerminalStatus
        <3>1. c \in Tasks /\ task[c].node = n /\ task[c].node # None
            BY <2>1, <2>4, ConstantsAssumption DEF abortNodeCurrentTaskForSlash
        <3>2. task[c].status \in ActiveStatus
            BY <1>t, <2>4, <3>1 DEF Inv, SelectedNodeInv, TaskRow, Status
        <3>3. task' = [task EXCEPT ![c] = [@ EXCEPT !.status = "EndAborted",
                                              !.reason = "NodeSlashed", !.deadline = FALSE]]
            BY <2>1, <2>4 DEF abortNodeCurrentTaskForSlash
        <3>4. RowMove(c, "EndAborted", task[c].node, "NodeSlashed")
            BY <1>t, <3>1, <3>3 DEF RowMove, OnlyTask, TaskRow
        <3>5. Release(c, n)
            BY <2>1, <3>1 DEF Release, HeldStatus
        <3> QED
            BY <1>10, <2>1, <2>4, <3>1, <3>2, <3>4, <3>5 DEF MAbort, abortNodeCurrentTaskForSlash
    <2> QED
        BY <2>2, <2>3, <2>4
<1>11. ASSUME NEW p \in Procs, SlashNode(p) PROVE Move
    <2>1. /\ req[p].node \in Nodes /\ req[p].current \in Tasks \cup {None}
          /\ "TriggerNodeSlash" \in Ops
        BY <1>11, <1>s DEF SlashNode, StaleRequest, Request, NodeOps
    <2>2. slashNodeTx(req[p].node, req[p].nstatus, req[p].current) /\ NoNewPending
        BY <1>11 DEF SlashNode, NoNewPending
    <2>3. \/ MQuit(req[p].node)
          \/ req[p].current \in Tasks /\ MAbort(req[p].current, req[p].node, "NodeSlashed")
        BY <1>10, <2>1, <2>2
    <2> QED
        BY <2>1, <2>3 DEF Move, AbortReason
<1>12. ASSUME NEW t \in Tasks, SlashPendingNode(t) PROVE Move
    <2> DEFINE n == task[t].node
               c == node[n].current
    <2>1. n \in Nodes
        BY <1>12 DEF SlashPendingNode, Inv, SelectedNodeInv
    <2>2. c \in Tasks \cup {None}
        BY <1>n, <2>1 DEF NodeRow
    <2>3. slashNodeTx(n, node[n].status, c)
        BY <1>12 DEF SlashPendingNode
    <2>4. NoNewPending
        BY <1>12 DEF SlashPendingNode, NoNewPending, Inv, TypeOK
    <2> HIDE DEF n
    <2>5. MQuit(n) \/ (c \in Tasks /\ MAbort(c, n, "NodeSlashed"))
        BY <1>10, <2>1, <2>2, <2>3, <2>4
    <2> QED
        BY <2>1, <2>5 DEF Move, AbortReason
<1>13. ASSUME NEW g \in Groups, ValidateTaskGroup(g) PROVE Move
    <2>1. GroupReady(g)
        BY <1>13 DEF ValidateTaskGroup
    <2>2. PICK next \in [Finished(g) -> GroupOutcome] :
              /\ \A t, u \in Finished(g) :
                    next[t] = "GroupValidated" /\ next[u] = "GroupValidated" => t = u
              /\ \A t \in Finished(g) : MemberAccepts(t, next[t])
              /\ \E f, kicked : ApplyGroup(g, f, next, kicked)
        BY <1>13, GroupStep
    <2>3. PICK f, kicked : ApplyGroup(g, f, next, kicked)
        BY <2>2
    <2>4. MGroup(g, next, f, kicked)
        BY SMTT(30), <2>1, <2>2, <2>3 DEF MGroup
    <2> QED
        BY <2>4 DEF Move
<1>14. ASSUME NEW p \in Procs,
              \/ \E op \in TaskOps, t \in Tasks, n \in Nodes \cup {None} : GetTask(p, op, t, n)
              \/ \E op \in NodeOps, n \in Nodes : GetNode(p, op, n)
              \/ checkTaskSelectedNode(p) \/ StatusChanged(p) \/ GiveUp(p) \/ NodeStatusChanged(p)
       PROVE  MRead
    BY Zenon, <1>14 DEF GetTask, GetNode, checkTaskSelectedNode, StatusChanged, GiveUp, NodeStatusChanged,
                 MRead
<1>15. CASE UNCHANGED vars
    BY <1>15 DEF vars, Move, MRead
<1>16. ASSUME NEW p \in Procs,
              \/ SetTaskStatusStarted(p) \/ SetTaskStatusScoreReady(p)
              \/ SetTaskStatusErrorReported(p) \/ SetTaskStatusValidated(p) \/ UpdateNodeStatus(p)
       PROVE  Move
    <2>1. /\ req[p].op \in TaskOps => req[p].task \in Tasks
          /\ req[p].op \in NodeOps \cup {"StartTask"} => req[p].node \in Nodes
        BY SMTT(30), <1>s DEF StaleRequest
    <2>2. CASE SetTaskStatusStarted(p)
        BY ZenonT(60), <1>3, <2>1, <2>2 DEF Move, SetTaskStatusStarted, TaskOps
    <2>3. CASE SetTaskStatusScoreReady(p)
        BY ZenonT(60), <1>4, <2>1, <2>3 DEF Move, SetTaskStatusScoreReady, TaskOps, Status, ActiveStatus
    <2>4. CASE SetTaskStatusErrorReported(p)
        BY ZenonT(60), <1>5, <2>1, <2>4 DEF Move, SetTaskStatusErrorReported, TaskOps, Status, ActiveStatus
    <2>5. CASE SetTaskStatusValidated(p)
        BY ZenonT(60), <1>6, <2>1, <2>5 DEF Move, SetTaskStatusValidated, TaskOps, Status, ActiveStatus
    <2>6. CASE UpdateNodeStatus(p)
        BY Zenon, <1>7, <2>1, <2>6 DEF Move, UpdateNodeStatus
    <2> QED
        BY <1>16, <2>2, <2>3, <2>4, <2>5, <2>6
<1>17. ASSUME NEW p \in Procs, SetTaskStatusEndAborted(p) \/ SetTaskStatusEndSuccess(p) PROVE Move
    BY <1>8, <1>9, <1>17 DEF Move
<1> QED
    BY <1>1, <1>2, <1>11, <1>12, <1>13, <1>14, <1>15, <1>16, <1>17 DEF Next, Move


\* What ValidateTaskGroup does to the rows: the finished members take the status
\* decided for them and the nodes of those that end are free.
LEMMA GroupRows ==
    ASSUME task \in [Tasks -> TaskRow], node \in [Nodes -> NodeRow],
           NEW g \in Groups, NEW next \in [Finished(g) -> GroupOutcome], NEW f, NEW kicked,
           MGroup(g, next, f, kicked)
    PROVE  /\ g \subseteq Tasks
           /\ \A t \in Finished(g) :
                 /\ t \in g /\ task[t].status \in {"ScoreReady", "ErrorReported"}
                 /\ task'[t].status = next[t] /\ next[t] \in GroupOutcome
                 /\ task'[t].reason # "CreatorValidationTimeout"
           /\ \A t \in Tasks \ Finished(g) :
                 task'[t].status = task[t].status /\ task'[t].reason = task[t].reason
           /\ \A t \in Tasks \ g : task'[t] = task[t]
           /\ \A t \in g : task'[t].revealed
           /\ \A t \in Tasks : task'[t].node = task[t].node
           /\ \A n \in Nodes :
                 IF node[n].current \in Ending(g, next)
                 THEN node'[n].current = None /\ node'[n].status \notin HeldStatus
                 ELSE node'[n] = node[n]
<1>1. g \subseteq Tasks
    BY DEF Groups
<1>2. \A t \in g :
          /\ task[t].reason # "CreatorValidationTimeout"
          /\ t \in Finished(g) => task[t].status \in {"ScoreReady", "ErrorReported"}
    BY DEF MGroup, GroupReady, Finished
<1>3. \A t \in Tasks : task'[t] = GroupTaskRow(g, next, GroupAbortReason(f), t)
    BY DEF MGroup, ApplyGroup
<1>4. \A n \in Nodes : node'[n] = GroupNodeRow(g, next, kicked, n)
    BY DEF MGroup, ApplyGroup
<1>5. ASSUME NEW t \in Finished(g)
      PROVE  /\ task'[t].status = next[t] /\ task'[t].node = task[t].node /\ task'[t].revealed
             /\ task'[t].reason # "CreatorValidationTimeout"
    <2>1. t \in g /\ t \in Tasks /\ task[t] \in TaskRow
        BY <1>1 DEF Finished
    <2>2. task'[t] = GroupTaskRow(g, next, GroupAbortReason(f), t)
        BY <1>3, <2>1
    <2>3. task[t].reason # "CreatorValidationTimeout"
          /\ GroupAbortReason(f) # "CreatorValidationTimeout"
        BY <1>2, <2>1 DEF GroupAbortReason
    <2> DEFINE reason == IF next[t] = "EndAborted" THEN GroupAbortReason(f) ELSE task[t].reason
               lives == next[t] = "GroupValidated"
    <2>4. task'[t] = [task[t] EXCEPT !.status = next[t], !.revealed = TRUE, !.deadline = lives,
                                     !.reason = reason]
        BY <2>1, <2>2 DEF GroupTaskRow
    <2>5. reason # "CreatorValidationTimeout"
        BY <2>3
    <2> HIDE DEF reason, lives
    <2> QED
        BY <2>1, <2>4, <2>5 DEF TaskRow
<1>6. ASSUME NEW t \in Tasks \ Finished(g)
      PROVE  /\ task'[t].status = task[t].status /\ task'[t].reason = task[t].reason
             /\ task'[t].node = task[t].node
             /\ IF t \in g THEN task'[t].revealed ELSE task'[t] = task[t]
    <2>1. task[t] \in TaskRow
        OBVIOUS
    <2>2. task'[t] = GroupTaskRow(g, next, GroupAbortReason(f), t)
        BY <1>3
    <2> QED
        BY <2>1, <2>2 DEF GroupTaskRow, TaskRow
<1>7. ASSUME NEW n \in Nodes
      PROVE  IF node[n].current \in Ending(g, next)
             THEN node'[n].current = None /\ node'[n].status \notin HeldStatus
             ELSE node'[n] = node[n]
    <2>1. node'[n] = GroupNodeRow(g, next, kicked, n)
        BY <1>4
    <2> DEFINE quits == \/ n \in kicked
                        \/ node[n].current \in Invalidated(g, next) /\ ~PassiveSlashMode
    <2>2. FinishStatus(node[n].status, quits) \notin HeldStatus
        BY DEF FinishStatus, HeldStatus
    <2>3. node'[n] = IF node[n].current \notin Ending(g, next) THEN node[n]
                     ELSE [status |-> FinishStatus(node[n].status, quits), current |-> None]
        BY <2>1 DEF GroupNodeRow
    <2> HIDE DEF quits
    <2> QED
        BY <2>2, <2>3
<1>8. \A t \in Finished(g) : t \in g /\ next[t] \in GroupOutcome
    BY DEF Finished
<1>9. \A t \in g : task'[t].revealed
    BY <1>1, <1>5, <1>6
<1>10. \A t \in Tasks : task'[t].node = task[t].node
    BY <1>5, <1>6
<1>11. \A t \in Tasks \ g : task'[t] = task[t]
    BY SMTT(30), <1>6, <1>8
<1> QED
    BY <1>1, <1>2, <1>5, <1>6, <1>7, <1>8, <1>9, <1>10, <1>11

(***************************************************************************)
(* The rows never go back: what a handler that read them earlier may rely  *)
(* on.                                                                     *)
(***************************************************************************)
RowsMonotone ==
    \A t \in Tasks :
        /\ task[t].node # None => task'[t].node = task[t].node
        /\ task[t].status \in TerminalStatus =>
              task'[t].status = task[t].status /\ task'[t].reason = task[t].reason
        /\ task[t].status \in {"Validated", "GroupValidated"} =>
              task'[t].status \in {task[t].status} \cup TerminalStatus
        /\ task[t].status \notin {"Absent", "Queued"} => task'[t].status \notin {"Absent", "Queued"}
        /\ task[t].status # "Queued" =>
              \A n \in Nodes : node'[n].current = t => node[n].current = t

\* No move replaces a terminal row or a selected node.
LEMMA MoveMonotone ==
    ASSUME TypeOK, SelectedNodeInv, Move
    PROVE  RowsMonotone
<1>t. task \in [Tasks -> TaskRow] /\ node \in [Nodes -> NodeRow]
    BY DEF TypeOK
<1> SUFFICES ASSUME NEW t \in Tasks
             PROVE  RowsMonotone!(t)
    BY DEF RowsMonotone
<1>1. ASSUME NEW u \in Tasks, MCreate(u) PROVE RowsMonotone!(t)
    BY <1>1 DEF MCreate, RowMove, OnlyTask, TerminalStatus
<1>2. ASSUME NEW u \in Tasks, NEW n \in Nodes, MStart(u, n) PROVE RowsMonotone!(t)
    BY <1>2 DEF MStart, RowMove, OnlyTask, OnlyNode, TerminalStatus, SelectedNodeInv
<1>3. ASSUME NEW u \in Tasks, NEW s \in Status, MAdvance(u, s) PROVE RowsMonotone!(t)
    BY <1>3 DEF MAdvance, RowMove, OnlyTask, TerminalStatus
<1>r. ASSUME NEW u \in Tasks, NEW n \in Nodes \cup {None}, Release(u, n)
      PROVE  \A m \in Nodes : node'[m].current = t => node[m].current = t
    BY <1>r, ConstantsAssumption DEF Release, OnlyNode
<1>4. ASSUME NEW u \in Tasks, NEW n \in Nodes \cup {None}, NEW reason, MAbort(u, n, reason)
      PROVE  RowsMonotone!(t)
    <2>1. \A m \in Nodes : node'[m].current = t => node[m].current = t
        BY <1>4, <1>r DEF MAbort
    <2> QED
        BY <1>4, <2>1 DEF MAbort, RowMove, OnlyTask, TerminalStatus, ActiveStatus
<1>5. ASSUME NEW u \in Tasks, NEW n \in Nodes, NEW pay, NEW final, MSuccess(u, n, pay, final)
      PROVE  RowsMonotone!(t)
    <2>1. \A m \in Nodes : node'[m].current = t => node[m].current = t
        BY <1>5, <1>r DEF MSuccess
    <2> QED
        BY <1>5, <2>1 DEF MSuccess, RowMove, OnlyTask, TerminalStatus
<1>6. ASSUME NEW n \in Nodes, MNode(n) \/ MQuit(n) PROVE RowsMonotone!(t)
    BY <1>6, ConstantsAssumption DEF MNode, MQuit, OnlyNode
<1>7. ASSUME NEW g \in Groups, NEW next \in [Finished(g) -> GroupOutcome], NEW f, NEW kicked,
             MGroup(g, next, f, kicked)
      PROVE  RowsMonotone!(t)
    <2>1. \A n \in Nodes : node'[n].current = t => node[n].current = t
        BY SMTT(30), <1>7, <1>t, GroupRows, ConstantsAssumption
    <2>2. CASE t \in Finished(g)
        BY SMTT(30), <1>7, <1>t, <2>1, <2>2, GroupRows DEF TerminalStatus, GroupOutcome
    <2>3. CASE t \notin Finished(g)
        BY <1>7, <1>t, <2>1, <2>3, GroupRows
    <2> QED
        BY <2>2, <2>3
<1>8. CASE MRead
    BY <1>8 DEF MRead
<1> QED
    BY Zenon, <1>1, <1>2, <1>3, <1>4, <1>5, <1>6, <1>7, <1>8 DEF Move

=============================================================================
