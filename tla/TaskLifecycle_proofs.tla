----------------------- MODULE TaskLifecycle_proofs -------------------------
(***************************************************************************)
(* Proofs about TaskLifecycle: the inductive invariant and the theorems    *)
(* that need nothing of the creators of tasks.                             *)
(***************************************************************************)
EXTENDS TaskMoves_proofs

(***************************************************************************)
(* The rows of the tasks and the nodes                                     *)
(***************************************************************************)
\* The node rows and the task rows keep pointing at each other.
LEMMA MoveCurrent ==
    ASSUME TypeOK, CurrentTaskIsRunning, SelectedNodeInv, Move
    PROVE  CurrentTaskIsRunning'
<1>t. task \in [Tasks -> TaskRow] /\ node \in [Nodes -> NodeRow]
    BY DEF TypeOK
<1> SUFFICES ASSUME NEW m \in Nodes
             PROVE  CurrentTaskIsRunning!(m)'
    BY DEF CurrentTaskIsRunning
<1>0. CurrentTaskIsRunning!(m) /\ node[m].current \in Tasks \cup {None}
    BY <1>t DEF CurrentTaskIsRunning, NodeRow
<1>1. ASSUME NEW u \in Tasks, MCreate(u) PROVE CurrentTaskIsRunning!(m)'
    BY <1>0, <1>1 DEF MCreate, RowMove, OnlyTask, RunningStatus, ActiveStatus
<1>2. ASSUME NEW u \in Tasks, NEW n \in Nodes, MStart(u, n) PROVE CurrentTaskIsRunning!(m)'
    <2>1. CASE m = n
        BY <1>2, <2>1, ConstantsAssumption DEF MStart, RowMove, RunningStatus, ActiveStatus, HeldStatus
    <2>2. CASE m # n
        BY <1>0, <1>2, <2>2 DEF MStart, RowMove, OnlyTask, OnlyNode, RunningStatus, ActiveStatus
    <2> QED
        BY <2>1, <2>2
<1>3. ASSUME NEW u \in Tasks, NEW s \in Status, MAdvance(u, s) PROVE CurrentTaskIsRunning!(m)'
    BY <1>0, <1>3 DEF MAdvance, RowMove, OnlyTask, RunningStatus, ActiveStatus
<1>4. ASSUME NEW u \in Tasks, NEW n \in Nodes \cup {None}, OnlyTask(u), Release(u, n)
      PROVE  CurrentTaskIsRunning!(m)'
    <2>1. CASE n = None
        BY <1>0, <1>4, <2>1 DEF Release, OnlyTask
    <2>2. CASE n # None /\ m = n
        BY <1>4, <2>2 DEF Release
    <2>3. CASE n # None /\ m # n
        BY <1>0, <1>4, <2>3 DEF Release, OnlyTask, OnlyNode
    <2> QED
        BY <2>1, <2>2, <2>3
<1>5. ASSUME NEW u \in Tasks, NEW n \in Nodes \cup {None}, NEW reason, NEW pay, NEW final,
             MAbort(u, n, reason) \/ MSuccess(u, n, pay, final)
      PROVE  CurrentTaskIsRunning!(m)'
    BY <1>4, <1>5 DEF MAbort, MSuccess, RowMove
<1>6. ASSUME NEW n \in Nodes, MNode(n) \/ MQuit(n) PROVE CurrentTaskIsRunning!(m)'
    BY <1>0, <1>6 DEF MNode, MQuit, OnlyNode, HeldStatus
<1>7. ASSUME NEW g \in Groups, NEW next \in [Finished(g) -> GroupOutcome], NEW f, NEW kicked,
             MGroup(g, next, f, kicked)
      PROVE  CurrentTaskIsRunning!(m)'
    <2>1. CASE node[m].current \in Ending(g, next)
        BY <1>7, <1>t, <2>1, GroupRows
    <2>2. CASE node[m].current \notin Ending(g, next)
        <3>1. node'[m] = node[m]
            BY <1>7, <1>t, <2>2, GroupRows
        <3>2. ASSUME node[m].current # None
              PROVE  /\ task'[node[m].current].status \in RunningStatus
                     /\ task'[node[m].current].node = m
            <4>1. node[m].current \in Tasks
                BY <1>0, <3>2
            <4>2. CASE node[m].current \in Finished(g)
                BY <1>0, <1>7, <1>t, <2>2, <3>2, <4>1, <4>2, GroupRows
                   DEF Ending, RunningStatus, ActiveStatus
            <4>3. CASE node[m].current \notin Finished(g)
                BY <1>0, <1>7, <1>t, <3>2, <4>1, <4>3, GroupRows
            <4> QED
                BY <4>2, <4>3
        <3> QED
            BY <1>0, <3>1, <3>2
    <2> QED
        BY <2>1, <2>2
<1>8. CASE MRead
    BY <1>0, <1>8 DEF MRead
<1> QED
    BY Zenon, <1>1, <1>2, <1>3, <1>5, <1>6, <1>7, <1>8 DEF Move

\* Every move keeps a selected node on running and invalidated tasks.
LEMMA MoveSelectedNode ==
    ASSUME TypeOK, SelectedNodeInv, Move
    PROVE  SelectedNodeInv'
<1>t. task \in [Tasks -> TaskRow] /\ node \in [Nodes -> NodeRow]
    BY DEF TypeOK
<1> SUFFICES ASSUME NEW t \in Tasks
             PROVE  SelectedNodeInv!(t)'
    BY DEF SelectedNodeInv
<1>0. SelectedNodeInv!(t)
    BY DEF SelectedNodeInv
<1> USE DEF RunningStatus, ActiveStatus
<1>1. ASSUME NEW u \in Tasks, MCreate(u) PROVE SelectedNodeInv!(t)'
    BY <1>0, <1>1 DEF MCreate, RowMove, OnlyTask
<1>2. ASSUME NEW u \in Tasks, NEW n \in Nodes, MStart(u, n) PROVE SelectedNodeInv!(t)'
    BY <1>0, <1>2 DEF MStart, RowMove, OnlyTask
<1>3. ASSUME NEW u \in Tasks, NEW s \in Status, MAdvance(u, s) PROVE SelectedNodeInv!(t)'
    BY <1>0, <1>3 DEF MAdvance, RowMove, OnlyTask
<1>4. ASSUME NEW u \in Tasks, NEW n, NEW reason, MAbort(u, n, reason)
      PROVE  SelectedNodeInv!(t)'
    BY <1>0, <1>4 DEF MAbort, RowMove, OnlyTask, NoNewPending
<1>5. ASSUME NEW u \in Tasks, NEW n, NEW pay, NEW final, MSuccess(u, n, pay, final)
      PROVE  SelectedNodeInv!(t)'
    BY <1>0, <1>5 DEF MSuccess, RowMove, OnlyTask
<1>6. ASSUME NEW n \in Nodes, MNode(n) \/ MQuit(n) PROVE SelectedNodeInv!(t)'
    BY <1>0, <1>6 DEF MNode, MQuit, NoNewPending
<1>7. ASSUME NEW g \in Groups, NEW next \in [Finished(g) -> GroupOutcome], NEW f, NEW kicked,
             MGroup(g, next, f, kicked)
      PROVE  SelectedNodeInv!(t)'
    <2>1. pending'[t] = IF t \in Invalidated(g, next) /\ PassiveSlashMode THEN "pending" ELSE pending[t]
        BY <1>7 DEF MGroup, ApplyGroup
    <2>2. CASE t \in Finished(g)
        BY <1>0, <1>7, <1>t, <2>1, <2>2, GroupRows DEF Invalidated, GroupOutcome
    <2>3. CASE t \notin Finished(g)
        BY <1>0, <1>7, <1>t, <2>1, <2>3, GroupRows DEF Invalidated
    <2> QED
        BY <2>2, <2>3
<1>8. CASE MRead
    BY <1>0, <1>8 DEF MRead
<1> QED
    BY <1>1, <1>2, <1>3, <1>4, <1>5, <1>6, <1>7, <1>8 DEF Move

(***************************************************************************)
(* What a handler holds in memory                                          *)
(***************************************************************************)
\* A request that does not move itself stays consistent with the rows.
LEMMA StalePreserved ==
    ASSUME NEW p \in Procs, req[p] \in Request, StaleRequest(req[p]), req'[p] = req[p], RowsMonotone
    PROVE  StaleRequest(req[p])'
<1> DEFINE r == req[p]
<1>1. CASE r.op \in TaskOps
    <2>1. r.task \in Tasks
        BY <1>1 DEF StaleRequest
    <2>2. RowsMonotone!(r.task)
        BY SMTT(30), <2>1 DEF RowsMonotone
    <2>3. r.op = "UploadResult" => task'[r.task].status \in {r.status} \cup TerminalStatus
        BY SMTT(30), <2>2 DEF StaleRequest, TerminalStatus
    <2> QED
        BY <1>1, <2>2, <2>3 DEF StaleRequest, TaskOps, NodeOps
<1>2. CASE r.op \notin TaskOps
    BY <1>2 DEF StaleRequest, TaskOps
<1> QED
    BY SMTT(30), <1>1, <1>2

\* A row that has just been read satisfies what StaleRequest says of it.
LEMMA RequestRead ==
    ASSUME Inv, NEW p \in Procs, NEW op \in TaskOps, NEW t \in Tasks, NEW n \in Nodes \cup {None},
           GetTask(p, op, t, n)
    PROVE  StaleRequest(req[p])'
<1>1. /\ req'[p].op = op /\ req'[p].task = t /\ req'[p].node = n
      /\ req'[p].status = task[t].status /\ req'[p].loaded = FALSE
    BY DEF GetTask, Inv, TypeOK, Idle
<1>2. /\ task[t].status \in EntryStatus(op)
      /\ op = "ValidateSingleTask" => t \in SingleRequests
      /\ IF op = "StartTask" THEN n \in Nodes ELSE n = task[t].node
      /\ UNCHANGED <<task, node>>
    BY DEF GetTask
<1>3. /\ task[t].status = "Queued" => task[t].node = None
      /\ task[t].status \in RunningStatus => task[t].node \in Nodes
    BY DEF Inv, SelectedNodeInv
<1>4. /\ op = "StartTask" => task[t].status = "Queued"
      /\ op = "UploadResult" => task[t].status \in {"Validated", "GroupValidated"}
      /\ op \in {"SubmitScore", "ReportTaskError", "UploadResult", "ValidateSingleTask"} =>
            task[t].status \in RunningStatus
      /\ task[t].status \in ActiveStatus
    BY <1>2 DEF EntryStatus, TaskOps, RunningStatus, ActiveStatus
<1> QED
    BY <1>1, <1>2, <1>3, <1>4, ConstantsAssumption
       DEF StaleRequest, TaskOps, NodeOps, RunningStatus, ActiveStatus, TerminalStatus

\* So does a row after checkTaskSelectedNode has read the node.
LEMMA RequestCheck ==
    ASSUME Inv, NEW p \in Procs, checkTaskSelectedNode(p)
    PROVE  StaleRequest(req[p])'
<1> DEFINE r == req[p]
<1>1. r \in Request /\ StaleRequest(r)
    BY DEF Inv, TypeOK, RequestInv
<1>2. /\ r.op \in TaskOps /\ r.status \in RetryStatus(r.op) /\ r.task \in Tasks
      /\ UNCHANGED <<task, node>>
    BY <1>1 DEF checkTaskSelectedNode, StaleRequest
<1>3. ASSUME NEW n, NEW s, req' = [req EXCEPT ![p] = Loaded(r, n, s)]
      PROVE  /\ req'[p].op = r.op /\ req'[p].task = r.task /\ req'[p].node = n
             /\ req'[p].status = r.status /\ req'[p].loaded = TRUE /\ req'[p].nstatus = s
             /\ r.op = "UploadResult" => req'[p].final \in {"EndSuccess", "EndGroupSuccess"}
    <2>1. req'[p] = Loaded(r, n, s)
        BY <1>3 DEF Inv, TypeOK
    <2>2. SuccessStatus(r.task) \in {"EndSuccess", "EndGroupSuccess"}
        BY SMTT(30) DEF SuccessStatus
    <2> QED
        BY <1>1, <2>1, <2>2 DEF Loaded, Request
<1>4. CASE r.node = None /\ req' = [req EXCEPT ![p] = Loaded(r, None, "Quit")]
    <2>1. r.op # "StartTask"
        BY <1>1, <1>4, ConstantsAssumption DEF StaleRequest
    <2>2. /\ req'[p].op = r.op /\ req'[p].task = r.task /\ req'[p].node = r.node
          /\ req'[p].status = r.status
          /\ r.op = "UploadResult" => req'[p].final \in {"EndSuccess", "EndGroupSuccess"}
        BY Zenon, <1>3, <1>4
    <2> QED
        BY <1>1, <1>2, <1>4, <2>1, <2>2 DEF StaleRequest
<1>5. CASE r.op = "StartTask" /\ req' = [req EXCEPT ![p] = Loaded(r, r.node, "Available")]
    <2>1. /\ req'[p].op = r.op /\ req'[p].task = r.task /\ req'[p].node = r.node
          /\ req'[p].status = r.status /\ req'[p].nstatus = "Available"
        BY Zenon, <1>3, <1>5
    <2> QED
        BY <1>1, <1>2, <1>5, <2>1 DEF StaleRequest, NodeOps
<1>6. CASE /\ r.op # "StartTask" /\ r.node # None /\ node[r.node].current = r.task
           /\ req' = [req EXCEPT ![p] = Loaded(r, r.node, node[r.node].status)]
    <2>1. r.node \in Nodes
        BY <1>1, <1>6 DEF Request
    <2>2. task[r.task].status \in RunningStatus
        BY <1>2, <1>6, <2>1, ConstantsAssumption DEF Inv, CurrentTaskIsRunning
    <2>3. r.status \notin TerminalStatus
        BY SMTT(30), <1>1, <1>2, <2>2 DEF StaleRequest, TerminalStatus, RunningStatus, ActiveStatus
    <2>4. r.status \notin {"Absent", "Queued"}
        BY <1>1, <1>2, <1>6 DEF StaleRequest
    <2>5. r.status \in RunningStatus
        BY SMTT(30), <1>1, <2>3, <2>4 DEF Request, Status, RunningStatus
    <2> QED
        BY ZenonT(60), <1>1, <1>2, <1>3, <1>6, <2>5 DEF StaleRequest, NodeOps
<1>7. CASE /\ r.op = "ValidateSingleTask" /\ r.node # None /\ node[r.node].current # r.task
           /\ req' = [req EXCEPT ![p] = Loaded(r, None, "Quit")]
    <2>1. r.node = task[r.task].node
        BY <1>1, <1>2, <1>7 DEF StaleRequest
    <2>2. task[r.task].status \notin {"Absent", "Queued"}
        BY <1>2, <1>7, <2>1 DEF Inv, SelectedNodeInv
    <2>3. \A m \in Nodes : node[m].current # r.task
        BY <1>2, <1>7, <2>1, ConstantsAssumption DEF Inv, CurrentTaskIsRunning
    <2>4. /\ req'[p].op = r.op /\ req'[p].task = r.task /\ req'[p].node = None
          /\ req'[p].status = r.status
        BY ZenonT(60), <1>3, <1>7
    <2> QED
        BY SMTT(30), <1>1, <1>2, <1>7, <2>2, <2>3, <2>4 DEF StaleRequest, NodeOps
<1> QED
    BY <1>4, <1>5, <1>6, <1>7 DEF checkTaskSelectedNode

\* So does a row whose status a retry has reloaded.
LEMMA RequestReload ==
    ASSUME Inv, NEW p \in Procs, StatusChanged(p)
    PROVE  StaleRequest(req[p])'
<1> DEFINE r == req[p]
           n == IF r.op = "Timeout" THEN task[r.task].node ELSE r.node
<1>1. r \in Request /\ StaleRequest(r)
    BY DEF Inv, TypeOK, RequestInv
<1>2. /\ r.op \in TaskOps \ {"StartTask", "ModelNotAllowed"} /\ r.task \in Tasks
      /\ UNCHANGED <<task, node>>
    BY <1>1 DEF StatusChanged, StaleRequest
<1>3. /\ req'[p].op = r.op /\ req'[p].task = r.task /\ req'[p].status = task[r.task].status
      /\ req'[p].node = n /\ req'[p].loaded = FALSE
    BY DEF StatusChanged, Inv, TypeOK, Idle
<1>4. SelectedNodeInv!(r.task)
    BY <1>2 DEF Inv, SelectedNodeInv
<1>5. n # None => n = task[r.task].node
    BY <1>1, <1>2 DEF StaleRequest
<1>6. r.op = "Timeout" /\ n = None => task[r.task].status \notin RunningStatus
    BY <1>4, ConstantsAssumption
<1>7. r.op # "Timeout" => n = r.node
    OBVIOUS
<1> HIDE DEF n
<1>8. r.op = "UploadResult" =>
          task[r.task].status \in {"Validated", "GroupValidated"} \cup TerminalStatus
    BY <1>1 DEF StaleRequest
<1> QED
    BY <1>1, <1>2, <1>3, <1>4, <1>5, <1>6, <1>7, <1>8 DEF StaleRequest, NodeOps, TaskOps

\* The rows in memory keep satisfying StaleRequest while other handlers run.
LEMMA RequestNext ==
    ASSUME Inv, [Next]_vars
    PROVE  RequestInv'
<1> SUFFICES ASSUME NEW q \in Procs
             PROVE  StaleRequest(req[q])'
    BY DEF RequestInv
<1>r. req \in [Procs -> Request]
    BY DEF Inv, TypeOK
<1>1. RowsMonotone
    BY MoveNext, MoveMonotone DEF Inv
<1>2. ASSUME req'[q] = req[q] PROVE StaleRequest(req[q])'
    BY <1>1, <1>2, <1>r, StalePreserved DEF Inv, RequestInv
<1>3. ASSUME req'[q] = Idle PROVE StaleRequest(req[q])'
    BY <1>3 DEF StaleRequest, Idle, TaskOps, NodeOps
<1>4. ASSUME NEW p \in Procs, Return(p) PROVE StaleRequest(req[q])'
    BY SMTT(30), <1>2, <1>3, <1>4, <1>r DEF Return
<1>5. ASSUME NEW p \in Procs, NEW op \in TaskOps, NEW t \in Tasks, NEW n \in Nodes \cup {None},
             GetTask(p, op, t, n)
      PROVE  StaleRequest(req[q])'
    BY Zenon, <1>2, <1>5, <1>r, RequestRead DEF GetTask
<1>6. ASSUME NEW p \in Procs, checkTaskSelectedNode(p) PROVE StaleRequest(req[q])'
    <2>1. q # p => req'[q] = req[q]
        BY <1>6, <1>r DEF checkTaskSelectedNode
    <2> QED
        BY <1>2, <1>6, <2>1, RequestCheck
<1>7. ASSUME NEW p \in Procs, StatusChanged(p) PROVE StaleRequest(req[q])'
    <2>1. q # p => req'[q] = req[q]
        BY <1>7, <1>r DEF StatusChanged
    <2> QED
        BY <1>2, <1>7, <2>1, RequestReload
<1>8. ASSUME NEW p \in Procs, NEW op \in NodeOps, NEW n \in Nodes, GetNode(p, op, n)
      PROVE  StaleRequest(req[q])'
    <2>1. CASE q # p
        BY <1>2, <1>8, <1>r, <2>1 DEF GetNode
    <2>2. CASE q = p
        <3>1. req'[p].op = op /\ req'[p].node = n /\ op \in Ops
            BY <1>8, <1>r DEF GetNode, Idle
        <3> QED
            BY <2>2, <3>1 DEF StaleRequest, TaskOps, NodeOps
    <2> QED
        BY <2>1, <2>2
<1>9. ASSUME NEW p \in Procs, NodeStatusChanged(p) PROVE StaleRequest(req[q])'
    <2>1. CASE q # p
        BY <1>2, <1>9, <1>r, <2>1 DEF NodeStatusChanged
    <2>2. CASE q = p
        <3>1. req'[p].op = req[p].op /\ req'[p].node = req[p].node /\ req[p].op \in NodeOps
            BY SMTT(30), <1>9, <1>r DEF NodeStatusChanged, Request
        <3>2. req[p].node \in Nodes /\ req[p].op \in Ops
            BY <3>1 DEF Inv, RequestInv, StaleRequest
        <3> QED
            BY <2>2, <3>1, <3>2 DEF StaleRequest, TaskOps, NodeOps
    <2> QED
        BY <2>1, <2>2
<1>10. CASE UNCHANGED req
    BY <1>2, <1>10
<1>11. ASSUME NEW t \in Tasks, CreateTask(t) \/ SlashPendingNode(t) PROVE UNCHANGED req
    BY SMTT(30), <1>11 DEF CreateTask, SlashPendingNode
<1>12. ASSUME NEW g \in Groups, ValidateTaskGroup(g) PROVE UNCHANGED req
    BY <1>12 DEF ValidateTaskGroup, ApplyGroup
<1>13. ASSUME NEW n \in Nodes, SetNodeStatusJoin(n) PROVE UNCHANGED req
    BY <1>13 DEF SetNodeStatusJoin
<1>14. ASSUME NEW p \in Procs,
              \/ SetTaskStatusStarted(p) \/ SetTaskStatusScoreReady(p)
              \/ SetTaskStatusErrorReported(p) \/ SetTaskStatusValidated(p)
              \/ SetTaskStatusEndAborted(p) \/ SetTaskStatusEndSuccess(p)
              \/ GiveUp(p) \/ UpdateNodeStatus(p) \/ SlashNode(p)
       PROVE  Return(p)
    BY <1>14 DEF SetTaskStatusStarted, SetTaskStatusScoreReady, SetTaskStatusErrorReported,
                 SetTaskStatusValidated, SetTaskStatusEndAborted, SetTaskStatusEndSuccess,
                 GiveUp, UpdateNodeStatus, SlashNode
<1>15. CASE UNCHANGED vars
    BY <1>10, <1>15 DEF vars
<1> QED
    BY <1>4, <1>5, <1>6, <1>7, <1>8, <1>9, <1>10, <1>11, <1>12, <1>13, <1>14, <1>15 DEF Next

(***************************************************************************)
(* The theorems that hold whatever the creators do                         *)
(***************************************************************************)
LEMMA InvInit == Init => Inv
<1> SUFFICES ASSUME Init PROVE Inv
    OBVIOUS
<1>1. \A t \in Tasks : task[t].status = "Absent" /\ task[t].node = None /\ pending[t] = "none"
    BY DEF Init
<1>2. \A n \in Nodes : node[n].status = "Quit" /\ node[n].current = None
    BY DEF Init
<1>3. \A p \in Procs : req[p] = Idle
    BY DEF Init
<1>4. CurrentTaskIsRunning
    BY <1>2 DEF CurrentTaskIsRunning, HeldStatus
<1>5. SelectedNodeInv
    BY SMTT(30), <1>1 DEF SelectedNodeInv, RunningStatus, ActiveStatus
<1>6. RequestInv
    BY <1>3 DEF RequestInv, StaleRequest, Idle, TaskOps, NodeOps
<1> QED
    BY <1>4, <1>5, <1>6, TypeInit DEF Inv

\* The invariant is inductive.
LEMMA InvNext ==
    ASSUME Inv, [Next]_vars
    PROVE  Inv'
<1>1. TypeOK'
    BY TypeNext DEF Inv
<1>2. CurrentTaskIsRunning' /\ SelectedNodeInv'
    BY MoveNext, MoveCurrent, MoveSelectedNode DEF Inv
<1>3. RequestInv'
    BY RequestNext
<1> QED
    BY <1>1, <1>2, <1>3 DEF Inv

\* The inductive invariant holds: every row a handler acts on, however stale, is
\* as StaleRequest says.
THEOREM Invariance == Spec => []Inv
<1>1. Init => Inv
    BY InvInit
<1>2. Inv /\ [Next]_vars => Inv'
    BY InvNext
<1> QED
    BY <1>1, <1>2, PTL DEF Spec

\* Type correctness: no handler writes a value outside the columns' domains.
THEOREM TypeCorrect == Spec => []TypeOK
<1>1. Inv => TypeOK
    BY DEF Inv
<1> QED
    BY <1>1, Invariance, PTL

\* In every reachable state a node's current task is running on that node, for
\* any number of tasks, nodes and handlers, with or without administrators who
\* slash nodes.
THEOREM CurrentTaskCorrect == Spec => []CurrentTaskIsRunning
<1>1. Inv => CurrentTaskIsRunning
    BY DEF Inv
<1> QED
    BY <1>1, Invariance, PTL

\* No handler replaces a terminal status, its abort reason or the selected node.
THEOREM TerminalCorrect == Spec => TerminalIsFinal
<1>1. Inv /\ [Next]_vars =>
         [\A t \in Tasks :
             /\ task[t].status \in TerminalStatus =>
                   task'[t].status = task[t].status /\ task'[t].reason = task[t].reason
             /\ task[t].node # None => task'[t].node = task[t].node]_vars
    <2> SUFFICES ASSUME Inv, [Next]_vars, NEW t \in Tasks
                 PROVE  /\ task[t].status \in TerminalStatus =>
                              task'[t].status = task[t].status /\ task'[t].reason = task[t].reason
                        /\ task[t].node # None => task'[t].node = task[t].node
        OBVIOUS
    <2>1. RowsMonotone
        BY SMTT(30), MoveNext, MoveMonotone DEF Inv
    <2> QED
        BY <2>1 DEF RowsMonotone
<1> QED
    BY <1>1, Invariance, PTL DEF Spec, TerminalIsFinal

\* A move that ends a task emits its terminal event, and no other move does.
LEMMA MoveTerminal ==
    ASSUME TypeOK, OneTerminalEvent, Move
    PROVE  OneTerminalEvent'
<1>t. task \in [Tasks -> TaskRow] /\ node \in [Nodes -> NodeRow] /\ ended \in [Tasks -> Nat]
    BY DEF TypeOK
<1> SUFFICES ASSUME NEW t \in Tasks
             PROVE  ended'[t] = IF task'[t].status \in TerminalStatus THEN 1 ELSE 0
    BY DEF OneTerminalEvent
<1>0. ended[t] = IF task[t].status \in TerminalStatus THEN 1 ELSE 0
    BY DEF OneTerminalEvent
<1> DEFINE Goal == ended'[t] = IF task'[t].status \in TerminalStatus THEN 1 ELSE 0
<1>1. ASSUME NEW u \in Tasks, MCreate(u) PROVE Goal
    BY <1>0, <1>1 DEF MCreate, RowMove, OnlyTask, TerminalStatus
<1>2. ASSUME NEW u \in Tasks, NEW n \in Nodes, MStart(u, n) PROVE Goal
    BY <1>0, <1>2 DEF MStart, RowMove, OnlyTask, TerminalStatus
<1>3. ASSUME NEW u \in Tasks, NEW s \in Status, MAdvance(u, s) PROVE Goal
    BY <1>0, <1>3 DEF MAdvance, RowMove, OnlyTask, TerminalStatus
<1>4. ASSUME NEW u \in Tasks, NEW n, NEW reason, MAbort(u, n, reason) PROVE Goal
    <2>1. CASE t = u
        BY <1>0, <1>4, <1>t, <2>1 DEF MAbort, RowMove, EmitTerminal, TerminalStatus, ActiveStatus
    <2>2. CASE t # u
        BY <1>0, <1>4, <1>t, <2>2 DEF MAbort, RowMove, EmitTerminal, OnlyTask
    <2> QED
        BY <2>1, <2>2
<1>5. ASSUME NEW u \in Tasks, NEW n, NEW pay, NEW final, MSuccess(u, n, pay, final) PROVE Goal
    <2>1. CASE t = u
        BY <1>0, <1>5, <1>t, <2>1 DEF MSuccess, RowMove, EmitTerminal, TerminalStatus
    <2>2. CASE t # u
        BY <1>0, <1>5, <1>t, <2>2 DEF MSuccess, RowMove, EmitTerminal, OnlyTask
    <2> QED
        BY <2>1, <2>2
<1>6. ASSUME NEW n \in Nodes, MNode(n) \/ MQuit(n) PROVE Goal
    BY <1>0, <1>6 DEF MNode, MQuit
<1>7. ASSUME NEW g \in Groups, NEW next \in [Finished(g) -> GroupOutcome], NEW f, NEW kicked,
             MGroup(g, next, f, kicked)
      PROVE  Goal
    <2>1. ended'[t] = IF t \in Ending(g, next) THEN ended[t] + 1 ELSE ended[t]
        BY <1>7 DEF MGroup, ApplyGroup
    <2>2. CASE t \in Finished(g)
        BY SMTT(30), <1>0, <1>7, <1>t, <2>1, <2>2, GroupRows DEF Ending, TerminalStatus, GroupOutcome
    <2>3. CASE t \notin Finished(g)
        BY <1>0, <1>7, <1>t, <2>1, <2>3, GroupRows DEF Ending
    <2> QED
        BY <2>2, <2>3
<1>8. CASE MRead
    BY <1>0, <1>8 DEF MRead
<1> QED
    BY <1>1, <1>2, <1>3, <1>4, <1>5, <1>6, <1>7, <1>8 DEF Move

\* Exactly one of the handlers that race to end a task emits its terminal event.
THEOREM TerminalEventCorrect == Spec => []OneTerminalEvent
<1>1. Init => OneTerminalEvent
    BY DEF Init, OneTerminalEvent, TerminalStatus
<1>2. Inv /\ OneTerminalEvent /\ [Next]_vars => OneTerminalEvent'
    BY SMTT(30), MoveNext, MoveTerminal DEF Inv
<1> QED
    BY <1>1, <1>2, Invariance, PTL DEF Spec

(***************************************************************************)
(* A running task is held by its node, unless TriggerNodeSlash is used     *)
(***************************************************************************)
LEMMA MoveHeld ==
    ASSUME TypeOK, CurrentTaskIsRunning, SelectedNodeInv, RunningTaskIsHeld,
           "TriggerNodeSlash" \notin Ops, Move
    PROVE  RunningTaskIsHeld'
<1>t. task \in [Tasks -> TaskRow] /\ node \in [Nodes -> NodeRow]
    BY DEF TypeOK
<1> SUFFICES ASSUME NEW t \in Tasks, task'[t].status \in RunningStatus
             PROVE  task'[t].node # None /\ node'[task'[t].node].current = t
    BY DEF RunningTaskIsHeld
<1>0. task[t].status \in RunningStatus =>
         task[t].node \in Nodes /\ task[t].node # None /\ node[task[t].node].current = t
    BY DEF RunningTaskIsHeld, SelectedNodeInv
<1> DEFINE Goal == task'[t].node # None /\ node'[task'[t].node].current = t
<1>1. ASSUME NEW u \in Tasks, MCreate(u) PROVE Goal
    BY <1>0, <1>1 DEF MCreate, RowMove, OnlyTask, RunningStatus
<1>2. ASSUME NEW u \in Tasks, NEW n \in Nodes, MStart(u, n) PROVE Goal
    <2>1. node[n].current = None
        BY <1>2 DEF MStart, CurrentTaskIsRunning, HeldStatus
    <2> QED
        BY <1>0, <1>2, <2>1, ConstantsAssumption DEF MStart, RowMove, OnlyTask, OnlyNode
<1>3. ASSUME NEW u \in Tasks, NEW s \in Status, MAdvance(u, s) PROVE Goal
    BY <1>0, <1>3 DEF MAdvance, RowMove, OnlyTask, RunningStatus, ActiveStatus
<1>4. ASSUME NEW u \in Tasks, NEW n \in Nodes \cup {None}, t # u, OnlyTask(u), Release(u, n),
             task[u].status \in ActiveStatus
      PROVE  Goal
    <2>1. task'[t] = task[t] /\ task[t].status \in RunningStatus
        BY <1>4 DEF OnlyTask
    <2>2. CASE n = None
        BY <1>0, <1>4, <2>1, <2>2 DEF Release
    <2>3. CASE n # None
        <3>1. n \in Nodes /\ task[u].node = n
            BY <1>4, <2>3
               DEF Release
        <3>2. task[u].status \in RunningStatus
            BY <1>4, <2>3, <3>1 DEF SelectedNodeInv, RunningStatus
        <3>3. node[n].current = u
            BY <3>1, <3>2 DEF RunningTaskIsHeld
        <3>4. task[t].node # n
            BY <1>0, <1>4, <2>1, <3>3
        <3> QED
            BY <1>0, <1>4, <2>1, <2>3, <3>4 DEF Release, OnlyNode
    <2> QED
        BY <2>2, <2>3
<1>5. ASSUME NEW u \in Tasks, NEW n \in Nodes \cup {None}, NEW reason, NEW pay, NEW final,
             MAbort(u, n, reason) \/ MSuccess(u, n, pay, final)
      PROVE  Goal
    <2>1. t # u
        BY <1>5 DEF MAbort, MSuccess, RowMove, RunningStatus, ActiveStatus
    <2>2. OnlyTask(u) /\ Release(u, n) /\ task[u].status \in ActiveStatus
        BY <1>5 DEF MAbort, MSuccess, RowMove, ActiveStatus
    <2> QED
        BY <1>4, <2>1, <2>2
<1>6. ASSUME NEW n \in Nodes, MNode(n) \/ MQuit(n) PROVE Goal
    BY SMTT(30), <1>0, <1>6, ConstantsAssumption DEF MNode, MQuit, OnlyNode
<1>7. ASSUME NEW g \in Groups, NEW next \in [Finished(g) -> GroupOutcome], NEW f, NEW kicked,
             MGroup(g, next, f, kicked)
      PROVE  Goal
    <2>1. task'[t].node = task[t].node
        BY <1>7, <1>t, GroupRows
    <2>2. task[t].status \in RunningStatus
        BY <1>7, <1>t, GroupRows DEF RunningStatus, ActiveStatus
    <2>3. t \notin Ending(g, next)
        BY <1>7, <1>t, GroupRows DEF Ending, GroupOutcome, RunningStatus, ActiveStatus
    <2> QED
        BY SMTT(30), <1>0, <1>7, <1>t, <2>1, <2>2, <2>3, GroupRows
<1>8. CASE MRead
    BY <1>0, <1>8 DEF MRead
<1> QED
    BY Zenon, <1>1, <1>2, <1>3, <1>5, <1>6, <1>7, <1>8 DEF Move

\* Without TriggerNodeSlash every running task is the current task of its node:
\* a node's current task is only ever cleared together with the end of the task.
THEOREM HeldCorrect ==
    "TriggerNodeSlash" \notin Ops /\ Spec => []RunningTaskIsHeld
<1>1. Init => RunningTaskIsHeld
    BY DEF Init, RunningTaskIsHeld, RunningStatus, ActiveStatus
<1>2. "TriggerNodeSlash" \notin Ops /\ Inv /\ RunningTaskIsHeld /\ [Next]_vars => RunningTaskIsHeld'
    BY MoveNext, MoveHeld DEF Inv
<1>3. CASE "TriggerNodeSlash" \notin Ops
    <2>1. Inv /\ RunningTaskIsHeld /\ [Next]_vars => RunningTaskIsHeld'
        BY <1>2, <1>3
    <2> QED
        BY <1>1, <2>1, Invariance, PTL DEF Spec
<1> QED
    BY <1>3

=============================================================================
