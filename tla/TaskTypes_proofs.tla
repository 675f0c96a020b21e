------------------------- MODULE TaskTypes_proofs ---------------------------
(***************************************************************************)
(* Proofs about TaskLifecycle: every step keeps the types of the variables. *)
(***************************************************************************)
EXTENDS TaskLifecycle, TLAPS

(***************************************************************************)
(* Type correctness                                                        *)
(***************************************************************************)
LEMMA IdleType == Idle \in Request
BY DEF Idle, Request, Status, NodeStatus

\* The steps that several transactions share keep the types of the variables
\* they assign.
LEMMA ReturnType ==
    ASSUME req \in [Procs -> Request], NEW p \in Procs, Return(p)
    PROVE  req' \in [Procs -> Request]
BY IdleType DEF Return

\* nodeFinishTask leaves well-formed node rows.
LEMMA FinishType ==
    ASSUME node \in [Nodes -> NodeRow], NEW r \in Request, nodeFinishTask(r)
    PROVE  node' \in [Nodes -> NodeRow]
<1>1. PICK kicked \in BOOLEAN :
         node' = [node EXCEPT ![r.node] = [status |-> FinishStatus(r.nstatus, kicked),
                                           current |-> None]]
    BY Zenon DEF nodeFinishTask
<1>2. FinishStatus(r.nstatus, kicked) \in NodeStatus
    BY DEF FinishStatus, NodeStatus
<1> QED
    BY Zenon, <1>1, <1>2 DEF NodeRow

\* Recording a relay account event keeps the type of the ledger.
LEMMA EventType ==
    ASSUME ledger \in [Tasks -> SUBSET LedgerEvent], NEW kind \in LedgerEvent, NEW ts,
           RecordEvent(kind, ts)
    PROVE  ledger' \in [Tasks -> SUBSET LedgerEvent]
BY DEF RecordEvent

\* Emitting a terminal event keeps the type of the event counters.
LEMMA EmitType ==
    ASSUME ended \in [Tasks -> Nat], NEW t \in Tasks, EmitTerminal(t)
    PROVE  ended' \in [Tasks -> Nat]
BY DEF EmitTerminal

\* slashNodeTx leaves well-formed task, node and event rows.
LEMMA SlashType ==
    ASSUME task \in [Tasks -> TaskRow], node \in [Nodes -> NodeRow],
           ledger \in [Tasks -> SUBSET LedgerEvent], ended \in [Tasks -> Nat],
           NEW n \in Nodes, NEW s, NEW c \in Tasks \cup {None}, slashNodeTx(n, s, c)
    PROVE  /\ task' \in [Tasks -> TaskRow]
           /\ node' \in [Nodes -> NodeRow]
           /\ ledger' \in [Tasks -> SUBSET LedgerEvent]
           /\ ended' \in [Tasks -> Nat]
<1>1. node' \in [Nodes -> NodeRow]
    BY DEF slashNodeTx, NodeRow, NodeStatus
<1>2. CASE c = None \/ task[c].status \in TerminalStatus
    BY <1>1, <1>2 DEF slashNodeTx, abortNodeCurrentTaskForSlash
<1>3. CASE ~(c = None \/ task[c].status \in TerminalStatus)
    <2>1. /\ task' = [task EXCEPT ![c] = [@ EXCEPT !.status = "EndAborted",
                                                  !.reason = "NodeSlashed", !.deadline = FALSE]]
          /\ RecordEvent("Refund", {c})
          /\ EmitTerminal(c)
          /\ c \in Tasks
        BY <1>3 DEF slashNodeTx, abortNodeCurrentTaskForSlash
    <2>2. [task[c] EXCEPT !.status = "EndAborted", !.reason = "NodeSlashed", !.deadline = FALSE]
             \in TaskRow
        BY ZenonT(60), <2>1 DEF TaskRow, Status, TerminalStatus, AbortReason
    <2>3. task' \in [Tasks -> TaskRow]
        BY <2>1, <2>2
    <2> QED
        BY <1>1, <2>1, <2>3, EventType, EmitType DEF LedgerEvent
<1> QED
    BY <1>2, <1>3

(***************************************************************************)
(* What a group validation does: nextStatusMap gives the status            *)
(* GroupValidated to one member at most.                                   *)
(***************************************************************************)
GroupOutcome == {"GroupValidated", "EndGroupRefund", "EndInvalidated", "EndAborted"}

\* The decision of ValidateTaskGroup sends a task to one of four statuses, and
\* only the first of the matching pair to GroupValidated.
LEMMA NextStatusOutcome ==
    ASSUME NEW st, NEW same, NEW i
    PROVE  /\ NextStatus(st, same, i) \in GroupOutcome
           /\ NextStatus(st, same, i) = "GroupValidated" => i = FirstMatch(same)[1]
<1>1. NextStatus(st, same, i) \in GroupOutcome
    BY DEF NextStatus, GroupOutcome
<1>2. ASSUME NextStatus(st, same, i) = "GroupValidated" PROVE i = FirstMatch(same)[1]
    BY <1>2 DEF NextStatus, FirstMatch
<1> QED
    BY <1>1, <1>2

\* What a step of ValidateTaskGroup does, with the decision as a function of the
\* finished tasks: at most one of them goes on to deliver the result.
LEMMA GroupStep ==
    ASSUME NEW g \in Groups, ValidateTaskGroup(g)
    PROVE  \E next \in [Finished(g) -> GroupOutcome] :
              /\ \A t, u \in Finished(g) :
                    next[t] = "GroupValidated" /\ next[u] = "GroupValidated" => t = u
              /\ \A t \in Finished(g) : MemberAccepts(t, next[t])
              /\ \E f, kicked : ApplyGroup(g, f, next, kicked)
<1>1. PICK f \in Orders(Finished(g)), same \in SUBSET Pairs :
          LET st == [i \in DOMAIN f |-> task[f[i]].status]
              rank(t) == CHOOSE i \in DOMAIN f : f[i] = t
              next == [t \in Finished(g) |-> NextStatus(st, same, rank(t))]
          IN  /\ compareTaskScore(st, same)
              /\ \A t \in Finished(g) : MemberAccepts(t, next[t])
              /\ \E kicked \in SUBSET {task[t].node : t \in Finished(g)} :
                    ApplyGroup(g, f, next, kicked)
    BY Zenon DEF ValidateTaskGroup
<1> DEFINE st == [i \in DOMAIN f |-> task[f[i]].status]
           rank(t) == CHOOSE i \in DOMAIN f : f[i] = t
           next == [t \in Finished(g) |-> NextStatus(st, same, rank(t))]
<1>2. /\ \A t \in Finished(g) : MemberAccepts(t, next[t])
      /\ \E kicked : ApplyGroup(g, f, next, kicked)
    BY Zenon, <1>1
<1>3. \A t \in Finished(g) : f[rank(t)] = t
    BY DEF Orders
<1> HIDE DEF st, rank
<1>4. next \in [Finished(g) -> GroupOutcome]
    BY NextStatusOutcome
<1>5. \A t, u \in Finished(g) :
         next[t] = "GroupValidated" /\ next[u] = "GroupValidated" => t = u
    BY <1>3, NextStatusOutcome
<1> HIDE DEF next
<1> QED
    BY <1>2, <1>4, <1>5

\* ValidateTaskGroup keeps all rows well-formed.
LEMMA GroupType ==
    ASSUME TypeOK, NEW g \in Groups, ValidateTaskGroup(g)
    PROVE  TypeOK'
<1>t. task \in [Tasks -> TaskRow]
    BY DEF TypeOK
<1>n. node \in [Nodes -> NodeRow]
    BY DEF TypeOK
<1>0. PICK next \in [Finished(g) -> GroupOutcome] : \E f, kicked : ApplyGroup(g, f, next, kicked)
    BY GroupStep
<1>1. PICK f, kicked : ApplyGroup(g, f, next, kicked)
    BY <1>0
<1>2. GroupAbortReason(f) \in AbortReason
    BY DEF GroupAbortReason, AbortReason
<1>3. ASSUME NEW t \in Tasks PROVE GroupTaskRow(g, next, GroupAbortReason(f), t) \in TaskRow
    <2>1. CASE t \notin g
        BY <1>t, <2>1 DEF GroupTaskRow
    <2>2. CASE t \in g /\ t \notin Finished(g)
        BY Zenon, <1>t, <2>2 DEF GroupTaskRow, TaskRow
    <2>3. CASE t \in g /\ t \in Finished(g)
        <3>1. next[t] \in Status /\ (next[t] = "GroupValidated") \in BOOLEAN
            BY <2>3 DEF GroupOutcome, Status, ActiveStatus, TerminalStatus
        <3>2. (IF next[t] = "EndAborted" THEN GroupAbortReason(f) ELSE task[t].reason)
                 \in AbortReason
            BY <1>t, <1>2 DEF TaskRow
        <3> QED
            BY Zenon, <1>t, <2>3, <3>1, <3>2 DEF GroupTaskRow, TaskRow
    <2> QED
        BY <2>1, <2>2, <2>3
<1>4. ASSUME NEW n \in Nodes PROVE GroupNodeRow(g, next, kicked, n) \in NodeRow
    <2>1. \A s, k : FinishStatus(s, k) \in NodeStatus
        BY DEF FinishStatus, NodeStatus
    <2> QED
        BY Zenon, <1>n, <2>1 DEF GroupNodeRow, NodeRow
<1>5. task' \in [Tasks -> TaskRow] /\ node' \in [Nodes -> NodeRow]
    BY <1>1, <1>3, <1>4 DEF ApplyGroup
<1>6. ledger' \in [Tasks -> SUBSET LedgerEvent]
    BY <1>1, EventType DEF ApplyGroup, TypeOK, LedgerEvent
<1>7. ended' \in [Tasks -> Nat] /\ pending' \in [Tasks -> {"none", "pending", "slashed"}]
    BY <1>1 DEF ApplyGroup, TypeOK
<1> QED
    BY <1>1, <1>5, <1>6, <1>7 DEF ApplyGroup, TypeOK

\* The empty database is well-formed.
LEMMA TypeInit == Init => TypeOK
BY IdleType DEF Init, TypeOK, TaskRow, NodeRow, Status, NodeStatus, AbortReason

\* Every handler step keeps the rows in the database and in memory well-formed.
LEMMA TypeNext ==
    ASSUME TypeOK, RequestInv, SelectedNodeInv, [Next]_vars
    PROVE  TypeOK'
<1>t. task \in [Tasks -> TaskRow]
    BY DEF TypeOK
<1>n. node \in [Nodes -> NodeRow]
    BY DEF TypeOK
<1>l. ledger \in [Tasks -> SUBSET LedgerEvent] /\ ended \in [Tasks -> Nat]
    BY DEF TypeOK
<1>r. req \in [Procs -> Request]
    BY DEF TypeOK
<1>s. ASSUME NEW p \in Procs
      PROVE  /\ req[p] \in Request
             /\ req[p].node \in Nodes \cup {None} /\ req[p].task \in Tasks \cup {None}
             /\ req[p].op \in TaskOps => req[p].task \in Tasks
             /\ req[p].op \in NodeOps => req[p].node \in Nodes
             /\ req[p].nstatus \in NodeStatus /\ req[p].final \in Status
             /\ req[p].current \in Tasks \cup {None}
    <2>1. req[p] \in Request
        BY <1>r
    <2>2. StaleRequest(req[p])
        BY DEF RequestInv
    <2> QED
        BY <2>1, <2>2 DEF Request, StaleRequest
<1>1. ASSUME NEW t \in Tasks, CreateTask(t) PROVE TypeOK'
    <2>1. task' \in [Tasks -> TaskRow]
        BY Zenon, <1>1, <1>t DEF CreateTask, TaskRow, Status, ActiveStatus
    <2>2. ledger' \in [Tasks -> SUBSET LedgerEvent]
        BY <1>1, <1>l DEF CreateTask, LedgerEvent
    <2> QED
        BY <1>1, <2>1, <2>2 DEF CreateTask, TypeOK
<1>2. ASSUME NEW n \in Nodes, SetNodeStatusJoin(n) PROVE TypeOK'
    <2>1. node' \in [Nodes -> NodeRow]
        BY <1>2, <1>n DEF SetNodeStatusJoin, NodeRow, NodeStatus
    <2> QED
        BY <1>2, <2>1 DEF SetNodeStatusJoin, TypeOK
<1>3. ASSUME NEW p \in Procs, NEW op \in TaskOps, NEW t \in Tasks, NEW n \in Nodes \cup {None},
             GetTask(p, op, t, n)
      PROVE  TypeOK'
    <2>1. task[t].status \in Status
        BY <1>t DEF TaskRow
    <2>2. req' \in [Procs -> Request]
        BY Zenon, <1>3, <1>r, <2>1 DEF GetTask, Idle, Request, NodeStatus, Status
    <2> QED
        BY <1>3, <2>2 DEF GetTask, TypeOK
<1>4. ASSUME NEW p \in Procs, checkTaskSelectedNode(p) PROVE TypeOK'
    <2>1. req[p].task \in Tasks
        BY <1>4, <1>s DEF checkTaskSelectedNode
    <2>2. PayableTasks(req[p].task) \subseteq Tasks /\ SuccessStatus(req[p].task) \in Status
        BY <2>1 DEF PayableTasks, SuccessStatus, TaskGroup, SameTaskID, Status, TerminalStatus
    <2>3. \A n \in Nodes : node[n].status \in NodeStatus
        BY <1>n DEF NodeRow
    <2>4. PICK n \in Nodes \cup {None}, s \in NodeStatus :
             req' = [req EXCEPT ![p] = Loaded(req[p], n, s)]
        BY <1>4, <1>s, <2>3 DEF checkTaskSelectedNode, NodeStatus
    <2>5. Loaded(req[p], n, s) \in Request
        BY ZenonT(60), <1>s, <2>2 DEF Loaded, Request, Status
    <2>6. req' \in [Procs -> Request]
        BY <1>r, <2>4, <2>5
    <2> QED
        BY <1>4, <2>6 DEF checkTaskSelectedNode, TypeOK
<1>5. ASSUME NEW p \in Procs, SetTaskStatusStarted(p) PROVE TypeOK'
    <2>1. req[p].task \in Tasks
        BY <1>5, <1>s DEF SetTaskStatusStarted, TaskOps
    <2>2. [task[req[p].task] EXCEPT !.status = "Started", !.node = req[p].node, !.deadline = TRUE]
             \in TaskRow
        BY ZenonT(60), <1>t, <1>s, <2>1 DEF TaskRow, Status, ActiveStatus
    <2>3. task' \in [Tasks -> TaskRow]
        BY Zenon, <1>5, <1>t, <2>2 DEF SetTaskStatusStarted
    <2>4. node' \in [Nodes -> NodeRow]
        BY Zenon, <1>5, <1>n, <2>1 DEF SetTaskStatusStarted, NodeRow, NodeStatus
    <2> QED
        BY <1>5, <1>r, <2>3, <2>4, ReturnType DEF SetTaskStatusStarted, TypeOK
<1>6. ASSUME NEW p \in Procs, SetTaskStatusScoreReady(p) PROVE TypeOK'
    <2>1. req[p].task \in Tasks
        BY <1>6, <1>s DEF SetTaskStatusScoreReady, TaskOps
    <2>2. task' \in [Tasks -> TaskRow]
        BY ZenonT(60), <1>6, <1>t, <2>1 DEF SetTaskStatusScoreReady, TaskRow, Status, ActiveStatus
    <2> QED
        BY <1>6, <1>r, <2>2, ReturnType DEF SetTaskStatusScoreReady, TypeOK
<1>7. ASSUME NEW p \in Procs, SetTaskStatusErrorReported(p) PROVE TypeOK'
    <2>1. req[p].task \in Tasks
        BY <1>7, <1>s DEF SetTaskStatusErrorReported, TaskOps
    <2>2. task' \in [Tasks -> TaskRow]
        BY ZenonT(60), <1>7, <1>t, <2>1 DEF SetTaskStatusErrorReported, TaskRow, Status, ActiveStatus
    <2> QED
        BY <1>7, <1>r, <2>2, ReturnType DEF SetTaskStatusErrorReported, TypeOK
<1>8. ASSUME NEW p \in Procs, SetTaskStatusValidated(p) PROVE TypeOK'
    <2>1. req[p].task \in Tasks
        BY <1>8, <1>s DEF SetTaskStatusValidated, TaskOps
    <2>2. [task[req[p].task] EXCEPT !.status = "Validated", !.revealed = TRUE, !.deadline = TRUE]
             \in TaskRow
        BY ZenonT(60), <1>t, <2>1 DEF TaskRow, Status, ActiveStatus
    <2>3. task' \in [Tasks -> TaskRow]
        BY Zenon, <1>8, <1>t, <2>2 DEF SetTaskStatusValidated
    <2> QED
        BY <1>8, <1>r, <2>3, ReturnType DEF SetTaskStatusValidated, TypeOK
<1>9. ASSUME NEW p \in Procs, SetTaskStatusEndAborted(p) PROVE TypeOK'
    <2> DEFINE r == req[p]
    <2>1. r.task \in Tasks
        BY <1>9, <1>s DEF SetTaskStatusEndAborted, Aborts, TaskOps
    <2>2. AbortReasonOf(r) \in AbortReason
        BY DEF AbortReasonOf, TimeoutReason, AbortReason
    <2>3. PICK v \in BOOLEAN :
             task' = [task EXCEPT ![r.task] =
                        [@ EXCEPT !.status = "EndAborted", !.reason = AbortReasonOf(r),
                                  !.deadline = FALSE, !.revealed = v]]
        <3>1. task[r.task].revealed \in BOOLEAN
            BY SMTT(30), <1>t, <2>1 DEF TaskRow
        <3>2. CASE r.op = "ValidateSingleTask"
            BY ZenonT(60), <1>9, <3>2 DEF SetTaskStatusEndAborted
        <3>3. CASE r.op # "ValidateSingleTask"
            BY Zenon, <1>9, <3>1, <3>3 DEF SetTaskStatusEndAborted
        <3> QED
            BY Zenon, <3>2, <3>3
    <2>4. task' \in [Tasks -> TaskRow]
        <3>1. [task[r.task] EXCEPT !.status = "EndAborted", !.reason = AbortReasonOf(r),
                                   !.deadline = FALSE, !.revealed = v] \in TaskRow
            BY ZenonT(60), <1>t, <2>1, <2>2 DEF TaskRow, Status, TerminalStatus
        <3> QED
            BY Zenon, <1>t, <2>3, <3>1
    <2>5. ledger' \in [Tasks -> SUBSET LedgerEvent] /\ ended' \in [Tasks -> Nat]
        BY <1>9, <1>l, <2>1, EventType, EmitType DEF SetTaskStatusEndAborted, LedgerEvent
    <2>6. node' \in [Nodes -> NodeRow]
        BY <1>9, <1>n, <1>s, FinishType DEF SetTaskStatusEndAborted
    <2> QED
        BY <1>9, <1>r, <2>4, <2>5, <2>6, ReturnType DEF SetTaskStatusEndAborted, TypeOK
<1>10. ASSUME NEW p \in Procs, SetTaskStatusEndSuccess(p) PROVE TypeOK'
    <2>1. req[p].task \in Tasks
        BY <1>10, <1>s DEF SetTaskStatusEndSuccess, TaskOps
    <2>2. task' \in [Tasks -> TaskRow]
        BY ZenonT(60), <1>10, <1>t, <1>s, <2>1 DEF SetTaskStatusEndSuccess, TaskRow
    <2>3. ledger' \in [Tasks -> SUBSET LedgerEvent] /\ ended' \in [Tasks -> Nat]
        BY <1>10, <1>l, <2>1, EventType, EmitType DEF SetTaskStatusEndSuccess, LedgerEvent
    <2>4. node' \in [Nodes -> NodeRow]
        BY <1>10, <1>n, <1>s, FinishType DEF SetTaskStatusEndSuccess
    <2> QED
        BY <1>10, <1>r, <2>2, <2>3, <2>4, ReturnType DEF SetTaskStatusEndSuccess, TypeOK
<1>11. ASSUME NEW p \in Procs, StatusChanged(p) PROVE TypeOK'
    <2>1. req[p].task \in Tasks
        BY <1>11, <1>s DEF StatusChanged
    <2>2. task[req[p].task].status \in Status /\ task[req[p].task].node \in Nodes \cup {None}
        BY <1>t, <2>1 DEF TaskRow
    <2>3. PICK n \in Nodes \cup {None} :
             req' = [req EXCEPT ![p] = [Idle EXCEPT !.op = req[p].op, !.task = req[p].task,
                                  !.status = task[req[p].task].status, !.node = n]]
        BY Zenon, <1>11, <1>s, <2>2 DEF StatusChanged
    <2>4. req' \in [Procs -> Request]
        <3>1. req[p].op \in {"idle"} \cup TaskOps \cup NodeOps
            BY <1>s DEF Request
        <3>2. [Idle EXCEPT !.op = req[p].op, !.task = req[p].task,
                           !.status = task[req[p].task].status, !.node = n] \in Request
            BY Zenon, <2>1, <2>2, <3>1 DEF Idle, Request, NodeStatus, Status
        <3> QED
            BY <1>r, <2>3, <3>2
    <2> QED
        BY <1>11, <2>4 DEF StatusChanged, TypeOK
<1>12. ASSUME NEW p \in Procs, GiveUp(p) PROVE TypeOK'
    BY <1>12, <1>r, ReturnType DEF GiveUp, TypeOK
<1>13. ASSUME NEW p \in Procs, NEW op \in NodeOps, NEW n \in Nodes, GetNode(p, op, n)
       PROVE  TypeOK'
    <2>1. node[n].status \in NodeStatus /\ node[n].current \in Tasks \cup {None}
        BY <1>n DEF NodeRow
    <2>2. req' \in [Procs -> Request]
        BY Zenon, <1>13, <1>r, <2>1 DEF GetNode, Idle, Request, Status
    <2> QED
        BY <1>13, <2>2 DEF GetNode, TypeOK
<1>14. ASSUME NEW p \in Procs, UpdateNodeStatus(p) PROVE TypeOK'
    <2>1. PICK tr \in NodeTransition(req[p].op) :
             node' = [node EXCEPT ![req[p].node] =
                [status |-> tr[2],
                 current |-> IF tr[2] = "Quit" THEN None ELSE node[req[p].node].current]]
        BY Zenon, <1>14 DEF UpdateNodeStatus
    <2>2. tr[2] \in NodeStatus
        BY <2>1 DEF NodeTransition, NodeStatus
    <2>3. node' \in [Nodes -> NodeRow]
        <3>1. req[p].node \in Nodes
            BY <1>14, <1>s DEF UpdateNodeStatus
        <3>2. CASE tr[2] = "Quit"
            BY <1>n, <2>1, <3>1, <3>2 DEF NodeRow, NodeStatus
        <3>3. CASE tr[2] # "Quit"
            BY <1>n, <2>1, <2>2, <3>1, <3>3 DEF NodeRow
        <3> QED
            BY <3>2, <3>3
    <2> QED
        BY <1>14, <1>r, <2>3, ReturnType DEF UpdateNodeStatus, TypeOK
<1>15. ASSUME NEW p \in Procs, NodeStatusChanged(p) PROVE TypeOK'
    <2>1. node[req[p].node].status \in NodeStatus
        BY <1>15, <1>n, <1>s DEF NodeStatusChanged, NodeRow
    <2>2. req' \in [Procs -> Request]
        BY <1>15, <1>r, <2>1 DEF NodeStatusChanged, Request
    <2> QED
        BY <1>15, <2>2 DEF NodeStatusChanged, TypeOK
<1>16. ASSUME NEW p \in Procs, SlashNode(p) PROVE TypeOK'
    <2>1. req[p].node \in Nodes /\ req[p].current \in Tasks \cup {None}
        BY <1>16, <1>s DEF SlashNode, NodeOps
    <2> QED
        BY <1>16, <1>t, <1>n, <1>l, <1>r, <2>1, SlashType, ReturnType DEF SlashNode, TypeOK
<1>17. ASSUME NEW t \in Tasks, SlashPendingNode(t) PROVE TypeOK'
    <2>1. task[t].node \in Nodes
        BY <1>17 DEF SlashPendingNode, SelectedNodeInv
    <2>2. node[task[t].node].current \in Tasks \cup {None}
        BY <1>n, <2>1 DEF NodeRow
    <2>3. pending' \in [Tasks -> {"none", "pending", "slashed"}]
        BY <1>17 DEF SlashPendingNode, TypeOK
    <2> QED
        BY <1>17, <1>t, <1>n, <1>l, <2>1, <2>2, <2>3, SlashType DEF SlashPendingNode, TypeOK
<1>18. CASE UNCHANGED vars
    BY <1>18 DEF TypeOK, vars
<1> QED
    BY <1>1, <1>2, <1>3, <1>4, <1>5, <1>6, <1>7, <1>8, <1>9, <1>10, <1>11, <1>12, <1>13, <1>14,
       <1>15, <1>16, <1>17, <1>18, GroupType DEF Next

=============================================================================
