----------------------- MODULE TaskSettlement_proofs -----------------------
(***************************************************************************)
(* Proofs about the settlement of the fees in TaskLifecycle, for creators  *)
(* who give a TaskID to one task or to the three tasks of one validation   *)
(* group, and ask for the validation of a member only with its group.      *)
(***************************************************************************)
EXTENDS TaskLifecycle_proofs, FiniteSetTheorems

(***************************************************************************)
(* TaskIDs                                                                 *)
(***************************************************************************)
LEMMA SameTaskIDFacts ==
    ASSUME NEW t \in Tasks
    PROVE  /\ t \in SameTaskID(t) /\ SameTaskID(t) \subseteq Tasks
           /\ \A u \in SameTaskID(t) : SameTaskID(u) = SameTaskID(t)
           /\ \A u \in Tasks : u \in SameTaskID(t) <=> TaskID[u] = TaskID[t]
BY DEF SameTaskID

\* When creators follow the protocol, the tasks with the TaskID of a group's
\* member are the members of that group.
LEMMA GroupMembers ==
    ASSUME CreatorsFollowProtocol, NEW g \in Groups
    PROVE  /\ g \subseteq Tasks
           /\ \A t \in g : SameTaskID(t) = g
           /\ \A t \in Tasks \ g : SameTaskID(t) \cap g = {}
<1>1. g \subseteq Tasks /\ \A t \in g : SameTaskID(t) = g
    BY DEF CreatorsFollowProtocol, Groups
<1>2. ASSUME NEW t \in Tasks \ g, NEW u \in SameTaskID(t), u \in g PROVE FALSE
    BY <1>1, <1>2 DEF SameTaskID
<1> QED
    BY <1>1, <1>2

\* What SetTaskStatusEndSuccess computes for a task validated alone and for the
\* validated task of a group.
LEMMA SinglePayment ==
    ASSUME CreatorsFollowProtocol, NEW t \in Tasks, t \in SingleRequests
    PROVE  /\ PayableTasks(t) = {t} /\ SuccessStatus(t) = "EndSuccess"
           /\ PayableTasks(t)' = {t} /\ SuccessStatus(t)' = "EndSuccess"
<1>1. \A S \in SUBSET {t} : ~(Cardinality(S) > 1)
    <2> TAKE S \in SUBSET {t}
    <2>1. S = {} \/ S = {t}
        OBVIOUS
    <2>2. Cardinality(S) = 0 \/ Cardinality(S) = 1
        BY <2>1, FS_EmptySet, FS_Singleton
    <2> QED
        BY <2>2
<1>2. SameTaskID(t) = {t}
    BY DEF CreatorsFollowProtocol
<1>3. TaskGroup(t) \in SUBSET {t} /\ TaskGroup(t)' \in SUBSET {t}
    BY <1>2 DEF TaskGroup, SameTaskID
<1>4. ~(Cardinality(TaskGroup(t)) > 1) /\ ~(Cardinality(TaskGroup(t)') > 1)
    BY <1>1, <1>3
<1> QED
    BY <1>4 DEF PayableTasks, SuccessStatus

\* What SetTaskStatusEndSuccess pays for a validated group: the delivering task
\* and the refunded members.
LEMMA GroupPayment ==
    ASSUME GroupInv, NEW t \in Tasks, task[t].status = "GroupValidated"
    PROVE  /\ PayableTasks(t) = {t} \cup {u \in SameTaskID(t) : task[u].status = "EndGroupRefund"}
           /\ SuccessStatus(t) = "EndGroupSuccess"
<1>1. /\ SameTaskID(t) \in Groups
      /\ \A u \in SameTaskID(t) : task[u].revealed
      /\ \A u \in SameTaskID(t) \ {t} : task[u].status # "GroupValidated"
    BY DEF GroupInv
<1>2. TaskGroup(t) = SameTaskID(t)
    BY <1>1 DEF TaskGroup
<1>3. Cardinality(TaskGroup(t)) > 1
    BY <1>1, <1>2 DEF Groups
<1>4. t \in SameTaskID(t)
    BY DEF SameTaskID
<1> QED
    BY <1>1, <1>2, <1>3, <1>4 DEF PayableTasks, SuccessStatus

\* The same after a step.
LEMMA GroupPaymentNext ==
    ASSUME GroupInv', NEW t \in Tasks, task'[t].status = "GroupValidated"
    PROVE  /\ PayableTasks(t)' = {t} \cup {u \in SameTaskID(t) : task'[u].status = "EndGroupRefund"}
           /\ SuccessStatus(t)' = "EndGroupSuccess"
<1>0. SameTaskID(t)' = SameTaskID(t) /\ Groups' = Groups
    BY DEF SameTaskID, Groups
<1>1. /\ SameTaskID(t) \in Groups
      /\ \A u \in SameTaskID(t) : task'[u].revealed
      /\ \A u \in SameTaskID(t) \ {t} : task'[u].status # "GroupValidated"
    BY <1>0 DEF GroupInv
<1>2. TaskGroup(t)' = SameTaskID(t)
    BY <1>0, <1>1 DEF TaskGroup
<1>3. Cardinality(TaskGroup(t)') > 1
    BY <1>1, <1>2 DEF Groups
<1>4. t \in SameTaskID(t)
    BY DEF SameTaskID
<1> QED
    BY <1>1, <1>2, <1>3, <1>4 DEF PayableTasks, SuccessStatus

(***************************************************************************)
(* The members of a group are settled together                             *)
(***************************************************************************)
GroupStatus == {"GroupValidated", "EndGroupSuccess", "EndGroupRefund", "EndInvalidated"}

\* Every move settles the members of a group together.
LEMMA MoveGroup ==
    ASSUME CreatorsFollowProtocol, TypeOK, GroupInv, PaymentInv, Move
    PROVE  GroupInv'
<1>t. task \in [Tasks -> TaskRow] /\ node \in [Nodes -> NodeRow]
    BY DEF TypeOK
<1> SUFFICES ASSUME NEW t \in Tasks
             PROVE  GroupInv!(t)'
    BY DEF GroupInv
<1>0. /\ task[t].status \in {"Validated", "EndSuccess"} => t \in SingleRequests
      /\ task[t].status \in GroupStatus =>
            /\ SameTaskID(t) \in Groups
            /\ \A u \in SameTaskID(t) :
                  task[u].revealed /\ task[u].status \in TerminalStatus \cup {"GroupValidated"}
      /\ task[t].status \in {"GroupValidated", "EndGroupSuccess"} =>
            \A u \in SameTaskID(t) \ {t} : task[u].status \notin {"GroupValidated", "EndGroupSuccess"}
    BY DEF GroupInv, GroupStatus
\* It suffices that t enters no new group status and that its group stays settled.
<1>a. ASSUME task'[t].status = task[t].status,
             \A u \in SameTaskID(t) : task[u].revealed => task'[u].revealed,
             \A u \in SameTaskID(t) :
                task[u].status \in TerminalStatus \cup {"GroupValidated"} =>
                   /\ task'[u].status \in TerminalStatus \cup {"GroupValidated"}
                   /\ task'[u].status \in {"GroupValidated", "EndGroupSuccess"} =>
                         task[u].status \in {"GroupValidated", "EndGroupSuccess"}
      PROVE  GroupInv!(t)'
    BY <1>0, <1>a DEF GroupStatus, SameTaskID
<1>1. ASSUME NEW u \in Tasks, NEW s, NEW n, NEW reason, RowMove(u, s, n, reason),
             task[u].status \in {"Absent", "Queued", "Started", "ScoreReady"},
             s \in {"Queued", "Started", "ScoreReady", "ErrorReported", "Validated"},
             s = "Validated" => u \in SingleRequests
      PROVE  GroupInv!(t)'
    <2>1. CASE t = u
        BY <1>1, <2>1 DEF RowMove
    <2>2. CASE t # u
        BY <1>1, <1>a, <2>2, SameTaskIDFacts DEF RowMove, OnlyTask, TerminalStatus
    <2> QED
        BY <2>1, <2>2
<1>2. ASSUME NEW u \in Tasks, MCreate(u) PROVE GroupInv!(t)'
    BY <1>1, <1>2 DEF MCreate
<1>3. ASSUME NEW u \in Tasks, NEW n \in Nodes, MStart(u, n) PROVE GroupInv!(t)'
    BY <1>1, <1>3 DEF MStart
<1>4. ASSUME NEW u \in Tasks, NEW s \in Status, MAdvance(u, s) PROVE GroupInv!(t)'
    BY <1>1, <1>4 DEF MAdvance
<1>5. ASSUME NEW u \in Tasks, NEW n, NEW reason, MAbort(u, n, reason) PROVE GroupInv!(t)'
    <2>1. CASE t = u
        BY <1>5, <2>1 DEF MAbort, RowMove
    <2>2. CASE t # u
        BY <1>5, <1>a, <2>2, SameTaskIDFacts DEF MAbort, RowMove, OnlyTask, TerminalStatus
    <2> QED
        BY <2>1, <2>2
<1>6. ASSUME NEW u \in Tasks, NEW n, NEW pay, NEW final, MSuccess(u, n, pay, final)
      PROVE  GroupInv!(t)'
    <2>1. CASE t # u
        <3>1. final = "EndGroupSuccess" => task[u].status = "GroupValidated"
            BY <1>6, SinglePayment DEF MSuccess, GroupInv
        <3> QED
            BY SMTT(30), <1>6, <1>a, <2>1, <3>1, SameTaskIDFacts DEF MSuccess, RowMove, OnlyTask, TerminalStatus
    <2>2. CASE t = u /\ task[t].status = "Validated"
        <3>1. final = "EndSuccess" /\ t \in SingleRequests
            BY SMTT(30), <1>0, <1>6, <2>2, SinglePayment DEF MSuccess
        <3> QED
            BY <1>6, <2>2, <3>1 DEF MSuccess, RowMove
    <2>3. CASE t = u /\ task[t].status = "GroupValidated"
        <3>1. final = "EndGroupSuccess"
            BY <1>6, <2>3, GroupPayment DEF MSuccess
        <3> QED
            BY <1>0, <1>6, <2>3, <3>1, SameTaskIDFacts
               DEF MSuccess, RowMove, OnlyTask, GroupStatus, TerminalStatus, SameTaskID
    <2> QED
        BY <1>6, <2>1, <2>2, <2>3 DEF MSuccess
<1>7. ASSUME NEW n \in Nodes, MNode(n) \/ MQuit(n) PROVE GroupInv!(t)'
    BY <1>7, <1>a, SameTaskIDFacts DEF MNode, MQuit
<1>8. ASSUME NEW g \in Groups, NEW next \in [Finished(g) -> GroupOutcome], NEW f, NEW kicked,
             MGroup(g, next, f, kicked)
      PROVE  GroupInv!(t)'
    <2>1. CASE t \notin g
        <3>1. \A u \in SameTaskID(t) : u \in Tasks /\ task'[u] = task[u]
            BY <1>8, <1>t, <2>1, GroupMembers, GroupRows, SameTaskIDFacts
        <3> QED
            BY <1>a, <3>1, SameTaskIDFacts
    <2>2. CASE t \in g
        <3>1. SameTaskID(t) = g
            BY <2>2, GroupMembers
        <3>2. \A u \in g :
                 /\ task'[u].revealed
                 /\ task'[u].status \in GroupOutcome
                 /\ task'[u].status = "GroupValidated" => u \in Finished(g) /\ next[u] = "GroupValidated"
            <4> TAKE u \in g
            <4>1. CASE u \in Finished(g)
                BY SMTT(30), <1>8, <1>t, <4>1, GroupRows
            <4>2. CASE u \notin Finished(g)
                BY <1>8, <1>t, <4>2, GroupRows DEF Finished, GroupOutcome
            <4> QED
                BY <4>1, <4>2
        <3>3. \A u \in g : task'[u].status = "GroupValidated" /\ task'[t].status = "GroupValidated"
                              => u = t
            BY <1>8, <2>2, <3>2 DEF MGroup
        <3> QED
            BY Zenon, <1>8, <3>1, <3>2, <3>3 DEF GroupOutcome, TerminalStatus, SameTaskID
    <2> QED
        BY <2>1, <2>2
<1>9. CASE MRead
    BY <1>9, <1>a DEF MRead
<1> QED
    BY SMTT(30), <1>2, <1>3, <1>4, <1>5, <1>6, <1>7, <1>8, <1>9 DEF Move

(***************************************************************************)
(* The payments computed before the transaction are right when it commits  *)
(***************************************************************************)
LEMMA PayableUnchanged ==
    ASSUME CreatorsFollowProtocol, TypeOK, GroupInv, GroupInv', RowsMonotone, NEW t \in Tasks,
           task[t].status \in {"Validated", "GroupValidated"}, task'[t].status = task[t].status
    PROVE  PayableTasks(t)' = PayableTasks(t) /\ SuccessStatus(t)' = SuccessStatus(t)
<1>1. CASE task[t].status = "Validated"
    <2>1. t \in SingleRequests
        BY <1>1 DEF GroupInv
    <2> QED
        BY <2>1, SinglePayment
<1>2. CASE task[t].status = "GroupValidated"
    <2>1. \A u \in SameTaskID(t) \ {t} : u \in Tasks /\ task[u].status \in TerminalStatus
        BY ZenonT(60), <1>2 DEF GroupInv, SameTaskID
    <2>2. \A u \in SameTaskID(t) : task'[u].status = task[u].status
        BY <2>1 DEF RowsMonotone
    <2>3. {u \in SameTaskID(t) : task'[u].status = "EndGroupRefund"} =
             {u \in SameTaskID(t) : task[u].status = "EndGroupRefund"}
        BY <2>2
    <2> QED
        BY Zenon, <1>2, <2>3, GroupPayment, GroupPaymentNext
<1> QED
    BY <1>1, <1>2

\* The payments an upload has computed stay the right ones until it commits.
LEMMA PaymentNext ==
    ASSUME CreatorsFollowProtocol, Inv, GroupInv, GroupInv', PaymentInv, [Next]_vars
    PROVE  PaymentInv'
<1>r. req \in [Procs -> Request]
    BY DEF Inv, TypeOK
<1> SUFFICES ASSUME NEW q \in Procs, NEW t \in Tasks, req'[q].op = "UploadResult", req'[q].loaded,
                    req'[q].task = t, task'[t].status = req'[q].status
             PROVE  req'[q].pay = PayableTasks(t)' /\ req'[q].final = SuccessStatus(t)'
    BY DEF PaymentInv
<1> DEFINE Goal == req'[q].pay = PayableTasks(t)' /\ req'[q].final = SuccessStatus(t)'
<1>1. RowsMonotone
    BY MoveNext, MoveMonotone DEF Inv
<1>2. ASSUME req'[q] = req[q] PROVE Goal
    <2>1. StaleRequest(req[q])
        BY SMTT(30) DEF Inv, RequestInv
    <2>2. req[q].status \in {"Validated", "GroupValidated"}
        BY SMTT(30), <1>2, <2>1 DEF StaleRequest, TaskOps, RunningStatus, ActiveStatus, TerminalStatus
    <2>3. task[t].status \in {req[q].status} \cup TerminalStatus
        BY <1>2, <2>1 DEF StaleRequest
    <2>4. task[t].status = req[q].status
        BY <1>1, <1>2, <2>2, <2>3 DEF RowsMonotone, TerminalStatus
    <2>5. req[q].pay = PayableTasks(t) /\ req[q].final = SuccessStatus(t)
        BY <1>2, <2>4 DEF PaymentInv
    <2>6. PayableTasks(t)' = PayableTasks(t) /\ SuccessStatus(t)' = SuccessStatus(t)
        BY <1>1, <1>2, <2>2, <2>4, PayableUnchanged DEF Inv
    <2> QED
        BY <1>2, <2>5, <2>6
<1>3. ASSUME NEW p \in Procs, Return(p) PROVE Goal
    BY <1>2, <1>3, <1>r DEF Return, Idle
<1>4. ASSUME NEW p \in Procs, NEW op \in TaskOps, NEW u \in Tasks, NEW n \in Nodes \cup {None},
             GetTask(p, op, u, n)
      PROVE  Goal
    BY <1>2, <1>4, <1>r DEF GetTask, Idle
<1>5. ASSUME NEW p \in Procs, StatusChanged(p) PROVE Goal
    BY <1>2, <1>5, <1>r DEF StatusChanged, Idle
<1>6. ASSUME NEW p \in Procs, NEW op \in NodeOps, NEW n \in Nodes, GetNode(p, op, n) PROVE Goal
    BY <1>2, <1>6, <1>r DEF GetNode, Idle, NodeOps
<1>7. ASSUME NEW p \in Procs, NodeStatusChanged(p) PROVE Goal
    <2>1. q = p => req'[q].op \in NodeOps
        BY <1>7, <1>r DEF NodeStatusChanged, Request
    <2>2. q # p
        BY <2>1 DEF NodeOps
    <2> QED
        BY <1>2, <1>7, <1>r, <2>2 DEF NodeStatusChanged
<1>8. ASSUME NEW p \in Procs, checkTaskSelectedNode(p) PROVE Goal
    <2>1. task' = task
        BY <1>8 DEF checkTaskSelectedNode
    <2>2. CASE q # p
        BY <1>2, <1>8, <1>r, <2>2 DEF checkTaskSelectedNode
    <2>3. CASE q = p
        <3>1. PICK n, s : req' = [req EXCEPT ![p] = Loaded(req[p], n, s)]
            BY <1>8 DEF checkTaskSelectedNode
        <3>2. req'[q] = Loaded(req[q], n, s) /\ req[q] \in Request
            BY <1>r, <2>3, <3>1
        <3>3. req'[q].op = req[q].op /\ req'[q].task = req[q].task
            BY <3>2 DEF Loaded, Request
        <3>4. req[q].op = "UploadResult" /\ req[q].task = t
            BY <3>3
        <3>5. req'[q].pay = PayableTasks(t) /\ req'[q].final = SuccessStatus(t)
            BY <3>2, <3>4 DEF Loaded, Request
        <3>6. PayableTasks(t)' = PayableTasks(t) /\ SuccessStatus(t)' = SuccessStatus(t)
            BY <2>1 DEF PayableTasks, SuccessStatus, TaskGroup, SameTaskID
        <3> QED
            BY SMTT(30), <3>5, <3>6
    <2> QED
        BY <2>2, <2>3
<1>9. CASE UNCHANGED req
    BY <1>2, <1>9
<1>10. ASSUME NEW u \in Tasks, CreateTask(u) \/ SlashPendingNode(u) PROVE UNCHANGED req
    BY SMTT(30), <1>10 DEF CreateTask, SlashPendingNode
<1>11. ASSUME NEW g \in Groups, ValidateTaskGroup(g) PROVE UNCHANGED req
    BY ZenonT(60), <1>11 DEF ValidateTaskGroup, ApplyGroup
<1>12. ASSUME NEW n \in Nodes, SetNodeStatusJoin(n) PROVE UNCHANGED req
    BY <1>12 DEF SetNodeStatusJoin
<1>13. ASSUME NEW p \in Procs,
              \/ SetTaskStatusStarted(p) \/ SetTaskStatusScoreReady(p)
              \/ SetTaskStatusErrorReported(p) \/ SetTaskStatusValidated(p)
              \/ SetTaskStatusEndAborted(p) \/ SetTaskStatusEndSuccess(p)
              \/ GiveUp(p) \/ UpdateNodeStatus(p) \/ SlashNode(p)
       PROVE  Return(p)
    BY <1>13 DEF SetTaskStatusStarted, SetTaskStatusScoreReady, SetTaskStatusErrorReported,
                 SetTaskStatusValidated, SetTaskStatusEndAborted, SetTaskStatusEndSuccess,
                 GiveUp, UpdateNodeStatus, SlashNode
<1>14. CASE UNCHANGED vars
    BY <1>9, <1>14 DEF vars
<1> QED
    BY SMTT(30), <1>3, <1>4, <1>5, <1>6, <1>7, <1>8, <1>9, <1>10, <1>11, <1>12, <1>13, <1>14 DEF Next

(***************************************************************************)
(* The ledger                                                              *)
(***************************************************************************)
LEMMA MoveLedger ==
    ASSUME CreatorsFollowProtocol, TypeOK, GroupInv, PaymentInv, LedgerContract, Move
    PROVE  LedgerContract'
<1>t. /\ task \in [Tasks -> TaskRow] /\ node \in [Nodes -> NodeRow]
      /\ ledger \in [Tasks -> SUBSET LedgerEvent]
    BY DEF TypeOK
<1> SUFFICES ASSUME NEW t \in Tasks
             PROVE  ledger'[t] = Settlement(t)'
    BY DEF LedgerContract
<1> DEFINE Goal == ledger'[t] = Settlement(t)'
<1>0. ledger[t] = Settlement(t)
    BY DEF LedgerContract
\* A task whose row and whose events stay keeps its settlement, unless it is a
\* refunded member of a group whose result is delivered by this step.
<1>a. ASSUME task'[t].status = task[t].status, task'[t].reason = task[t].reason,
             ledger'[t] = ledger[t],
             task[t].status = "EndGroupRefund" => (ResultShared(t)' <=> ResultShared(t))
      PROVE  Goal
    BY <1>0, <1>a DEF Settlement
<1>b. ASSUME NEW u \in Tasks, OnlyTask(u), task[u].status # "EndGroupSuccess",
             task'[u].status # "EndGroupSuccess"
      PROVE  ResultShared(t)' <=> ResultShared(t)
    BY <1>b DEF ResultShared, OnlyTask, SameTaskID
<1>1. ASSUME NEW u \in Tasks, MCreate(u) PROVE Goal
    <2>1. ResultShared(t)' <=> ResultShared(t)
        BY <1>1, <1>b DEF MCreate, RowMove
    <2>2. CASE t = u
        BY <1>1, <1>t, <2>2 DEF MCreate, RowMove, Settlement, ActiveStatus
    <2>3. CASE t # u
        BY SMTT(30), <1>1, <1>a, <1>t, <2>1, <2>3 DEF MCreate, RowMove, OnlyTask
    <2> QED
        BY <2>2, <2>3
<1>2. ASSUME NEW u \in Tasks, NEW s, NEW n, NEW reason, RowMove(u, s, n, reason), ledger' = ledger,
             task[u].status \in ActiveStatus, s \in ActiveStatus
      PROVE  Goal
    <2>1. ResultShared(t)' <=> ResultShared(t)
        BY <1>2, <1>b DEF RowMove, ActiveStatus
    <2>2. CASE t = u
        BY <1>0, <1>2, <2>2 DEF RowMove, Settlement, ActiveStatus
    <2>3. CASE t # u
        BY <1>2, <1>a, <2>1, <2>3 DEF RowMove, OnlyTask
    <2> QED
        BY <2>2, <2>3
<1>3. ASSUME NEW u \in Tasks, NEW n \in Nodes, MStart(u, n) PROVE Goal
    BY <1>2, <1>3 DEF MStart, ActiveStatus
<1>4. ASSUME NEW u \in Tasks, NEW s \in Status, MAdvance(u, s) PROVE Goal
    BY <1>2, <1>4 DEF MAdvance, ActiveStatus
<1>5. ASSUME NEW u \in Tasks, NEW n, NEW reason, MAbort(u, n, reason) PROVE Goal
    <2>1. ResultShared(t)' <=> ResultShared(t)
        BY <1>5, <1>b DEF MAbort, RowMove, ActiveStatus
    <2>2. ledger'[t] = IF t = u
                       THEN ledger[t] \cup {IF reason = "CreatorValidationTimeout"
                                            THEN "Income" ELSE "Refund"}
                       ELSE ledger[t]
        BY <1>5 DEF MAbort, RecordEvent
    <2>3. CASE t = u
        <3>1. task'[t].status = "EndAborted" /\ task'[t].reason = reason
            BY <1>5, <2>3 DEF MAbort, RowMove
        <3>2. ledger[t] = {"Payment"}
            BY SMTT(30), <1>0, <1>5, <2>3 DEF MAbort, Settlement, ActiveStatus
        <3> QED
            BY <2>2, <2>3, <3>1, <3>2 DEF Settlement, ActiveStatus
    <2>4. CASE t # u
        BY SMTT(30), <1>5, <1>a, <2>1, <2>2, <2>4 DEF MAbort, RowMove, OnlyTask
    <2> QED
        BY <2>3, <2>4
<1>6. ASSUME NEW u \in Tasks, NEW n, NEW pay, NEW final, MSuccess(u, n, pay, final) PROVE Goal
    <2>1. ledger'[t] = IF t \in pay THEN ledger[t] \cup {"Income"} ELSE ledger[t]
        BY <1>6 DEF MSuccess, RecordEvent
    <2>2. /\ task'[u].status = final /\ pay = PayableTasks(u) /\ final = SuccessStatus(u)
          /\ OnlyTask(u)
        BY <1>6 DEF MSuccess, RowMove
    <2>3. CASE task[u].status = "Validated"
        <3>1. pay = {u} /\ final = "EndSuccess"
            BY SMTT(30), <2>2, <2>3, SinglePayment DEF GroupInv
        <3>2. CASE t = u
            BY SMTT(30), <1>0, <2>1, <2>2, <2>3, <3>1, <3>2 DEF Settlement, ActiveStatus
        <3>3. CASE t # u
            <4>1. ResultShared(t)' <=> ResultShared(t)
                BY <1>b, <2>2, <2>3, <3>1
            <4> QED
                BY <1>a, <2>1, <2>2, <3>1, <3>3, <4>1 DEF OnlyTask
        <3> QED
            BY <3>2, <3>3
    <2>4. CASE task[u].status = "GroupValidated"
        <3>1. /\ pay = {u} \cup {v \in SameTaskID(u) : task[v].status = "EndGroupRefund"}
              /\ final = "EndGroupSuccess"
            BY SMTT(30), <2>2, <2>4, GroupPayment
        <3>2. CASE t = u
            BY <1>0, <2>1, <2>2, <2>4, <3>1, <3>2 DEF Settlement, ActiveStatus
        <3>3. CASE t # u /\ t \in SameTaskID(u) /\ task[t].status = "EndGroupRefund"
            <4>1. t \in pay /\ task'[t] = task[t]
                BY <2>2, <3>1, <3>3 DEF OnlyTask
            <4>2. ResultShared(t)'
                BY <2>2, <3>1, <3>3 DEF ResultShared, SameTaskID
            <4>3. ~ResultShared(t)
                BY ZenonT(60), <2>4, <3>3 DEF ResultShared, SameTaskID, GroupInv
            <4>4. ledger[t] = {"Payment", "Refund"}
                BY <1>0, <3>3, <4>3 DEF Settlement, ActiveStatus
            <4> QED
                BY <2>1, <3>3, <4>1, <4>2, <4>4 DEF Settlement, ActiveStatus
        <3>4. CASE t # u /\ t \in SameTaskID(u) /\ task[t].status # "EndGroupRefund"
            BY <1>a, <2>1, <2>2, <3>1, <3>4 DEF OnlyTask
        <3>5. CASE t \notin SameTaskID(u)
            <4>1. t # u /\ u \notin SameTaskID(t)
                BY <3>5 DEF SameTaskID
            <4>2. ResultShared(t)' <=> ResultShared(t)
                BY <2>2, <4>1 DEF ResultShared, OnlyTask, SameTaskID
            <4> QED
                BY <1>a, <2>1, <2>2, <3>1, <3>5, <4>1, <4>2 DEF OnlyTask
        <3> QED
            BY <3>2, <3>3, <3>4, <3>5
    <2> QED
        BY <1>6, <2>3, <2>4 DEF MSuccess
<1>7. ASSUME NEW n \in Nodes, MNode(n) \/ MQuit(n) PROVE Goal
    BY <1>7, <1>a DEF MNode, MQuit, ResultShared, SameTaskID
<1>8. ASSUME NEW g \in Groups, NEW next \in [Finished(g) -> GroupOutcome], NEW f, NEW kicked,
             MGroup(g, next, f, kicked)
      PROVE  Goal
    <2>1. ledger'[t] = IF t \in Ending(g, next) \ Invalidated(g, next)
                       THEN ledger[t] \cup {"Refund"} ELSE ledger[t]
        BY SMTT(30), <1>8 DEF MGroup, ApplyGroup, RecordEvent
    <2>2. CASE t \notin g
        <3>1. \A u \in SameTaskID(t) : u \in Tasks /\ task'[u] = task[u]
            BY <1>8, <1>t, <2>2, GroupMembers, GroupRows, SameTaskIDFacts
        <3>2. ResultShared(t)' <=> ResultShared(t)
            BY <3>1 DEF ResultShared, SameTaskID
        <3>3. t \notin Ending(g, next)
            BY SMTT(30), <2>2 DEF Ending, Finished
        <3> QED
            BY SMTT(30), <1>8, <1>a, <1>t, <2>1, <2>2, <3>2, <3>3, GroupRows
    <2>3. CASE t \in g /\ t \notin Finished(g)
        <3>1. task[t].status = "EndAborted" /\ t \notin Ending(g, next)
            BY <2>3 DEF Finished, Ending
        <3> QED
            BY <1>8, <1>a, <1>t, <2>1, <2>3, <3>1, GroupRows
    <2>4. CASE t \in Finished(g)
        <3>1. /\ task'[t].status = next[t] /\ next[t] \in GroupOutcome
              /\ task'[t].reason # "CreatorValidationTimeout"
              /\ task[t].status \in ActiveStatus
            BY <1>8, <1>t, <2>4, GroupRows DEF ActiveStatus
        <3>2. ledger[t] = {"Payment"}
            BY <1>0, <3>1 DEF Settlement, ActiveStatus
        <3>3. ~ResultShared(t)'
            <4>1. t \in g
                BY <2>4 DEF Finished
            <4>2. SameTaskID(t) = g /\ g \subseteq Tasks
                BY <4>1, GroupMembers
            <4>3. \A u \in g : task'[u].status # "EndGroupSuccess"
                <5> TAKE u \in g
                <5>1. CASE u \in Finished(g)
                    BY SMTT(30), <1>8, <1>t, <5>1, GroupRows DEF GroupOutcome
                <5>2. CASE u \notin Finished(g)
                    BY <1>8, <1>t, <4>2, <5>2, GroupRows DEF Finished
                <5> QED
                    BY <5>1, <5>2
            <4> QED
                BY <4>2, <4>3 DEF ResultShared, SameTaskID
        <3> QED
            BY SMTT(30), <2>1, <2>4, <3>1, <3>2, <3>3
               DEF Settlement, Ending, Invalidated, GroupOutcome, ActiveStatus
    <2> QED
        BY SMTT(30), <2>2, <2>3, <2>4
<1>9. CASE MRead
    BY SMTT(30), <1>9, <1>a DEF MRead, ResultShared, SameTaskID
<1> QED
    BY SMTT(30), <1>1, <1>3, <1>4, <1>5, <1>6, <1>7, <1>8, <1>9 DEF Move

(***************************************************************************)
(* Expired groups                                                          *)
(***************************************************************************)
LEMMA MoveExpired ==
    ASSUME CreatorsFollowProtocol, TypeOK, GroupInv, PaymentInv, ExpiredGroupStaysUnvalidated, Move
    PROVE  ExpiredGroupStaysUnvalidated'
<1>t. task \in [Tasks -> TaskRow] /\ node \in [Nodes -> NodeRow]
    BY DEF TypeOK
<1> DEFINE Expired(s) == s.status = "EndAborted" /\ s.reason = "CreatorValidationTimeout"
<1> SUFFICES ASSUME NEW t \in Tasks, NEW u \in Tasks, TaskID[t] = TaskID[u], Expired(task'[t]),
                    task'[u].status \in GroupStatus
             PROVE  FALSE
    BY DEF ExpiredGroupStaysUnvalidated, GroupStatus
<1>0. ~(Expired(task[t]) /\ task[u].status \in GroupStatus)
    BY DEF ExpiredGroupStaysUnvalidated, GroupStatus
<1>1. ASSUME NEW v \in Tasks, NEW s, NEW n, NEW reason, RowMove(v, s, n, reason),
             s \notin GroupStatus, s # "EndAborted"
      PROVE  FALSE
    BY <1>0, <1>1 DEF RowMove, OnlyTask
<1>2. ASSUME NEW v \in Tasks, NEW n, NEW s,
             MCreate(v) \/ MStart(v, n) \/ MAdvance(v, s)
      PROVE  FALSE
    BY <1>1, <1>2 DEF MCreate, MStart, MAdvance, GroupStatus
<1>3. ASSUME NEW v \in Tasks, NEW n, NEW reason, MAbort(v, n, reason) PROVE FALSE
    <2>1. u # v /\ task[u].status \in GroupStatus
        BY <1>3 DEF MAbort, RowMove, OnlyTask, GroupStatus
    <2>2. t = v /\ reason = "CreatorValidationTimeout"
        BY <1>0, <1>3, <2>1 DEF MAbort, RowMove, OnlyTask
    <2>3. t \in SameTaskID(u)
        BY DEF SameTaskID
    <2>4. task[t].status \in TerminalStatus \cup {"GroupValidated"}
        BY <2>1, <2>3 DEF GroupInv, GroupStatus
    <2> QED
        BY <1>3, <2>2, <2>4 DEF MAbort, TerminalStatus
<1>4. ASSUME NEW v \in Tasks, NEW n, NEW pay, NEW final, MSuccess(v, n, pay, final) PROVE FALSE
    <2>1. t # v /\ task'[t] = task[t]
        BY <1>4 DEF MSuccess, RowMove, OnlyTask
    <2>2. u = v /\ final = "EndGroupSuccess"
        BY SMTT(30), <1>0, <1>4, <2>1 DEF MSuccess, RowMove, OnlyTask, GroupStatus
    <2>3. task[u].status = "GroupValidated"
        BY SMTT(30), <1>4, <2>2, SinglePayment DEF MSuccess, GroupInv
    <2> QED
        BY <1>0, <2>1, <2>3 DEF GroupStatus
<1>5. ASSUME NEW n \in Nodes, MNode(n) \/ MQuit(n) PROVE FALSE
    BY <1>0, <1>5 DEF MNode, MQuit
<1>6. ASSUME NEW g \in Groups, NEW next \in [Finished(g) -> GroupOutcome], NEW f, NEW kicked,
             MGroup(g, next, f, kicked)
      PROVE  FALSE
    <2>1. CASE t \in g
        <3>1. task'[t].reason # "CreatorValidationTimeout"
            <4>1. CASE t \in Finished(g)
                BY SMTT(30), <1>6, <1>t, <4>1, GroupRows
            <4>2. CASE t \notin Finished(g)
                <5>1. task[t].reason # "CreatorValidationTimeout"
                    BY <1>6, <2>1 DEF MGroup, GroupReady
                <5> QED
                    BY SMTT(30), <1>6, <1>t, <4>2, <5>1, GroupRows
            <4> QED
                BY SMTT(30), <4>1, <4>2
        <3> QED
            BY <3>1
    <2>2. CASE t \notin g
        <3>1. u \notin g
            BY SMTT(30), <2>2, GroupMembers DEF SameTaskID
        <3>2. task'[t] = task[t] /\ task'[u] = task[u]
            BY SMTT(30), <1>6, <1>t, <2>2, <3>1, GroupRows
        <3> QED
            BY <1>0, <3>2
    <2> QED
        BY <2>1, <2>2
<1>7. CASE MRead
    BY <1>0, <1>7 DEF MRead
<1> QED
    BY ZenonT(60), <1>2, <1>3, <1>4, <1>5, <1>6, <1>7 DEF Move

(***************************************************************************)
(* Theorems                                                                *)
(***************************************************************************)
SettlementInv ==
    /\ Inv
    /\ GroupInv
    /\ PaymentInv
    /\ LedgerContract
    /\ ExpiredGroupStaysUnvalidated

\* The empty database satisfies the settlement invariant.
LEMMA SettlementInit == Init => SettlementInv
<1> SUFFICES ASSUME Init PROVE SettlementInv
    OBVIOUS
<1>1. \A t \in Tasks : task[t].status = "Absent" /\ ledger[t] = {}
    BY DEF Init
<1>2. \A p \in Procs : req[p].op = "idle"
    BY DEF Init, Idle
<1>3. GroupInv
    BY SMTT(30), <1>1 DEF GroupInv
<1>4. PaymentInv
    BY <1>2 DEF PaymentInv
<1>5. LedgerContract
    BY Zenon, <1>1 DEF LedgerContract, Settlement, ActiveStatus
<1>6. ExpiredGroupStaysUnvalidated
    BY <1>1 DEF ExpiredGroupStaysUnvalidated
<1> QED
    BY <1>3, <1>4, <1>5, <1>6, InvInit DEF SettlementInv

\* The settlement invariant is inductive.
LEMMA SettlementNext ==
    ASSUME CreatorsFollowProtocol, SettlementInv, [Next]_vars
    PROVE  SettlementInv'
<1>1. Inv /\ TypeOK /\ GroupInv /\ PaymentInv /\ LedgerContract /\ ExpiredGroupStaysUnvalidated
    BY DEF SettlementInv, Inv
<1>2. Inv' /\ Move
    BY <1>1, InvNext, MoveNext
<1>3. GroupInv'
    BY <1>1, <1>2, MoveGroup
<1>4. PaymentInv'
    BY <1>1, <1>3, PaymentNext
<1>5. LedgerContract'
    BY <1>1, <1>2, MoveLedger
<1>6. ExpiredGroupStaysUnvalidated'
    BY <1>1, <1>2, MoveExpired
<1> QED
    BY <1>2, <1>3, <1>4, <1>5, <1>6 DEF SettlementInv

\* The settlement invariant holds in every reachable state of the handlers.
LEMMA SettlementInvariance == CreatorsFollowProtocol /\ Spec => []SettlementInv
<1>1. CASE CreatorsFollowProtocol
    <2>1. SettlementInv /\ [Next]_vars => SettlementInv'
        BY <1>1, SettlementNext
    <2> QED
        BY <2>1, SettlementInit, PTL DEF Spec
<1> QED
    BY <1>1

\* When creators label their tasks as the protocol says and do not ask for a member
\* of a group to be validated alone, the fee of every task is settled as the
\* terminal-state ledger contract demands, whatever handlers race to end it, and
\* whichever members of a group their own seeds would select.
THEOREM LedgerCorrect == CreatorsFollowProtocol /\ Spec => []LedgerContract
<1>1. SettlementInv => LedgerContract
    BY DEF SettlementInv
<1> QED
    BY <1>1, SettlementInvariance, PTL

\* Under the same hypothesis, a group one of whose tasks expired for want of
\* validation is never validated, nor does a validated group expire that way.
THEOREM ExpiredCorrect == CreatorsFollowProtocol /\ Spec => []ExpiredGroupStaysUnvalidated
<1>1. SettlementInv => ExpiredGroupStaysUnvalidated
    BY DEF SettlementInv
<1> QED
    BY <1>1, SettlementInvariance, PTL

=============================================================================
