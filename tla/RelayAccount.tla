---------------------------- MODULE RelayAccount ----------------------------
(***************************************************************************)
(* The relay account ledger (src/service/relay_account.go, withdraw.go,    *)
(* vesting.go): the log of account events, the balances projected from it  *)
(* (table relay_accounts), the in-memory balance cache that requests spend *)
(* from, and the withdrawal, deposit and vesting records tied to events.   *)
(*                                                                         *)
(* A request writes its events inside a database transaction, applies the  *)
(* same deltas to the cache (its commitFunc) and commits, or the other way *)
(* round (task payments, deposits, the refund of a slashed node's task);   *)
(* one background goroutine, the projector, validates committed events in  *)
(* id order and adds them to the balances.  Requests of different clients, *)
(* the projector, the vesting job and a crash interleave between these     *)
(* steps.                                                                  *)
(***************************************************************************)
EXTENDS Integers, Sequences, FiniteSets, TLC, SequencesExt

CONSTANTS
    Addr,            \* account addresses
    Tasks, Withdraws, Deposits, Vestings,   \* identities of the requests
    Creator, Node,   \* [Tasks -> Addr]
    Dao, FeeAddr,    \* dao.task_fee_share_address, withdraw.withdrawal_fee_address
    TaskFee, DaoShare, WithdrawalFee,
    Owner,           \* account of a withdrawal, deposit or vesting
    Benefit,         \* benefit address of a withdrawal
    Amount,          \* amount of a withdrawal or deposit, total of a vesting
    MaxPerDay,       \* max_withdrawals_per_day; the model spans one day
    InitialBalance,  \* the rows of relay_accounts at the start
    BatchSize,       \* limit of getPendingRelayAccountEvents
    FaultKinds,      \* the faults that may happen, at most MaxFaults of them
    MaxFaults,
    SerialWallet     \* the wallet has one call per withdrawal outstanding

AllFaults == {"crash", "rollback", "projector", "reorg"}

ASSUME LedgerAssumption ==
    /\ Creator \in [Tasks -> Addr] /\ Node \in [Tasks -> Addr]
    /\ {Dao, FeeAddr} \subseteq Addr
    /\ \A i \in Withdraws \cup Deposits \cup Vestings : Owner[i] \in Addr /\ Amount[i] \in Nat \ {0}
    /\ Benefit \in [Withdraws -> Addr]
    /\ TaskFee \in Nat /\ DaoShare \in 0..TaskFee /\ WithdrawalFee \in Nat
    /\ DOMAIN InitialBalance \subseteq Addr
    /\ \A a \in DOMAIN InitialBalance : InitialBalance[a] \in Nat
    /\ BatchSize \in Nat \ {0} /\ MaxFaults \in Nat /\ FaultKinds \subseteq AllFaults
    /\ SerialWallet \in BOOLEAN

VARIABLES
    balance,   \* relay_accounts: a function on the addresses that have a row
    cache,     \* relayAccountCache.accounts: a function on the cached addresses
    events,    \* relay_account_events in id order
    tx,        \* the requests in flight, and how far each has come
    task,      \* the committed settlement state of a task
    withdraw,  \* withdraw_records: status and local_status
    deposit,   \* deposit_records: local_status
    vesting,   \* vesting_records
    proj,      \* the projector: program counter, loaded batch, its split
    job,       \* the vesting job: the records left to release, or "idle"
    server,    \* "up", "init" (in InitRelayAccountCache) or "down"
    faults     \* number of faults so far

vars == <<balance, cache, events, tx, task, withdraw, deposit, vesting, proj, job, server, faults>>
records == <<task, withdraw, deposit, vesting>>

-----------------------------------------------------------------------------
(* Events.                                                                 *)

\* RelayAccountEvent, written Open and visible to others once committed.
Event(type, key, addr, amount) ==
    [type |-> type, key |-> key, addr |-> addr, amount |-> amount, status |-> "Open"]

Charges == {"TaskPayment", "Withdraw"}
Delta(e) == IF e.type \in Charges THEN -e.amount ELSE e.amount

\* Withdraw exempts the fee and DAO addresses; the tiers of CalculateWithdrawalFee
\* are one constant.
withdrawalFee(w) == IF Owner[w] \in {FeeAddr, Dao} THEN 0 ELSE WithdrawalFee
totalAmount(w) == Amount[w] + withdrawalFee(w)

\* The refund of an ended task, and of the task a slashed node was running.
Refunds == {"refund", "slashRefund"}

\* The events a request writes.  A request <<kind, key>> is its events' reason:
\* the unique index on reason admits one transaction in flight for each.
EventsOf(op) ==
    LET k == op[2]
    IN  CASE op[1] = "payment"  -> <<Event("TaskPayment", k, Creator[k], TaskFee)>>
          [] op[1] \in Refunds  -> <<Event("TaskRefund", k, Creator[k], TaskFee)>>
          [] op[1] = "income"   -> <<Event("TaskIncome", k, Node[k], TaskFee - DaoShare),
                                     Event("DaoTaskShare", k, Dao, DaoShare)>>
          [] op[1] = "withdraw" -> <<Event("Withdraw", k, Owner[k], totalAmount(k))>>
          [] op[1] = "fulfill"  -> IF withdrawalFee(k) > 0
                                   THEN <<Event("WithdrawFeeIncome", k, FeeAddr, withdrawalFee(k))>>
                                   ELSE <<>>
          [] op[1] = "reject"   -> <<Event("WithdrawRefund", k, Owner[k], totalAmount(k))>>
          [] op[1] = "deposit"  -> <<Event("Deposit", k, Owner[k], Amount[k])>>
          [] op[1] = "vest"     -> <<Event("VestingCreated", k, Owner[k], 0)>>
          [] op[1] = "release"  -> <<Event("VestingRelease", k, Owner[k[1]], k[3] - k[2])>>

SameReason(e, f) == e.type = f.type /\ e.key = f.key
WrittenBy(e, op) == \E i \in DOMAIN EventsOf(op) : SameReason(e, EventsOf(op)[i])
WithStatus(e, s) == [e EXCEPT !.status = s]

\* The status a request's events get when its transaction commits.
Committed(op) == [i \in DOMAIN events |->
                    IF WrittenBy(events[i], op) THEN WithStatus(events[i], "Pending") ELSE events[i]]

SumDelta(es, a, Test(_)) ==
    LET I == {i \in DOMAIN es : es[i].addr = a /\ Test(es[i])}
    IN  SumFunctionOnSet([i \in I |-> Delta(es[i])], I)

-----------------------------------------------------------------------------
(* The cache.                                                              *)

At(f, a) == IF a \in DOMAIN f THEN f[a] ELSE 0

\* CreateTask holds relayAccountCache.mu over its transaction.
MuFree == \A t \in Tasks : <<"payment", t>> \notin DOMAIN tx

\* Mutant: a lookup always reads the row.
Filled_Reloads(A) == [a \in DOMAIN cache \cup A |-> IF a \in A THEN At(balance, a) ELSE cache[a]]

\* getRelayAccountFromCache: a miss reads the row, or zero, from relay_accounts.
Filled(A) == [a \in DOMAIN cache \cup A |-> IF a \in DOMAIN cache THEN cache[a] ELSE At(balance, a)]

Accounts(op) == {EventsOf(op)[i].addr : i \in DOMAIN EventsOf(op)}

\* The cache c with a request's deltas added.
Applied(c, op) == [a \in DOMAIN c |-> c[a] + SumDelta(EventsOf(op), a, LAMBDA e : TRUE)]

-----------------------------------------------------------------------------
(* Transactions.  Phases of a request: "read" (it has done its reads),     *)
(* "written" (events and rows written, uncommitted), "applied" (its        *)
(* commitFunc has run, uncommitted), "committed" (its events are           *)
(* committed, its commitFunc has not run).                                 *)

Phase(op, p) == op \in DOMAIN tx /\ tx[op] = p
Enter(op, p) == tx' = (op :> p) @@ tx
Leave(op) == tx' = [o \in DOMAIN tx \ {op} |-> tx[o]]

\* A request of one of the kinds holds the lock of row k, which it has updated.
RowLocked(kinds, k) ==
    \E kind \in kinds : Phase(<<kind, k>>, "written") \/ Phase(<<kind, k>>, "applied")

\* The part of a request up to its commitFunc: events inserted, cache pointers taken.
Write(op) ==
    /\ server = "up"
    /\ MuFree
    /\ events' = events \o EventsOf(op)
    /\ cache' = Filled(Accounts(op))
    /\ Enter(op, "written")
    /\ UNCHANGED <<balance, records, proj, job, server, faults>>

\* Mutant: a withdrawal trusts its first, unlocked look at the balance.
CommitFunc_NoRecheck(op) ==
    /\ server = "up"
    /\ Phase(op, "written")
    /\ op[1] \notin {"payment", "slashRefund"}
    /\ MuFree
    /\ cache' = Applied(cache, op)
    /\ Enter(op, "applied")
    /\ UNCHANGED <<balance, events, records, proj, job, server, faults>>

\* commitFunc of a request that runs it inside its transaction.  A withdrawal checks
\* its balance again under the lock, and fails (Rollback) when it is too low.
CommitFunc(op) ==
    /\ server = "up"
    /\ Phase(op, "written")
    /\ op[1] \notin {"payment", "slashRefund"}
    /\ MuFree
    /\ op[1] = "withdraw" => cache[Owner[op[2]]] >= totalAmount(op[2])
    /\ cache' = Applied(cache, op)
    /\ Enter(op, "applied")
    /\ UNCHANGED <<balance, events, records, proj, job, server, faults>>

\* The rows a request's transaction has changed, seen by others when it commits.
CommittedRows(op) ==
    LET k == op[2]
    IN  /\ task' = CASE op[1] \in Refunds -> [task EXCEPT ![k] = "refunded"]
                     [] op[1] = "income" -> [task EXCEPT ![k] = "paid"]
                     [] OTHER -> task
        /\ withdraw' = CASE op[1] = "withdraw" -> [withdraw EXCEPT ![k] = [status |-> "Pending", local |-> "Pending"]]
                         [] op[1] = "fulfill" -> [withdraw EXCEPT ![k].status = "Success"]
                         [] op[1] = "reject" -> [withdraw EXCEPT ![k].status = "Failed"]
                         [] OTHER -> withdraw
        /\ vesting' = IF op[1] = "release"
                      THEN [vesting EXCEPT ![k[1]].released = k[3],
                                           ![k[1]].status = IF k[3] = Amount[k[1]] THEN "completed" ELSE @]
                      ELSE vesting
        /\ job' = IF op[1] = "release" THEN job \ {k[1]} ELSE job

\* Mutant: the caller of slashNodeTx forgets the function it was handed.
Commit_NoPostCommit(op) ==
    /\ \/ Phase(op, "applied")
       \/ Phase(op, "written") /\ op[1] = "slashRefund"
    /\ Leave(op)
    /\ events' = Committed(op)
    /\ CommittedRows(op)
    /\ UNCHANGED <<balance, cache, deposit, proj, server, faults>>

\* The commit.  slashNodeTx hands the commitFunc of its refund out of the
\* transaction, and SlashNode and SlashPendingNode run it after the commit.
Commit(op) ==
    /\ \/ Phase(op, "applied") /\ Leave(op)
       \/ Phase(op, "written") /\ op[1] = "slashRefund" /\ Enter(op, "committed")
    /\ events' = Committed(op)
    /\ CommittedRows(op)
    /\ UNCHANGED <<balance, cache, deposit, proj, server, faults>>

\* postCommit of a slash: the creator's entry, looked up in the transaction, gets
\* the refund that others have already seen committed and perhaps projected.
PostCommit(t) ==
    /\ Phase(<<"slashRefund", t>>, "committed")
    /\ MuFree
    /\ cache' = Applied(cache, <<"slashRefund", t>>)
    /\ Leave(<<"slashRefund", t>>)
    /\ UNCHANGED <<balance, events, records, proj, job, server, faults>>

\* A request fails: nothing of its transaction remains.  A failure after its
\* commitFunc (a failed commit, or a later failure in the transaction of
\* ValidateTaskGroup around it) does not take the deltas back from the cache.  A
\* deposit that fails at its cache lookup has already committed its event.  The
\* postCommit of a slash cannot fail.
Rollback(op) ==
    /\ \/ Phase(op, "read") /\ faults' = faults
       \/ Phase(op, "written") /\ faults' = faults
       \/ /\ Phase(op, "applied") \/ op[1] = "deposit"
          /\ "rollback" \in FaultKinds /\ faults < MaxFaults /\ faults' = faults + 1
    /\ events' = SelectSeq(events, LAMBDA e : ~(e.status = "Open" /\ WrittenBy(e, op)))
    /\ job' = IF op[1] = "release" THEN {} ELSE job
    /\ Leave(op)
    /\ UNCHANGED <<balance, cache, records, proj, server>>

-----------------------------------------------------------------------------
(* Tasks.                                                                  *)

\* CreateTask: the sufficiency check and the transaction, under the cache's lock.
CreateTask(t) ==
    /\ task[t] = "none"
    /\ Filled({Creator[t]})[Creator[t]] >= TaskFee
    /\ Write(<<"payment", t>>)

\* ... and its commit, followed by the deduction before the lock is released.
CreateTaskCommit(t) ==
    /\ Phase(<<"payment", t>>, "written")
    /\ events' = Committed(<<"payment", t>>)
    /\ cache' = Applied(cache, <<"payment", t>>)
    /\ task' = [task EXCEPT ![t] = "charged"]
    /\ Leave(<<"payment", t>>)
    /\ UNCHANGED <<balance, withdraw, deposit, vesting, proj, job, server, faults>>

\* A terminal transition of a charged task: refundTaskPaymentToRelayAccount (for
\* "slashRefund", called by abortNodeCurrentTaskForSlash) or sendTaskIncome, with
\* the conditional update of the task row.
Settle(kind, t) ==
    /\ task[t] = "charged"
    /\ ~RowLocked(Refunds \cup {"income"}, t)
    /\ Write(<<kind, t>>)

-----------------------------------------------------------------------------
(* Withdrawals.                                                            *)

\* The non-Failed requests of today with address or benefit address a.
TodayCount(a, of) == Cardinality({w \in Withdraws : of[w] = a /\ withdraw[w].status \in {"Pending", "Success"}})

\* Withdraw: the counts against the daily limit, at the start of its transaction.
WithdrawCount(w) ==
    /\ server = "up"
    /\ withdraw[w].status = "none" /\ <<"withdraw", w>> \notin DOMAIN tx
    /\ TodayCount(Owner[w], Owner) < MaxPerDay
    /\ TodayCount(Benefit[w], Benefit) < MaxPerDay
    /\ Enter(<<"withdraw", w>>, "read")
    /\ UNCHANGED <<balance, cache, events, records, proj, job, server, faults>>

\* ... the record and chargeWithdrawFromRelayAccount.  Its first look at the
\* balance takes no lock, so it may see any value: only commitFunc's check counts.
WithdrawWrite(w) ==
    /\ Phase(<<"withdraw", w>>, "read")
    /\ Write(<<"withdraw", w>>)

\* Mutant: the wallet may settle a withdrawal before its charge is projected.
WalletRead_NoLocalGate(kind, w) ==
    /\ server = "up"
    /\ <<kind, w>> \notin DOMAIN tx
    /\ SerialWallet => \A other \in {"fulfill", "reject"} : <<other, w>> \notin DOMAIN tx
    /\ withdraw[w].status = "Pending"
    /\ Enter(<<kind, w>>, "read")
    /\ UNCHANGED <<balance, cache, events, records, proj, job, server, faults>>

\* FulfillWithdraw and RejectWithdraw read the record and check it ...
WalletRead(kind, w) ==
    /\ server = "up"
    /\ <<kind, w>> \notin DOMAIN tx
    /\ SerialWallet => \A other \in {"fulfill", "reject"} : <<other, w>> \notin DOMAIN tx
    /\ withdraw[w].status = "Pending"
    /\ withdraw[w].local = "Processed"
    /\ Enter(<<kind, w>>, "read")
    /\ UNCHANGED <<balance, cache, events, records, proj, job, server, faults>>

\* ... and update it by id alone, without looking at its status again.
WalletWrite(kind, w) ==
    /\ Phase(<<kind, w>>, "read")
    /\ ~RowLocked({"fulfill", "reject"}, w)
    /\ Write(<<kind, w>>)

-----------------------------------------------------------------------------
(* Deposits and vestings.                                                  *)

\* processRelayAccountDepositTransfer: depositRelayAccount commits event and record ...
DepositCreate(d) ==
    /\ server = "up"
    /\ deposit[d] = "none"
    /\ events' = events \o <<WithStatus(EventsOf(<<"deposit", d>>)[1], "Pending")>>
    /\ deposit' = [deposit EXCEPT ![d] = "Pending"]
    /\ Enter(<<"deposit", d>>, "committed")
    /\ UNCHANGED <<balance, cache, task, withdraw, vesting, proj, job, server, faults>>

\* ... before it looks the account up in the cache and adds the amount.
DepositApply(d) ==
    /\ Phase(<<"deposit", d>>, "committed")
    /\ MuFree
    /\ cache' = Applied(Filled({Owner[d]}), <<"deposit", d>>)
    /\ Leave(<<"deposit", d>>)
    /\ UNCHANGED <<balance, events, records, proj, job, server, faults>>

\* CreateVestingRecords, for one record: no balance changes.
CreateVesting(v) ==
    /\ server = "up"
    /\ vesting[v].status = "none"
    /\ vesting' = [vesting EXCEPT ![v].status = "active"]
    /\ events' = events \o <<WithStatus(EventsOf(<<"vest", v>>)[1], "Pending")>>
    /\ UNCHANGED <<balance, cache, tx, task, withdraw, deposit, proj, job, server, faults>>

hasPendingVestingReleaseEvent ==
    \E i \in DOMAIN events : events[i].type = "VestingRelease" /\ events[i].status = "Pending"

Releasable(v) == vesting[v].status = "active" /\ ~vesting[v].slashed

\* Mutant: a run starts while releases of the last one wait to be projected.
ReleaseRun_NoPendingGuard ==
    /\ server = "up"
    /\ job = {}
    /\ job' = {v \in Vestings : Releasable(v)}
    /\ job' # {}
    /\ UNCHANGED <<balance, cache, events, tx, records, proj, server, faults>>

\* ProcessDueVestingReleases: the guard of a run and the records it lists.
ReleaseRun ==
    /\ server = "up"
    /\ job = {}
    /\ ~hasPendingVestingReleaseEvent
    /\ job' = {v \in Vestings : Releasable(v)}
    /\ job' # {}
    /\ UNCHANGED <<balance, cache, events, tx, records, proj, server, faults>>

ReleaseInFlight == \E op \in DOMAIN tx : op[1] = "release"

\* Mutant: the record is not read again under its lock.
Release_NoRecheck(v) ==
    /\ v \in job /\ ~ReleaseInFlight
    /\ vesting[v].status = "active"
    /\ \E to \in vesting[v].released + 1 .. Amount[v] :
          Write(<<"release", <<v, vesting[v].released, to>>>>)

\* processSingleVestingRelease: the record is read again, locked; the schedule
\* makes some amount above the released one due, or none.
Release(v) ==
    /\ v \in job /\ ~ReleaseInFlight
    /\ Releasable(v)
    /\ \E to \in vesting[v].released + 1 .. Amount[v] :
          Write(<<"release", <<v, vesting[v].released, to>>>>)

ReleaseNothing(v) ==
    /\ server = "up"
    /\ v \in job /\ ~ReleaseInFlight
    /\ job' = job \ {v}
    /\ UNCHANGED <<balance, cache, events, tx, records, proj, server, faults>>

\* One update of the records of address a, which waits for the lock of a release.
SetSlashed(a, V, slashed) ==
    /\ server = "up"
    /\ V # {}
    /\ ~\E op \in DOMAIN tx : op[1] = "release" /\ Owner[op[2][1]] = a
    /\ vesting' = [v \in Vestings |-> IF v \in V THEN [vesting[v] EXCEPT !.slashed = slashed] ELSE vesting[v]]
    /\ UNCHANGED <<balance, cache, events, tx, task, withdraw, deposit, proj, job, server, faults>>

SlashNodeVestings(a) == SetSlashed(a, {v \in Vestings : Owner[v] = a /\ Releasable(v)}, TRUE)
RestoreNodeVestings(a) == SetSlashed(a, {v \in Vestings : Owner[v] = a /\ vesting[v].slashed}, FALSE)

-----------------------------------------------------------------------------
(* The projector.                                                          *)

IdleProj == [pc |-> "idle", batch |-> <<>>, valid |-> <<>>, invalid |-> <<>>]
Serving == server \in {"up", "init"}
PendingEvents == SelectSeq(events, LAMBDA e : e.status = "Pending")

\* getPendingRelayAccountEvents.
LoadPending ==
    /\ Serving
    /\ proj.pc = "idle"
    /\ PendingEvents # <<>>
    /\ proj' = [IdleProj EXCEPT !.pc = "loaded",
                                !.batch = SubSeq(PendingEvents, 1, Min({BatchSize, Len(PendingEvents)}))]
    /\ UNCHANGED <<balance, cache, events, tx, records, job, server, faults>>

\* Whether the record an event is bound to supports it.  found: the deposits whose
\* transfer is on the chain.
Supported(e, found) ==
    CASE e.type = "Deposit" -> e.key \in found
      [] e.type = "TaskPayment" -> task[e.key] # "none"
      [] e.type \in {"TaskIncome", "DaoTaskShare"} -> task[e.key] = "paid"
      [] e.type = "TaskRefund" -> task[e.key] = "refunded"
      [] e.type \in {"Withdraw", "WithdrawRefund", "WithdrawFeeIncome"} -> withdraw[e.key].status # "none"
      [] e.type = "VestingCreated" -> vesting[e.key].status # "none"
      [] e.type = "VestingRelease" -> /\ e.key[3] - e.key[2] = e.amount /\ e.amount > 0
                                      /\ e.key[3] <= Amount[e.key[1]]
                                      /\ e.key[3] = vesting[e.key[1]].released

\* One iteration of validatePendingRelayAccountEvents' second loop over the batch.
ValidateEvent(acc, e, found) ==
    IF Supported(e, found) /\ (e.type \in Charges => At(acc.bal, e.addr) >= e.amount)
    THEN [acc EXCEPT !.bal = (e.addr :> (At(acc.bal, e.addr) + Delta(e))) @@ @, !.valid = Append(@, e)]
    ELSE [acc EXCEPT !.invalid = Append(@, e)]

validatePendingRelayAccountEvents(batch, found) ==
    FoldLeft(LAMBDA acc, e : ValidateEvent(acc, e, found),
             [bal |-> balance, valid |-> <<>>, invalid |-> <<>>], batch)

Validate ==
    /\ Serving
    /\ proj.pc = "loaded"
    /\ \E lost \in SUBSET (IF "reorg" \in FaultKinds THEN Deposits ELSE {}) :
          LET result == validatePendingRelayAccountEvents(proj.batch, Deposits \ lost)
          IN  proj' = [proj EXCEPT !.valid = result.valid, !.invalid = result.invalid,
                                   !.pc = IF result.invalid = <<>> THEN "apply" ELSE "events"]
    /\ UNCHANGED <<balance, cache, events, tx, records, job, server, faults>>

Among(e, es) == \E i \in DOMAIN es : SameReason(e, es[i])
Marked(es, s) == [i \in DOMAIN events |->
                    IF Among(events[i], es) THEN WithStatus(events[i], s) ELSE events[i]]
\* The records of one kind, bound to events es, whose local status is still Pending.
PendingWithdraws(es) == {w \in Withdraws : withdraw[w].local = "Pending" /\ Among(EventsOf(<<"withdraw", w>>)[1], es)}
PendingDeposits(es) == {d \in Deposits : deposit[d] = "Pending" /\ Among(EventsOf(<<"deposit", d>>)[1], es)}

SetWithdraws(W, s) == withdraw' = [w \in Withdraws |-> IF w \in W THEN [withdraw[w] EXCEPT !.local = s] ELSE withdraw[w]]
SetDeposits(D, s) == deposit' = [d \in Deposits |-> IF d \in D THEN s ELSE deposit[d]]

\* Mutant: refused events stay Pending.
MarkInvalidEvents_LeavesPending ==
    /\ Serving
    /\ proj.pc = "events"
    /\ UNCHANGED events
    /\ proj' = [proj EXCEPT !.pc = "withdraws"]
    /\ UNCHANGED <<balance, cache, tx, records, job, server, faults>>

\* Mutant: a refused deposit keeps its local status.
MarkInvalidDeposits_Skipped ==
    /\ Serving
    /\ proj.pc = "deposits"
    /\ UNCHANGED deposit
    /\ proj' = [proj EXCEPT !.pc = "apply"]
    /\ UNCHANGED <<balance, cache, events, tx, task, withdraw, vesting, job, server, faults>>

\* processPendingRelayAccountEvents marks the invalid events, their withdrawals and
\* their deposits in three updates that commit one by one ...
MarkInvalidEvents ==
    /\ Serving
    /\ proj.pc = "events"
    /\ events' = Marked(proj.invalid, "Invalid")
    /\ proj' = [proj EXCEPT !.pc = "withdraws"]
    /\ UNCHANGED <<balance, cache, tx, records, job, server, faults>>

MarkInvalidWithdraws ==
    /\ Serving
    /\ proj.pc = "withdraws"
    /\ SetWithdraws(PendingWithdraws(proj.invalid), "Invalid")
    /\ proj' = [proj EXCEPT !.pc = "deposits"]
    /\ UNCHANGED <<balance, cache, events, tx, task, deposit, vesting, job, server, faults>>

MarkInvalidDeposits ==
    /\ Serving
    /\ proj.pc = "deposits"
    /\ SetDeposits(PendingDeposits(proj.invalid), "Invalid")
    /\ proj' = [proj EXCEPT !.pc = "apply"]
    /\ UNCHANGED <<balance, cache, events, tx, task, withdraw, vesting, job, server, faults>>

\* Mutant: an address gets only the last of its deltas in a batch.
mergeRelayAccountEvents_KeepsLast(es) ==
    [a \in {es[i].addr : i \in DOMAIN es} |-> Delta(es[Max({i \in DOMAIN es : es[i].addr = a})])]

mergeRelayAccountEvents(es) ==
    [a \in {es[i].addr : i \in DOMAIN es} |-> SumDelta(es, a, LAMBDA e : TRUE)]

\* ... and the valid ones, their balances and records in one transaction.
ApplyBatch ==
    /\ Serving
    /\ proj.pc = "apply" /\ proj.valid # <<>>
    /\ LET merged == mergeRelayAccountEvents(proj.valid)
       IN  balance' = [a \in DOMAIN balance \cup DOMAIN merged |-> At(balance, a) + At(merged, a)]
    /\ events' = Marked(proj.valid, "Processed")
    /\ SetWithdraws(PendingWithdraws(proj.valid), "Processed")
    /\ SetDeposits(PendingDeposits(proj.valid), "Processed")
    /\ proj' = IdleProj
    /\ UNCHANGED <<cache, tx, task, vesting, job, server, faults>>

\* With no valid event left the transaction fails (an empty CASE), which ends the
\* round, and the process when it happens in InitRelayAccountCache.
ApplyNothing ==
    /\ Serving
    /\ proj.pc = "apply" /\ proj.valid = <<>>
    /\ proj' = IdleProj
    /\ server' = IF server = "init" THEN "down" ELSE server
    /\ UNCHANGED <<balance, cache, events, tx, records, job, faults>>

\* A query of the round fails: the rest of it is skipped.
ProjectorError ==
    /\ server = "up"
    /\ proj.pc # "idle"
    /\ "projector" \in FaultKinds /\ faults < MaxFaults
    /\ faults' = faults + 1
    /\ proj' = IdleProj
    /\ UNCHANGED <<balance, cache, events, tx, records, job, server>>

-----------------------------------------------------------------------------
(* Crash and restart.                                                      *)

Crash ==
    /\ server # "down"
    /\ "crash" \in FaultKinds /\ faults < MaxFaults
    /\ faults' = faults + 1
    /\ server' = "down"
    /\ cache' = <<>>
    /\ tx' = <<>>
    /\ events' = SelectSeq(events, LAMBDA e : e.status # "Open")
    /\ proj' = IdleProj
    /\ job' = {}
    /\ UNCHANGED <<balance, records>>

\* InitRelayAccountCache loads the cache from the rows, projects what is pending
\* (LoadPending ... ApplyBatch while server = "init"), and returns.
LoadCache ==
    /\ server = "down"
    /\ cache' = balance
    /\ server' = "init"
    /\ UNCHANGED <<balance, events, tx, records, proj, job, faults>>

InitDone ==
    /\ server = "init"
    /\ proj.pc = "idle" /\ PendingEvents = <<>>
    /\ server' = "up"
    /\ UNCHANGED <<balance, cache, events, tx, records, proj, job, faults>>

-----------------------------------------------------------------------------
Init ==
    /\ balance = InitialBalance /\ cache = InitialBalance
    /\ events = <<>> /\ tx = <<>>
    /\ task = [t \in Tasks |-> "none"]
    /\ withdraw = [w \in Withdraws |-> [status |-> "none", local |-> "none"]]
    /\ deposit = [d \in Deposits |-> "none"]
    /\ vesting = [v \in Vestings |-> [status |-> "none", released |-> 0, slashed |-> FALSE]]
    /\ proj = IdleProj /\ job = {} /\ server = "up" /\ faults = 0

Project ==
    \/ LoadPending \/ Validate \/ MarkInvalidEvents \/ MarkInvalidWithdraws \/ MarkInvalidDeposits
    \/ ApplyBatch \/ ApplyNothing

Next ==
    \/ \E t \in Tasks : \/ CreateTask(t) \/ CreateTaskCommit(t) \/ PostCommit(t)
                        \/ Settle("refund", t) \/ Settle("income", t) \/ Settle("slashRefund", t)
    \/ \E w \in Withdraws : \/ WithdrawCount(w) \/ WithdrawWrite(w)
                            \/ WalletRead("fulfill", w) \/ WalletRead("reject", w)
                            \/ WalletWrite("fulfill", w) \/ WalletWrite("reject", w)
    \/ \E d \in Deposits : DepositCreate(d) \/ DepositApply(d)
    \/ \E v \in Vestings : CreateVesting(v) \/ Release(v) \/ ReleaseNothing(v)
    \/ \E a \in Addr : SlashNodeVestings(a) \/ RestoreNodeVestings(a)
    \/ ReleaseRun
    \/ \E op \in DOMAIN tx : CommitFunc(op) \/ Commit(op) \/ Rollback(op)
    \/ Project \/ ProjectorError
    \/ Crash \/ LoadCache \/ InitDone

Spec == Init /\ [][Next]_vars

\* Only the background loops are fair: the projector, and an operator who restarts
\* a process that stopped.  Clients, the wallet and the vesting job promise nothing.
Fairness == WF_vars(Project) /\ WF_vars(LoadCache) /\ WF_vars(InitDone)
FairSpec == Spec /\ Fairness

-----------------------------------------------------------------------------
(* Properties.                                                             *)

EventType == {"TaskPayment", "TaskRefund", "TaskIncome", "DaoTaskShare", "Withdraw", "WithdrawRefund",
              "WithdrawFeeIncome", "Deposit", "VestingCreated", "VestingRelease"}
LocalStatus == {"none", "Pending", "Processed", "Invalid"}

\* Every table, the cache and the projector hold values of their Go types, balances are
\* never negative (BigInt would accept it, relay_accounts and the cache must not), and no
\* two events share a reason (the unique index every retry of a request relies on).
TypeOK ==
    /\ DOMAIN balance \subseteq Addr /\ \A a \in DOMAIN balance : balance[a] \in Nat
    /\ DOMAIN cache \subseteq Addr /\ \A a \in DOMAIN cache : cache[a] \in Nat
    /\ \A i \in DOMAIN events :
          /\ events[i].type \in EventType /\ events[i].addr \in Addr /\ events[i].amount \in Nat
          /\ events[i].status \in {"Open", "Pending", "Processed", "Invalid"}
          /\ \A j \in DOMAIN events : SameReason(events[i], events[j]) => i = j
    /\ \A op \in DOMAIN tx : tx[op] \in {"read", "written", "applied", "committed"}
    /\ task \in [Tasks -> {"none", "charged", "refunded", "paid"}]
    /\ withdraw \in [Withdraws -> [status : {"none", "Pending", "Success", "Failed"}, local : LocalStatus]]
    /\ deposit \in [Deposits -> LocalStatus]
    /\ \A v \in Vestings : /\ vesting[v].status \in {"none", "active", "completed"}
                           /\ vesting[v].released \in 0..Amount[v] /\ vesting[v].slashed \in BOOLEAN
    /\ proj.pc \in {"idle", "loaded", "events", "withdraws", "deposits", "apply"}
    /\ job \subseteq Vestings
    /\ server \in {"up", "init", "down"}
    /\ faults \in 0..MaxFaults

\* relay_accounts is the fold of the Processed events: whatever the order in which
\* requests commit, and whether the projector fails or the process dies between two
\* of its steps, an event is added exactly once, together with its status.
ProjectionIsLog ==
    \A a \in Addr : At(balance, a) = At(InitialBalance, a) + SumDelta(events, a, LAMBDA e : e.status = "Processed")

\* An event whose delta the cache must hold: its commitFunc has run.
InCache(e) ==
    IF e.status = "Open" THEN \E op \in DOMAIN tx : tx[op] = "applied" /\ WrittenBy(e, op)
    ELSE ~\E op \in DOMAIN tx : tx[op] = "committed" /\ WrittenBy(e, op)

\* The deposits of an address without a row at the start that are projected: the
\* lookup of such an address can find the row the projector made from them.
MayCountTwice(a) ==
    {d \in Deposits : Owner[d] = a /\ a \notin DOMAIN InitialBalance /\ deposit[d] = "Processed"}

\* As long as the process runs and no transaction fails after its commitFunc, the
\* cache holds the delta of every event, refused or not, whose commitFunc has run,
\* in whatever order commitFuncs, commits (before or after, as for a slash), misses
\* that read relay_accounts and projections happen.  It holds it exactly once, with
\* one exception: depositRelayAccount commits before it looks the account up, so a
\* deposit of an address that had no row may be read from its new row and then be
\* added again.  Nothing else is ever counted twice, and nothing is lost.
CacheFollowsLog ==
    faults = 0 =>
        \A a \in DOMAIN cache :
            \E D \in SUBSET MayCountTwice(a) :
                cache[a] = At(InitialBalance, a) + SumDelta(events, a, InCache)
                               + SumFunctionOnSet(Amount, D)

EventStatus(type, k) ==
    IF \E i \in DOMAIN events : events[i].type = type /\ events[i].key = k
    THEN (CHOOSE e \in {events[i] : i \in DOMAIN events} : e.type = type /\ e.key = k).status
    ELSE "none"

\* The wallet settles a withdrawal only after its charge is in relay_accounts, so no
\* payout and no refund is made for a charge the projector refused or never saw.  It
\* is either paid (fee income) or refunded, never both, because a wallet that has one
\* call for a withdrawal outstanding (SerialWallet) finds the status the last one set:
\* FulfillWithdraw and RejectWithdraw themselves read and update it without a lock.
WithdrawSettledOnce ==
    \A w \in Withdraws :
        /\ withdraw[w].status \in {"Success", "Failed"} => EventStatus("Withdraw", w) = "Processed"
        /\ EventStatus("WithdrawRefund", w) \in {"none", "Open"} \/ EventStatus("WithdrawFeeIncome", w) \in {"none", "Open"}

\* Between two rounds of the projector, the local status of a withdrawal or deposit
\* is the status of the event it is bound to, as long as no round was cut short
\* between the updates that mark an event and its record.
RecordsFollowEvents ==
    proj.pc = "idle" /\ faults = 0 =>
        /\ \A w \in Withdraws : withdraw[w].local # "none" => withdraw[w].local = EventStatus("Withdraw", w)
        /\ \A d \in Deposits : deposit[d] # "none" => deposit[d] = EventStatus("Deposit", d)

\* A vesting record's released amount is the sum of its release events, and the
\* projector accepts each of them: a later run never moves released_amount past an
\* event that still waits to be compared with it.
VestingReleasesStand ==
    \A v \in Vestings :
        LET I == {i \in DOMAIN events : events[i].type = "VestingRelease" /\ events[i].key[1] = v}
            C == {i \in I : events[i].status # "Open"}
        IN  /\ \A i \in I : events[i].status # "Invalid"
            /\ vesting[v].released = SumFunctionOnSet([i \in C |-> events[i].amount], C)

\* A slashed vesting record releases nothing, even to a run that listed it before.
SlashedReleasesNothing ==
    [][\A v \in Vestings : vesting[v].slashed => vesting'[v].released = vesting[v].released]_vars

HasPending(k) ==
    \E i \in DOMAIN events :
        /\ events[i].status = "Pending"
        /\ events[i].key = k \/ (events[i].type = "VestingRelease" /\ events[i].key[1] = k)

\* Every committed event is eventually projected or refused, also after crashes and
\* failed rounds, and however many refused events share its batch.
EventsSettle ==
    \A k \in Tasks \cup Withdraws \cup Deposits \cup Vestings : HasPending(k) ~> ~HasPending(k)

\* With no request in flight and nothing left to project, the cache agrees with
\* relay_accounts (GetCachedRelayAccountBalance: every balance mutation goes through
\* the cache, which was loaded with all accounts at startup).
QuiescentCacheAgrees ==
    server = "up" /\ tx = <<>> /\ proj.pc = "idle" /\ PendingEvents = <<>>
        => \A a \in DOMAIN cache : cache[a] = At(balance, a)

\* A task that was created is paid for: its TaskPayment reaches relay_accounts.
PaymentStands == \A t \in Tasks : EventStatus("TaskPayment", t) # "Invalid"

=============================================================================
