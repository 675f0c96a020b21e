# Verification of the Crynux relay

The relay (`src/`, Go over MySQL) coordinates inference tasks between creators
and nodes, holds the creators' money in relay accounts, and settles every task
fee. This directory holds its TLA+ models, the TLC configurations that check them
and the TLAPS proofs about them.

## 1. The system

| Component | State | Operations | Correct when |
|---|---|---|---|
| Task lifecycle (`service/task_status.go`, `start_task.go`, `api/v1/inference_tasks/`) | `inference_tasks` rows: status, selected node, abort reason, TaskID, deadline | create, start, submit score, report error, validate, upload result, abort, time out | a terminal status is final, one path ends a task, every task ends |
| Group validation (`service/validate_task.go`) | the three rows of a group | compare scores, settle all three in one transaction | a group is settled together or not at all, an expired group never |
| Node lifecycle (`service/node.go`, `api/v1/nodes/`, `api/v2/nodes/join.go`) | `nodes` rows: status, current task | join, quit, pause, resume, start and finish a task, kickout | current task and status agree, a pending quit or pause is honoured |
| Slashing (`service/node.go`, `slash_evidence.go`, `api/v2/admin/`) | `pending_slashes`, evidence | slash at once, or later by an administrator | the slashed node's task ends and is refunded in the same transaction |
| Relay account ledger (`service/relay_account.go`) | `relay_account_events`, `relay_accounts`, the in-memory cache | charge, refund, pay, deposit, project events | the cache is what events and balances say, each event is projected once |
| Withdrawals (`service/withdraw.go`) | `withdraw_records` | request, fulfil, reject | a withdrawal is paid out or refunded, never both |
| Chain processing (`service/blockchain_processor.go`) | block cursor per network | deposits, staking and slash events | reprocessing a block changes nothing |
| Transaction manager (`blockchain/transaction_*.go`) | `blockchain_transactions`, nonce | send, confirm, retry | a transaction takes effect once |
| Delegated slash jobs (`service/delegated_slash_recovery.go`) | `delegated_slash_jobs` | send the next batch, recover | every delegator is slashed once |
| Node index (`service/node_index.go`) | slots with locks, in memory | refresh, remove, snapshot | an entry is never older than the committed row |
| Matching (`service/task_matching.go`) | candidate set, reservations | match, start pairs | a task starts on one node, a node with one task |
| Vesting (`service/vesting.go`) | `vesting_records` | create, release, slash, restore | what is released is credited once |

The components meet in the database. A request handler reads a task and a node,
then runs one transaction whose updates are conditional on the status it read
(`UPDATE ... WHERE status = ?`); the transaction also inserts the relay account
events and the events of the public stream. Several goroutines do so at the same
time: the HTTP handlers, the matching loop, the timeout processor, the chain
processors and the administrators' requests. What is hard is therefore what
happens between a read and the conditional update based on it (races, stale
rows, status ABA), the two-second timeout processor racing with everybody else,
groups of three tasks that must be settled together, and a ledger whose
authority at run time is a cache in memory. `PROJECT.json` lists these hazards
with the lines where they bite.

## 2. Modules

| Module | Models |
|---|---|
| `GroupDecision` | statuses, abort reasons, and the decision of `ValidateTaskGroup` on two or three finished tasks |
| `TaskLifecycle` | tasks, nodes, pending slashes, task ledger events and the goroutines that move them |
| `MCTaskLifecycle` | constants and symmetry for TLC |
| `RelayAccount` | the ledger: events, projected balances, the cache, requests in flight, withdrawals, deposits, vestings, the projector, crash and restart |
| `MCRelayAccount` | its instances |
| `FeeSettlement`, `MCFeeSettlement` | the arithmetic of group payments and of the split of a payment |
| `TaskTypes_proofs`, `TaskMoves_proofs`, `TaskLifecycle_proofs`, `TaskSettlement_proofs` | the theorems, each extending the one before |

### TaskLifecycle

`task`, `node` and `pending` are the rows of three tables, restricted to the
columns the control flow depends on. `ledger[t]` is the set of kinds of relay
account events recorded for a task: the reason column is unique, so an event is
recorded once or its transaction fails. `TaskIncome`, `DaoTaskShare` and
`UserDelegation` are always inserted together and are the one kind `Income`.
`ended[t]` counts terminal events of the public stream. `req[p]` is what goroutine
`p` holds in memory: the row it read, possibly out of date.

A handler is three steps: `GetTask` (the read of the row), `checkTaskSelectedNode`
(the read of the node and, for an upload, of the group whose payments are
computed) and the transaction (`SetTaskStatus...`), whose conditional updates are
`TaskUnchanged` and `NodeUnchanged`. If a condition fails, `StatusChanged` is the
retry: it reloads the status only (`SyncStatus`) or, for the timeout processor, the
row. `GiveUp` is every error returned to the caller. `ValidateTaskGroup` locks its rows
with `SELECT ... FOR UPDATE` and is one step. Node requests are `GetNode` followed
by `UpdateNodeStatus` or `SlashNode`: `quit.go`, `pause.go`, `resume.go` and
`delegated_slash.go` all read the node before they take its lock. The per-node lock
itself is left out; it only removes interleavings, and the results below show that
the conditions are enough without it.

Abstractions: scores are the relation `compareTaskScore` computes; QoS and health
only matter through permanent kickout, a nondeterministic choice; commitments are
the constant `TaskID`. `Sampled` is the tasks whose own seed selects them for group
validation: `ValidateSingleTask` refuses these, and `ValidateTaskGroup` needs one of
them, which in the code is the first created of the group and here any member.
`SingleRequests` is the tasks whose creators ask for validation alone. Deadlines are a flag saying
that the deadline column is set, and a task with a deadline may time out at any
moment. `TaskParametersUploaded` is left out because no code assigns it.

### RelayAccount

`events` is `relay_account_events` in id order, `balance` is `relay_accounts`, and
`cache` is `relayAccountCache.accounts`; the two balances are functions on the
addresses that have an entry, because a cache miss and a missing row behave
differently from zero. A request is a pair of kind and key, which is also the
unique reason of its events; `tx` holds the requests in flight and their phase:
`read`, `written` (events inserted with status `Open`, seen by nobody else),
`applied` (its `commitFunc` has changed the cache, uncommitted) and `committed` (its
events are committed, its `commitFunc` has not run). `Write`, `CommitFunc` and
`Commit` are the common shape of refunds, incomes, withdrawals, their settlement and
vesting releases. There are three exceptions. `CreateTask` holds the cache's lock
over its whole transaction (`MuFree`). A deposit commits its event before it looks
its account up in the cache. The refund of the task a slashed node was running
(`slashRefund`) is looked up in the transaction, but its `commitFunc` is handed out
of it and runs after the commit (`PostCommit`, `service/node.go:378` and `438`).
`Rollback` is every failure: before
`commitFunc` it has no effect, after it the cache keeps the delta.

The projector is the program counter `proj.pc`: load a batch in id order, validate
it, mark the invalid events, their withdrawals and their deposits (three updates
that commit one by one), and apply the valid ones in one transaction. A batch
without a valid event builds the SQL text `CASE END`, so its transaction fails;
in `InitRelayAccountCache` that error ends the process (`ApplyNothing`). A
deposit whose transfer is no longer on the chain is refused (`reorg`).

Abstractions: the income of a task goes to its node and the DAO (the group split is
in `FeeSettlement`); fee tiers are one fee; the model spans one UTC day; a vesting
schedule makes any larger amount due; the first, unlocked look of a withdrawal at
its balance is a data race and may see anything, so only the check in its
`commitFunc` counts; a cache miss inside a transaction reads the current row, where
MySQL may show the transaction an older one. `FaultKinds` and `MaxFaults` bound
crashes, late rollbacks and failed rounds.

### FeeSettlement

A group of up to three payable tasks with fees and QoS scores, one setting of
DAO percentage, delegator share and stakes, then `ComputePayments` and one
`sendTaskIncome` per payment. The rest of a delegator pool goes to the first
delegator of a Go map, hence to any of them.

## 3. Runs

| Run | Instance | Shows |
|---|---|---|
| `races` | 2 tasks, 1 node, 2 API goroutines and the timer; every request but pause and resume | rows agree, one terminal event, one settlement, terminal is final, also under the node slash that acts on a stale row |
| `group` | a group of 3, one of them selected, on 3 nodes, 1 goroutine and the timer, slash at once | the same for groups, and expiry excludes validation |
| `pending_slash` | a group of 3, one of them selected, and a fourth task on 3 nodes, passive mode | slashing a node ends and refunds what it is running |
| `liveness` | 2 tasks, 1 node, 1 goroutine and the timer, every request but the node slash | a running task keeps its node, every task ends, a pending quit ends |
| `ledger` | 1 task (its node may be slashed), 1 withdrawal, 1 deposit of an address without a row that may vanish, 1 fault of any kind, batches of 2 | balances are the sum of projected events, the cache of all events until a fault (that first deposit once or twice), nothing is negative; a withdrawal is settled once and after its charge; records follow events |
| `vesting` | 1 vesting, 1 deposit of an address with a row that may vanish, 2 crashes or failed rounds, batches of 1 | the cache is the sum of all events until a fault, no release is refused, a slashed record releases nothing, every event is projected or refused |
| `fees` | fees 0, 1, 7, 100; DAO 0, 5, 100 %; share 0, 33 %; up to 3 delegators and tasks | a payment is divided without loss and by stake; a group gets at least its fee |
| `orphan_by_node_slash` | 2 tasks, 1 node, 2 goroutines and the timer | violation, see below |
| `shared_task_id` | a selected task and the two added to it, on 1 node, the two validated alone | violation, see below |
| `cache_restart` | 1 task and a crash | violation, see below |
| `uncommitted_income` | 2 tasks, the node of the first creates the second | violation, see below |
| `group_total` | a group of up to 3 | violation, see below |

Two tasks on one node are the smallest instance in which a node's current task
can change under a handler that read it (the status ABA), and two goroutines
beside the timer put three writers on one row. Groups have exactly three
members. A fourth task is what a node may be running when it is slashed for an
earlier one. The proofs below remove these bounds for safety. Deadlock is not
checked: when all tasks have ended and all nodes have quit the relay waits.
In `group` and `pending_slash` the members of the group are validated with it only;
`shared_task_id` shows what the code does otherwise.
The ledger instances have three addresses: a creator, a node, and the DAO, which
has no row at first so that a credit can miss the cache. In `ledger` the deposit is
the DAO's, so that a first deposit meets the projector; in `vesting` it is made by
an address with a row, where the cache has to be exact. Amounts are chosen so that
the creator can afford some requests but not all, so a sufficiency check can succeed
and fail. A batch of two with three pending events splits related events over rounds;
a batch of one puts a refused event alone in its round.

In `RelayAccount` only the projector's loop and the restart are fair; clients, the
wallet and the vesting job promise nothing. `SerialWallet` is TRUE because the
wallet handles its records one after another
(`docs/deposit_withdraw_and_risk_control.md:228`); the relay's own code does not
enforce it, since both settlements read the record without a lock. The half of
`WithdrawSettledOnce` that says "never both" rests on this.

Fairness of `TaskLifecycle`: the timeout processor ends each attempt, because each of
its database calls has a timeout, and its two-second loop with a cursor over due
deadlines comes back to each due task for ever; an attempt may fail any finite
number of times. Strong fairness is needed because other handlers may keep moving
a task while the processor looks elsewhere. Nothing is assumed of creators, nodes and
matching. The run has no groups and no node slash: a task that a slash has orphaned
(below) never ends.

### Findings

* **A slash can orphan a task.** `TriggerNodeSlash` reads the node before taking
  its lock. If the node finishes that task and starts another in between, its
  status is `Busy` again, the conditional update succeeds, and the new current task
  is cleared without being ended. Its timeouts then fail for ever, contrary to
  the comment at `service/task_status.go:617`. `HeldCorrect` proves that this request
  is the only way to get there.
* **Tasks of a group validated alone are not paid.** A creator adds two tasks with
  the same TaskID to a selected one. Each has its own seed, so nothing keeps the
  creator from having the two validated alone. Upload takes the group to be all
  rows with the TaskID and pays only the group statuses: once a second of these
  tasks has its TaskID written, by its validation or by the abort of the error it
  reported, the next to deliver ends as `TaskEndGroupSuccess` and nobody receives its
  fee (`docs/task_fee_charge_and_settlement.md:93`). When both are validated before
  an upload, that is already the first to deliver. `LedgerCorrect` is proved under
  the hypothesis that creators do not do this (`CreatorsFollowProtocol`).
* **The cache can disagree with the balances for good.** After a restart it lacks the
  events that were pending at the crash (`cache_restart`), against the comment at
  `service/relay_account.go:1135`. The same follows when a transaction fails after
  its `commitFunc`, and `CacheFollowsLog` is claimed only until such a fault.
* **Income can be spent before it is committed** (`uncommitted_income`): the task it
  paid for runs, and the projector then refuses its payment.
* **A group is paid more than its fee** (`group_total`): the remainders of the divisions by the
  total score are added to the last payment as an amount
  (`docs/task_fee_charge_and_settlement.md:138`).

More behaviours are in the models and limit what the properties say: a round
of the projector that fails between marking an event and marking its record leaves
the record `Pending` (`RecordsFollowEvents` is claimed only until a fault); the first
deposit of an address without a row may enter the cache twice (`CacheFollowsLog`
allows this one delta, `MayCountTwice`, and no other); two wallet calls at once may pay
and refund one withdrawal (excluded by `SerialWallet`); the daily withdrawal limit is a count and a later insert, so it is
not stated as a property.

## 4. Proofs

All theorems hold for every set of tasks, nodes and goroutines. The only
assumption on the constants is `ConstantsAssumption`.

| Theorem | States |
|---|---|
| `TypeCorrect`, `CurrentTaskCorrect` | `Spec => []TypeOK`, `[]CurrentTaskIsRunning` |
| `TerminalCorrect`, `TerminalEventCorrect` | `Spec => TerminalIsFinal`, `[]OneTerminalEvent` |
| `HeldCorrect` | without `TriggerNodeSlash` among the requests, `Spec => []RunningTaskIsHeld` |
| `LedgerCorrect`, `ExpiredCorrect` | `CreatorsFollowProtocol /\ Spec => []LedgerContract`, `[]ExpiredGroupStaysUnvalidated` |

`CreatorsFollowProtocol` is a hypothesis of the last two theorems, because the relay
does not enforce it: a task validated alone shares its TaskID with no other task, and
the tasks of a group share theirs with nobody else
(`docs/task_validation_and_slashing.md:55`). It says nothing about which members
their seeds select, so it covers the ordinary group of one selected and two added
tasks. Without it both conclusions fail: `shared_task_id` is the counterexample to
the first, and a member validated alone after another's expiry is one to the second.

The conditional updates compare statuses only, so what matters is what a handler
may still rely on when its condition succeeds. `Inv` states it: `StaleRequest(r)`
says of a row read earlier what no other handler can falsify, for instance that
the selected node in memory is still the selected node, and that the status an
upload holds is the task's status unless the task has ended. With
`CurrentTaskIsRunning` and `SelectedNodeInv` it is inductive.

The argument is in two stages. `TaskMoves_proofs` classifies every step as one of a
few *moves* (create, start, advance, end one task, settle a group, change a node)
and shows that all moves are monotone: a terminal row and a selected node stay. The
other modules then prove each property once per move instead of once per action.
`TaskSettlement_proofs` adds `GroupInv` (the members of a group are settled
together, at most one goes on to deliver) and `PaymentInv` (payments computed from an
earlier read are still the right ones when the transaction commits), from which
the ledger contract follows.

`RelayAccount` and `FeeSettlement` are model-checked only so far; sums over the event
log need induction over data, which the installed provers cannot do. Liveness is
outside the prover's reach and is model-checked only, as is the
orphan-free behaviour of the administrators' node slash, which is false.

## 5. Plan

1. `TransactionManager`, then `DelegatedSlash` on top of it: at most one effect per
   job in spite of polls, late receipts and retries.
2. `NodeIndex`: slots, locks and refreshes against the committed row.
3. `ChainCursor`: repeated blocks, idempotence of the handlers.
4. `CachePool`: the cache's lock against a bounded connection pool.
5. An abstract specification of settlement (a fee is charged once and settled once)
   that `TaskLifecycle` implements, and one of the ledger (a bank whose balances
   change by committed events) that `RelayAccount` implements without faults.
6. Proofs: type correctness of `RelayAccount`, that the projection is the log,
   that withdrawals are settled once, and the refinements of 5.

Not planned: floating-point code (QoS decay, pricing, calibration, selection
probabilities), which TLC cannot evaluate; statistics, charts, history cleanup
and tracing, which only read or delete; authentication, routing, configuration
and migrations, which have no protocol of their own.
