--------------------------- MODULE FeeSettlement ---------------------------
(***************************************************************************)
(* How a successful task's fee is divided: SetTaskStatusEndSuccess          *)
(* (src/service/task_status.go) splits the fee of a validation group over   *)
(* its valid tasks by QoS score, and sendTaskIncome                         *)
(* (src/service/relay_account.go) splits each payment between the DAO, the  *)
(* node operator and the node's delegators.  All of it is integer           *)
(* arithmetic on big.Int amounts: divisions round down.                     *)
(***************************************************************************)
EXTENDS Naturals, Sequences, FiniteSets, Functions

CONSTANTS
    Fees,        \* task fees
    Percents,    \* dao.task_fee_share_percent
    Shares,      \* delegator_share of a node
    Delegators,
    Stakes       \* amounts a delegator may have staked

ASSUME FeeAssumption ==
    /\ Fees \subseteq Nat /\ Stakes \subseteq Nat \ {0}
    /\ Percents \subseteq 0..100 /\ Shares \subseteq 0..100
    /\ IsFiniteSet(Delegators)

\* TASK_SCORE_REWARDS: the score of the first, second and third to finish.
TaskScores == {10, 5, 2}

VARIABLES
    tasks,     \* the paid tasks: their fee and QoS score, in the order of the query
    node,      \* the DAO percentage, and a node's delegator share and delegations
    payments,  \* the payments computed so far
    incomes    \* the split of each payment already sent

vars == <<tasks, node, payments, incomes>>

Sum(f) == SumFunction(f)

-----------------------------------------------------------------------------
(* SetTaskStatusEndSuccess.                                                *)

totalScore == Sum([i \in DOMAIN tasks |-> tasks[i].qos])
Weighted(i) == tasks[i].fee * tasks[i].qos
totalRem == Sum([i \in DOMAIN tasks |-> Weighted(i) % totalScore])

\* Mutant: the remainders are dropped.
GroupPayment_NoRemainder(i) == (Weighted(i) \div totalScore)

\* The remainders of all tasks go to the last one.
GroupPayment(i) == (Weighted(i) \div totalScore) + (IF i = Len(tasks) THEN totalRem ELSE 0)

ComputePayments ==
    /\ payments = <<>>
    /\ payments' = IF Len(tasks) = 1 THEN <<tasks[1].fee>>
                   ELSE [i \in DOMAIN tasks |-> GroupPayment(i)]
    /\ UNCHANGED <<tasks, node, incomes>>

-----------------------------------------------------------------------------
(* sendTaskIncome.                                                         *)

daoTaskShare(amount) == (amount * node.percent) \div 100
nodeIncomeBeforeDelegation(amount) == amount - daoTaskShare(amount)

\* Delegators share only when the node has a delegator share and delegations.
Shared == node.share > 0 /\ node.stakes # <<>>
totalDelegatorFee(amount) ==
    IF Shared THEN (nodeIncomeBeforeDelegation(amount) * node.share) \div 100 ELSE 0
nodeIncome(amount) == nodeIncomeBeforeDelegation(amount) - totalDelegatorFee(amount)

\* A delegator's part of the pool, by stake.
DelegatorFee(amount, x) == (totalDelegatorFee(amount) * node.stakes[x]) \div Sum(node.stakes)

\* Mutant: the rest of the pool is not given to anyone.
DelegatorFees_NoRemainder(amount, first) ==
    LET fees == [x \in DOMAIN node.stakes |-> DelegatorFee(amount, x)]
    IN  fees

\* Mutant: the pool is divided by heads, not by stake.
DelegatorFees_Equal(amount, first) ==
    LET fees == [x \in DOMAIN node.stakes |-> totalDelegatorFee(amount) \div Cardinality(DOMAIN node.stakes)]
    IN  [fees EXCEPT ![first] = @ + (totalDelegatorFee(amount) - Sum(fees))]

\* userDelegatorFees: what rounding leaves goes to the first delegator, in the
\* order of a Go map, so to any of them.
DelegatorFees(amount, first) ==
    LET fees == [x \in DOMAIN node.stakes |-> DelegatorFee(amount, x)]
    IN  [fees EXCEPT ![first] = @ + (totalDelegatorFee(amount) - Sum(fees))]

Income(amount, fees) == [dao |-> daoTaskShare(amount), operator |-> nodeIncome(amount), delegators |-> fees]

sendTaskIncome ==
    /\ Len(incomes) < Len(payments)
    /\ LET amount == payments[Len(incomes) + 1]
       IN  IF Shared
           THEN \E first \in DOMAIN node.stakes :
                    incomes' = Append(incomes, Income(amount, DelegatorFees(amount, first)))
           ELSE incomes' = Append(incomes, Income(amount, <<>>))
    /\ UNCHANGED <<tasks, node, payments>>

-----------------------------------------------------------------------------
TaskRow == [fee : Fees, qos : TaskScores]
\* A group's valid tasks finished in different places, so their scores differ.
Groups == UNION {{s \in [1..k -> TaskRow] : \A i, j \in 1..k : s[i].qos = s[j].qos => i = j} : k \in 1..3}
Delegations == UNION {[D -> Stakes] : D \in SUBSET Delegators}

Init ==
    /\ tasks \in Groups
    /\ node \in [percent : Percents, share : Shares, stakes : Delegations]
    /\ payments = <<>> /\ incomes = <<>>

Next == ComputePayments \/ sendTaskIncome

Spec == Init /\ [][Next]_vars

-----------------------------------------------------------------------------
(* Properties.                                                             *)

\* A sent payment is divided without loss: DAO, operator and delegators together
\* get exactly the payment, and rounding never makes a part negative.
SplitIsExact ==
    \A i \in DOMAIN incomes :
        /\ incomes[i].operator \in Nat
        /\ \A x \in DOMAIN incomes[i].delegators : incomes[i].delegators[x] \in Nat
        /\ incomes[i].dao + incomes[i].operator + Sum(incomes[i].delegators) = payments[i]

\* Every delegator gets the pool's share of its stake rounded down, and at most
\* one of them more, by less than the number of delegators.
DelegatorsShareByStake ==
    \A i \in DOMAIN incomes :
        LET got == incomes[i].delegators
            extra(x) == got[x] - DelegatorFee(payments[i], x)
            lucky == {x \in DOMAIN got : got[x] # DelegatorFee(payments[i], x)}
        IN  Cardinality(lucky) <= 1 /\ \A x \in lucky : extra(x) \in 1..(Cardinality(DOMAIN got) - 1)

EqualFees == \A i, j \in DOMAIN tasks : tasks[i].fee = tasks[j].fee

\* A group is never paid less than the one fee its creator is left charged for.
GroupNotUnderpaid == EqualFees /\ payments # <<>> => Sum(payments) >= tasks[1].fee

\* The payments of a group add up to that fee (docs/task_fee_charge_and_settlement.md).
GroupTotalPreserved == EqualFees /\ payments # <<>> => Sum(payments) = tasks[1].fee

=============================================================================
