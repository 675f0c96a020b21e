--------------------------- MODULE MCRelayAccount ---------------------------
(* Instances of RelayAccount for TLC.                                       *)
EXTENDS RelayAccount

CONSTANTS u, n, d, t1, t2, w1, d1, d2, v1

MCAddr == {u, n, d}
OneTask == {t1}
TwoTasks == {t1, t2}
OneWithdraw == {w1}
OneDeposit == {d1}
DaoDeposit == {d2}
OneVesting == {v1}
MCCreator == [t \in Tasks |-> u]
MCNode == [t \in Tasks |-> n]
\* The node spends what it earned: t2 is created by the node of t1.
ChainCreator == [t \in Tasks |-> IF t = t1 THEN u ELSE n]
MCOwner == [i \in Withdraws \cup Deposits \cup Vestings |-> IF i = d2 THEN d ELSE u]
MCBenefit == [w \in Withdraws |-> u]
MCAmount == [i \in Withdraws \cup Deposits \cup Vestings |-> IF i \in Vestings THEN 2 ELSE 1]
\* d has no row: its first credit, an income or the deposit d2, misses the cache.
Rows == [a \in {u, n} |-> IF a = u THEN 3 ELSE 1]
=============================================================================
