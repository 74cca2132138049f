--------------------------- MODULE MCAccountPool ---------------------------
(***************************************************************************)
(* Instances of AccountPool.                                               *)
(***************************************************************************)
EXTENDS AccountPool

CONSTANTS t1, t2, a1, a2, p1

OneLane == [a \in Accounts |-> "lane"]

\* Either a second account or a second task, which no user starts again.
PoolInit ==
    /\ Init /\ pc[t1] = "queued" /\ row[a1].use = "on"
    /\ pc[t2] = "left" <=> row[a2].use = "on"

PoolNext == Next /\ (pc[t2] = "left" => pc'[t2] = "left")

PoolSpec == PoolInit /\ [][PoolNext]_vars /\ Fairness

=============================================================================
