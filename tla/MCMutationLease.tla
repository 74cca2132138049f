-------------------------- MODULE MCMutationLease --------------------------
(* Constants for the runs of MutationLease: the cfg of each run chooses     *)
(* which of the executions exist.                                           *)
EXTENDS MutationLease

CONSTANTS c1, m1, m2, s1, acct, other

OneAccount == [e \in Mutations \cup Syncs |-> acct]

\* The cycle's mutation works on another account than everything else.
TwoAccounts == [e \in Mutations \cup Syncs |-> IF e = m1 THEN other ELSE acct]

\* m1 runs inside cycle c1, any other mutation is an operator's.
FirstNested == [e \in Mutations |-> IF e = m1 THEN c1 ELSE Nobody]
NoneNested == [e \in Mutations |-> Nobody]

\* m1 meets either another mutation or a sync, never both: the two pairs in
\* one run.
PairsNext == Next /\ (pc'[m2] = "idle" \/ pc'[s1] = "idle")

PairsSpec ==
    /\ Init /\ [][PairsNext]_vars
    /\ \A e \in Execs : WF_vars(Progress(e)) /\ WF_vars(GiveUpRedisKey(e))

=============================================================================
