--------------------------- MODULE MCPauseIntent ---------------------------
(* Constants for the runs of PauseIntent: the cfg of each run chooses which *)
(* executions exist.                                                        *)
EXTENDS PauseIntent, TLC

CONSTANTS p1, p2, e1, w1, w2, g1, s1, i1, i2, i3

Kinds == [o \in Operators |-> IF o \in {p1, p2} THEN "pause" ELSE "enable"]

\* Alike: the two pauses, the control workers and the rows.
Symmetry ==
    Permutations({p1, p2}) \cup Permutations(Workers) \cup Permutations(Intents)

=============================================================================
