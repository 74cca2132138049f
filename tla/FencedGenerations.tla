------------------------- MODULE FencedGenerations -------------------------
(***************************************************************************)
(* What the lease rows of an account promise, without Redis, row locks,    *)
(* expiry or crashes: ownership is a sequence of generations, each newer   *)
(* than all before it, and only the newest generation ever writes facts.   *)
(* MutationLease implements it with generation[a] as the fencing token of  *)
(* the row of account a.                                                   *)
(***************************************************************************)
EXTENDS Naturals

CONSTANT Accounts

VARIABLES
    generation,     \* [Accounts -> the newest generation granted]
    written         \* [Accounts -> the generation that wrote last]

Init ==
    /\ generation = [a \in Accounts |-> 0]
    /\ written = [a \in Accounts |-> 0]

Grant(a) ==
    /\ generation' = [generation EXCEPT ![a] = @ + 1]
    /\ UNCHANGED written

Write(a) ==
    /\ written' = [written EXCEPT ![a] = generation[a]]
    /\ UNCHANGED generation

Next == \E a \in Accounts : Grant(a) \/ Write(a)

Spec == Init /\ [][Next]_<<generation, written>>

=============================================================================
