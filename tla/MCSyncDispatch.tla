--------------------------- MODULE MCSyncDispatch ---------------------------
(***************************************************************************)
(* Instances of SyncDispatch.                                              *)
(***************************************************************************)
EXTENDS SyncDispatch, TLC

CONSTANTS a, b, v, w, key

\* All requests have the same key.
OneKey == [q \in Requests |-> key]

\* Requests of one kind with one key may be exchanged, and workers.
Twins == Permutations(Requests) \cup Permutations(Workers)
=============================================================================
