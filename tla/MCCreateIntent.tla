--------------------------- MODULE MCCreateIntent ---------------------------
(***************************************************************************)
(* Instances of CreateIntent.                                              *)
(***************************************************************************)
EXTENDS CreateIntent

CONSTANTS k1, k2, r1, r2, c1, item

\* k1 advertises the whole shop, any other key one product of it.
WholeShop == [k \in Keys |-> IF k = k1 THEN {} ELSE {item}]
=============================================================================
