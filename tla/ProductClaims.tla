--------------------------- MODULE ProductClaims ---------------------------
(***************************************************************************)
(* What the creation of campaigns promises.                                *)
(*                                                                         *)
(* A create request claims its products.  While the claim is open, no      *)
(* other request with a common product has one.  At most one campaign is   *)
(* made for a claim.  The claim ends as done, with its campaign, or as     *)
(* refused, without one, and stays ended.                                  *)
(***************************************************************************)
EXTENDS Naturals

CONSTANTS Keys, Clashes     \* pairs of keys with a common product

VARIABLES claim, made

claims == <<claim, made>>

ClaimInit ==
    /\ claim = [k \in Keys |-> "free"] /\ made = [k \in Keys |-> 0]

\* Nobody else's open claim has a product of k.
Claim(k) ==
    /\ claim[k] = "free"
    /\ \A l \in Keys \ {k} : claim[l] = "open" => <<k, l>> \notin Clashes
    /\ claim' = [claim EXCEPT ![k] = "open"] /\ UNCHANGED made

Make(k) ==
    /\ claim[k] = "open" /\ made[k] = 0
    /\ made' = [made EXCEPT ![k] = 1] /\ UNCHANGED claim

Finish(k) ==
    /\ claim[k] = "open" /\ made[k] = 1
    /\ claim' = [claim EXCEPT ![k] = "done"] /\ UNCHANGED made

Refuse(k) ==
    /\ claim[k] = "open" /\ made[k] = 0
    /\ claim' = [claim EXCEPT ![k] = "refused"] /\ UNCHANGED made

ClaimNext == \E k \in Keys : Claim(k) \/ Make(k) \/ Finish(k) \/ Refuse(k)

ClaimSpec == ClaimInit /\ [][ClaimNext]_claims

=============================================================================
