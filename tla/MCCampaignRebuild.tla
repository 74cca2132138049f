------------------------- MODULE MCCampaignRebuild -------------------------
(***************************************************************************)
(* Instances of CampaignRebuild.                                           *)
(***************************************************************************)
EXTENDS CampaignRebuild

CONSTANTS k1, g1, c1

WholeShop == [k \in Keys |-> {}]
=============================================================================
