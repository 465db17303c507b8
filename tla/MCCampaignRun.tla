----------------------------- MODULE MCCampaignRun -----------------------------
(* One campaign run by two executors, and two campaigns that list the same  *)
(* contacts in opposite orders.                                             *)
EXTENDS CampaignRun, TLC

CONSTANTS c1, c2, k1, k2, k3, x1, x2

OneCampaign == [x \in {x1, x2} |-> c1]
OnePosition == (c1 :> (k1 :> 1 @@ k2 :> 2 @@ k3 :> 3))
TwoPosition == (c1 :> (k1 :> 1 @@ k2 :> 2 @@ k3 :> 3)) @@ (c2 :> (k3 :> 1 @@ k2 :> 2 @@ k1 :> 3))
TwoCampaigns == (x1 :> c1) @@ (x2 :> c2)

(* Two executors of one campaign differ in nothing; the contacts differ in  *)
(* their positions.                                                         *)
EqualExecutors == Permutations({x1, x2})
================================================================================
