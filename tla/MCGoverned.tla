------------------------------- MODULE MCGoverned -------------------------------
(***************************************************************************)
(* Instances of the V2 registry under a controller: one mandate, and an    *)
(* operation for each way in which a stop may end.                         *)
(***************************************************************************)
EXTENDS GovernedRegistry, TLC

CONSTANTS c1, safe, usd, v2, v3, u1, shop, k1

GovernedTerms ==
  {[user |-> u1, merchant |-> shop, asset |-> usd, maxAmount |-> 1, expiry |-> 1,
    credential |-> k1]}

LiftingActions ==
  (1 :> [kind |-> "Upgrade", hash |-> v3]) @@
  (2 :> [kind |-> "Unpause"]) @@
  (3 :> [kind |-> "AssetPolicy", asset |-> usd, permit |-> TRUE]) @@
  (4 :> [kind |-> "TransferAdmin", newAdmin |-> safe])

NoOrder == [op \in 1..4 |-> NoOperation]

================================================================================
