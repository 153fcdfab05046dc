------------------------------ MODULE MCTimelock -------------------------------
(***************************************************************************)
(* Instances of the timelock controllers.  An operation id is a number.    *)
(***************************************************************************)
EXTENDS TimelockController, TLC

CONSTANTS c1, safe, other, usd, v2, v3

\* An incident and a replacement: new code, the resumption that is to follow it,
\* a delisting, and the way back to an account.
TimelockActions ==
  (1 :> [kind |-> "Upgrade", hash |-> v3]) @@
  (2 :> [kind |-> "Unpause"]) @@
  (3 :> [kind |-> "AssetPolicy", asset |-> usd, permit |-> FALSE]) @@
  (4 :> TransferOf(safe))

TimelockOrder == (1 :> 0) @@ (2 :> 1) @@ (3 :> 0) @@ (4 :> 0)

================================================================================
