------------------------------- MODULE MCLegacy -------------------------------
(***************************************************************************)
(* Instances of the legacy registry on a ledger with archival.             *)
(***************************************************************************)
EXTENDS LegacyRegistry

CONSTANTS u1, u2, shop, usd, p1

Pt(price, qty) == [price |-> price, qty |-> qty]

Signed(user, maxAmount, expiry, schedule) ==
  [user |-> user, merchant |-> shop, asset |-> usd, maxAmount |-> maxAmount,
   expiry |-> expiry, pool |-> p1, schedule |-> schedule]

\* One pool, open from the first second to the seventh: long enough for what
\* the horizon adds to the standard extension to matter.
LongPools ==
  [p \in {p1} |->
     [merchant |-> shop, asset |-> usd, kind |-> "ThresholdFloor",
      thresholdQty |-> 1, thresholdValue |-> 2, minChildValue |-> 0,
      deadline |-> 6]]

LongTerms ==
  {Signed(u1, 3, 9, <<Pt(1, 3), Pt(2, 1)>>), Signed(u2, 2, 9, <<Pt(2, 1)>>)}

================================================================================
