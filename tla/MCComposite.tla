------------------------------ MODULE MCComposite ------------------------------
(***************************************************************************)
(* Instances of the composites registry: who signs what over which pools.  *)
(* A schedule is written as a sequence of points, prices ascending.        *)
(***************************************************************************)
EXTENDS CompositeProperties

CONSTANTS u1, u2, u3, shop, usd, p1, p2

Pt(price, qty) == [price |-> price, qty |-> qty]

\* A signed mandate: pooled, or standalone with pool = NoPool.
Signed(user, maxAmount, expiry, pool, schedule) ==
  [user |-> user, merchant |-> shop, asset |-> usd, maxAmount |-> maxAmount,
   expiry |-> expiry, pool |-> pool, schedule |-> schedule]

AuctionOf(thresholdQty, thresholdValue, minChildValue, deadline) ==
  [merchant |-> shop, asset |-> usd, kind |-> "ThresholdFloor",
   thresholdQty |-> thresholdQty, thresholdValue |-> thresholdValue,
   minChildValue |-> minChildValue, deadline |-> deadline]

\* One pool of two bidders whose demands cross: at price 1 it moves three or
\* more units, at price 2 it reaches the value the shop asks for.
LifecyclePools == [p \in {p1} |-> AuctionOf(2, 4, 2, 1)]

LifecycleTerms ==
  {Signed(u1, 5, 4, p1, <<Pt(1, 3), Pt(2, 2)>>),
   Signed(u2, 2, 4, p1, <<Pt(2, 1)>>)}

\* Three users and two seats; one of u2's bids expires within the capture window
\* (the pool must turn it down), and a user may sign the same terms twice.  u1 may
\* pay once outside the pool, and commit with its sequence numbers used up.
MembershipTerms ==
  {Signed(u1, 9, 4, p1, <<Pt(1, 3), Pt(2, 2)>>),
   Signed(u2, 2, 4, p1, <<Pt(2, 1)>>),
   Signed(u2, 2, 2, p1, <<Pt(2, 1)>>),
   Signed(u3, 4, 4, p1, <<Pt(2, 2)>>)}

\* Two pools that close one after the other, and one user in both whose funds
\* cover a single leg; the payments of a standalone mandate draw on them too.
AuctionPools ==
  [p \in {p1, p2} |-> IF p = p1 THEN AuctionOf(1, 2, 0, 1) ELSE AuctionOf(2, 0, 2, 2)]

AuctionTerms ==
  {Signed(u1, 4, 4, p1, <<Pt(2, 2)>>),
   Signed(u1, 4, 4, p2, <<Pt(1, 3), Pt(2, 1)>>),
   Signed(u2, 2, 4, p2, <<Pt(1, 2)>>),
   Signed(u1, 2, 2, NoPool, << >>)}

MandateSymmetry == Permutations(Mandates)

================================================================================
