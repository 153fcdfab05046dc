------------------------------- MODULE Clearing --------------------------------
(***************************************************************************)
(* The pure clearing function of a ThresholdFloor pool (composites         *)
(* clearing.rs).  `kids' is a function from the ids of the eligible        *)
(* children to their schedules; the mandate_id order the code sorts them   *)
(* into decides only the order of the allocation list, so a function from  *)
(* id to quantity stands for that list.                                    *)
(*                                                                         *)
(* Clear states what the scan of clearing.rs finds; PriceScan.tla models   *)
(* the scan and its binary search step by step and shows that they find it *)
(***************************************************************************)
EXTENDS DemandCurve, FiniteSetsExt

CONSTANT BpsDenom      \* BPS_DENOM (10_000 in the code)

ASSUME BpsDenomPositive == BpsDenom \in Nat \ {0}

NoFire == [fires |-> FALSE, price |-> 0, alloc |-> << >>]

Breakpoints(kids) ==
  UNION {{kids[k][i].price : i \in DOMAIN kids[k]} : k \in DOMAIN kids}

TotalQty(kids, p) ==
  MapThenSumSet(LAMBDA k : Demand(kids[k], p), DOMAIN kids)

\* Floored, so that the merchant's leg and the fee add up to the gross leg.
FeeOf(leg, feeBps) == (leg * feeBps) \div BpsDenom

NetLeg(schedule, p, feeBps) ==
  LET leg == p * Demand(schedule, p) IN leg - FeeOf(leg, feeBps)

NetValue(kids, p, feeBps) ==
  MapThenSumSet(LAMBDA k : NetLeg(kids[k], p, feeBps), DOMAIN kids)

\* The allocation list at price p: children with a positive quantity only.
Allocation(kids, p) ==
  [k \in {c \in DOMAIN kids : Demand(kids[c], p) > 0} |-> Demand(kids[k], p)]

OutcomeAt(kids, p) ==
  [fires |-> TRUE, price |-> p, alloc |-> Allocation(kids, p)]

\* Breakpoints at which both thresholds are met, tested at the breakpoint itself.
FiringBreakpoints(kids, thresholdQty, thresholdValue, feeBps) ==
  {b \in Breakpoints(kids) : /\ TotalQty(kids, b) >= thresholdQty
                             /\ NetValue(kids, b, feeBps) >= thresholdValue}

Clear(kids, thresholdQty, thresholdValue, feeBps) ==
  LET firing == FiringBreakpoints(kids, thresholdQty, thresholdValue, feeBps)
      b      == Min(firing)
      prev   == Max({0} \union {c \in Breakpoints(kids) : c < b})
      price  == Min({p \in (prev + 1)..b :
                        NetValue(kids, p, feeBps) >= thresholdValue})
  IN  IF firing = {} THEN NoFire ELSE OutcomeAt(kids, price)

\* Reference: the prices at which every threshold is met, at whatever price.
FeasiblePrices(kids, thresholdQty, thresholdValue, feeBps) ==
  {p \in 1..MaxUnitPrice : /\ TotalQty(kids, p) >= thresholdQty
                           /\ NetValue(kids, p, feeBps) >= thresholdValue
                           /\ \E k \in DOMAIN kids : Demand(kids[k], p) > 0}

================================================================================
