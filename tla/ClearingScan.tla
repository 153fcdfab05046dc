----------------------------- MODULE ClearingScan ------------------------------
(***************************************************************************)
(* The search of PriceScan over the children of a pool: which inputs are   *)
(* the aggregates of real schedules, and that what the search finds for    *)
(* them is what Clear, the definition the pool model uses, defines.        *)
(***************************************************************************)
EXTENDS PriceScan, Clearing

\* The input is what clear computes from the eligible children inp.kids: their
\* prices, sorted and without duplicates, and their totals at each price.
BuiltFromSchedules(inp) ==
  /\ IsFiniteSet(DOMAIN inp.kids)
  /\ \A k \in DOMAIN inp.kids : ValidSchedule(inp.kids[k])
  /\ inp.feeBps \in 0..BpsDenom
  /\ {inp.breakpoints[i] : i \in 1..Len(inp.breakpoints)} = Breakpoints(inp.kids)
  /\ \A p \in 1..LastPrice(inp) :
       /\ inp.qty[p] = TotalQty(inp.kids, p)
       /\ inp.net[p] = NetValue(inp.kids, p, inp.feeBps)

ASSUME InputsAreBuilt == \A inp \in Inputs : BuiltFromSchedules(inp)

\* The search returns the price that Clear, the definition the pool model
\* uses, gives for the same children (clearing.rs 35-106 as one function).
ScanImplementsClear ==
  pc = "done" =>
    LET outcome == Clear(input.kids, input.thresholdQty,
                         input.thresholdValue, input.feeBps)
    IN  price = outcome.price /\ (price # 0) = outcome.fires

================================================================================
