----------------------------- MODULE MCPriceScan -------------------------------
(***************************************************************************)
(* Inputs of PriceScan built from every pool of one or two schedules over  *)
(* a few prices, with gaps between them wide enough for the binary search  *)
(* to take several steps.  TLC evaluates the assumptions on the inputs of  *)
(* the search for each of them.                                            *)
(***************************************************************************)
EXTENDS ClearingScan

CONSTANTS Prices, ThresholdQtys, ThresholdValues, FeeRates, MaxKids

Schedules ==
  {s \in UNION {[1..n -> Point] : n \in 1..MaxSchedulePoints} :
      ValidSchedule(s) /\ \A i \in DOMAIN s : s[i].price \in Prices}

KidSets == UNION {[1..n -> Schedules] : n \in 1..MaxKids}

Ascending(S) == CHOOSE seq \in [1..Cardinality(S) -> S] :
                  \A i \in 1..(Cardinality(S) - 1) : seq[i] < seq[i+1]

InputOf(kids, tq, tv, fee) ==
  LET top == Max(Breakpoints(kids))
  IN  [breakpoints |-> Ascending(Breakpoints(kids)),
       qty |-> [p \in 1..top |-> TotalQty(kids, p)],
       net |-> [p \in 1..top |-> NetValue(kids, p, fee)],
       thresholdQty |-> tq, thresholdValue |-> tv,
       kids |-> kids, feeBps |-> fee]

MCInputs == {InputOf(kids, tq, tv, fee) : kids \in KidSets,
               tq \in ThresholdQtys, tv \in ThresholdValues, fee \in FeeRates}

================================================================================
