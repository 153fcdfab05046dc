------------------------------ MODULE DemandCurve ------------------------------
(***************************************************************************)
(* The price schedule of a pooled mandate, read as a demand curve          *)
(* (composites mandate.rs).  A schedule is a sequence of points            *)
(* [price, qty]: "at a uniform clearing price <= price, buy up to qty".    *)
(***************************************************************************)
EXTENDS Integers, Sequences, FiniteSets

CONSTANTS MaxSchedulePoints,  \* MAX_SCHEDULE_POINTS (8 in the code)
          MaxUnitPrice,       \* MAX_UNIT_PRICE (1e15 in the code)
          MaxQty              \* MAX_QTY (1e9 in the code)

ASSUME ScheduleBounds ==
  /\ MaxSchedulePoints \in Nat \ {0}
  /\ MaxUnitPrice \in Nat \ {0}
  /\ MaxQty \in Nat \ {0}

Point == [price : 1..MaxUnitPrice, qty : 1..MaxQty]

\* Register-time gate: prices strictly ascend, quantities strictly descend.
ValidSchedule(s) ==
  /\ s \in Seq(Point)
  /\ Len(s) \in 1..MaxSchedulePoints
  /\ \A i \in 1..(Len(s) - 1) : /\ s[i].price < s[i+1].price
                                /\ s[i].qty > s[i+1].qty

\* The first entry whose price covers p; 0 when p exceeds every entry.
Demand(s, p) ==
  LET covering == {i \in DOMAIN s : s[i].price >= p}
  IN  IF covering = {} THEN 0
      ELSE s[CHOOSE i \in covering : \A j \in covering : i <= j].qty

\* The largest leg any clearing price can produce; 0 for an empty schedule.
WorstCase(s) ==
  LET legs == {s[i].price * s[i].qty : i \in DOMAIN s}
  IN  IF legs = {} THEN 0
      ELSE CHOOSE w \in legs : \A leg \in legs : leg <= w

================================================================================
