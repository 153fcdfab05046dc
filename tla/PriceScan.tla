------------------------------ MODULE PriceScan --------------------------------
(***************************************************************************)
(* The search of clearing::clear, loop iteration by loop iteration: the    *)
(* ascending scan of the schedule breakpoints and, in the first interval   *)
(* (prev, b] whose breakpoint meets both thresholds, the binary search for *)
(* the least price that still meets the value threshold.                   *)
(*                                                                         *)
(* The search reads the eligible children only through the ascending list  *)
(* of breakpoints, the aggregate quantity and the aggregate net value at a *)
(* price, so an input holds those.  DemandShape is what the schedules give *)
(* the search: quantity is constant and net value never falls on (prev, b] *)
(* (clearing.rs 8-16); PriceScan_proofs proves it for those of schedules.  *)
(***************************************************************************)
EXTENDS Integers, Sequences

CONSTANT Inputs

LastPrice(inp) == inp.breakpoints[Len(inp.breakpoints)]

Prev(inp, i) == IF i = 1 THEN 0 ELSE inp.breakpoints[i-1]

Interval(inp, i) == (Prev(inp, i) + 1)..inp.breakpoints[i]

WellFormed(inp) ==
  /\ inp.breakpoints \in Seq(Nat \ {0})
  /\ inp.breakpoints # << >>
  /\ \A i, j \in 1..Len(inp.breakpoints) :
        i < j => inp.breakpoints[i] < inp.breakpoints[j]
  /\ inp.qty \in [1..LastPrice(inp) -> Nat]
  /\ inp.net \in [1..LastPrice(inp) -> Int]
  /\ inp.thresholdQty \in Nat
  /\ inp.thresholdValue \in Nat

DemandShape(inp) ==
  \A i \in 1..Len(inp.breakpoints) : \A p, q \in Interval(inp, i) :
     /\ inp.qty[p] = inp.qty[q]
     /\ p <= q => inp.net[p] <= inp.net[q]

ASSUME InputsAssumption ==
  \A inp \in Inputs : WellFormed(inp) /\ DemandShape(inp)

VARIABLES input,   \* the eligible children and the thresholds of the pool
          idx,     \* index of the breakpoint `b' the for loop is at
          lo, hi,  \* bounds of the binary search
          pc,      \* "scan" | "bisect" | "done"
          price    \* the clearing price returned; 0 stands for no_fire

vars == <<input, idx, lo, hi, pc, price>>

Init ==
  /\ input \in Inputs
  /\ idx = 1 /\ lo = 0 /\ hi = 0
  /\ pc = "scan"
  /\ price = 0

MeetsValue(p) == input.net[p] >= input.thresholdValue

\* Mutant: the quantity threshold is not tested at the breakpoint.
BreakpointFiresOnValue(b) == MeetsValue(b)

BreakpointFires(b) ==
  /\ input.qty[b] >= input.thresholdQty
  /\ MeetsValue(b)

\* Mutant: the least price of the interval is left out of the search.
SearchFromSecond == Prev(input, idx) + 2

SearchFrom == Prev(input, idx) + 1

\* One iteration of the for loop that does not return.
SkipBreakpoint ==
  /\ pc = "scan"
  /\ idx <= Len(input.breakpoints)
  /\ ~BreakpointFires(input.breakpoints[idx])
  /\ idx' = idx + 1
  /\ UNCHANGED <<input, lo, hi, pc, price>>

\* The first breakpoint that meets both thresholds: start the binary search.
EnterInterval ==
  /\ pc = "scan"
  /\ idx <= Len(input.breakpoints)
  /\ BreakpointFires(input.breakpoints[idx])
  /\ lo' = SearchFrom
  /\ hi' = input.breakpoints[idx]
  /\ pc' = "bisect"
  /\ UNCHANGED <<input, idx, price>>

\* The breakpoints are exhausted: no_fire.
NoBreakpointFires ==
  /\ pc = "scan"
  /\ idx > Len(input.breakpoints)
  /\ pc' = "done"
  /\ UNCHANGED <<input, idx, lo, hi, price>>

Mid == lo + ((hi - lo) \div 2)

\* Mutant: the lower half keeps `mid', so the interval stops shrinking.
AboveMidStuck == Mid

AboveMid == Mid + 1

\* One iteration of the while loop.
Bisect ==
  /\ pc = "bisect"
  /\ lo < hi
  /\ IF MeetsValue(Mid) THEN hi' = Mid /\ lo' = lo
                        ELSE lo' = AboveMid /\ hi' = hi
  /\ UNCHANGED <<input, idx, pc, price>>

Found ==
  /\ pc = "bisect"
  /\ lo >= hi
  /\ price' = lo
  /\ pc' = "done"
  /\ UNCHANGED <<input, idx, lo, hi>>

Next == \/ SkipBreakpoint \/ EnterInterval \/ NoBreakpointFires
        \/ Bisect \/ Found

Spec == Init /\ [][Next]_vars

\* The search runs to its end in one host call: nothing can stop it between
\* two iterations, so a step that is possible is taken.
FairSpec == Spec /\ WF_vars(Next)

--------------------------------------------------------------------------------

TypeOK ==
  /\ WellFormed(input)
  /\ idx \in 1..(Len(input.breakpoints) + 1)
  /\ lo \in Nat /\ hi \in Nat
  /\ pc \in {"scan", "bisect", "done"}
  /\ price \in 0..LastPrice(input)

Feasible(inp, p) ==
  /\ inp.qty[p] >= inp.thresholdQty
  /\ inp.net[p] >= inp.thresholdValue

\* The answer is the globally least feasible price, over every price of the
\* auction and not only those of the interval it was found in; the pool does
\* not fire only if no price is feasible (clearing.rs 8-16, 82-105).
LeastFeasiblePrice ==
  pc = "done" =>
    \/ /\ price = 0
       /\ \A p \in 1..LastPrice(input) : ~Feasible(input, p)
    \/ /\ price \in 1..LastPrice(input)
       /\ Feasible(input, price)
       /\ \A p \in 1..(price - 1) : ~Feasible(input, p)

\* The inductive invariant: every price up to the end of the intervals already
\* skipped is infeasible; while the binary search runs, hi is feasible and
\* every price below lo is not.
ScanInv ==
  /\ TypeOK
  /\ DemandShape(input)
  /\ LeastFeasiblePrice
  /\ pc = "scan" =>
       /\ price = 0
       /\ \A p \in 1..Prev(input, idx) : ~Feasible(input, p)
  /\ pc = "bisect" =>
       /\ price = 0
       /\ idx \in 1..Len(input.breakpoints)
       /\ {lo, hi} \subseteq Interval(input, idx)
       /\ lo <= hi
       /\ Feasible(input, hi)
       /\ \A p \in 1..(lo - 1) : ~Feasible(input, p)

\* The search terminates: clear_pool always gets an outcome to act on
\* (the `while lo < hi' loop of clearing.rs 93-100 always shrinks).
SearchTerminates == <>(pc = "done")

================================================================================
