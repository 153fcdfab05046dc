--------------------------- MODULE PriceScan_proofs ----------------------------
(***************************************************************************)
(* The price found by the search of clearing.rs is the globally least      *)
(* feasible one, for every list of breakpoints and every pair of           *)
(* thresholds whose quantity and net value have the shape DemandShape; the *)
(* schedules a registry accepts give that shape, and for them the search   *)
(* computes Clear.  No iteration waits, and each brings the search nearer  *)
(* its end.                                                                *)
(***************************************************************************)
EXTENDS ClearingScan, Clearing_proofs

\* The midpoint of a non-empty, unfinished search interval lies in it, below
\* its upper end.
LEMMA MidInside ==
  ASSUME NEW l \in Nat, NEW h \in Nat, l < h
  PROVE  /\ l + ((h - l) \div 2) \in Nat
         /\ l <= l + ((h - l) \div 2)
         /\ l + ((h - l) \div 2) < h
  OBVIOUS

\* Every interval of a well-formed input lies inside the price range, and the
\* intervals are stacked one on top of the other.
LEMMA IntervalBounds ==
  ASSUME NEW inp, WellFormed(inp), NEW j \in 1..Len(inp.breakpoints)
  PROVE  /\ inp.breakpoints[j] \in Nat \ {0}
         /\ Prev(inp, j) \in Nat
         /\ Prev(inp, j) < inp.breakpoints[j]
         /\ inp.breakpoints[j] <= LastPrice(inp)
         /\ LastPrice(inp) \in Nat
        /\ Interval(inp, j) \subseteq 1..LastPrice(inp)
  <1>1. Len(inp.breakpoints) \in Nat /\ inp.breakpoints \in Seq(Nat \ {0})
    BY DEF WellFormed
  <1>2. \A k \in 1..Len(inp.breakpoints) : inp.breakpoints[k] \in Nat \ {0}
    BY <1>1
  <1>3. LastPrice(inp) \in Nat \ {0}
    BY <1>1, <1>2 DEF LastPrice
  <1>4. inp.breakpoints[j] <= LastPrice(inp)
    <2>1. CASE j = Len(inp.breakpoints)
      BY <2>1, <1>3 DEF LastPrice
    <2>2. CASE j < Len(inp.breakpoints)
      <3>1. Len(inp.breakpoints) \in 1..Len(inp.breakpoints)
        BY <1>1, <2>2
      <3>2. inp.breakpoints[j] < inp.breakpoints[Len(inp.breakpoints)]
        BY <2>2, <3>1 DEF WellFormed
      <3> QED BY <3>1, <3>2, <1>2 DEF LastPrice
    <2> QED BY <2>1, <2>2, <1>1
  <1>5. Prev(inp, j) \in Nat /\ Prev(inp, j) < inp.breakpoints[j]
    <2>1. CASE j = 1
      BY <2>1, <1>2 DEF Prev
    <2>2. CASE j # 1
      <3>1. j - 1 \in 1..Len(inp.breakpoints) /\ j - 1 < j
        BY <2>2, <1>1
      <3>2. inp.breakpoints[j-1] < inp.breakpoints[j]
        BY <3>1 DEF WellFormed
      <3> QED BY <3>1, <3>2, <2>2, <1>2 DEF Prev
    <2> QED BY <2>1, <2>2
  <1> QED BY <1>2, <1>3, <1>4, <1>5 DEF Interval

\* Infeasibility at a breakpoint is infeasibility of its whole interval.
LEMMA IntervalInfeasible ==
  ASSUME NEW inp, WellFormed(inp), DemandShape(inp),
         NEW j \in 1..Len(inp.breakpoints),
         ~Feasible(inp, inp.breakpoints[j]),
         NEW p \in Interval(inp, j)
  PROVE  ~Feasible(inp, p)
  <1> DEFINE b == inp.breakpoints[j]
  <1>1. b \in Interval(inp, j) /\ p <= b /\ p \in 1..LastPrice(inp) /\ b \in 1..LastPrice(inp)
    BY IntervalBounds DEF Interval
  <1>2. inp.qty[p] = inp.qty[b] /\ inp.net[p] <= inp.net[b]
    BY <1>1 DEF DemandShape
  <1>3. /\ inp.qty[p] \in Nat /\ inp.net[p] \in Int /\ inp.net[b] \in Int
        /\ inp.thresholdValue \in Nat
    BY <1>1 DEF WellFormed
  <1> QED BY <1>2, <1>3 DEF Feasible

LEMMA ScanInvInit == Init => ScanInv
  <1> SUFFICES ASSUME Init PROVE ScanInv
    OBVIOUS
  <1>1. WellFormed(input) /\ DemandShape(input)
    BY InputsAssumption DEF Init
  <1>2. Len(input.breakpoints) \in Nat /\ LastPrice(input) \in Nat
    <2>1. 1 \in 1..Len(input.breakpoints)
      BY <1>1 DEF WellFormed
    <2> QED BY <2>1, <1>1, IntervalBounds DEF WellFormed, LastPrice
  <1>3. TypeOK
    BY <1>1, <1>2 DEF Init, TypeOK
  <1> QED BY <1>1, <1>3 DEF Init, ScanInv, LeastFeasiblePrice, Prev

\* Skipping a breakpoint rules out its whole interval.
LEMMA SkipBreakpointPreserves == ScanInv /\ SkipBreakpoint => ScanInv'
  <1> SUFFICES ASSUME ScanInv, SkipBreakpoint PROVE ScanInv'
    OBVIOUS
  <1>1. /\ WellFormed(input) /\ DemandShape(input)
        /\ idx \in 1..Len(input.breakpoints) /\ Len(input.breakpoints) \in Nat
    <2>1. WellFormed(input) /\ DemandShape(input)
      BY DEF ScanInv, TypeOK
    <2>2. Len(input.breakpoints) \in Nat
      BY <2>1 DEF WellFormed
    <2>3. idx \in 1..(Len(input.breakpoints) + 1) /\ idx <= Len(input.breakpoints)
      BY DEF ScanInv, TypeOK, SkipBreakpoint
    <2> QED BY <2>1, <2>2, <2>3
  <1>2. ~Feasible(input, input.breakpoints[idx])
    BY DEF SkipBreakpoint, BreakpointFires, MeetsValue, Feasible
  <1>3. \A p \in Interval(input, idx) : ~Feasible(input, p)
    BY <1>1, <1>2, IntervalInfeasible
  <1>4. \A p \in 1..input.breakpoints[idx] : ~Feasible(input, p)
    <2> SUFFICES ASSUME NEW p \in 1..input.breakpoints[idx]
                 PROVE  ~Feasible(input, p)
      OBVIOUS
    <2>1. CASE p <= Prev(input, idx)
      BY <2>1, <1>1, IntervalBounds DEF ScanInv, SkipBreakpoint
    <2>2. CASE p > Prev(input, idx)
      BY <2>2, <1>1, <1>3, IntervalBounds DEF Interval
    <2> QED BY <2>1, <2>2, <1>1, IntervalBounds
  <1>5. Prev(input, idx + 1) = input.breakpoints[idx]
    BY <1>1 DEF Prev
  <1>6. TypeOK'
    BY <1>1 DEF ScanInv, TypeOK, SkipBreakpoint
  <1> QED BY <1>1, <1>4, <1>5, <1>6
          DEF ScanInv, SkipBreakpoint, LeastFeasiblePrice

\* The interval entered holds a feasible price, its upper end.
LEMMA EnterIntervalPreserves == ScanInv /\ EnterInterval => ScanInv'
  <1> SUFFICES ASSUME ScanInv, EnterInterval PROVE ScanInv'
    OBVIOUS
  <1> DEFINE b == input.breakpoints[idx]
  <1>1. /\ WellFormed(input) /\ DemandShape(input)
        /\ idx \in 1..Len(input.breakpoints) /\ Len(input.breakpoints) \in Nat
    <2>1. WellFormed(input) /\ DemandShape(input)
      BY DEF ScanInv, TypeOK
    <2>2. Len(input.breakpoints) \in Nat
      BY <2>1 DEF WellFormed
    <2>3. idx \in 1..(Len(input.breakpoints) + 1) /\ idx <= Len(input.breakpoints)
      BY DEF ScanInv, TypeOK, EnterInterval
    <2> QED BY <2>1, <2>2, <2>3
  <1>2. /\ Prev(input, idx) \in Nat /\ b \in Nat /\ Prev(input, idx) < b
        /\ {Prev(input, idx) + 1, b} \subseteq Interval(input, idx)
    BY <1>1, IntervalBounds DEF Interval
  <1>3. Feasible(input, b)
    BY DEF EnterInterval, BreakpointFires, MeetsValue, Feasible
  <1>4. \A p \in 1..Prev(input, idx) : ~Feasible(input, p)
    BY DEF ScanInv, EnterInterval
  <1>5. TypeOK'
    BY <1>1, <1>2 DEF ScanInv, TypeOK, EnterInterval, SearchFrom
  <1>6. lo' - 1 = Prev(input, idx) /\ lo' <= hi'
    BY <1>2 DEF EnterInterval, SearchFrom
  <1> QED BY <1>1, <1>2, <1>3, <1>4, <1>5, <1>6
          DEF ScanInv, EnterInterval, SearchFrom, LeastFeasiblePrice

\* Past the last breakpoint every price has been ruled out.
LEMMA NoBreakpointFiresPreserves == ScanInv /\ NoBreakpointFires => ScanInv'
  <1> SUFFICES ASSUME ScanInv, NoBreakpointFires PROVE ScanInv'
    OBVIOUS
  <1>1. WellFormed(input) /\ Len(input.breakpoints) \in Nat \ {0}
    <2>1. WellFormed(input)
      BY DEF ScanInv, TypeOK
    <2>2. input.breakpoints \in Seq(Nat \ {0}) /\ input.breakpoints # << >>
      BY <2>1 DEF WellFormed
    <2> QED BY <2>1, <2>2
  <1>2. idx = Len(input.breakpoints) + 1
    BY <1>1 DEF ScanInv, TypeOK, NoBreakpointFires
  <1>3. Prev(input, idx) = LastPrice(input)
    BY <1>1, <1>2 DEF Prev, LastPrice
  <1>4. TypeOK'
    BY DEF ScanInv, TypeOK, NoBreakpointFires
  <1> QED BY <1>3, <1>4 DEF ScanInv, NoBreakpointFires, LeastFeasiblePrice

\* Halving the search interval keeps a feasible upper end, and rules out every
\* price it drops from below: net value does not fall inside the interval.
LEMMA BisectPreserves == ScanInv /\ Bisect => ScanInv'
  <1> SUFFICES ASSUME ScanInv, Bisect PROVE ScanInv'
    OBVIOUS
  <1>1. /\ WellFormed(input) /\ DemandShape(input)
        /\ idx \in 1..Len(input.breakpoints)
        /\ lo \in Interval(input, idx) /\ hi \in Interval(input, idx) /\ lo < hi
        /\ Feasible(input, hi)
        /\ lo \in Nat /\ hi \in Nat
        /\ \A p \in 1..(lo - 1) : ~Feasible(input, p)
    BY DEF ScanInv, TypeOK, Bisect
  <1>2. Mid \in Nat /\ lo <= Mid /\ Mid < hi
    BY <1>1, MidInside DEF Mid
  <1>3. /\ Mid \in Interval(input, idx) /\ Mid + 1 \in Interval(input, idx)
        /\ Prev(input, idx) \in Nat
    BY <1>1, <1>2, IntervalBounds DEF Interval
  <1>4. TypeOK'
    BY <1>2 DEF ScanInv, TypeOK, Bisect, AboveMid
  <1>5. CASE MeetsValue(Mid)
    <2>1. input.qty[Mid] = input.qty[hi]
      BY <1>1, <1>3 DEF DemandShape
    <2>2. Feasible(input, Mid)
      BY <2>1, <1>1, <1>5 DEF Feasible, MeetsValue
    <2>3. hi' = Mid /\ lo' = lo
      BY <1>5 DEF Bisect
    <2> QED BY <2>2, <2>3, <1>1, <1>2, <1>3, <1>4
            DEF ScanInv, Bisect, LeastFeasiblePrice
  <1>6. CASE ~MeetsValue(Mid)
    <2>1. lo' = Mid + 1 /\ hi' = hi
      BY <1>6 DEF Bisect, AboveMid
    <2>2. \A p \in 1..Mid : ~Feasible(input, p)
      <3> SUFFICES ASSUME NEW p \in 1..Mid PROVE ~Feasible(input, p)
        OBVIOUS
      <3>1. CASE p < lo
        BY <3>1, <1>1
      <3>2. CASE p >= lo
        <4>1. p \in Interval(input, idx) /\ p <= Mid
          BY <3>2, <1>1, <1>2, <1>3, IntervalBounds DEF Interval
        <4>2. input.net[p] <= input.net[Mid]
          BY <4>1, <1>1, <1>3 DEF DemandShape
        <4>3. /\ p \in 1..LastPrice(input) /\ Mid \in 1..LastPrice(input)
          BY <4>1, <1>1, <1>3, IntervalBounds
        <4>4. /\ input.net[p] \in Int /\ input.net[Mid] \in Int
              /\ input.thresholdValue \in Nat
          BY <4>3, <1>1 DEF WellFormed
        <4> QED BY <4>2, <4>4, <1>6 DEF MeetsValue, Feasible
      <3> QED BY <3>1, <3>2, <1>1
    <2>3. lo' - 1 = Mid /\ lo' <= hi'
      BY <2>1, <1>1, <1>2
    <2> QED BY <2>1, <2>2, <2>3, <1>1, <1>3, <1>4
            DEF ScanInv, Bisect, LeastFeasiblePrice
  <1> QED BY <1>5, <1>6

\* A search interval of one price is the answer.
LEMMA FoundPreserves == ScanInv /\ Found => ScanInv'
  <1> SUFFICES ASSUME ScanInv, Found PROVE ScanInv'
    OBVIOUS
  <1>1. /\ WellFormed(input) /\ idx \in 1..Len(input.breakpoints)
        /\ lo \in Interval(input, idx)
        /\ lo \in Nat /\ hi \in Nat /\ lo = hi
        /\ Feasible(input, lo)
        /\ \A p \in 1..(lo - 1) : ~Feasible(input, p)
    BY DEF ScanInv, TypeOK, Found
  <1>2. lo \in 1..LastPrice(input) /\ LastPrice(input) \in Nat
    BY <1>1, IntervalBounds
  <1>3. TypeOK'
    BY <1>2 DEF ScanInv, TypeOK, Found
  <1>4. LeastFeasiblePrice'
    BY <1>1, <1>2 DEF Found, LeastFeasiblePrice
  <1> QED BY <1>3, <1>4 DEF ScanInv, Found

\* Every step of the search preserves the inductive invariant.
LEMMA ScanInvStep == ScanInv /\ [Next]_vars => ScanInv'
  <1> SUFFICES ASSUME ScanInv, [Next]_vars PROVE ScanInv'
    OBVIOUS
  <1>1. CASE Next
    BY <1>1, SkipBreakpointPreserves, EnterIntervalPreserves,
       NoBreakpointFiresPreserves, BisectPreserves, FoundPreserves DEF Next
  <1>2. CASE UNCHANGED vars
    BY <1>2 DEF vars, ScanInv, TypeOK, LeastFeasiblePrice
  <1> QED BY <1>1, <1>2

\* The inductive invariant holds throughout the search.
THEOREM ScanInvariant == Spec => []ScanInv
  <1> QED BY ScanInvInit, ScanInvStep, PTL DEF Spec

\* The search of clearing::clear returns the globally least feasible price, and
\* no_fire only when no price is feasible, for every admissible input.
THEOREM ScanIsCorrect == Spec => [](TypeOK /\ LeastFeasiblePrice)
  <1>1. ScanInv => TypeOK /\ LeastFeasiblePrice
    BY DEF ScanInv
  <1> QED BY <1>1, ScanInvariant, PTL

--------------------------------------------------------------------------------
\* Termination, but for the induction over the rank, which is temporal.

\* A bound on the iterations left: one for each breakpoint still to be tested,
\* and one for each price the binary search may still discard.
StepsLeft ==
  IF pc = "scan" THEN LastPrice(input) + 2 + (Len(input.breakpoints) + 1 - idx)
  ELSE IF pc = "bisect" THEN hi - lo + 1
  ELSE 0

\* Every iteration brings the end of the search closer, and an iteration of the
\* binary search at least halves what is left of the interval.
ShrinkingStep ==
  /\ StepsLeft \in Nat /\ StepsLeft' \in Nat
  /\ StepsLeft' < StepsLeft
  /\ pc = "bisect" /\ pc' = "bisect" => hi' - lo' <= (hi - lo) \div 2

SearchShrinks == [][ShrinkingStep]_vars

LEMMA StepsLeftTyped == ScanInv => StepsLeft \in Nat /\ (StepsLeft = 0 <=> pc = "done")
  <1> SUFFICES ASSUME ScanInv PROVE StepsLeft \in Nat /\ (StepsLeft = 0 <=> pc = "done")
    OBVIOUS
  <1>1. /\ WellFormed(input) /\ idx \in 1..(Len(input.breakpoints) + 1)
        /\ lo \in Nat /\ hi \in Nat /\ pc \in {"scan", "bisect", "done"}
        /\ pc = "bisect" => lo <= hi
    BY DEF ScanInv, TypeOK
  <1>2. Len(input.breakpoints) \in Nat /\ LastPrice(input) \in Nat
    <2>1. Len(input.breakpoints) \in 1..Len(input.breakpoints)
      BY <1>1 DEF WellFormed
    <2> QED BY <2>1, <1>1, IntervalBounds
  <1> QED BY <1>1, <1>2 DEF StepsLeft

LEMMA StepsLeftTypedNext == ScanInv' => (StepsLeft \in Nat)'
  BY StepsLeftTyped, PTL

LEMMA StepShrinks == ScanInv /\ Next => ShrinkingStep
  <1> SUFFICES ASSUME ScanInv, Next PROVE ShrinkingStep
    OBVIOUS
  <1>0. ScanInv'
    BY ScanInvStep
  <1>1. StepsLeft \in Nat /\ StepsLeft' \in Nat
    BY <1>0, StepsLeftTyped, StepsLeftTypedNext
  <1>2. /\ WellFormed(input) /\ idx \in Nat /\ lo \in Nat /\ hi \in Nat
        /\ Len(input.breakpoints) \in Nat /\ LastPrice(input) \in Nat
        /\ idx \in 1..(Len(input.breakpoints) + 1)
    <2>1. WellFormed(input) /\ idx \in 1..(Len(input.breakpoints) + 1)
          /\ lo \in Nat /\ hi \in Nat
      BY DEF ScanInv, TypeOK
    <2>2. Len(input.breakpoints) \in 1..Len(input.breakpoints)
      BY <2>1 DEF WellFormed
    <2> QED BY <2>1, <2>2, IntervalBounds
  <1>3. CASE SkipBreakpoint
    <2>1. LastPrice(input)' = LastPrice(input)
      BY <1>3 DEF SkipBreakpoint, LastPrice
    <2>2. StepsLeft = LastPrice(input) + 2 + (Len(input.breakpoints) + 1 - idx)
      BY <1>3 DEF SkipBreakpoint, StepsLeft
    <2>3. StepsLeft' = LastPrice(input) + 2 + (Len(input.breakpoints) + 1 - (idx + 1))
      BY <1>3, <2>1 DEF SkipBreakpoint, StepsLeft
    <2>4. \A l, n \in Nat : idx \in Nat => l + 2 + (n + 1 - (idx + 1)) < l + 2 + (n + 1 - idx)
      OBVIOUS
    <2>5. StepsLeft' < StepsLeft
      BY <1>2, <2>2, <2>3, <2>4, Zenon
    <2> QED BY <1>1, <1>3, <2>5 DEF SkipBreakpoint, ShrinkingStep
  <1>4. CASE EnterInterval
    <2>1. idx \in 1..Len(input.breakpoints)
      BY <1>2, <1>4 DEF EnterInterval
    <2>2. /\ hi' - lo' + 1 <= LastPrice(input)
      BY <1>2, <1>4, <2>1, IntervalBounds DEF EnterInterval, SearchFrom
    <2>3. hi' - lo' \in Int
      BY <1>0 DEF ScanInv, TypeOK
    <2>4. StepsLeft' = hi' - lo' + 1 /\ StepsLeft >= LastPrice(input) + 2
      BY <1>2, <1>4, <2>1 DEF EnterInterval, StepsLeft
    <2> QED BY <1>1, <1>2, <1>4, <2>2, <2>3, <2>4 DEF EnterInterval, ShrinkingStep
  <1>5. CASE NoBreakpointFires
    BY <1>1, <1>2, <1>5 DEF NoBreakpointFires, StepsLeft, ShrinkingStep
  <1>6. CASE Bisect
    <2>1. /\ lo <= Mid /\ Mid < hi /\ Mid \in Nat
      BY <1>2, <1>6, MidInside DEF Bisect, Mid
    <2>2. Mid - lo = (hi - lo) \div 2 /\ hi - (Mid + 1) <= (hi - lo) \div 2
      BY <1>2, <1>6 DEF Bisect, Mid
    <2>3. \/ hi' = Mid /\ lo' = lo
          \/ lo' = Mid + 1 /\ hi' = hi
      BY <1>6 DEF Bisect, AboveMid
    <2>4. hi' - lo' <= (hi - lo) \div 2
      BY <1>2, <2>1, <2>2, <2>3
    <2>5. hi' - lo' < hi - lo
      BY <1>2, <2>1, <2>3
    <2>6. hi' - lo' \in Int /\ hi - lo \in Int
      BY <1>0, <1>2 DEF ScanInv, TypeOK
    <2>7. StepsLeft = hi - lo + 1 /\ StepsLeft' = hi' - lo' + 1
      BY <1>6 DEF Bisect, StepsLeft
    <2>8. \A i, j \in Int : i < j => i + 1 < j + 1
      OBVIOUS
    <2>9. StepsLeft' < StepsLeft
      BY <2>5, <2>6, <2>7, <2>8, Zenon
    <2> QED BY <1>1, <2>4, <2>9 DEF ShrinkingStep
  <1>7. CASE Found
    <2>1. StepsLeft' = 0 /\ pc = "bisect" /\ pc' = "done"
      BY <1>7 DEF Found, StepsLeft
    <2>2. StepsLeft # 0
      BY <2>1, StepsLeftTyped
    <2> QED BY <1>1, <2>1, <2>2 DEF ShrinkingStep
  <1> QED BY <1>3, <1>4, <1>5, <1>6, <1>7 DEF Next

\* The search cannot run for ever (clearing.rs, the `for' and the `while').
THEOREM SearchAlwaysShrinks == Spec => SearchShrinks
  <1>1. ScanInv /\ [Next]_vars => [ShrinkingStep]_vars
    BY StepShrinks
  <1> QED BY <1>1, ScanInvariant, PTL DEF Spec, SearchShrinks

\* The guards of the five steps: WF_vars(Next) with CanStep for ENABLED.
CanStep ==
  \/ /\ pc = "scan"
     /\ \/ /\ idx <= Len(input.breakpoints)
           /\ \/ ~BreakpointFires(input.breakpoints[idx])
              \/ BreakpointFires(input.breakpoints[idx])
        \/ idx > Len(input.breakpoints)
  \/ /\ pc = "bisect"
     /\ lo < hi \/ lo >= hi

NeverStuck == []<>(~CanStep) \/ []<><<Next>>_vars

\* No iteration of the search waits for anything: until it is done, one of the
\* five steps can be taken.
LEMMA SearchCanStep == ScanInv /\ pc # "done" => CanStep
  <1> SUFFICES ASSUME ScanInv, pc # "done" PROVE CanStep
    OBVIOUS
  <1>1. /\ WellFormed(input) /\ idx \in Int /\ lo \in Int /\ hi \in Int
        /\ pc \in {"scan", "bisect"}
    BY DEF ScanInv, TypeOK
  <1>2. Len(input.breakpoints) \in Int
    BY <1>1 DEF WellFormed
  <1> QED BY <1>1, <1>2 DEF CanStep

\* From any number of steps left, the search gets to fewer: `SearchTerminates'
\* but for the induction over that number.
THEOREM SearchAdvances ==
  ASSUME NEW n \in Nat
  PROVE  Spec /\ NeverStuck => ((StepsLeft = n /\ pc # "done") ~> StepsLeft < n)
  <1> DEFINE Here == StepsLeft = n /\ pc # "done"
             Nearer == StepsLeft < n
             Can == CanStep
             Step == Next
  <1>1. ScanInv /\ [Next]_vars /\ Here => Here' \/ Nearer'
    <2>1. CASE UNCHANGED vars
      BY <2>1 DEF vars, StepsLeft, LastPrice
    <2>2. ASSUME ScanInv, Next, Here PROVE Nearer'
      BY <2>2, StepShrinks DEF ShrinkingStep
    <2> QED BY <2>1, <2>2
  <1>2. ScanInv /\ Here /\ <<Step>>_vars => Nearer'
    BY StepShrinks DEF ShrinkingStep
  <1>3. ScanInv /\ Here => Can
    BY SearchCanStep
  <1>4. Spec => []ScanInv /\ [][Next]_vars
    BY ScanInvariant DEF Spec
  <1>5. NeverStuck => []<>(~Can) \/ []<><<Step>>_vars
    BY DEF NeverStuck
  <1> HIDE DEF Here, Nearer, Can, Step
  <1>6. Spec /\ NeverStuck => (Here ~> Nearer)
    BY <1>1, <1>2, <1>3, <1>4, <1>5, PTL
  <1> QED BY <1>6 DEF Here, Nearer

--------------------------------------------------------------------------------
\* The search over real schedules.

\* The shape the search relies on holds of every input built from accepted
\* schedules: nothing is assumed of a pool but what registration tested.
THEOREM SchedulesHaveTheShape ==
  ASSUME NEW inp, WellFormed(inp), BuiltFromSchedules(inp)
  PROVE  DemandShape(inp)
  <1> DEFINE kids == inp.kids
             fee == inp.feeBps
             n == Len(inp.breakpoints)
             bp == inp.breakpoints
             Clean(p, q) == \A c \in Breakpoints(kids) : ~(p <= c /\ c < q)
  <1>1. Kids(kids) /\ IsFiniteSet(DOMAIN kids) /\ fee \in 0..BpsDenom
    BY DEF BuiltFromSchedules, Kids
  <1>2. ASSUME NEW i \in 1..n, NEW p \in Interval(inp, i), NEW q \in Interval(inp, i), p <= q
        PROVE  inp.qty[p] = inp.qty[q] /\ inp.net[p] <= inp.net[q]
    <2>1. /\ bp[i] \in Nat /\ Prev(inp, i) \in Nat /\ n \in Nat
          /\ Interval(inp, i) \subseteq 1..LastPrice(inp)
      BY IntervalBounds DEF WellFormed
    <2>2. p \in Nat /\ q \in Nat /\ Prev(inp, i) < p /\ q <= bp[i]
      BY <2>1 DEF Interval
    <2>3. ASSUME NEW j \in 1..n, p <= bp[j], bp[j] < q PROVE FALSE
      <3>1. \A k \in 1..n : bp[k] \in Nat
        BY IntervalBounds
      <3>2. j < i
        <4>1. CASE i < j
          <5>1. bp[i] < bp[j]
            BY <4>1 DEF WellFormed
          <5> QED BY <5>1, <2>1, <2>2, <2>3, <3>1
        <4>2. CASE i = j
          BY <4>2, <2>1, <2>2, <2>3
        <4> QED BY <4>1, <4>2, <2>1
      <3>3. i # 1 /\ i - 1 \in 1..n /\ Prev(inp, i) = bp[i-1]
        BY <2>1, <3>2 DEF Prev
      <3>4. bp[j] <= bp[i-1]
        <4>1. CASE j = i - 1
          BY <4>1, <3>1
        <4>2. CASE j < i - 1
          <5>1. bp[j] < bp[i-1]
            BY <4>2, <3>3 DEF WellFormed
          <5> QED BY <5>1, <3>1, <3>3
        <4> QED BY <4>1, <4>2, <2>1, <3>2
      <3> QED BY <2>2, <2>3, <3>1, <3>3, <3>4
    <2>4. Clean(p, q)
      BY <2>3 DEF BuiltFromSchedules
    <2>5. /\ TotalQty(kids, p) = TotalQty(kids, q)
          /\ NetValue(kids, p, fee) <= NetValue(kids, q, fee)
      <3> HIDE DEF kids, fee
      <3> QED BY <1>1, <1>2, <2>2, <2>4, ShapeOfDemand
    <2>6. p \in 1..LastPrice(inp) /\ q \in 1..LastPrice(inp)
      BY <2>1
    <2> QED BY <2>5, <2>6 DEF BuiltFromSchedules
  <1>3. ASSUME NEW i \in 1..n, NEW p \in Interval(inp, i), NEW q \in Interval(inp, i)
        PROVE  inp.qty[p] = inp.qty[q] /\ (p <= q => inp.net[p] <= inp.net[q])
    <2>1. p \in Nat /\ q \in Nat
      BY IntervalBounds
    <2>2. CASE p <= q
      BY <1>2, <2>2
    <2>3. CASE q <= p
      <3>1. inp.qty[q] = inp.qty[p]
        BY <1>2, <2>3
      <3>2. p <= q => p = q
        BY <2>1, <2>3
      <3> QED BY <3>1, <3>2, <1>2
    <2> QED BY <2>1, <2>2, <2>3
  <1> QED BY <1>3 DEF DemandShape

\* Up to the last breakpoint, and only there, a feasible price of the search is
\* a feasible price of the pool.
LEMMA FeasibleAgrees ==
  ASSUME NEW inp, WellFormed(inp), BuiltFromSchedules(inp), NEW p
  PROVE  p \in FeasiblePrices(inp.kids, inp.thresholdQty, inp.thresholdValue, inp.feeBps)
           <=> p \in 1..LastPrice(inp) /\ Feasible(inp, p)
  <1> DEFINE kids == inp.kids
             top == LastPrice(inp)
             n == Len(inp.breakpoints)
  <1>1. n \in 1..n /\ n \in Nat
    <2>1. inp.breakpoints \in Seq(Nat \ {0}) /\ inp.breakpoints # << >>
      BY DEF WellFormed
    <2> QED BY <2>1
  <1>2. /\ top \in Nat /\ top \in Breakpoints(kids)
        /\ \A c \in Breakpoints(kids) : c \in Nat /\ c <= top
    <2>1. top = inp.breakpoints[n]
      BY DEF LastPrice
    <2>2. \A j \in 1..n : inp.breakpoints[j] \in Nat /\ inp.breakpoints[j] <= top
      BY IntervalBounds
    <2> HIDE DEF top
    <2> QED BY <1>1, <2>1, <2>2 DEF BuiltFromSchedules
  <1>3. top <= MaxUnitPrice /\ MaxUnitPrice \in Nat
    BY <1>2, PointsBounded, ScheduleBounds DEF Breakpoints, BuiltFromSchedules
  <1> HIDE DEF top
  <1>4. ASSUME p \in Nat
        PROVE  (\E k \in DOMAIN kids : Demand(kids[k], p) > 0) <=> p <= top
    <2>1. \A k \in DOMAIN kids :
            Demand(kids[k], p) > 0 <=> \E i \in DOMAIN kids[k] : kids[k][i].price >= p
      BY <1>4, PositiveDemand DEF BuiltFromSchedules
    <2>2. (\E k \in DOMAIN kids : Demand(kids[k], p) > 0) <=> \E c \in Breakpoints(kids) : c >= p
      BY <2>1 DEF Breakpoints
    <2> QED BY <1>2, <1>4, <2>2
  <1>5. p \in 1..top => (Feasible(inp, p) <=>
          /\ TotalQty(kids, p) >= inp.thresholdQty
          /\ NetValue(kids, p, inp.feeBps) >= inp.thresholdValue)
    BY DEF Feasible, BuiltFromSchedules, top
  <1>6. p \in 1..MaxUnitPrice /\ p <= top <=> p \in 1..top
    BY <1>2, <1>3
  <1>7. p \in 1..MaxUnitPrice => p \in Nat
    BY <1>3
  <1> HIDE DEF kids
  <1>8. p \in FeasiblePrices(kids, inp.thresholdQty, inp.thresholdValue, inp.feeBps)
          <=> p \in 1..top /\ Feasible(inp, p)
    BY <1>4, <1>5, <1>6, <1>7 DEF FeasiblePrices
  <1> QED BY <1>8 DEF kids, top

\* What the search has found when it is done is what Clear defines.
LEMMA DoneIsClear ==
  ASSUME input \in Inputs, LeastFeasiblePrice
  PROVE  ScanImplementsClear
  <1> DEFINE tq == input.thresholdQty
             tv == input.thresholdValue
             outcome == Clear(input.kids, tq, tv, input.feeBps)
             feasible == FeasiblePrices(input.kids, tq, tv, input.feeBps)
             top == LastPrice(input)
  <1>1. WellFormed(input) /\ BuiltFromSchedules(input)
    BY InputsAssumption, InputsAreBuilt
  <1>2. \A p : p \in feasible <=> p \in 1..top /\ Feasible(input, p)
    BY <1>1, FeasibleAgrees
  <1>3. /\ outcome.fires <=> feasible # {}
        /\ outcome.fires => outcome.price = Min(feasible)
    <2>1. Kids(input.kids) /\ IsFiniteSet(DOMAIN input.kids) /\ input.feeBps \in 0..BpsDenom
          /\ tq \in Nat /\ tv \in Nat
      BY <1>1 DEF BuiltFromSchedules, Kids, WellFormed
    <2> QED BY <2>1, ClearingIsLeast
  <1>4. outcome.fires \in BOOLEAN /\ (~outcome.fires => outcome.price = 0)
    BY DEF Clear, NoFire, OutcomeAt
  <1>5. top \in Nat
    <2>1. Len(input.breakpoints) \in 1..Len(input.breakpoints)
      <3>1. input.breakpoints \in Seq(Nat \ {0}) /\ input.breakpoints # << >>
        BY <1>1 DEF WellFormed
      <3> QED BY <3>1
    <2> QED BY <1>1, <2>1, IntervalBounds
  <1> HIDE DEF outcome, feasible, top
  <1>6. ASSUME pc = "done" PROVE price = outcome.price /\ (price # 0) = outcome.fires
    <2>1. CASE price = 0 /\ \A p \in 1..top : ~Feasible(input, p)
      <3>1. feasible = {}
        BY <1>2, <2>1
      <3> QED BY <1>3, <1>4, <2>1, <3>1
    <2>2. CASE /\ price \in 1..top /\ Feasible(input, price)
               /\ \A p \in 1..(price - 1) : ~Feasible(input, p)
      <3> DEFINE least == Min(feasible)
      <3>1. price \in feasible /\ feasible \subseteq Nat
        BY <1>2, <1>5, <2>2
      <3>2. least \in feasible /\ \A p \in feasible : least <= p
        BY <3>1, MinIsLeast
      <3>3. outcome.fires /\ outcome.price = least
        BY <1>3, <3>1
      <3> HIDE DEF least
      <3>4. least \in Nat /\ least >= 1 /\ least <= price /\ price \in Nat
        BY <1>2, <1>5, <3>1, <3>2
      <3>5. least \notin 1..(price - 1)
        BY <1>2, <2>2, <3>2
      <3>6. price = least /\ price # 0
        BY <3>4, <3>5
      <3> QED BY <1>4, <3>3, <3>6
    <2> QED BY <1>6, <2>1, <2>2 DEF LeastFeasiblePrice, top
  <1> QED BY <1>6 DEF ScanImplementsClear, outcome

\* The scan and bisection of clear compute what the pool model takes clear to
\* be, for every pool of accepted schedules, every threshold and every fee.
THEOREM ScanIsClear == Spec => []ScanImplementsClear
  <1> DEFINE Given == input \in Inputs
  <1>1. Init => Given
    BY DEF Init
  <1>2. Given /\ [Next]_vars => Given'
    BY DEF Next, vars, SkipBreakpoint, EnterInterval, NoBreakpointFires, Bisect, Found
  <1>3. Given /\ TypeOK /\ LeastFeasiblePrice => ScanImplementsClear
    BY DoneIsClear
  <1> HIDE DEF Given
  <1> QED BY <1>1, <1>2, <1>3, ScanIsCorrect, PTL DEF Spec

================================================================================
