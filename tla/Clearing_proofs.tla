---------------------------- MODULE Clearing_proofs ----------------------------
(***************************************************************************)
(* What a clearing can charge, for every schedule the registry accepts:    *)
(* the price is positive, the allocation is the children's demand at that  *)
(* one price, and no leg exceeds the schedule's worst case.  And that the  *)
(* price is the least feasible one, which rests on the shape of demand:    *)
(* between two breakpoints the quantity is constant and the net value      *)
(* never falls.                                                            *)
(***************************************************************************)
EXTENDS Clearing, Sums_proofs

\* A non-empty set of integers that is bounded above has a greatest element.
LEMMA GreatestInt ==
  ASSUME NEW S, S \subseteq Int, S # {}, NEW top \in Int, \A x \in S : x <= top
  PROVE  \E x \in S : \A y \in S : y <= x
  <1> DEFINE Gaps == {top - x : x \in S}
  <1>1. Gaps \subseteq Nat
    <2> SUFFICES ASSUME NEW x \in S PROVE top - x \in Nat
      OBVIOUS
    <2>1. x \in Int /\ x <= top
      OBVIOUS
    <2> QED BY <2>1
  <1>0. Gaps # {}
    OBVIOUS
  <1>2. PICK g \in Gaps : \A h \in Gaps : g <= h
    BY <1>0, <1>1, LeastNat
  <1>3. PICK x \in S : g = top - x
    BY <1>2
  <1>4. \A y \in S : y <= x
    BY <1>2, <1>3
  <1> QED BY <1>4

LEMMA MinIsLeast ==
  ASSUME NEW S, S \subseteq Nat, S # {}
  PROVE  Min(S) \in S /\ \A y \in S : Min(S) <= y
  BY LeastNat DEF Min

LEMMA MaxIsGreatest ==
  ASSUME NEW S, S \subseteq Int, S # {}, NEW top \in Int, \A x \in S : x <= top
  PROVE  Max(S) \in S /\ \A y \in S : y <= Max(S)
  <1>1. \E x \in S : \A y \in S : x >= y
    BY GreatestInt
  <1> QED BY <1>1 DEF Max

\* A smaller price on the same quantity is a smaller leg.
LEMMA ProductMonotone ==
  ASSUME NEW a \in Nat, NEW b \in Nat, NEW c \in Nat, a <= b
  PROVE  a * c \in Nat /\ a * c <= b * c
  OBVIOUS

\* The points of an accepted schedule are within the schedule bounds.
LEMMA PointsBounded ==
  ASSUME NEW s, ValidSchedule(s), NEW i \in DOMAIN s
  PROVE  /\ s[i].price \in Nat \ {0} /\ s[i].price <= MaxUnitPrice
         /\ s[i].qty \in Nat \ {0} /\ s[i].qty <= MaxQty
  <1>1. s \in Seq(Point) /\ DOMAIN s = 1..Len(s)
    BY DEF ValidSchedule
  <1>2. s[i] \in Point
    BY <1>1
  <1> QED BY <1>2, ScheduleBounds DEF Point

\* Demand is the quantity of the first covering point, or zero.
LEMMA DemandIsAPoint ==
  ASSUME NEW s, ValidSchedule(s), NEW p \in Nat
  PROVE  \/ Demand(s, p) = 0
         \/ \E i \in DOMAIN s : s[i].price >= p /\ Demand(s, p) = s[i].qty
  <1> DEFINE covering == {i \in DOMAIN s : s[i].price >= p}
  <1>1. CASE covering = {}
    BY <1>1 DEF Demand
  <1>2. CASE covering # {}
    <2>1. covering \subseteq Nat
      BY DEF ValidSchedule
    <2>2. \E i \in covering : \A j \in covering : i <= j
      BY <1>2, <2>1, LeastNat
    <2> DEFINE first == CHOOSE i \in covering : \A j \in covering : i <= j
    <2>3. first \in covering
      BY <2>2
    <2>4. Demand(s, p) = s[first].qty
      BY <1>2 DEF Demand
    <2> QED BY <2>3, <2>4
  <1> QED BY <1>1, <1>2

\* The worst case bounds every point's own leg, and the caps bound it.
LEMMA WorstCaseBounds ==
  ASSUME NEW s, ValidSchedule(s)
  PROVE  /\ WorstCase(s) \in Nat /\ WorstCase(s) <= MaxUnitPrice * MaxQty
         /\ \A i \in DOMAIN s : s[i].price * s[i].qty <= WorstCase(s)
  <1> DEFINE legs == {s[i].price * s[i].qty : i \in DOMAIN s}
  <1>1. legs \subseteq Nat
    BY PointsBounded
  <1>2. legs # {}
    <2>1. Len(s) \in Nat \ {0} /\ DOMAIN s = 1..Len(s)
      BY ScheduleBounds DEF ValidSchedule
    <2>2. 1 \in DOMAIN s
      BY <2>1
    <2> QED BY <2>2
  <1>3. \A leg \in legs : leg <= MaxUnitPrice * MaxQty
    <2> SUFFICES ASSUME NEW i \in DOMAIN s
                 PROVE  s[i].price * s[i].qty <= MaxUnitPrice * MaxQty
      OBVIOUS
    <2>1. s[i].price * s[i].qty <= MaxUnitPrice * s[i].qty
      BY PointsBounded, ProductMonotone, ScheduleBounds
    <2>2. s[i].qty * MaxUnitPrice <= MaxQty * MaxUnitPrice
      BY PointsBounded, ProductMonotone, ScheduleBounds
    <2> QED BY <2>1, <2>2, PointsBounded, ScheduleBounds
  <1>4. MaxUnitPrice * MaxQty \in Int
    BY ScheduleBounds
  <1>5. \E w \in legs : \A leg \in legs : leg <= w
    <2>1. legs \subseteq Int
      BY <1>1
    <2> HIDE DEF legs
    <2> QED BY <2>1, <1>2, <1>3, <1>4, GreatestInt
  <1>6. WorstCase(s) \in legs /\ \A leg \in legs : leg <= WorstCase(s)
    BY <1>2, <1>5 DEF WorstCase
  <1> QED BY <1>1, <1>3, <1>6

\* The bound eligibility rests on: whatever the clearing price turns out to be,
\* the leg is at most the worst case that was checked before any price existed
\* (pool.rs 309-311, `leg <= worst_case').
THEOREM LegWithinWorstCase ==
  ASSUME NEW s, ValidSchedule(s), NEW p \in Nat
  PROVE  /\ Demand(s, p) \in Nat
         /\ p * Demand(s, p) \in Nat
         /\ p * Demand(s, p) <= WorstCase(s)
  <1>1. CASE Demand(s, p) = 0
    BY <1>1, WorstCaseBounds
  <1>2. ASSUME NEW i \in DOMAIN s, s[i].price >= p, Demand(s, p) = s[i].qty
        PROVE  /\ Demand(s, p) \in Nat
               /\ p * Demand(s, p) \in Nat
               /\ p * Demand(s, p) <= WorstCase(s)
    <2>1. s[i].qty \in Nat /\ s[i].price \in Nat
      BY PointsBounded
    <2>2. p * s[i].qty \in Nat /\ p * s[i].qty <= s[i].price * s[i].qty
      BY <1>2, <2>1, ProductMonotone
    <2>3. s[i].price * s[i].qty <= WorstCase(s) /\ WorstCase(s) \in Nat
      BY WorstCaseBounds
    <2>4. s[i].price * s[i].qty \in Nat
      BY <2>1
    <2> QED BY <1>2, <2>1, <2>2, <2>3, <2>4
  <1> QED BY <1>1, <1>2, DemandIsAPoint

\* The children handed to the clearing function hold accepted schedules.
Kids(kids) == \A k \in DOMAIN kids : ValidSchedule(kids[k])

\* A firing outcome charges children only, each its own positive demand at one
\* positive price.
THEOREM OutcomeShape ==
  ASSUME NEW kids, Kids(kids), NEW tq, NEW tv, NEW fee,
         Clear(kids, tq, tv, fee).fires
  PROVE  LET outcome == Clear(kids, tq, tv, fee) IN
         /\ outcome.price \in Nat \ {0}
         /\ DOMAIN outcome.alloc \subseteq DOMAIN kids
         /\ \A k \in DOMAIN outcome.alloc :
              /\ outcome.alloc[k] = Demand(kids[k], outcome.price)
              /\ outcome.alloc[k] > 0
  <1> DEFINE firing == FiringBreakpoints(kids, tq, tv, fee)
             b      == Min(firing)
             lower  == {0} \union {c \in Breakpoints(kids) : c < b}
             met    == {p \in (Max(lower) + 1)..b : NetValue(kids, p, fee) >= tv}
  <1>1. Breakpoints(kids) \subseteq Nat
    BY PointsBounded DEF Breakpoints, Kids
  <1>2. firing # {} /\ Clear(kids, tq, tv, fee) = OutcomeAt(kids, Min(met))
    BY DEF Clear, NoFire
  <1>3. b \in firing /\ b \in Nat /\ b \in Breakpoints(kids) /\ NetValue(kids, b, fee) >= tv
    <2>1. firing \subseteq Nat
      BY <1>1 DEF FiringBreakpoints
    <2>2. b \in firing
      BY <1>2, <2>1, MinIsLeast
    <2> QED BY <2>1, <2>2 DEF FiringBreakpoints
  <1>4. b # 0
    BY <1>3, PointsBounded DEF Breakpoints, Kids
  <1>5. Max(lower) \in lower
    <2>1. lower \subseteq Int /\ lower # {} /\ \A x \in lower : x <= b
      BY <1>1, <1>3
    <2> QED BY <2>1, <1>3, MaxIsGreatest
  <1>6. Max(lower) \in Nat /\ Max(lower) < b
    BY <1>1, <1>3, <1>4, <1>5
  <1>7. b \in met /\ met \subseteq Nat \ {0}
    BY <1>3, <1>6
  <1>8. Min(met) \in Nat \ {0}
    BY <1>7, MinIsLeast
  <1> QED BY <1>2, <1>8 DEF OutcomeAt, Allocation

--------------------------------------------------------------------------------
\* The clearing price is the least feasible one.

DemandsAt(kids, p) == [k \in DOMAIN kids |-> Demand(kids[k], p)]

NetLegsAt(kids, p, fee) == [k \in DOMAIN kids |-> NetLeg(kids[k], p, fee)]

\* The aggregates of clearing.rs are the sums of these.
LEMMA TotalQtyIsSum ==
  ASSUME NEW kids, NEW p
  PROVE  TotalQty(kids, p) = Sum(DemandsAt(kids, p), DOMAIN kids)
  <1> DEFINE S == DOMAIN kids
             Qty(h) == [s \in SUBSET S |->
                IF s = {} THEN 0 ELSE Demand(kids[First(s)], p) + h[s \ {First(s)}]]
  <1>1. ASSUME NEW h PROVE Qty(h) = Unfold(h, DemandsAt(kids, p), S)
    BY FirstIsMember DEF Unfold, DemandsAt
  <1>2. TotalQty(kids, p) = (CHOOSE h : h = Qty(h))[S]
    BY Zenon DEF TotalQty, MapThenSumSet, MapThenFoldSet, First
  <1> HIDE DEF Qty
  <1>3. (CHOOSE h : h = Qty(h)) = (CHOOSE h : h = Unfold(h, DemandsAt(kids, p), S))
    BY <1>1, Zenon
  <1> QED BY <1>2, <1>3, SumByUnfolding

LEMMA NetValueIsSum ==
  ASSUME NEW kids, NEW p, NEW fee
  PROVE  NetValue(kids, p, fee) = Sum(NetLegsAt(kids, p, fee), DOMAIN kids)
  <1> DEFINE S == DOMAIN kids
             Net(h) == [s \in SUBSET S |->
                IF s = {} THEN 0 ELSE NetLeg(kids[First(s)], p, fee) + h[s \ {First(s)}]]
  <1>1. ASSUME NEW h PROVE Net(h) = Unfold(h, NetLegsAt(kids, p, fee), S)
    BY FirstIsMember DEF Unfold, NetLegsAt
  <1>2. NetValue(kids, p, fee) = (CHOOSE h : h = Net(h))[S]
    BY Zenon DEF NetValue, MapThenSumSet, MapThenFoldSet, First
  <1> HIDE DEF Net
  <1>3. (CHOOSE h : h = Net(h)) = (CHOOSE h : h = Unfold(h, NetLegsAt(kids, p, fee), S))
    BY <1>1, Zenon
  <1> QED BY <1>2, <1>3, SumByUnfolding

\* A price is worth as much demand as the next point of the schedule above it.
LEMMA SameDemand ==
  ASSUME NEW s, ValidSchedule(s), NEW p \in Nat, NEW q \in Nat, p <= q,
         \A i \in DOMAIN s : ~(p <= s[i].price /\ s[i].price < q)
  PROVE  Demand(s, p) = Demand(s, q)
  <1>1. \A i \in DOMAIN s : s[i].price \in Nat
    BY PointsBounded
  <1> DEFINE Qty(covering) ==
        IF covering = {} THEN 0
        ELSE s[CHOOSE i \in covering : \A j \in covering : i <= j].qty
  <1>2. {i \in DOMAIN s : s[i].price >= p} = {i \in DOMAIN s : s[i].price >= q}
    BY <1>1
  <1>3. /\ Demand(s, p) = Qty({i \in DOMAIN s : s[i].price >= p})
        /\ Demand(s, q) = Qty({i \in DOMAIN s : s[i].price >= q})
    BY Zenon DEF Demand
  <1> HIDE DEF Qty
  <1> QED BY <1>2, <1>3

\* The fee takes at most what a larger leg adds.
LEMMA NetGrows ==
  ASSUME NEW x \in Nat, NEW y \in Nat, x <= y, NEW fee \in 0..BpsDenom
  PROVE  /\ x - FeeOf(x, fee) \in Int /\ y - FeeOf(y, fee) \in Int
         /\ x - FeeOf(x, fee) <= y - FeeOf(y, fee)
  <1> DEFINE B == BpsDenom
             u == (x * fee) \div B
             v == (y * fee) \div B
  <1>1. B \in Nat \ {0} /\ fee \in Nat /\ fee <= B
    BY BpsDenomPositive
  <1>2. x * fee \in Nat /\ y * fee \in Nat
    BY <1>1
  <1>3. u \in Int /\ v \in Int /\ v * B <= y * fee /\ x * fee < (u + 1) * B
    BY <1>1, <1>2
  <1> HIDE DEF B, u, v
  <1> DEFINE d == y - x
             e == v - u
  <1>4. d \in Nat /\ y * fee = x * fee + d * fee /\ d * fee <= d * B
    <2>1. d \in Nat /\ y = x + d
      OBVIOUS
    <2> HIDE DEF d
    <2>2. (x + d) * fee = x * fee + d * fee
      BY <1>1, <2>1
    <2>3. fee * d <= B * d /\ fee * d = d * fee /\ B * d = d * B
      BY <1>1, <2>1, ProductMonotone
    <2> QED BY <2>1, <2>2, <2>3
  <1>5. e \in Int /\ v * B = (u + 1) * B + (e - 1) * B
    BY <1>1, <1>3
  <1> HIDE DEF d, e
  <1>6. (e - 1) * B < d * B
    <2>1. /\ v * B \in Int /\ (u + 1) * B \in Int /\ (e - 1) * B \in Int
          /\ d * B \in Int /\ d * fee \in Int /\ x * fee \in Int
      BY <1>1, <1>2, <1>3, <1>4, <1>5
    <2> QED BY <2>1, <1>3, <1>4, <1>5
  <1>7. e <= d
    <2> SUFFICES ASSUME ~(e <= d) PROVE FALSE
      OBVIOUS
    <2>1. e - 1 \in Nat /\ d <= e - 1
      BY <1>4, <1>5
    <2>2. d * B <= (e - 1) * B
      BY <1>1, <1>4, <2>1, ProductMonotone
    <2>3. (e - 1) * B \in Int /\ d * B \in Int
      BY <1>1, <1>4, <2>1
    <2> QED BY <1>6, <2>2, <2>3
  <1>8. x - u \in Int /\ y - v \in Int /\ x - u <= y - v
    BY <1>3, <1>7 DEF d, e
  <1> QED BY <1>8 DEF FeeOf, u, v, B

\* Between two breakpoints the quantity is constant and the net value never
\* falls as the price rises: the shape the search relies on (clearing.rs 8-16).
THEOREM ShapeOfDemand ==
  ASSUME NEW kids, Kids(kids), IsFiniteSet(DOMAIN kids), NEW fee \in 0..BpsDenom,
         NEW p \in Nat, NEW q \in Nat, p <= q,
         \A c \in Breakpoints(kids) : ~(p <= c /\ c < q)
  PROVE  /\ \A k \in DOMAIN kids : Demand(kids[k], p) = Demand(kids[k], q)
         /\ TotalQty(kids, p) = TotalQty(kids, q)
         /\ NetValue(kids, p, fee) \in Int /\ NetValue(kids, q, fee) \in Int
         /\ NetValue(kids, p, fee) <= NetValue(kids, q, fee)
  <1> DEFINE S == DOMAIN kids
  <1>1. ASSUME NEW k \in S
        PROVE  /\ Demand(kids[k], p) = Demand(kids[k], q) /\ Demand(kids[k], q) \in Nat
               /\ NetLeg(kids[k], p, fee) \in Int /\ NetLeg(kids[k], q, fee) \in Int
               /\ NetLeg(kids[k], p, fee) <= NetLeg(kids[k], q, fee)
    <2>1. ValidSchedule(kids[k])
      BY DEF Kids
    <2>2. \A i \in DOMAIN kids[k] : kids[k][i].price \in Breakpoints(kids)
      BY DEF Breakpoints
    <2>3. \A i \in DOMAIN kids[k] : ~(p <= kids[k][i].price /\ kids[k][i].price < q)
      BY <2>2
    <2>4. Demand(kids[k], p) = Demand(kids[k], q)
      BY <2>1, <2>3, SameDemand
    <2>5. Demand(kids[k], q) \in Nat
      BY <2>1, LegWithinWorstCase
    <2> DEFINE n == Demand(kids[k], q)
    <2>6. n \in Nat /\ NetLeg(kids[k], p, fee) = p * n - FeeOf(p * n, fee)
          /\ NetLeg(kids[k], q, fee) = q * n - FeeOf(q * n, fee)
      BY <2>4, <2>5 DEF NetLeg
    <2> HIDE DEF n
    <2>7. p * n \in Nat /\ q * n \in Nat /\ p * n <= q * n
      BY <2>6, ProductMonotone
    <2> QED BY <2>4, <2>5, <2>6, <2>7, NetGrows
  <1>2. TotalQty(kids, p) = TotalQty(kids, q)
    <2>1. \A k \in S : DemandsAt(kids, p)[k] = DemandsAt(kids, q)[k]
      BY <1>1 DEF DemandsAt
    <2>2. Sum(DemandsAt(kids, p), S) = Sum(DemandsAt(kids, q), S)
      BY <2>1, SumAgree
    <2> QED BY <2>2, TotalQtyIsSum
  <1>3. /\ NetValue(kids, p, fee) \in Int /\ NetValue(kids, q, fee) \in Int
        /\ NetValue(kids, p, fee) <= NetValue(kids, q, fee)
    <2> DEFINE f == NetLegsAt(kids, p, fee)
               g == NetLegsAt(kids, q, fee)
    <2>1. \A k \in S : f[k] \in Int /\ g[k] \in Int /\ f[k] <= g[k]
      BY <1>1 DEF NetLegsAt
    <2> HIDE DEF f, g
    <2>2. Sum(f, S) \in Int /\ Sum(g, S) \in Int /\ Sum(f, S) <= Sum(g, S)
      BY <2>1, SumMonotone, SumPick
    <2> QED BY <2>2, NetValueIsSum DEF f, g
  <1> QED BY <1>1, <1>2, <1>3

\* Demand is positive exactly up to the last point.
LEMMA PositiveDemand ==
  ASSUME NEW s, ValidSchedule(s), NEW p \in Nat
  PROVE  Demand(s, p) > 0 <=> \E i \in DOMAIN s : s[i].price >= p
  <1> DEFINE covering == {i \in DOMAIN s : s[i].price >= p}
  <1>1. CASE covering = {}
    <2>1. Demand(s, p) = 0
      BY <1>1 DEF Demand
    <2> QED BY <1>1, <2>1
  <1>2. CASE covering # {}
    <2>1. covering \subseteq Nat
      BY DEF ValidSchedule
    <2>2. \E i \in covering : \A j \in covering : i <= j
      BY <1>2, <2>1, LeastNat
    <2> DEFINE first == CHOOSE i \in covering : \A j \in covering : i <= j
    <2>3. first \in covering
      BY <2>2
    <2>4. Demand(s, p) = s[first].qty
      BY <1>2 DEF Demand
    <2>5. s[first].qty \in Nat \ {0}
      BY <2>3, PointsBounded
    <2> QED BY <2>3, <2>4, <2>5
  <1> QED BY <1>1, <1>2

\* The auction charges the globally least feasible price, and does not fire
\* only if no price is feasible (clearing.rs 8-16).
THEOREM ClearingIsLeast ==
  ASSUME NEW kids, Kids(kids), IsFiniteSet(DOMAIN kids), NEW tq \in Nat, NEW tv \in Nat,
         NEW fee \in 0..BpsDenom
  PROVE  LET outcome  == Clear(kids, tq, tv, fee)
             feasible == FeasiblePrices(kids, tq, tv, fee)
         IN  /\ outcome.fires <=> feasible # {}
             /\ outcome.fires => /\ outcome.price = Min(feasible)
                                /\ outcome.alloc = Allocation(kids, outcome.price)
  <1> DEFINE outcome == Clear(kids, tq, tv, fee)
             feasible == FeasiblePrices(kids, tq, tv, fee)
             points == Breakpoints(kids)
             firing == FiringBreakpoints(kids, tq, tv, fee)
             b      == Min(firing)
             lower  == {0} \union {c \in points : c < b}
             prev   == Max(lower)
             met    == {p \in (prev + 1)..b : NetValue(kids, p, fee) >= tv}
             Met(p) == TotalQty(kids, p) >= tq /\ NetValue(kids, p, fee) >= tv
             Wanted(p) == \E k \in DOMAIN kids : Demand(kids[k], p) > 0
             Clean(p, q) == \A c \in points : ~(p <= c /\ c < q)
  <1>1. /\ points \subseteq 1..MaxUnitPrice /\ MaxUnitPrice \in Nat
        /\ firing \subseteq points
        /\ \A c \in points : c \in firing <=> Met(c)
    BY PointsBounded, ScheduleBounds DEF Breakpoints, Kids, FiringBreakpoints
  <1>2. \A p \in Nat : Wanted(p) <=> \E c \in points : c >= p
    <2> SUFFICES ASSUME NEW p \in Nat PROVE Wanted(p) <=> \E c \in points : c >= p
      OBVIOUS
    <2>1. \A k \in DOMAIN kids :
            Demand(kids[k], p) > 0 <=> \E i \in DOMAIN kids[k] : kids[k][i].price >= p
      BY PositiveDemand DEF Kids
    <2> QED BY <2>1 DEF Breakpoints
  <1>3. \A p \in 1..MaxUnitPrice : p \in feasible <=> Met(p) /\ Wanted(p)
    BY DEF FeasiblePrices
  <1>4. feasible \subseteq 1..MaxUnitPrice
    BY DEF FeasiblePrices
  <1>5. \A p, q \in Nat : p <= q /\ Clean(p, q) =>
          /\ TotalQty(kids, p) = TotalQty(kids, q)
          /\ NetValue(kids, p, fee) \in Int /\ NetValue(kids, q, fee) \in Int
          /\ NetValue(kids, p, fee) <= NetValue(kids, q, fee)
    BY ShapeOfDemand
  <1>6. outcome = IF firing = {} THEN NoFire ELSE OutcomeAt(kids, Min(met))
    BY DEF Clear
  <1> HIDE DEF outcome, feasible, points, firing, Wanted
  \* A feasible price is not above the first breakpoint from it on, which fires.
  <1>7. ASSUME NEW p \in feasible
        PROVE  \E c \in firing : p <= c /\ Clean(p, c)
    <2> DEFINE above == {c \in points : c >= p}
    <2>1. p \in 1..MaxUnitPrice /\ p \in Nat /\ Met(p) /\ Wanted(p)
      BY <1>1, <1>3, <1>4
    <2>2. above # {} /\ above \subseteq Nat
      <3>1. PICK x \in points : x >= p
        BY <1>2, <2>1
      <3>2. x \in above
        BY <3>1
      <3>3. \A y \in points : y \in Nat
        BY <1>1
      <3> QED BY <3>2, <3>3
    <2>3. PICK c \in above : \A x \in above : c <= x
      <3> HIDE DEF above
      <3> QED BY <2>2, LeastNat
    <2>4. c \in points /\ c \in Nat /\ p <= c /\ Clean(p, c)
      BY <1>1, <2>1, <2>3
    <2>5. Met(c)
      <3>1. /\ TotalQty(kids, p) = TotalQty(kids, c)
            /\ NetValue(kids, p, fee) \in Int /\ NetValue(kids, c, fee) \in Int
            /\ NetValue(kids, p, fee) <= NetValue(kids, c, fee)
        <4> HIDE DEF Clean
        <4> QED BY <1>5, <2>1, <2>4
      <3> QED BY <2>1, <3>1
    <2> QED BY <1>1, <2>4, <2>5
  <1>8. CASE firing = {}
    <2>1. feasible = {} /\ ~outcome.fires
      BY <1>6, <1>7, <1>8 DEF NoFire
    <2> QED BY <2>1 DEF outcome, feasible
  <1>9. CASE firing # {}
    <2>1. /\ b \in firing /\ b \in points /\ b \in 1..MaxUnitPrice
          /\ \A c \in firing : b <= c
      <3>1. firing \subseteq Nat
        BY <1>1
      <3> QED BY <1>1, <1>9, <3>1, MinIsLeast
    <2> HIDE DEF b
    <2>2. /\ prev \in Nat /\ prev < b /\ (prev = 0 \/ prev \in points)
          /\ \A c \in points : c < b => c <= prev
      <3>1. lower \subseteq Int /\ lower # {} /\ \A x \in lower : x <= b /\ x \in Nat /\ x < b
        <4>1. b \in Nat /\ 0 < b /\ \A x \in points : x \in Nat
          BY <1>1, <2>1
        <4>2. \A x \in lower : x \in Nat /\ x < b
          BY <4>1
        <4>3. 0 \in lower
          OBVIOUS
        <4> HIDE DEF lower
        <4> QED BY <4>1, <4>2, <4>3
      <3>2. b \in Int
        BY <2>1
      <3>3. prev \in lower /\ \A x \in lower : x <= prev
        <4> HIDE DEF lower
        <4> QED BY <3>1, <3>2, MaxIsGreatest
      <3> QED BY <3>1, <3>3
    <2> HIDE DEF prev
    \* Every price of the interval asks for what its breakpoint asks for.
    <2>3. \A p \in (prev + 1)..b : /\ p \in 1..MaxUnitPrice /\ p \in Nat /\ Clean(p, b)
                                   /\ TotalQty(kids, p) = TotalQty(kids, b)
      <3> SUFFICES ASSUME NEW p \in (prev + 1)..b
                   PROVE  /\ p \in 1..MaxUnitPrice /\ p \in Nat /\ Clean(p, b)
                          /\ TotalQty(kids, p) = TotalQty(kids, b)
        OBVIOUS
      <3>1. p \in 1..MaxUnitPrice /\ p \in Nat /\ p <= b /\ b \in Nat
        BY <1>1, <2>1, <2>2
      <3>2. Clean(p, b)
        BY <1>1, <2>1, <2>2, <3>1
      <3> HIDE DEF Clean
      <3> QED BY <1>5, <3>1, <3>2
    <2>4. b \in met /\ met \subseteq Nat
      BY <1>1, <2>1, <2>2, <2>3
    <2> DEFINE price == Min(met)
    <2>5. price \in met /\ \A p \in met : price <= p
      <3> HIDE DEF met
      <3> QED BY <2>4, MinIsLeast
    <2> HIDE DEF price
    <2>6. price \in feasible
      <3>1. price \in 1..MaxUnitPrice /\ price <= b /\ price \in Nat /\ Met(price)
        BY <1>1, <2>1, <2>2, <2>3, <2>5
      <3>2. Wanted(price)
        BY <1>2, <2>1, <3>1
      <3> HIDE DEF Met
      <3> QED BY <1>3, <3>1, <3>2
    <2>7. ASSUME NEW p \in feasible PROVE price <= p
      <3>1. PICK c \in firing : p <= c /\ Clean(p, c)
        BY <1>7
      <3>2. p \in Nat /\ p >= 1 /\ c \in Nat /\ b <= c /\ NetValue(kids, p, fee) >= tv
            /\ price \in Nat /\ price <= b /\ b \in Nat
        BY <1>1, <1>3, <1>4, <2>1, <2>2, <2>5
      <3>3. CASE b < c
        <4>1. b < p
          BY <2>1, <3>1, <3>2, <3>3
        <4> QED BY <3>2, <4>1
      <3>4. CASE b = c
        <4>1. prev < p
          <5>1. prev = 0 \/ prev \in points
            BY <2>2
          <5> QED BY <2>2, <3>1, <3>2, <3>4, <5>1
        <4>2. p \in met
          BY <2>2, <3>1, <3>2, <3>4, <4>1
        <4> QED BY <2>5, <4>2
      <3> QED BY <3>2, <3>3, <3>4
    <2>8. price = Min(feasible)
      <3>1. feasible \subseteq Nat /\ feasible # {}
        BY <1>1, <1>4, <2>6
      <3>2. Min(feasible) \in feasible /\ \A p \in feasible : Min(feasible) <= p
        BY <3>1, MinIsLeast
      <3> DEFINE least == Min(feasible)
      <3>3. least \in feasible /\ \A p \in feasible : least <= p
        BY <3>2
      <3> HIDE DEF least
      <3>4. price \in Nat /\ least \in Nat /\ price <= least /\ least <= price
        BY <2>6, <2>7, <3>1, <3>3
      <3>5. price = least
        BY <3>4
      <3> QED BY <3>5 DEF least
    <2>9. outcome = OutcomeAt(kids, price)
      BY <1>6, <1>9 DEF price, prev, b
    <2>10. /\ outcome.fires /\ feasible # {} /\ outcome.price = Min(feasible)
           /\ outcome.alloc = Allocation(kids, outcome.price)
      BY <2>6, <2>8, <2>9 DEF OutcomeAt
    <2> QED BY <2>10 DEF outcome, feasible
  <1> QED BY <1>8, <1>9

--------------------------------------------------------------------------------
\* No sum leaves its range.

\* What the three caps buy (mandate.rs 15-18): at any price the auction can test,
\* the quantity of n children is within n times the quantity cap, and their net
\* value within n times both caps; no partial sum is larger.
THEOREM SumsAreBounded ==
  ASSUME NEW kids, Kids(kids), IsFiniteSet(DOMAIN kids), NEW n \in Nat,
         Cardinality(DOMAIN kids) <= n, NEW p \in Nat, NEW fee \in 0..BpsDenom
  PROVE  /\ TotalQty(kids, p) \in 0..(n * MaxQty)
         /\ NetValue(kids, p, fee) \in 0..(n * (MaxUnitPrice * MaxQty))
  <1> DEFINE S == DOMAIN kids
             cap == MaxUnitPrice * MaxQty
  <1>1. MaxQty \in Nat /\ cap \in Nat /\ Cardinality(S) \in Nat
    BY ScheduleBounds, FS_CardinalityType
  <1> HIDE DEF cap
  <1>2. ASSUME NEW k \in S
        PROVE  /\ Demand(kids[k], p) \in Nat /\ Demand(kids[k], p) <= MaxQty
               /\ NetLeg(kids[k], p, fee) \in Nat /\ NetLeg(kids[k], p, fee) <= cap
    <2>1. ValidSchedule(kids[k])
      BY DEF Kids
    <2> DEFINE q == Demand(kids[k], p)
               leg == p * q
    <2>2. q \in Nat /\ leg \in Nat /\ leg <= cap
      <3>1. /\ Demand(kids[k], p) \in Nat /\ p * Demand(kids[k], p) \in Nat
            /\ p * Demand(kids[k], p) <= WorstCase(kids[k])
            /\ WorstCase(kids[k]) \in Nat /\ WorstCase(kids[k]) <= MaxUnitPrice * MaxQty
        BY <2>1, LegWithinWorstCase, WorstCaseBounds
      <3> QED BY <1>1, <3>1 DEF cap
    <2>3. q <= MaxQty
      BY <1>1, <2>1, DemandIsAPoint, PointsBounded
    <2>4. NetLeg(kids[k], p, fee) = leg - FeeOf(leg, fee)
      BY DEF NetLeg
    <2> HIDE DEF q, leg
    <2>5. 0 - FeeOf(0, fee) = 0
      BY BpsDenomPositive DEF FeeOf
    <2>6. leg - FeeOf(leg, fee) \in Int /\ leg - FeeOf(leg, fee) >= 0
      BY <2>2, <2>5, NetGrows
    <2>7. leg - FeeOf(leg, fee) <= leg
      <3>1. FeeOf(leg, fee) \in Nat
        <4>1. leg * fee \in Nat /\ BpsDenom \in Nat \ {0}
          BY <2>2, BpsDenomPositive
        <4> QED BY <4>1 DEF FeeOf
      <3> QED BY <2>2, <3>1
    <2> QED BY <1>1, <2>2, <2>3, <2>4, <2>6, <2>7 DEF q
  <1>3. \A c \in Nat : Cardinality(S) * c <= n * c
    BY <1>1, ProductMonotone
  <1>4. TotalQty(kids, p) \in Nat /\ TotalQty(kids, p) <= n * MaxQty
    <2> DEFINE f == DemandsAt(kids, p)
    <2>1. \A k \in S : f[k] \in Nat /\ f[k] <= MaxQty
      BY <1>2 DEF DemandsAt
    <2> HIDE DEF f
    <2>2. Sum(f, S) \in Nat /\ Sum(f, S) <= Cardinality(S) * MaxQty
      BY <1>1, <2>1, SumAtMost
    <2>3. Sum(f, S) <= n * MaxQty
      BY <1>1, <1>3, <2>2
    <2> QED BY <2>2, <2>3, TotalQtyIsSum DEF f
  <1>5. NetValue(kids, p, fee) \in Nat /\ NetValue(kids, p, fee) <= n * cap
    <2> DEFINE f == NetLegsAt(kids, p, fee)
    <2>1. \A k \in S : f[k] \in Nat /\ f[k] <= cap
      BY <1>2 DEF NetLegsAt
    <2> HIDE DEF f
    <2>2. Sum(f, S) \in Nat /\ Sum(f, S) <= Cardinality(S) * cap
      BY <1>1, <2>1, SumAtMost
    <2>3. Sum(f, S) <= n * cap
      BY <1>1, <1>3, <2>2
    <2> QED BY <2>2, <2>3, NetValueIsSum DEF f
  <1> QED BY <1>1, <1>4, <1>5 DEF cap

================================================================================
